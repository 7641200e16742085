SPECIFICATION Spec
CHECK_DEADLOCK FALSE
CONSTANTS
  Conns = {c1,c2}
  Serials = {s1, s2}
  NoConn = NoConn
  MaxChunk = 2
  MaxBytes = 3
  SerialCallbacks = FALSE
  Reopens = TRUE
  EarlyPeers = TRUE
SYMMETRY Symmetry
CONSTRAINT Conflict
INVARIANTS
  IInv
  ThreadsWithinDevice
  NodeAccounted
  MutexBeforeWriter
  BytesInOrder
PROPERTIES
  FailedDeviceGetsNothing
