SPECIFICATION FairSpec
CONSTANTS
  Conns = {c1, c2}
  Serials = {s1}
  NoConn = NoConn
  MaxChunk = 1
  MaxBytes = 1
  SerialCallbacks = TRUE
  Reopens = FALSE
  EarlyPeers = FALSE
INVARIANTS
  WaitsEnd
  NoUseAfterFree
  BufferExclusive
  MapMutexInside
  GoneOwnsNothing
PROPERTIES
  ImplementsRegistry
  ClosedSocketFreesDevices
  CallbacksReturn
