SPECIFICATION Spec
CONSTANTS
  Threads = {t1, t2}
  Conns = {c1}
  Serials = {s1}
  NoConn = NoConn
  NoOne = NoOne
  MaxPackets = 1
  MaxBytes = 3
  OneCallPerDevice = FALSE
  TimeoutsSuffice = FALSE
SYMMETRY Symmetry
INVARIANTS
  IInv
  HandleMeansDevice
  WaitsEnd
  ReadInOrder
