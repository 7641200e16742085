SPECIFICATION Spec
CONSTANTS
  Threads = {t1}
  Conns = {c1}
  Serials = {s1}
  NoConn = NoConn
  NoOne = NoOne
  MaxPackets = 1
  MaxBytes = 0
  OneCallPerDevice = TRUE
  TimeoutsSuffice = TRUE
SYMMETRY Symmetry
INVARIANTS
  NothingToDo
