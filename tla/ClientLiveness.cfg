SPECIFICATION FairSpec
CONSTANTS
  Threads = {t1, t2}
  Conns = {c1}
  Serials = {s1}
  NoConn = NoConn
  NoOne = NoOne
  MaxPackets = 0
  MaxBytes = 1
  OneCallPerDevice = FALSE
  TimeoutsSuffice = FALSE
PROPERTIES
  CallsReturn
  NoHandleNoOwner
