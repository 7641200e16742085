SPECIFICATION Spec
CONSTANTS
  Conns = {c1, c2}
  Serials = {s1}
  NoConn = NoConn
  MaxChunk = 1
  MaxBytes = 1
  SerialCallbacks = TRUE
  Reopens = TRUE
  EarlyPeers = FALSE
INVARIANTS
  TrueMeansAvailable
