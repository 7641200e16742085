SPECIFICATION Spec
CONSTANTS
  Threads = {t1, t2}
  Conns = {c1, c2}
  Serials = {s1, s2}
  Interfaces <- MCInterfaces
  MaxChanges = 1
  Torn = "torn"
INVARIANTS
  IInv
  ResultIsAnswer
  BusyHidesOnlyItself
  EnumerationClosesDevices
  AddressSettled
  NothingLeftAfterAnswer
  InitMeansInstance
  MutexesInside
SYMMETRY Symmetry
