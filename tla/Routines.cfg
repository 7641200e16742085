SPECIFICATION MCSpec
CONSTANTS
  Bytes = {0, 1}
  IOBUFMSK = 4
  MaxSize = 5
  Serials <- MCSerials
  Payloads <- MCPayloads
  Enumerations <- MCEnumerations
  Sources <- MCSources
  Lengths = {0, 1, 3}
  FirstCount = 10
  MaxAnswers <- MCMaxAnswers
CHECK_DEADLOCK FALSE
INVARIANTS
  PacketsReadBack
  HintsAsDocumented
  AddressesSaved
  NoStringLost
  SocketClosed
PROPERTY RingIsQueue
