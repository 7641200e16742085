SPECIFICATION Spec
CONSTANTS
  Timeouts <- MCTimeouts
  SEND_WAIT_TIMEOUT_MS = 5000
  SLEEP_WAIT_TIME = 1
INVARIANTS
  SleepsWithinTimeout
  WaitsLongEnough
