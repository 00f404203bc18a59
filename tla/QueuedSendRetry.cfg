CONSTANTS
  Threads = {t1}
  MaxMsgs = 2
  Commands <- NoCommands
  MaxStops = 0
  Steer = FALSE
SPECIFICATION Spec
INVARIANTS
  FailedSendIsRetried
CHECK_DEADLOCK FALSE
