CONSTANTS
  Threads = {t1}
  MaxMsgs = 2
  Commands <- NoCommands
  MaxStops = 1
  Steer = FALSE
SPECIFICATION FairSpec
PROPERTIES
  QueueMovesOn
CHECK_DEADLOCK FALSE
