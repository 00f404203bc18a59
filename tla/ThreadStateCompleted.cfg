CONSTANTS
  Threads = {t1}
  First = t1
  Calls = {c1}
  Methods <- SendMethods
  MaxTurns = 2
SPECIFICATION Spec
INVARIANTS
  CompletedTurnIsCleared
CHECK_DEADLOCK FALSE
