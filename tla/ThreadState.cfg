CONSTANTS
  Threads = {t1, t2}
  First = t1
  Calls = {c1, c2}
  Methods <- AllMethods
  MaxTurns = 2
SPECIFICATION Spec
SYMMETRY Symmetry
INVARIANTS
  RefusedOnlyIfBusy
  
  ActiveTurnOnRecord
PROPERTIES
  EditsLostOnlyByOverlap
CHECK_DEADLOCK FALSE
