CONSTANTS
  Threads = {t1, t2}
  MaxMsgs = 3
  Commands <- SecondIsCommand
  MaxStops = 0
  Steer = TRUE
SPECIFICATION Spec
SYMMETRY Symmetry
INVARIANTS
  NeverTwice
  OwnThread
CHECK_DEADLOCK FALSE
