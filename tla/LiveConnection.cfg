CONSTANTS
  Threads = {t1, t2}
  MaxAttempts = 3
  MaxMoves = 5
  MaxEvents = 2
SPECIFICATION Spec
SYMMETRY Symmetry
INVARIANTS
  NoLeftover
  ViewOnly
CHECK_DEADLOCK FALSE
