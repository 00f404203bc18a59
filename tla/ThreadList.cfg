CONSTANTS
  Threads <- ThreeThreads
  First <- FirstTwo
  Said = 2
  ParentOf <- Subagents
  Target = 1
  Scrollback = 2
  MaxItems = 3
  MaxTurns = 2
  MaxCalls = 2
  MaxEvents = 2
  UserBudget = 2
  ThreadBudget = 2
SPECIFICATION Spec
INVARIANTS
  ArchivedStaysAway
  AnchorsListed
  ShownAsRunning
  ItemsShown
CHECK_DEADLOCK FALSE
