CONSTANTS
  Threads <- ThreeThreads
  First <- FirstTwo
  Said = 1
  ParentOf <- Subagents
  Target = 1
  Scrollback = 2
  MaxItems = 2
  MaxTurns = 1
  MaxCalls = 1
  MaxEvents = 2
  UserBudget = 1
  ThreadBudget = 2
SPECIFICATION Spec
PROPERTIES
  UnarchivedComesBack
CHECK_DEADLOCK FALSE
