CONSTANTS
  Ids <- ThreeIds
  Ops = {o1, o2}
  MaxNames = 3
  Projects <- TwoProjects
  Args = {a1, a2}
  Calls = {c1, c2}
  MaxClients = 3
  MaxStarts = 2
  Tabs = {t1}
  SetupTab = setup
  MaxShells = 3
  Home = 1
  Budget = 4
  SwitchCost = 1
SPECIFICATION Spec
SYMMETRY Symmetry
INVARIANTS
  BranchRecorded
  RemovedStays
  ProcessesKnown
  ServedWithOwnArgs
  AnswerReachesAsker
  ShellsTracked
  TerminalHasTab
  PromptLeavesNoProcess
PROPERTIES
  RestoredOnlyIfAlive
CHECK_DEADLOCK FALSE
