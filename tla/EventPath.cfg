CONSTANTS
  app = app
  terminal = terminal
  l1 = l1
  l2 = l2
  Threads = {t1}
  First = {}
  MaxNotes = 2
  MaxCrashes = 1
  Hubs <- TwoHubs
  AppServerEvent = app
  Subscribers = {l1, l2}
  HubOf <- OneEach
  MaxSubs = 3
  MaxSockets = 2
  MaxLosses = 1
SPECIFICATION FairSpec
INVARIANTS
  SavedBeforeShown
  ShownInOrder
  RegisteredOnce
  OneSocket
  WillConnect
  GotInOrder
PROPERTIES
  Reconnects
CHECK_DEADLOCK FALSE
