CONSTANTS
  r1 = r1
  r2 = r2
  s1 = s1
  Requests <- TwoRequests
  Replies <- OneReply
  MaxChildren = 2
SPECIFICATION FairSpec
INVARIANTS
  NoLeakedProcess
  NoAbandonedCall
  AnswerFromOwnProcess
  Handshake
PROPERTIES
  EveryCallSettles
  ImplementsRpcCalls
CHECK_DEADLOCK FALSE
