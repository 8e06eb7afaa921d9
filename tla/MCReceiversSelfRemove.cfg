SPECIFICATION FairSpec
CONSTANTS
  Topics = {a}
  NoTopic = NoTopic
  Threads = {t1, t2}
  MaxReceivers = 2
  MaxDepth = 2
  CallbackOps = {"remove"}
CHECK_DEADLOCK FALSE
PROPERTY
  RemoveReturns
