SPECIFICATION Spec
CONSTANTS
  Topics = {a}
  NoTopic = NoTopic
  Threads = {t1, t2, t3}
  MaxReceivers = 2
  MaxDepth = 1
  CallbackOps = {}
CHECK_DEADLOCK FALSE
INVARIANT
  UnsubscribeIsBarrier
