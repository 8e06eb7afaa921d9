SPECIFICATION CFairSpec
CONSTANTS
  Topics = {a, sent}
  NoTopic = NoTopic
  Threads = {c1, e1, e2}
  MaxReceivers = 2
  MaxDepth = 2
  CallbackOps = {"add", "remove"}
  Contexts = {x}
  None = None
  Executors = {e1, e2}
  TopicSent = sent
  Names = {a, sent}
  MaxMsgs = 2
  DestroyAnytime = FALSE
CHECK_DEADLOCK FALSE
INVARIANTS
  ListsAgree
  CalledOnce
  CalledWhileSubscribed
PROPERTIES
  MutexReleased
