SPECIFICATION Spec
CONSTANTS
  Topics = {a, b}
  NoTopic = NoTopic
  Threads = {t1, t2}
  MaxReceivers = 3
  MaxDepth = 2
  CallbackOps = {"add", "remove", "find", "dispatch"}
SYMMETRY Symmetry
CHECK_DEADLOCK FALSE
INVARIANTS
  RunningReceiverIsLive
  DeletedOnce
  CalledInOrder
  NobodyMissed
PROPERTIES
  NoStartAfterRemoval
