SPECIFICATION FairSpec
CONSTANTS
  Publishers = {p1, p2}
  NoThread = NoThread
  MaxMessages = 3
  ArraySize = 2
  InitialMax = 2
  Settings = {0}
  WakeCount = 1
  Unreadable = {2}
  Destroys = TRUE
CHECK_DEADLOCK FALSE
INVARIANTS
  NothingLost
  ExecutorPool
  NothingRunsAfterDestroy
PROPERTIES
  AnsweredIsPicked
  PublishReturns
