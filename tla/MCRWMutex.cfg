SPECIFICATION FairSpec
CONSTANTS
  Threads = {t1, t2, t3, t4}
  NoThread = NoThread
CHECK_DEADLOCK FALSE
INVARIANTS
  MutualExclusion
  CountsExact
PROPERTIES
  WriterGoesFirst
  SpinEnds
