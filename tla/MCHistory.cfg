SPECIFICATION FairSpec
CONSTANTS
  t1 = t1
  t2 = t2
  Threads = {t1, t2}
  NoThread = NoThread
  Topics = {1, 2}
  HistoryMax = 1
  Width = 8
  MaxMsgs = 4
INVARIANTS
  CountsCover
  AtMostMax
  NewestKept
PROPERTIES
  CallsReturn
