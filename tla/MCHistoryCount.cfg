SPECIFICATION Spec
CONSTANTS
  Threads = {t1}
  NoThread = NoThread
  Topics = {1}
  HistoryMax = 2
  Width = 8
  MaxMsgs = 7
INVARIANTS
  CountsExact
