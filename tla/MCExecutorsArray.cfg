SPECIFICATION Spec
CONSTANTS
  Publishers = {p1}
  NoThread = NoThread
  MaxMessages = 4
  ArraySize = 1
  InitialMax = 1
  Settings = {2}
  WakeCount = 1
  Unreadable = {}
  Destroys = FALSE
CHECK_DEADLOCK FALSE
INVARIANTS
  ExecutorsFitArray
