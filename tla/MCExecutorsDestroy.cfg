SPECIFICATION FairSpec
CONSTANTS
  Publishers = {p1}
  NoThread = NoThread
  MaxMessages = 1
  ArraySize = 1
  InitialMax = 1
  Settings = {}
  WakeCount = 1
  Unreadable = {}
  Destroys = TRUE
CHECK_DEADLOCK FALSE
PROPERTIES
  DestroyReturns
