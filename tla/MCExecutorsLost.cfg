SPECIFICATION FairSpec
CONSTANTS
  Publishers = {p1}
  NoThread = NoThread
  MaxMessages = 2
  ArraySize = 1
  InitialMax = 1
  Settings = {}
  WakeCount = 1
  Unreadable = {}
  Destroys = FALSE
CHECK_DEADLOCK FALSE
PROPERTIES
  EventuallyPicked
