SPECIFICATION Spec
CONSTANTS
  Threads = {t1, t2}
  NoThread = NoThread
CHECK_DEADLOCK FALSE
INVARIANT
  UnlockReleases
