SPECIFICATION Spec
CONSTANTS
  PageBytes = 3
  MetaPerPage = 6
  SecPerPage = 4
  AllocIdMax = 100
  Names = {"DATA", "META"}
  Lengths = {1, 2}
  MaxCalls = 5
  MaxRestarts = 1
INVARIANTS PagesTiled OneOwner PiecesAddUp HeldResolve
CHECK_DEADLOCK FALSE
