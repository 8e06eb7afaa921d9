SPECIFICATION Spec
CONSTANTS
  PageBytes = 12
  MetaPerPage = 8
  SecPerPage = 4
  AllocIdMax = 100
  Lengths = {2,5}
  Topics = {"t"}
  MetaSize = 6
  MaxWrites = 4
  MaxSwitches = 1
  MaxRestarts = 1
CHECK_DEADLOCK FALSE
INVARIANTS KeptBytes SpacesDisjoint
CONSTRAINT Uncrossed
