SPECIFICATION Spec
CONSTANTS
  Threads = {t1, t2, t3}
  None = None
  IntMax = 5
  MaxId = 7
SYMMETRY Symmetry
INVARIANTS
  NeverAgain
