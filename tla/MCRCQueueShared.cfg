SPECIFICATION Spec
CONSTANTS
  p1 = p1
  p2 = p2
  c1 = c1
  c2 = c2
  a = a
  b = b
  Producers = {p1}
  Consumers = {c1, c2}
  Iterators = {c1}
  Uses <- MCSharedUses
  Values = {a}
  Wants <- MCSharedWants
  MaxNodes = 2
CHECK_DEADLOCK FALSE
CONSTRAINT NotCrashed
INVARIANTS
  NoUseAfterFree
