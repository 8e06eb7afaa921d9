SPECIFICATION Spec
CONSTANTS
  p1 = p1
  p2 = p2
  c1 = c1
  c2 = c2
  a = a
  b = b
  Producers = {p1, p2}
  Consumers = {c1, c2}
  Iterators = {c1, c2}
  Uses <- MCUses
  Values = {a}
  Wants <- MCSameWants
  MaxNodes = 3
SYMMETRY Symmetry
CONSTRAINT OneAtATimeLater
INVARIANTS
  NoUseAfterFree
  RemainsExact
  NothingSkipped
PROPERTIES
  IsMessagePool
