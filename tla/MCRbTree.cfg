SPECIFICATION Spec
CONSTANTS
  Keys = {1, 2, 3, 4, 5, 6, 7}
  Values = {a, b}
  Null = Null
INVARIANTS
  RedBlack
  IteratorOrder
PROPERTIES
  IsSortedMap
CHECK_DEADLOCK FALSE
