SPECIFICATION Spec
CONSTANTS
  Items <- MCItems
  Dist <- MCDist
  Capacity = 3
INVARIANTS
  Ordered
  CursorAtFirstUnexpanded
  KeepsNearest
PROPERTIES
  ImplementsBoundedPool
