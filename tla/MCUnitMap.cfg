CONSTANTS
  Units = {a, b, c}
  Locs = {l1, l2}
  Iters = {i, j}
  MaxId = 3
  NULL = NULL
SPECIFICATION Spec
SYMMETRY Symmetry
INVARIANTS TypeOK IteratorsPersist NoIdleGhost IndicesAgree UnitsOwned
PROPERTY ImplementsBoard
CHECK_DEADLOCK FALSE
