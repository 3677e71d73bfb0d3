SPECIFICATION Spec
CONSTANTS
  Requests = {r1, r2, r3, r4}
  Contents = {a, b}
  First = a
  MaxDeletes = 1
SYMMETRY Symmetry
INVARIANTS Reproducible ViewsNotOvercounted
CHECK_DEADLOCK FALSE
