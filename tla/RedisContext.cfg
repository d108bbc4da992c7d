CONSTANTS
  Object = {o1, o2, o3}
  Context = {c1, c2, c3}
SYMMETRY Symmetry
CHECK_DEADLOCK FALSE
SPECIFICATION Spec
INVARIANTS OnlySharedDangle NothingLeaks
