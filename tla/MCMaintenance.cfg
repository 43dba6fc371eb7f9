SPECIFICATION Spec
CONSTANTS
  Release = {r1, r2, r3}
  None = None
  Version = {v1, v2}
  Keep = 1
SYMMETRY Symmetry
CHECK_DEADLOCK FALSE
INVARIANTS
  RollbackReady
  PointsKept
