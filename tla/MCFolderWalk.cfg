SPECIFICATION Spec
CONSTANTS
  Files = {f1, f2}
  Contents = {a, b}
  None = None
  Walks = {w1}
  MinGuard = 1
  MaxTime = 4
  MaxMishaps = 1
INVARIANTS RowVouches SnapshotPairs
PROPERTIES WalkIsRight
CHECK_DEADLOCK FALSE
SYMMETRY Symmetric
