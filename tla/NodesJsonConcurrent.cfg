\* Two runs side by side.
CONSTANTS
  Proc = {p1, p2}
  Host = {h1, h2}
  Epoch = {e1, e2}
  MaxClock = 1
SPECIFICATION Spec
INVARIANTS UniqueIndex OneDirPerEpoch
PROPERTIES IndexStable RoleChangeStamped
SYMMETRY Symmetry
CONSTRAINT UntilOverlap
CHECK_DEADLOCK FALSE
