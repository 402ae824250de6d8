\* Two databases of one host, one epoch.
CONSTANTS
  Proc = {p1}
  Host = {h1}
  d1 = d1
  d2 = d2
  d3 = d3
  Db = {d1, d2}
  SimpleName <- OwnName
  MaxSnap = 3
  MaxClock = 2
SPECIFICATION Spec
INVARIANTS PreviousFound
SYMMETRY OwnNameSymmetry
CHECK_DEADLOCK FALSE
