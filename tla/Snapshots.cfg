\* Runs side by side on a host; three databases, two of them with one simple name.
CONSTANTS
  Proc = {p1, p2}
  Host = {h1}
  d1 = d1
  d2 = d2
  d3 = d3
  Db = {d1, d2, d3}
  SimpleName <- SharedName
  MaxSnap = 4
  MaxClock = 3
SPECIFICATION Spec
INVARIANTS TypeOK ComparesNeighbours
PROPERTIES SnapshotKept
SYMMETRY SharedNameSymmetry
CONSTRAINT UntilTogether
CHECK_DEADLOCK FALSE
