\* The script, run twice for one epoch.
CONSTANTS
  Proc = {p1}
  Host = {h1, h2}
  Db = {d1}
  SimpleName <- OwnName
  MaxSnap = 4
  MaxClock = 4
SPECIFICATION RunSpec
INVARIANTS TwoLoopsSuffice PreviousFound
PROPERTIES ReportsProcessed
CHECK_DEADLOCK FALSE
