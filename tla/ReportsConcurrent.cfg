\* Two runs side by side on the hosts of one project.
CONSTANTS
  A002 = A002
  F004 = F004
  F005 = F005
  Proc = {p1, p2}
  Host = {h1, h2}
  Check = {A002}
  MasterOnly = {}
  Order <- OneCheck
  MaxFlips = 0
SPECIFICATION Spec
INVARIANTS ResultsNamed ResultsComplete
PROPERTIES ResultKept
SYMMETRY Symmetry
VIEW WithoutFile
CONSTRAINT UntilClash
CHECK_DEADLOCK FALSE
