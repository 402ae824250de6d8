\* One run at a time; two checks are for the master only; failovers and crashes.
CONSTANTS
  A002 = A002
  F004 = F004
  F005 = F005
  Proc = {p1}
  Host = {h1}
  Check = {A002, F004, F005}
  MasterOnly = {F004, F005}
  Order <- ThreeChecks
  MaxFlips = 2
SPECIFICATION Spec
INVARIANTS TypeOK LapsesBounded AccountedFor
CHECK_DEADLOCK FALSE
