\* What the README says of the hosts of a report.
CONSTANTS
  Host = {h1, h2}
SPECIFICATION Spec
INVARIANTS AllHostsReported
CHECK_DEADLOCK FALSE
