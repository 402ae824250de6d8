\* As Pghrep.cfg: what the check of disks makes of a directory on a network file system.
CONSTANTS
  Host = {h1, h2, h3}
  Key = {"t", "u", "a<b", "a_tab", "a_line"}
  ClassOf <- MCClassOf
  MaxItems = 3
  MaxSaves = 3
  Inputs <- MCInputs
SPECIFICATION PghrepSpec
INVARIANTS NetworkFsReported
CHECK_DEADLOCK FALSE
