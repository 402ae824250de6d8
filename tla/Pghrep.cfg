\* Three hosts to order; two or three in the reports that are judged; items of five names.
CONSTANTS
  Host = {h1, h2, h3}
  Key = {"t", "u", "a<b", "a_tab", "a_line"}
  ClassOf <- MCClassOf
  MaxItems = 3
  MaxSaves = 3
  Inputs <- MCInputs
SPECIFICATION PghrepSpec
INVARIANTS TypeOK OrderedOnce OnlyMastersMissing ConclusionsTypeOK Priorities Explained Listed OutdatedNamed DiffAligned SizesAgree MapTypeOK NothingLost
SYMMETRY Symmetry
CHECK_DEADLOCK FALSE
