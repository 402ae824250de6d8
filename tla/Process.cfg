\* One `process` beside one `collect`.
CONSTANTS
  Check = {"A003", "K000"}
  Concluding = {"K000"}
  Section = {"A003", "K001", "K003"}
  CheckOf <- MCCheckOf
  Summarised = {"A003", "K003"}
  MaxResults = 2
SPECIFICATION Spec
INVARIANTS TypeOK ResultsSurvive SectionsAgree
PROPERTIES FinalTrue JsonReportsSpec
CONSTRAINTS OneA003 UntilClash
VIEW View
CHECK_DEADLOCK FALSE
