\* An upload, started again and again, beside collections and `process`.
CONSTANTS
  Dir = {"1", "2"}
  Before <- MCBefore
  Inside <- MCInside
  After <- MCAfter
  Md <- MCMd
  Uploadable = {"nodes.json", "1_1.sql", "L003.json", "A002.md"}
  Volatile = {"A002_tmp", "A002.md"}
  MaxReports = 2
SPECIFICATION Spec
INVARIANTS TypeOK FilesAccounted OneEpoch NodesAgree
CHECK_DEADLOCK FALSE
CONSTRAINT OneUploaded
VIEW View
