SPECIFICATION Spec
CONSTANTS
  Projects = {"a", "b"}
  Companies = {"acme", "zed"}
  Emails = {"m", "n"}
  Foundations = {"cncf", "lf"}
  Maturities = {"Sandbox", "Graduated"}
  Sheets <- MCSheets
  FossaUsers <- MCFossaUsers
  Additions <- MCAdditions
  MaxRuns = 2
  MaxFaults = 1
  MaxEdits = 2
INVARIANTS
  TypeOK RunIsComplete  ParentsFormAForest RerunChangesNothing
CHECK_DEADLOCK FALSE
