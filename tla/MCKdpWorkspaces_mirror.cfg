SPECIFICATION FairSpec
CONSTANTS
  Projects = {p}
  Foreign = {}
  Staff = {s}
  Emails = {e}
  Trigger = trigger
  MaxChanges = 1
  MaxFaults = 1
  MaxVersions = 2
INVARIANTS TypeOK NothingForgotten
PROPERTIES ImplementsMirror CatchesUp
CHECK_DEADLOCK FALSE
