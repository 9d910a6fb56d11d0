SPECIFICATION Spec
CONSTANTS
  Companies = {"c", "d"}
  Staff = {"s"}
  Projects = {"p", "q"}
  Maintainers = {"m1", "m2"}
  EmailsOf <- MCMissingEmails
  Versions = {0}
  Foreign <- MCNoForeign
  MaxChanges = 1
  MaxFaults = 0
INVARIANT SyncedIsMirrored
