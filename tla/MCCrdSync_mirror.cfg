SPECIFICATION FairSpec
CONSTANTS
  Companies = {"c", "d"}
  Staff = {"s"}
  Projects = {"p", "q"}
  Maintainers = {"m1"}
  EmailsOf <- MCOwnEmails
  Versions = {0, 1}
  Foreign <- MCForeign
  MaxChanges = 2
  MaxFaults = 1
INVARIANTS TypeOK SyncedIsMirrored RefsResolve
PROPERTY ClusterCatchesUp
