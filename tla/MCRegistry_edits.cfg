SPECIFICATION Spec
CHECK_DEADLOCK FALSE
CONSTANTS
  Requests = {r1, r2, r3}
  Asks <- MCAsks
  Handles = {"ann", "bob", "cyd"}
  Emails = {"a@x", "b@x"}
  Names <- MCNames
  Lower <- MCLower
  FirstRows <- MCRows
  FirstCompanies <- MCCompanies
  MaxFaults = 1
INVARIANTS TypeOK CompanyRefsAreLive StaffStatusStands NoTwins
  RefusedAfterCommit LoneChangesAreAudited
SYMMETRY Sym
