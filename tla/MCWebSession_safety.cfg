SPECIFICATION Spec
CHECK_DEADLOCK FALSE
CONSTANTS
  Browsers = {b1, b2}
  Users = {u}
  States = {t1, t2}
  Sessions = {s1, s2}
  StateTTL = 1
  SessionTTL = 1
  MaxTime = 3
  MaxChanges = 1
SYMMETRY Sym
INVARIANTS TypeOK OneSessionPerLogin
PROPERTIES AdmittedHeldRole LoggedOutIsOut
