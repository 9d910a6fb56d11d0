SPECIFICATION Spec
CONSTANTS
  None = None
  i1 = i1
  i2 = i2
  n1 = n1
  q1 = q1
  q2 = q2
  Issues = {i1, i2}
  Names = {n1}
  NameOf <- OneName
  Requests = {q1, q2}
  TTL = 1
  MaxTime = 3
  MaxOpens = 1
SYMMETRY SameRequests
INVARIANTS
  TypeOK
  AnswerIsFresh
  AnswerIsComplete
  OnlyOvertakenFillsAreStale
