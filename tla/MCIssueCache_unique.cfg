SPECIFICATION Spec
CONSTANTS
  None = None
  i1 = i1
  i2 = i2
  n1 = n1
  q1 = q1
  q2 = q2
  Issues = {i1, i2}
  Names = {n1}
  NameOf <- SameName
  Requests = {q1, q2}
  TTL = 1
  MaxTime = 1
  MaxOpens = 0
INVARIANTS
  ProjectNamesAreUnique
