SPECIFICATION FairSpec
CONSTANTS
  None = None
  p1 = p1
  p2 = p2
  p3 = p3
  n1 = n1
  n2 = n2
  m1 = m1
  m2 = m2
  staff = staff
  d1 = d1
  d2 = d2
  Projects = {p1, p2, p3}
  Names = {n1, n2}
  NameOf <- Namesakes
  Maintainers = {m1, m2}
  Candidates <- OnlyOfP1
  Contactable = {m2}
  Actors = {m1}
  Staff = {}
  Assignees <- M1OnN2
  Embeds <- M1InsideM2
  Deliveries = {d1}
INVARIANT
  PanicNeedsErrorOrNamesake
PROPERTIES
  MembersOnlyByAuthority
  EveryDeliveryEnds
