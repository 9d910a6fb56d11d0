SPECIFICATION Spec
CONSTANTS
  None = None
  p1 = p1
  p2 = p2
  u1 = u1
  u2 = u2
  Projects = {p1, p2}
  People = {u1, u2}
  Lists <- AnyList
  Embeds <- OneEmbed
  MaxGen = 2
  MaxMishaps = 1
INVARIANTS
  TypeOK NothingForgotten StatusIsTrue
PROPERTIES
  JoinedWereAsked
