SPECIFICATION FairSpec
CONSTANTS
  None = None
  p1 = p1
  p2 = p2
  u1 = u1
  u2 = u2
  Projects = {p1}
  People = {u1, u2}
  Lists <- FullList
  Embeds <- OneEmbed
  MaxGen = 1
  MaxMishaps = 1
PROPERTIES
  CatchesUp
