SPECIFICATION Spec
CONSTANTS
  w1 = w1
  w2 = w2
  t1 = t1
  t2 = t2
  g1 = g1
  g2 = g2
  p1 = p1
  p2 = p2
  Clients = {w1, t1, t2}
  Windows = {w1}
  Person <- MCPerson
  Names = {n1}
  BadNames = {}
  Avatars = {1}
  NewAvatar = 1
  Gids = {g1, g2}
  Lists <- MCLists
  MaxUsers = 3
  Registered <- MCOne
  MaxAsked = 2
  MaxFaults = 1
  MaxAstray = 0
  Junk = Junk
INVARIANTS  EveryoneIsTold GroupsApart
SYMMETRY MCSymmetry
CHECK_DEADLOCK FALSE
