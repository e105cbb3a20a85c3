SPECIFICATION Spec
CONSTANTS
  w1 = w1
  w2 = w2
  t1 = t1
  t2 = t2
  g1 = g1
  g2 = g2
  p1 = p1
  p2 = p2
  Clients = {w1, w2, t1}
  Windows = {w1, w2}
  Person <- MCPerson
  Names = {n1, n2, bad}
  BadNames = {bad}
  Avatars = {1, 2}
  NewAvatar = 2
  Gids = {g1}
  Lists <- MCOddLists
  MaxUsers = 2
  Registered <- MCBoth
  MaxAsked = 2
  MaxFaults = 1
  MaxAstray = 1
  Junk = Junk
INVARIANT OwnProfile
SYMMETRY MCSymmetry
CHECK_DEADLOCK FALSE
