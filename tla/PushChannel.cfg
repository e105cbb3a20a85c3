SPECIFICATION Spec
CONSTANTS
  MaxPacket = 64
  Word = 256
  Others = {h1, h2}
  Home = Home
  Kinds = {"login", "friend", "message", "group"}
  Sizes = {1, 44}
  Room = 2
  MaxPushes = 3
  None = None
INVARIANT NothingLost
PROPERTIES OverlapIsUnlocked  ImplementsFeed Delivered
CHECK_DEADLOCK FALSE
