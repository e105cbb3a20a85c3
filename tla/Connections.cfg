SPECIFICATION Spec
CONSTANTS
  Base = 4
  Size = 2
  Prime = 13
  Generator = 2
  Clients = {p1, p2}
  Uids = {u1, u2}
  Fds = {3, 4, 5}
  MaxAttempts = 2
  MaxLogins = 3
  Signals = TRUE
  None = None
SYMMETRY Symmetry
INVARIANTS KeysDifferOnlyIfShort OwnDescriptors LeaksOnlyByRetry NobodyStuck 
PROPERTIES OnlySecondCloseStrays 
CHECK_DEADLOCK FALSE
