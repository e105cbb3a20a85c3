SPECIFICATION Spec
CONSTANTS
  Conns = {h1, h2}
  Uids = {u1, u2}
  Cells = {c1, c2}
  None = None
  ReLogin = TRUE
INVARIANT OwnRecord
PROPERTIES ListFrozen MutexReleased ImplementsPresence
