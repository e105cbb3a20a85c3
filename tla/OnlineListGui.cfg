SPECIFICATION Spec
CONSTANTS
  Conns = {h1, h2, h3}
  Uids = {u1, u2}
  Cells = {c1, c2}
  None = None
  ReLogin = FALSE
SYMMETRY Symmetry
INVARIANTS NoStaleNotice NoGhost
PROPERTIES SecondLoginRefused StaleOnlyAfterLeave
