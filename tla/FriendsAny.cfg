SPECIFICATION Spec
CONSTANTS
  Users = {u1, u2}
  None = None
  Deletes = TRUE
  Faults = TRUE
SYMMETRY Symmetry
INVARIANTS HalfIsExplained
