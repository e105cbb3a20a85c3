SPECIFICATION Spec
CONSTANTS
  Users = {u1, u2, u3}
  None = None
  Deletes = FALSE
  Faults = FALSE
INVARIANT Symmetric
PROPERTY HalfIsCompleted
