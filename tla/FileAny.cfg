SPECIFICATION Spec
CONSTANTS
  Users = {u1, u2}
  None = None
  Files = {1, 2}
  Cells = {c1, c2}
  MaxOffers = 2
SYMMETRY Symmetry
INVARIANTS OneOwner OfferHeld RightFile
PROPERTY OfferEnds
CHECK_DEADLOCK FALSE
