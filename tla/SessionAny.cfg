SPECIFICATION Spec
CONSTANTS
  Crossing = TRUE
  Failures = {"early", "list"}
  MaxPackets = 6
INVARIANTS NoUnsolicitedAnswer 
 
CHECK_DEADLOCK FALSE
