SPECIFICATION Spec
CONSTANTS
  Crossing = FALSE
  Failures = {}
  MaxPackets = 12
INVARIANT AnswersMatch
PROPERTY RequestReturns
CHECK_DEADLOCK FALSE
