SPECIFICATION Spec
CONSTANTS
  None = None
  MaxSteps = 60
  Cases <- MCFindallCases
  Ground <- MCGround
  Outcome <- MCOutcome
INVARIANT ErrorsReported
CHECK_DEADLOCK FALSE
