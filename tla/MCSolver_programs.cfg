\* Every program of three families, run to its end by an engine without a
\* debugger, and a few programs that are halted and stepped.
SPECIFICATION FairSpec
CONSTANTS
  None = None
  MaxSteps = 60
  Cases <- MCCases
  Ground <- MCGround
  Outcome <- MCOutcome
INVARIANTS CutFindsEntry SolvesLikeReference
PROPERTY JobFinishes
CHECK_DEADLOCK FALSE
