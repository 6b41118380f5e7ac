SPECIFICATION Spec
CONSTANTS
  RangeMax = 3
  Half = 8
  MaxScopes = 30
  Queries <- MCReusing
  Facts <- MCFacts
CHECK_DEADLOCK FALSE
INVARIANT
  LoopVariableStartsUnbound
