SPECIFICATION FairSpec
CONSTANTS
  RangeMax = 3
  Half = 8
  MaxScopes = 30
  Queries <- MCQueries
  Facts <- MCFacts
CHECK_DEADLOCK FALSE
INVARIANTS
  
  IterationsCommitted
PROPERTY
  QueryEnds
