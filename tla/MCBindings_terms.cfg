SPECIFICATION FairSpec
CONSTANTS
    Occurrences <- Occurrences0
    Term <- Term0
    Branches <- Branches0
    MaxContexts = 5
INVARIANTS
    OneStepLookup
    SolvesEquations
PROPERTIES
    FailsOnlyWithoutSolution
    UnificationEnds
CHECK_DEADLOCK FALSE
