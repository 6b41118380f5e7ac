SPECIFICATION Spec
CONSTANTS
    Occurrences <- Occurrences0
    Term <- Term0
    Branches <- Branches1
    MaxContexts = 4
INVARIANT
    SucceedsOnlyWithSolution
CHECK_DEADLOCK FALSE
