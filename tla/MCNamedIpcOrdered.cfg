SPECIFICATION FairSpec
CONSTANTS
    NumRuns = 3
    ByHand <- FirstRun
INVARIANTS
    IInv
    ConnectedEndsAgree
    SemaphoresAreFresh
    FirstAttemptConnects
PROPERTIES
    OrderedStartConnects
\* All runs come to an end.
CHECK_DEADLOCK FALSE
