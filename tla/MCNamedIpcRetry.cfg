SPECIFICATION FairSpec
CONSTANTS
    NumRuns = 1
    ByHand <- FirstRun
PROPERTIES
    RetryingConnects
CHECK_DEADLOCK FALSE
