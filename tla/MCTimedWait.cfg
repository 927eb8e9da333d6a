SPECIFICATION FairSpec
CONSTANTS
    Platforms <- BothPlatforms
    MsPerSec = 1000
    Modulus = 3000
    Timeouts <- AllTimeouts
    Starts <- StartsAtEnds
    MaxPosts = 2
    Lag = 2
    Horizon = 20
INVARIANTS
    IInv
    FailsEarlyOnlyAcross
    LateBySecondsOnly
PROPERTIES
    EveryWaitEnds
\* The wait ends.
CHECK_DEADLOCK FALSE
