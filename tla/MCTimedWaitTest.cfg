SPECIFICATION Spec
CONSTANTS
    Platforms <- OnlyLinux
    MsPerSec = 1000
    Modulus = 3000
    Timeouts <- TestTimeouts
    Starts <- StartsAtEnds
    MaxPosts = 2
    Lag = 2
    Horizon = 20
INVARIANTS
    FailsNoEarlier
\* The wait ends.
CHECK_DEADLOCK FALSE
