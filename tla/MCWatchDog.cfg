SPECIFICATION FairSpec
CONSTANTS
    AliveDelay = 2
    AliveInterval = 2
    EngineLag = 4
    JvmLag = 1
    MaxPermits = 3
INVARIANTS
    IInv
    NoFalseAlarm
    DetectedInTime
PROPERTIES
    OrphanIsFreed
    CallIsAnswered
\* Everything comes to an end.
CHECK_DEADLOCK FALSE
