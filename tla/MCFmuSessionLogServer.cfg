SPECIFICATION FairSpec
CONSTANTS
    MaxLogs = 2
    JvmMayDie = FALSE
INVARIANTS
    LogServerGivesUp
CHECK_DEADLOCK FALSE
