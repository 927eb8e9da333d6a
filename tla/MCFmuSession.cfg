SPECIFICATION FairSpec
CONSTANTS
    MaxLogs = 4
    JvmMayDie = TRUE
INVARIANTS
    IInv
    NoLogAfterFree
    LogsBeforeReturn
PROPERTIES
    ImplementsDelivery
    CallbackWindsDown
    FreeReturns
    CallsReturn
\* The instance is freed, or could not be created.
CHECK_DEADLOCK FALSE
