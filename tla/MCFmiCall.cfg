SPECIFICATION FairSpec
CONSTANTS
    MaxInstances = 2
    MaxValues = 2
INVARIANTS
    IInv
    StatusIsTheServices
    OkMeansDelivered
    OnlyLiveInstancesCalled
PROPERTIES
    CallReturns
\* A call may stay unanswered.
CHECK_DEADLOCK FALSE
