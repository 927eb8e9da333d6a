SPECIFICATION Spec
CONSTANTS
    MaxInstances = 1
    MaxValues = 2
INVARIANTS
    OversizedReplyIsFatal
\* A call may stay unanswered.
CHECK_DEADLOCK FALSE
