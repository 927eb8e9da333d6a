SPECIFICATION FairSpec
CONSTANTS
    MaxSends = 10
    GiveUp = FALSE
    ParsesReply = TRUE
INVARIANTS
    ReplyAnswersCall
PROPERTIES
    ImplementsRpc
\* The engine may stop calling.
CHECK_DEADLOCK FALSE
