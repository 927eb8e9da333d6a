SPECIFICATION ServerFairSpec
CONSTANTS
    MaxSends = 4
    GiveUp = TRUE
    ParsesReply = FALSE
INVARIANTS
    IInv
    PermitsConserved
    MessagesConserved
    NoSlotRace
    ServesNextMessageWhole
    NeverServesZeroedSlot
PROPERTIES
    ImplementsDelivery
    EveryMessageServed
    EverySendReturns
\* The FMU may stop logging.
CHECK_DEADLOCK FALSE
