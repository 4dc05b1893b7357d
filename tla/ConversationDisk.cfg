SPECIFICATION Spec
CONSTANTS
    Jobs <- MCTurns
    Replies <- MCOneReply
    MaxCtx = 8
    DraftCtx = 5
    DraftKind = "dflash"
    SlotCounts = {2}
    DiskTier = TRUE
    MaxClock = 2
    RingCapacity = 1
    MinGain = 2
INVARIANTS
    NeverWrongResume
    ColdSlotsBacked
