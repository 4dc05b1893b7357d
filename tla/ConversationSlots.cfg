SPECIFICATION Spec
CONSTANTS
    Jobs <- MCTalk
    Replies <- MCReplies
    MaxCtx = 8
    DraftCtx = 5
    DraftKind = "mtp"
    SlotCounts = {1, 3}
    DiskTier = FALSE
    MaxClock = 3
    RingCapacity = 2
    MinGain = 2
INVARIANTS
    TypeOK
    NeverWrongResume
    ColdSlotsBacked
    LiveMatchesCache
    PlanSurvivesPageOut
    NoDrift
    StopsAhead
PROPERTIES
    WhoLeavesStaysWarm
    ForkSparesItsSource
