SPECIFICATION FairSpec
CONSTANTS
    Streams <- MCStreams
    MaxNew = 5
    DraftMax = 3
    MaxCtx = 6
    DraftCtx = 4
    Drafters = {"dflash", "mtp"}
    Capacity = 1
    SendDeadline = 2
    JobDeadline = 2
    MaxWork = 2
INVARIANTS
    SafeToResume
    
    ListenerIsAnswered
    WindDownBounded
PROPERTIES
    ImplementsPlain
    EngineGetsFree
CHECK_DEADLOCK FALSE
