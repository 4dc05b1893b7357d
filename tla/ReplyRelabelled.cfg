SPECIFICATION Spec
CONSTANTS
    Streams <- MCStreams
    MaxNew = 5
    DraftMax = 3
    MaxCtx = 6
    DraftCtx = 4
    Drafters = {"dflash"}
    Capacity = 1
    SendDeadline = 2
    JobDeadline = 2
    MaxWork = 2
CHECK_DEADLOCK FALSE
INVARIANT CompleteIsNeverCut
