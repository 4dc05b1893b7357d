SPECIFICATION FairSpec
CONSTANTS
    r1 = r1
    r2 = r2
    r3 = r3
    Requests <- MCTwoRequests
    PromptTokens <- MCPromptTokens
    HotTokens <- MCHotTokens
    Capacity = 1
    QueueTimeout = 3
    AgeLimit = 2
    Schedule = "shortest_prefill"
    TakeTimeout = 0
    Bounded = FALSE
    MayClose = TRUE
    MayPanic = FALSE
PROPERTIES
    EveryWaiterLeaves
    ShutdownReachesEngine
