SPECIFICATION Spec
CONSTANTS
    r1 = r1
    r2 = r2
    r3 = r3
    Requests <- MCRequests
    PromptTokens <- MCPromptTokens
    HotTokens <- MCHotTokens
    Capacity = 2
    QueueTimeout = 3
    AgeLimit = 2
    Schedule = "shortest_prefill"
    TakeTimeout = 1
    Bounded = TRUE
    MayClose = TRUE
    MayPanic = TRUE
INVARIANTS
    TypeOK
    OnlyTheGoneAreDropped
    SleepsOnlyWhenIdle
PROPERTIES
    AgedNeverOvertaken
    PassedOnlyOnce
    TakesOnlyTheLiving
    RefusedOnlyByTheLiving
