SPECIFICATION Spec
CONSTANTS
    Slots = {1}
    Conversations <- MCConversations
    Prompts <- MCPrompts
    Snapshots <- MCFewerSnapshots
    MaxDepth = 2
    MinGrowth = 1
    Budget = 3
    Faults <- MCFaults
    MaxFaults = 1
CONSTRAINT FewFilesAfterFault
INVARIANTS
    TypeOK
    ChainsComplete
    LinkIsOurs
    
    IndexIsAccurate
PROPERTIES
    NothingLost
    WrittenIsResumable
