SPECIFICATION Spec
CONSTANTS
    Slots = {1}
    Conversations <- MCConversations
    Prompts <- MCPrompts
    Snapshots <- MCFewerSnapshots
    MaxDepth = 2
    MinGrowth = 1
    Budget = 3
    Faults <- NoFaults
    MaxFaults = 0
INVARIANT
    IndexIsAlwaysAccurate
