SPECIFICATION Spec
CONSTANTS
    Slots = {1, 2}
    Conversations <- MCTwoTalks
    Prompts <- MCPrompts
    Snapshots <- MCSnapshots
    MaxDepth = 2
    MinGrowth = 1
    Budget = 3
    Faults <- NoFaults
    MaxFaults = 0
INVARIANT
    LinkIsAlwaysOurs
