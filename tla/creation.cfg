CHECK_DEADLOCK FALSE
SPECIFICATION FairSpec
CONSTANTS
    MaxBase = 2
    Spaces = {1, 2}
    Probes = 2
INVARIANTS
    TypeOK
    ClosedLeavesNoAgent
PROPERTIES
    FreshTree
    AgentWasLive
    PromptsOnlyAgents
    RetriesSucceed
