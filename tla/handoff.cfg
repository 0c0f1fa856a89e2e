SPECIFICATION FairSpec
CONSTANTS
    MaxCommits = 2
    MaxPrs = 2
    Outsiders = TRUE
    Faults = TRUE
INVARIANTS
    TypeOK
    HandedOffIsShown
    OnePrByBroker
    EvidenceInOrder
PROPERTIES
    NeverOverwritesRemote
    RemovesOnlyShown
    QuietJobsAreClosed
CHECK_DEADLOCK FALSE
