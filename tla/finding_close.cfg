SPECIFICATION Spec
CONSTANTS
    MaxCommits = 2
    MaxPrs = 1
    Outsiders = FALSE
    Faults = FALSE
PROPERTIES
    VerifiedBeforeClosing
