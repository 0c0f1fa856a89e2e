CHECK_DEADLOCK FALSE
SPECIFICATION Spec
CONSTANTS
    MaxBase = 0
    Spaces = {1, 2}
    Probes = 1
INVARIANTS
    ClosedJobsHaveNoAgent
