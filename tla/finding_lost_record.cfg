SPECIFICATION Spec
CONSTANTS
    Jobs = {j1, j2}
    Requests = {r1, r2}
    Project = project
    Verbs = {"create_job", "prompt_job"}
    DiskFaults = {}
    Crashes = FALSE
    OperatorUnlocks = FALSE
PROPERTIES
    PutsPreserveOthers
