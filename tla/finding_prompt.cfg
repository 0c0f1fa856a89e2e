SPECIFICATION Spec
CONSTANTS
    Jobs = {j1}
    Requests = {r1, r2}
    Project = project
    Verbs = {"create_job", "prompt_job"}
    DiskFaults = {}
    Crashes = FALSE
    OperatorUnlocks = FALSE
INVARIANTS
    NoPromptRepeated
