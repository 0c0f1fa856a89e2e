SPECIFICATION Spec
CONSTANTS
    Jobs = {j1}
    Requests = {r1}
    Project = project
    Verbs = {"create_job", "prompt_job", "read_job", "handoff_job", "recover_job", "close_job"}
    DiskFaults = {"after", "lock"}
    Crashes = FALSE
    OperatorUnlocks = TRUE
INVARIANTS
    NoPromptRepeated
PROPERTIES
    AnswersAreDurable
