SPECIFICATION FairSpec
CONSTANTS
    Jobs = {j1}
    Requests = {r1}
    Project = project
    Verbs = {"create_job", "prompt_job", "job_status", "read_job", "handoff_job", "recover_job", "close_job"}
    DiskFaults = {"read", "before", "after", "lock"}
    Crashes = TRUE
    OperatorUnlocks = TRUE
PROPERTIES
    FollowsLifecycle
    EveryRequestAnswered
