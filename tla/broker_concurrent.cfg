SPECIFICATION Spec
CONSTANTS
    Jobs = {j1}
    Requests = {r1, r2}
    Project = project
    Verbs = {"create_job", "prompt_job", "job_status", "handoff_job", "recover_job", "close_job"}
    DiskFaults = {"read", "before", "after", "lock"}
    Crashes = TRUE
    OperatorUnlocks = TRUE
INVARIANTS
    TypeOK
    MutualExclusion
    EvidenceComplete
    LiveJobsHaveWorkspaces
PROPERTIES
    DestroysOnlyHandedOff
SYMMETRY RequestSymmetry
