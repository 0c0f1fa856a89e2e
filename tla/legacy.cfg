SPECIFICATION FairSpec
CONSTANTS
    Tasks = {t1}
    MaxAttempts = 2
    MaxBase = 1
    Push = TRUE
    Faults = TRUE
INVARIANTS
    TypeOK
    InReviewIsPublished
    InReviewHoldsWork
    WorktreesAreFresh
PROPERTIES
    ReviewedBranchStands
    TasksSettle
CHECK_DEADLOCK FALSE
