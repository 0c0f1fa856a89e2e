SPECIFICATION Spec
CONSTANTS
    Faults = {"discord", "lost", "git", "disk"}
INVARIANTS
    TypeOK
    OkMeansFinished
    OneThread
PROPERTIES
    KeepsContract
