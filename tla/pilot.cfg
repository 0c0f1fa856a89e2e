SPECIFICATION FairSpec
CONSTANTS
    Sockets = {s1, s2}
INVARIANTS
    TypeOK
    OneAnswer
    ExecutedOnce
    ReadyMeansDescriptor
PROPERTIES
    NothingBeginsAfterStop
    PhasesEnd
    CallsReturn
    StopCompletes
