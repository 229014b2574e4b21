SPECIFICATION LiveSpec
CONSTANTS
    None = None
    A = A
    B = B
    Bad = Bad
    Image <- MCImage
    Formats <- MCFormats
    Rejected = {Bad}
    Wanted <- MCWanted
    Keys = 2
    Capacity = 2
    PageSize = 1
    Parts = 1
    GenMod = 8
    Earlier <- MCEarlier
    Mishaps = 2
    Sessions = 2
    Operations = 2
INVARIANTS
    AcknowledgedSurvives
    GenerationNames
    SnapshotIsWhole
    NoTransactionLeftBehind
PROPERTIES
    ReplayChangesNothing
    StoresAtomically
    OperationsEnd
CHECK_DEADLOCK FALSE
