SPECIFICATION FairSpec
CONSTANTS
    f1 = f1
    f2 = f2
    Files <- OneFile
    Sizes = {0, 2}
    Offsets = {0, 2, 3}
    ReadEventSize = 2
    Chunks = {1, 2}
    MayFail = {"read", "watch"}
    MaxBytes = 4
    MaxTurns = 2
INVARIANTS
    TypeOK
    OffsetBehind
    ReadsAll
    SentLines
    WakeupComing
PROPERTY EventuallySent
CHECK_DEADLOCK FALSE
