SPECIFICATION Spec
CONSTANTS
    f1 = f1
    f2 = f2
    Files <- OneFile
    Sizes = {0, 2}
    Offsets = {0}
    ReadEventSize = 2
    Chunks = {2}
    MayFail = {}
    MaxBytes = 4
    MaxTurns = 0
INVARIANT OffsetIsPosition
CHECK_DEADLOCK FALSE
