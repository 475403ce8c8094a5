SPECIFICATION Spec
CONSTANTS
    f1 = f1
    f2 = f2
    Files <- TwoFiles
    Sizes = {0}
    Offsets = {0}
    ReadEventSize = 1
    Chunks = {2}
    MayFail = {}
    MaxBytes = 4
    MaxTurns = 0
INVARIANT FileIsWatched
CHECK_DEADLOCK FALSE
