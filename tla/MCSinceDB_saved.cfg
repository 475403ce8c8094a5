SPECIFICATION FairSpec
CONSTANTS
    f1 = f1
    f2 = f2
    Files <- TwoFiles
    Sizes = {0}
    MayFail = {}
    MaxLines <- OneLine
    MaxRestarts = 0
PROPERTY
    EventuallySaved
CHECK_DEADLOCK FALSE
