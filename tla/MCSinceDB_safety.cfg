SPECIFICATION Spec
CONSTANTS
    f1 = f1
    f2 = f2
    Files <- TwoFiles
    Sizes = {0}
    MayFail = {"write"}
    MaxLines <- FewLines
    MaxRestarts = 2
INVARIANTS
    TypeOK
    SavedNotAhead
    LossBounded
    SavedWhenAlone
CHECK_DEADLOCK FALSE
