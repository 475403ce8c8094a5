SPECIFICATION Spec
CONSTANTS
    MaximumSize = 3
    Largest = 2
    MayFail <- AnyCall
    MaxPackets = 6
    MaxRestarts = 2
    MaxTurns = 2
INVARIANTS
    TypeOK
    IInv
    SizeKnown
    FileBounded
    NewestKept
CHECK_DEADLOCK FALSE
