SPECIFICATION FairSpec
CONSTANTS
    r1 = r1
    r2 = r2
    r3 = r3
    Requests <- ThreeRequests
    Mixes <- SomeMixes
    MaxFiles = 5
    QueueSize = 1
    MaxPackets = 1
    MaxBatch = 1
    MaxProcs = 1
    StartFiles = 2
INVARIANTS
    TypeOK
    FilesCounted
    AnsweredOnce
    ProfilerOwned
    WholeWhenAlone
PROPERTIES
    WriteReturns
    RequestAnswered
