SPECIFICATION FairSpec
CONSTANTS
    MaxReadChannelSize = 1
    MaxWriteChannelSize = 1
    MaxWriteBulkSize = 1
    s1 = s1
    s2 = s2
    Senders <- TwoSenders
    Streams <- OneStream
    Configs <- AllConfigs
    Rejected <- SecondRejected
    Quotes <- ThirdQuote
    MaxMsgs = 4
    MaxEmpties = 1
INVARIANTS
    TypeOK
    IInv
    InOrder
    Accounted
    RejectedNeverWritten
    OutputReadyFirst
    PanicCauses
    ExitKeepsBatch
    BulkBacked
PROPERTIES
    Delivers
    EventuallyHandled
    SenderServed
    SignalEnds
