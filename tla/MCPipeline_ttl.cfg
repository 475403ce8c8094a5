SPECIFICATION FairSpec
CONSTANTS
    MaxReadChannelSize = 1
    MaxWriteChannelSize = 1
    MaxWriteBulkSize = 1
    s1 = s1
    s2 = s2
    Senders <- OneSender
    Streams <- NoStream
    Configs <- TtlConfigs
    Rejected <- NoneRejected
    Quotes <- NoQuotes
    MaxMsgs = 2
    MaxEmpties = 0
PROPERTY
    SafeExitFinishes
