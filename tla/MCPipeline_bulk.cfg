SPECIFICATION Spec
CONSTANTS
    MaxReadChannelSize = 1
    MaxWriteChannelSize = 2
    MaxWriteBulkSize = 1
    s1 = s1
    s2 = s2
    Senders <- OneSender
    Streams <- NoStream
    Configs <- FileConfigs
    Rejected <- NoneRejected
    Quotes <- NoQuotes
    MaxMsgs = 3
    MaxEmpties = 0
INVARIANT
    BatchWithinBulkSize
