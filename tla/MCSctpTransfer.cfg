CONSTANTS
    TsnMod = 100
    SsnMod = 16
    Streams = {1, 2}
    InitialRwnd = 64
    MaxPayload = 2
    InitialTsn = 20
    MaxSentCount = 3
    Scenarios <- AllScenarios
SPECIFICATION FairSpec
INVARIANTS
    TransferSafe
    NeverStuck
PROPERTIES
    ImplementsFifoChannel
    EverythingDelivered
CHECK_DEADLOCK FALSE
