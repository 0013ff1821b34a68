CONSTANTS
    TsnMod = 100
    SsnMod = 16
    Channels = {"chat", "file"}
    MaxId = 3
    MaxReconfigRetrans = 1
    Scenarios <- AllScenarios
SPECIFICATION FairSpec
INVARIANTS
    ChannelsConsistent
    ChannelsSeparate
PROPERTIES
    ReadyStateAdvances
    ChannelsSettle
CHECK_DEADLOCK FALSE
