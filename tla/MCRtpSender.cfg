CONSTANTS
    Tracks = {"t1", "t2"}
    Numbers = 8
    HistorySize = 2
    MaxQueue = 2
    MaxPending = 2
    MaxPackets = 4
    MaxSwitches = 4
    MaxNacks = 1
    FirstNumber <- MCFirstNumber
    Scenarios <- MCScenarios
SPECIFICATION FairSpec
INVARIANTS
    StreamRight
PROPERTIES
    WritesAllowed
    QueuesDrain
CHECK_DEADLOCK FALSE
