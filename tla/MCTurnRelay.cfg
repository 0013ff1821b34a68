CONSTANTS
    Peers = {p1, p2}
    Clients = {1, 2}
    ClientLifetime = 6
    allocationLifetime = 6
    permissionLifetime = 3
    channelLifetime = 6
    channelRefreshTime = 5
    maxAllocations = 1
    IpOf <- MCIpOf
    Scenarios <- MCScenarios
    MaxTime = 6
    MaxSends = 3
SPECIFICATION FairSpec
INVARIANTS
    ChannelsUsable
    RelayKept
    ClosedQuiet
PROPERTIES
    OperationsEnd
CHECK_DEADLOCK FALSE
