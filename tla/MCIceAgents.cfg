SPECIFICATION FairSpec
CONSTANTS
    NPaths = 2
    MaxRequests = 6
    Scenarios <- MCScenarios
INVARIANTS
    AgentsAgree
    DataNeedsConsent
PROPERTIES
    AgentsConnect
CHECK_DEADLOCK FALSE
