CONSTANTS
    TsnMod = 100
    SsnMod = 16
    Streams = {1, 2}
    InitialRwnd = 64
    MaxPayload = 2
    MaxDuplicates = 1
    Scenarios <- AllScenarios
SPECIFICATION Spec
INVARIANTS
    DeliveryCorrect
    AccountsTrue
    NothingLeftBehind
CHECK_DEADLOCK FALSE
