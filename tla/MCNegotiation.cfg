CONSTANTS
    Polite = polite
    Impolite = impolite
    Scenarios <- AllScenarios
SPECIFICATION FairSpec
INVARIANTS
    SessionSound
    PeersAgree
PROPERTIES
    ChangesNegotiated
