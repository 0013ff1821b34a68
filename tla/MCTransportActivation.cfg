CONSTANTS
    a = a
    b = b
    Transports <- MCTransports
    Scenarios <- MCScenarios

SPECIFICATION Spec
INVARIANTS
    ActivationSound
    ReportTrue
PROPERTIES
    ReportsConnected
