CONSTANT
    Scenarios <- MCScenarios
SPECIFICATION FairSpec
INVARIANTS
    SecretsAgree
    SessionKept
PROPERTIES
    Completes
CHECK_DEADLOCK FALSE
