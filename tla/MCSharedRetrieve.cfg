SPECIFICATION Spec
CONSTANTS
    Leader = k0
    Passives = {k1}
    NoOne = NoOne
    Scenarios <- MCScenarios
    Chunks = 2
    Prefixes = {0, 1, 2}
    Layers = 2
    MaxFaults = 2
INVARIANTS
    AgreementExact
    ViewsBacked
    PagesBalanced
PROPERTIES
    LoadsEnd
CHECK_DEADLOCK FALSE
