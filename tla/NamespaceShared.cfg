SPECIFICATION Spec
CONSTANTS
    Networks = {a, b}
    None = None
    ActualDomains = TRUE
    ForcedStates = {}
    MaxCreations = 2
    MaxEdits = 1
    MaxCrashes = 1
    MaxFaults = 1
SYMMETRY Symmetry
CHECK_DEADLOCK FALSE
INVARIANTS
    NamespaceOK
    RunningHasRelease
    CertificatesMatch
PROPERTIES
    TenancyPromise
