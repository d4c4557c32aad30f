SPECIFICATION Spec
CONSTANTS
    Networks = {a, b}
    None = None
    ActualDomains = FALSE
    ForcedStates = {}
    MaxCreations = 1
    MaxEdits = 0
    MaxCrashes = 1
    MaxFaults = 0
CHECK_DEADLOCK FALSE
INVARIANTS
    DeletesAll
