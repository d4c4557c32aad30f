SPECIFICATION FairSpec
CONSTANTS
    Networks = {a, b}
    None = None
    ActualDomains = FALSE
    ForcedStates = {"New"}
    MaxCreations = 2
    MaxEdits = 1
    MaxCrashes = 0
    MaxFaults = 0
CHECK_DEADLOCK FALSE
INVARIANTS
    CleansUp
PROPERTIES
    LastOneRuns
