SPECIFICATION FairSpec
CONSTANTS
    Members = {a, b}
    Founders = {a}
    MaxGenerations = 5
    MaxEdits = 2
    MaxSupplies = 2
    MaxCrashes = 1
    MaxFaults = 1
CHECK_DEADLOCK FALSE
INVARIANTS
    CertificatesOK
    GenesisMatches
    Restorable
    ProvidersOwn
    Equipped
PROPERTIES
    OnlyExtended
    Equips
