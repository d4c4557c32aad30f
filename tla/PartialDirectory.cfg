SPECIFICATION Spec
CONSTANTS
    Members = {a, b}
    Founders = {a}
    MaxGenerations = 5
    MaxEdits = 1
    MaxSupplies = 0
    MaxCrashes = 1
    MaxFaults = 1
CHECK_DEADLOCK FALSE
PROPERTIES
    ExtendsOnly
