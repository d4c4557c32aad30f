SPECIFICATION FairSpec
CONSTANTS
    Users = {u, v}
    Names = {"simple", "other"}
    ChaincodeNames <- Chaincodes
    LowerCase <- ToLower
    Files <- NetworkFiles
    None = None
    Gone = Gone
    MaxCommands = 2
    MaxFaults = 2
CHECK_DEADLOCK FALSE
INVARIANTS
    CliOK
    Complete
    Coherent
PROPERTIES
    KeepsExisting
    DeleteCleans
    RetrySucceeds
