SPECIFICATION Spec
CONSTANTS
    Nil = Nil
    Specs <- VersionAndChannelSpecs
    Edits <- VersionAndChannel
    Initial <- JustPlain
    WaitsForReady = TRUE
    Forceable <- NoOne
    Outcomes <- Decided
    OthersAnswers <- Alone
    ResyncAnytime = FALSE
    ServicesLag = FALSE
    MaxWorkflows = 4
    MaxEdits = 1
    MaxCrashes = 0
    MaxFaults = 0
INVARIANTS
    ChannelsCreated
