SPECIFICATION Spec
CONSTANTS
    Nil = Nil
    Specs <- OneChannelSpecs
    Edits <- OneChannel
    Initial <- JustPlain
    WaitsForReady = FALSE
    Forceable <- LateStates
    Outcomes <- AnyOutcome
    OthersAnswers <- AnyAnswer
    ResyncAnytime = TRUE
    ServicesLag = FALSE
    MaxWorkflows = 2
    MaxEdits = 2
    MaxCrashes = 0
    MaxFaults = 0
PROPERTIES
    CompletedFlowRan
    FailedIsFinal
    TeardownOnlyFresh
