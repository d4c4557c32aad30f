SPECIFICATION FairSpec
CONSTANTS
    Nil = Nil
    Specs <- AnytimeSpecs
    Edits <- Anytime
    Initial <- JustPlain
    WaitsForReady = FALSE
    Forceable <- ForcedReady
    Outcomes <- Decided
    OthersAnswers <- Alone
    ResyncAnytime = FALSE
    ServicesLag = FALSE
    MaxWorkflows = 3
    MaxEdits = 2
    MaxCrashes = 0
    MaxFaults = 0
INVARIANTS
    Consistent
PROPERTIES
    LifecyclePromise
    AppliedIsDesired
    OperatorKeepsEdits
    ForceHonoured
