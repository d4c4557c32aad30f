SPECIFICATION FairSpec
CONSTANTS
    Nil = Nil
    Specs <- PatientSpecs
    Edits <- Patient
    Initial <- PlainOrDomains
    WaitsForReady = TRUE
    Forceable <- NoOne
    Outcomes <- Decided
    OthersAnswers <- Alone
    ResyncAnytime = FALSE
    ServicesLag = TRUE
    MaxWorkflows = 4
    MaxEdits = 2
    MaxCrashes = 1
    MaxFaults = 1
INVARIANTS
    TypeOK
    TrackedWorkflow
    Converged
    OneWorkflowAtATime
    DeployedWithCertificates
    PeerAliases
PROPERTIES
    Settles
