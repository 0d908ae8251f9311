\* session_store.py:64, a short-lived placeholder: while its winner asks the classifier, another
\* request reads the claim.
SPECIFICATION Spec
CONSTANTS
    Models <- MCModels
    Ladder <- MCLadder
    DefaultModel = "medium"
    ForceTier = 2
    MaxEscalations = 1
    Sessions <- MCSessions
    Agents <- MCAgents
    NoAgent = "none"
    SubagentRouting = TRUE
    KeepTtl = TRUE
    HasGetex = TRUE
    MaxTail = 1
    Requests = {r1, r2, r3}
    Inputs <- RaceInputs
    ShadowMode = FALSE
    MaxInFlight = 2
    Environment = {}
SYMMETRY RequestSymmetry
INVARIANTS
    PlaceholderIsShortLived
