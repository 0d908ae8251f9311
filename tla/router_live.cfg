\* Without faults, every request is answered and every claimed session is pinned.
SPECIFICATION FairSpec
CONSTANTS
    Models <- MCModels
    Ladder <- MCLadder
    DefaultModel = "medium"
    ForceTier = 2
    MaxEscalations = 1
    Sessions <- MCSessions
    Agents <- MCAgents
    NoAgent = "none"
    SubagentRouting = TRUE
    KeepTtl = FALSE
    HasGetex = FALSE
    MaxTail = 1
    Requests = {r1, r2, r3}
    Inputs <- LiveInputs
    ShadowMode = FALSE
    MaxInFlight = 3
    Environment = {}
PROPERTIES
    ClaimIsPinned
    EveryRequestIsAnswered
