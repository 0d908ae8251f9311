\* README.md:164-165, no downgrades: two requests of a pinned session at once.
SPECIFICATION Spec
CONSTANTS
    Models <- MCModels
    Ladder <- MCLadder
    DefaultModel = "medium"
    ForceTier = 2
    MaxEscalations = 1
    Sessions <- MCSessions
    Agents <- MCAgents
    NoAgent = "none"
    SubagentRouting = TRUE
    KeepTtl = TRUE
    HasGetex = TRUE
    MaxTail = 1
    Requests = {r1, r2, r3}
    Inputs <- GrowingInputs
    ShadowMode = FALSE
    MaxInFlight = 2
    Environment = {}
SYMMETRY RequestSymmetry
PROPERTIES
    StickyTier
