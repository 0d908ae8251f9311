\* The requests of a session one after another, with Redis failing and the session silent.
SPECIFICATION Spec
CONSTANTS
    Models <- MCModels
    Ladder <- MCLadder
    DefaultModel = "medium"
    ForceTier = 3
    MaxEscalations = 1
    Sessions <- MCSessions
    Agents <- MCAgents
    NoAgent = "none"
    SubagentRouting = FALSE
    KeepTtl = TRUE
    HasGetex = TRUE
    MaxTail = 1
    Requests = {r1, r2, r3, r4}
    Inputs <- GrowingInputs
    ShadowMode = FALSE
    MaxInFlight = 1
    Environment = {"error", "lost", "idle"}
SYMMETRY RequestSymmetry
INVARIANTS
    AnswersAreLogged
PROPERTIES
    KeepsThePromise
    StickyTier
    ResentHistoryIsSpent
