\* Every fault at once: what holds of the records whatever happens.
SPECIFICATION Spec
CONSTANTS
    Models <- MCModels
    Ladder <- MCLadder
    DefaultModel = "small"
    ForceTier = 2
    MaxEscalations = 1
    Sessions <- MCSessions
    Agents <- MCAgents
    NoAgent = "none"
    SubagentRouting = TRUE
    KeepTtl = TRUE
    HasGetex = TRUE
    MaxTail = 1
    Requests = {r1, r2, r3}
    Inputs <- FamilyInputs
    ShadowMode = FALSE
    MaxInFlight = 2
    Environment = {"error", "lost", "crash", "bug", "idle", "stall", "evict"}
SYMMETRY RequestSymmetry
INVARIANTS
    TypeOK
    LadderDiscipline
    EscalationsAreLogged
