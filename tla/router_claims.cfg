\* Requests of one session racing to pin it, with workers dying and replies lost.
\* No key is evicted and no winner outlives its claim, whose pin could fall on any other.
SPECIFICATION RememberingSpec
CONSTANTS
    Models <- MCModels
    Ladder <- MCLadder
    DefaultModel = "medium"
    ForceTier = 2
    MaxEscalations = 1
    Sessions <- MCSessions
    Agents <- MCAgents
    NoAgent = "none"
    SubagentRouting = TRUE
    KeepTtl = FALSE
    HasGetex = FALSE
    MaxTail = 1
    Requests = {r1, r2, r3, r4}
    Inputs <- RaceInputs
    ShadowMode = FALSE
    MaxInFlight = 3
    Environment = {"lost", "crash", "bug"}
SYMMETRY RequestSymmetry
INVARIANTS
    ClaimExclusion
    CopiesAgree
    NoThirdModel
    MissionCriticalFloor
PROPERTIES
    PinnedForLife
