\* One conversation under its own key, that grows, is sent again and is compacted.
SPECIFICATION Spec
CONSTANTS
    MaxTail = 2
    Threshold = 2
    MaxSteps = 2
    CompactHeaders = {FALSE}
    Conversations = {"main"}
    ToolTurns <- MCToolTurns
    MaxTurn = 2
    MaxLength = 4
INVARIANTS
    TypeOK
    EscalationsAreEarned
    StreakIsTrue
    ScannedOnce
    NothingIsMissed
PROPERTIES
    StaysWithinScanOutcomes
