\* A session and its subagent under one key, as with SUBAGENT_ROUTING_ENABLED off.
SPECIFICATION Spec
CONSTANTS
    MaxTail = 2
    Threshold = 2
    MaxSteps = 2
    CompactHeaders = {FALSE}
    Conversations = {"main", "sub"}
    ToolTurns <- MCToolTurns
    MaxTurn = 2
    MaxLength = 4
INVARIANTS
    ScannedOnce
