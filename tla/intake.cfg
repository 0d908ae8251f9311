\* Six conversations, three of them with an id, and a table of two overrides.
SPECIFICATION Spec
CONSTANTS
    Conversations <- MCConversations
    Shape <- MCShape
    Contents <- MCContents
    Nesting <- MCNesting
    MaxNesting = 2
    SessionIds <- MCSessionIds
    ConcreteModels = {"m1", "m2"}
    Presences <- MCPresences
    SessionHeaders <- MCHeaders
    SystemLimit = 3
    MessageLimit = 2
    ExcerptLen = 2
    ForceTierName = "high"
    CriticalWords = {"vault"}
    HousekeepingWords = {"title"}
    DedupeMax = 2
    MaxMessages = 3
    MaxLogged = 4
INVARIANTS
    TypeOK
    IdentityIsStable
    KeysTellApart
    RepeatsAreSpaced
    OverridesAreReported
