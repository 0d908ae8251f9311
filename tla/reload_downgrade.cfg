\* The same requests and edits.
SPECIFICATION RSpec
CONSTANTS
    MaxEdits = 3
    Broken <- MCBroken
    TierNames <- MCTierNames
    Models <- MCModels
    Policies <- MCPolicies
PROPERTIES
    EscalationsGoUp
