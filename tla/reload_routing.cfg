\* Requests routed while the file is edited: three versions, the second broken, the third
\* with a tier renamed and another model.
SPECIFICATION FairSpec
CONSTANTS
    MaxEdits = 3
    Broken <- MCBroken
    TierNames <- MCTierNames
    Models <- MCModels
    Policies <- MCPolicies
INVARIANTS
    RTypeOK
    StaleIsNoticed
PROPERTIES
    OneVersionDecides
    ConfidenceIsEarned
    HookHotReloads
    SvcHotReloads
    SettledCallsFollowTheFile
