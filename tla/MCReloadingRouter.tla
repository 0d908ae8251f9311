------------------------- MODULE MCReloadingRouter -------------------------
(***************************************************************************)
(* Instances of ReloadingRouter for TLC.                                   *)
(***************************************************************************)
EXTENDS ReloadingRouter, TLC

Tier(name, model) == [name |-> name, model |-> model]

\* The second version is a mistake.
MCBroken == {2}

MCTierNames == {"quick", "standard", "high", "ultra", "max"}

MCModels == {"haiku", "sonnet", "opus", "opus-next", "fable"}

\* Like the policies.yaml of the repository, its default the second of its tiers; the
\* third version renames the top tier and gives the one below a newer model.
MCPolicies ==
    (1 :> [tiers |-> <<Tier("quick", "haiku"), Tier("standard", "sonnet"),
                       Tier("high", "opus"), Tier("ultra", "fable")>>,
           default |-> "sonnet", force |-> "high", cap |-> 1])
 @@ (3 :> [tiers |-> <<Tier("quick", "haiku"), Tier("standard", "sonnet"),
                       Tier("high", "opus-next"), Tier("max", "fable")>>,
           default |-> "sonnet", force |-> "high", cap |-> 1])
=============================================================================
