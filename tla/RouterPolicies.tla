--------------------------- MODULE RouterPolicies ---------------------------
(***************************************************************************)
(* The validated policies.yaml (router_common/policies.py) and the pure    *)
(* pin and escalation transitions over it (session_router/state_machine.py *)
(* build_pin_record, escalate, subagent_tier).                             *)
(*                                                                         *)
(* A tier is its position in the ladder, cheapest first: tier names are    *)
(* distinct (policies.py:66-68), so a policy_name and a position are the   *)
(* same thing as long as the ladder does not change.  Two tiers may share  *)
(* a model, and default_model need not be the model of any tier.           *)
(***************************************************************************)
EXTENDS Naturals, Sequences

CONSTANTS
    Models,           \* model ids the proxy knows
    Ladder,           \* tiers: the model of each tier, cheapest first
    DefaultModel,     \* default_model
    ForceTier,        \* path_overrides.force_tier, as a position
    MaxEscalations    \* escalation.max_escalations

\* PoliciesConfig._validate: at least one tier, and force_tier is a tier.
ASSUME PoliciesAssumption ==
    /\ Ladder \in Seq(Models)
    /\ Len(Ladder) > 0
    /\ DefaultModel \in Models
    /\ ForceTier \in 1..Len(Ladder)
    /\ MaxEscalations \in Nat

TopTier == Len(Ladder)
Tiers == 1..TopTier

IsDefault(t) == Ladder[t] = DefaultModel

\* The first tier whose model is default_model, else the middle of the ladder.
DefaultTier ==
    IF \E t \in Tiers : IsDefault(t)
    THEN CHOOSE t \in Tiers : IsDefault(t) /\ \A u \in 1..(t-1) : ~IsDefault(u)
    ELSE TopTier \div 2 + 1

CheapestTier == 1

-----------------------------------------------------------------------------
(***************************************************************************)
(* The record a session key holds in Redis.  "absent" stands for no key:   *)
(* what a GET that misses, or that fails, gives the caller.  `mark` is the *)
(* msg_count of the record's scan state.  The fields nothing branches on   *)
(* (confidence, pinned_at, hashes, aliases) are left out.                  *)
(***************************************************************************)
States == {"absent", "classifying", "pinned"}

SessionRecord ==
    [state      : States,
     tier       : Tiers,
     model      : Models,
     override   : BOOLEAN,
     classified : BOOLEAN,
     esc        : Nat,
     mark       : Nat]

Unpinned(state) ==
    [state |-> state, tier |-> DefaultTier, model |-> DefaultModel,
     override |-> FALSE, classified |-> FALSE, esc |-> 0, mark |-> 0]

NoRecord == Unpinned("absent")
ClassifyingPlaceholder == Unpinned("classifying")

Pinned(record) == record.state = "pinned"

\* What the classifier can answer: a tier of the ladder, or nothing usable.
NoVerdict == 0
Verdicts == Tiers \cup {NoVerdict}

\* Mutant of BuildPinRecord: a fallback pin keeps the verdict's tier.
BuildPinRecord_NoFallback(verdict, override, n) ==
    [state |-> "pinned", tier |-> IF override THEN ForceTier ELSE verdict,
     model |-> IF override THEN Ladder[ForceTier] ELSE DefaultModel, override |-> override,
     classified |-> FALSE, esc |-> 0, mark |-> n]

\* Precedence: path override, then the classifier's verdict, then the default.
\* Only the default pin names default_model rather than its tier's own model.
BuildPinRecord(verdict, override, n) ==
    LET tier == IF override THEN ForceTier
                ELSE IF verdict # NoVerdict THEN verdict ELSE DefaultTier
        named == override \/ verdict # NoVerdict
    IN  [state      |-> "pinned",
         tier       |-> tier,
         model      |-> IF named THEN Ladder[tier] ELSE DefaultModel,
         override   |-> override,
         classified |-> ~override /\ verdict # NoVerdict,
         esc        |-> 0,
         mark       |-> n]

\* Mutant of CanEscalate: the cap on escalations is not checked.
CanEscalate_NoCap(record) == Pinned(record) /\ record.tier < TopTier

\* escalate returns a record (rather than None) exactly when this holds.
CanEscalate(record) ==
    /\ Pinned(record)
    /\ record.esc < MaxEscalations
    /\ record.tier < TopTier

\* Mutant of Escalated: the step is not counted.
Escalated_NotCounted(record) ==
    [record EXCEPT !.tier = @ + 1, !.model = Ladder[record.tier + 1]]

Escalated(record) ==
    [record EXCEPT !.tier = @ + 1, !.model = Ladder[record.tier + 1], !.esc = @ + 1]

\* One tier below the parent, except below a mission-critical parent.
SubagentTier(parent) ==
    IF parent.override \/ parent.tier = 1 THEN parent.tier ELSE parent.tier - 1

\* The tier a record was pinned at, before its escalations.
BaseTier(record) == record.tier - record.esc
=============================================================================
