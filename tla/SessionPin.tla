----------------------------- MODULE SessionPin -----------------------------
(***************************************************************************)
(* What the router promises a session, without saying how: a session is    *)
(* unknown, then claimed by one request that decides its tier, then pinned *)
(* to that tier, which only climbs, one rung at a time and no more than    *)
(* MaxEscalations rungs, until the session is forgotten.                   *)
(*                                                                         *)
(* This is the Redis entry of a key as state_machine.py:3-6 describes it.  *)
(* SessionRouter implements it for the requests of a session that come     *)
(* one after another (SessionRouter!PinOf is the refinement mapping).      *)
(***************************************************************************)
EXTENDS Naturals

CONSTANTS Keys, TopTier, MaxEscalations

VARIABLE session      \* key -> [status, tier, steps]

Unknown == [status |-> "unknown", tier |-> 0, steps |-> 0]
BeingDecided == [status |-> "claimed", tier |-> 0, steps |-> 0]
At(tier, steps) == [status |-> "pinned", tier |-> tier, steps |-> steps]

Init == session = [k \in Keys |-> Unknown]

Become(k, state) == session' = [session EXCEPT ![k] = state]

Decide(k) ==
    /\ session[k] = Unknown
    /\ Become(k, BeingDecided)

PinTo(k, tier) ==
    /\ session[k] = BeingDecided
    /\ Become(k, At(tier, 0))

Climb(k) ==
    /\ session[k].status = "pinned"
    /\ session[k].tier < TopTier
    /\ session[k].steps < MaxEscalations
    /\ Become(k, At(session[k].tier + 1, session[k].steps + 1))

Forget(k) ==
    /\ session[k] # Unknown
    /\ Become(k, Unknown)

Next ==
    \E k \in Keys :
        \/ Decide(k)
        \/ \E tier \in 1..TopTier : PinTo(k, tier)
        \/ Climb(k)
        \/ Forget(k)

Spec == Init /\ [][Next]_session
=============================================================================
