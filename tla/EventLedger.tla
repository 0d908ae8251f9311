---------------------------- MODULE EventLedger ----------------------------
(***************************************************************************)
(* What the decision log promises its callers (decision_log.py:1-9),       *)
(* without queue, batches or database: an event is taken or refused at     *)
(* once, and what was taken stays until it is stored.  One that cannot     *)
(* stay is counted.  A stored event may stay, to be stored again.  Only    *)
(* closing the log lets events go uncounted.                               *)
(*                                                                         *)
(* DecisionLog implements it (DecisionLog!Ledger).                         *)
(***************************************************************************)
EXTENDS Naturals, FiniteSets

CONSTANT Events

VARIABLES
    accepted,         \* the events that were emitted
    pending,          \* those still in memory
    stored,           \* those in the database
    lost,             \* how many were refused or thrown away
    closed            \* whether the log was closed

vars == <<accepted, pending, stored, lost, closed>>

Init ==
    /\ accepted = {} /\ pending = {} /\ stored = {}
    /\ lost = 0 /\ closed = FALSE

Accept(e) ==
    /\ accepted' = accepted \cup {e}
    /\ \/ pending' = pending \cup {e} /\ UNCHANGED lost
       \/ lost' = lost + 1 /\ UNCHANGED pending
    /\ UNCHANGED <<stored, closed>>

\* Some events are written, some of the stored ones leave, some others are thrown away.
Flush ==
    /\ ~closed
    /\ \E written, left \in SUBSET pending : \E discarded \in SUBSET left :
          /\ stored' = stored \cup written
          /\ pending' = pending \ left
          /\ left \ discarded \subseteq stored'
          /\ lost' = lost + Cardinality(discarded)
    /\ UNCHANGED <<accepted, closed>>

Close ==
    /\ ~closed /\ closed' = TRUE
    /\ pending' \in SUBSET pending
    /\ UNCHANGED <<accepted, stored, lost>>

Next == (\E e \in Events \ accepted : Accept(e)) \/ Flush \/ Close

Spec == Init /\ [][Next]_vars

\* Until it is closed, the log has lost sight of no event without counting it.
NothingVanishes ==
    closed \/ Cardinality(accepted \ (pending \cup stored)) <= lost
=============================================================================
