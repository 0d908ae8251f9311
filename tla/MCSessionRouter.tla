-------------------------- MODULE MCSessionRouter --------------------------
(***************************************************************************)
(* Small instances of SessionRouter for TLC.                               *)
(***************************************************************************)
EXTENDS SessionRouter, TLC

\* Three tiers, the middle one the default's, as the second of policies.yaml's four.
MCModels == {"small", "medium", "large"}
MCLadder == <<"small", "medium", "large">>

\* A session s, and a subagent a of it.
MCSessions == {"s"}
MCAgents == {"a"}

Plain(n) == [session |-> "s", agent |-> "none", sub |-> FALSE, n |-> n,
             header |-> FALSE, override |-> FALSE, side |-> FALSE]

Critical(n) == [Plain(n) EXCEPT !.override = TRUE]
Asking(n) == [Plain(n) EXCEPT !.header = TRUE]
Housekeeping == [Plain(1) EXCEPT !.side = TRUE]
Subagent(n) == [Plain(n) EXCEPT !.sub = TRUE, !.agent = "a"]
\* A subagent that does not send its id is routed by its parent's key.
Nameless(n) == [Plain(n) EXCEPT !.sub = TRUE]

\* A conversation that grows, or is resent or compacted, and one that asks for more.
GrowingInputs == {Plain(1), Plain(2), Critical(1), Asking(2)}
RaceInputs == {Plain(1), Critical(1), Asking(1)}
LiveInputs == {Plain(1), Critical(2), Subagent(1), Nameless(1)}
FamilyInputs == {Plain(1), Critical(2), Asking(2), Housekeeping, Subagent(1), Nameless(1)}

RequestSymmetry == Permutations(Requests)
=============================================================================
