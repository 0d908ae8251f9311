--------------------------- MODULE OverrideTable ---------------------------
(***************************************************************************)
(* The overrides the hook has logged (hook.py:275-292): a call of a        *)
(* concrete model by a session that says who it is is an event, but not    *)
(* while _override_seen remembers the pair of the two.                     *)
(***************************************************************************)
EXTENDS Naturals, SequencesExt, FiniteSets

CONSTANTS
    SessionIds,       \* what the session headers may say
    ConcreteModels,   \* models that are asked for by name
    DedupeMax,        \* pairs the table remembers (4096)
    MaxLogged         \* bound: override events

ASSUME TableAssumption == DedupeMax \in Nat \ {0} /\ MaxLogged \in Nat

Pairs == SessionIds \X ConcreteModels

VARIABLES
    seen,             \* _override_seen, oldest first
    asked,            \* the pairs that were called
    logged            \* the override events, in order

tableVars == <<seen, asked, logged>>

TableTypeOK ==
    /\ seen \in Seq(Pairs) /\ Len(seen) <= DedupeMax
    /\ logged \in Seq(Pairs)
    /\ asked \subseteq Pairs

TableInit == seen = <<>> /\ asked = {} /\ logged = <<>>

-----------------------------------------------------------------------------
\* Mutant of Remember: the table is never trimmed.
Remember_Untrimmed(pair) == Append(seen, pair)

\* Mutant of Remember: the table is trimmed one too early.
Remember_TooShort(pair) ==
    LET longer == Append(seen, pair)
    IN  IF Len(longer) >= DedupeMax THEN Tail(longer) ELSE longer

Remember(pair) ==
    LET longer == Append(seen, pair)
    IN  IF Len(longer) > DedupeMax THEN Tail(longer) ELSE longer

\* Mutant of IsNews: one event for a session, whichever models it calls.
IsNews_PerSession(pair) == \A i \in DOMAIN seen : seen[i][1] # pair[1]

IsNews(pair) == pair \notin ToSet(seen)

\* _maybe_log_override, once the session is resolved.
Call(pair) ==
    /\ asked' = asked \cup {pair}
    /\ IF IsNews(pair)
       THEN /\ Len(logged) < MaxLogged
            /\ seen' = Remember(pair)
            /\ logged' = Append(logged, pair)
       ELSE UNCHANGED <<seen, logged>>

TableNext == \E pair \in Pairs : Call(pair)

TableSpec == TableInit /\ [][TableNext]_tableVars

-----------------------------------------------------------------------------
\* hook.py:276, "log once per session+model": an override is logged again only after
\* DedupeMax other pairs have been.
RepeatsAreSpaced ==
    \A i, j \in DOMAIN logged : i < j /\ logged[i] = logged[j] =>
        Cardinality(ToSet(SubSeq(logged, i + 1, j - 1)) \ {logged[i]}) >= DedupeMax

\* hook.py:276: every model a session has called by name is in the log.
OverridesAreReported == asked \subseteq ToSet(logged)
=============================================================================
