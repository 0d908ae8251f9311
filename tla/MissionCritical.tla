--------------------------- MODULE MissionCritical ---------------------------
(***************************************************************************)
(* SessionRouter with a memory: the sessions that a path override has      *)
(* force-pinned.  A record says of itself whether it was forced, which is  *)
(* no use once another pin is written over it; `forced` is kept beside the *)
(* store and is lost only with the record itself.                          *)
(***************************************************************************)
EXTENDS SessionRouter

VARIABLE forced   \* history variable: the keys that were force-pinned and are pinned still

\* A key is remembered when a forced pin reaches it, and forgotten when Redis has no pin
\* of it any more (expiry, eviction, a new claim): the session starts anew then.
Remember ==
    forced' = {k \in Keys : Pinned(store'[k]) /\ (k \in forced \/ store'[k].override)}

RememberingSpec == Init /\ forced = {} /\ [][Next /\ Remember]_<<vars, forced>>

AtTheFloor(record) == Pinned(record) /\ record.tier >= ForceTier

\* policies.yaml:34-35: a session force-pinned by a path override is "never eligible for
\* downgrade".  Whatever is written over its record, by whichever request and from however
\* old a copy, it stays at force_tier or above; so does every copy that a request answers
\* from or is about to write back.  The code gives this while a claim outlives its winner's
\* work (no "stall", no "evict"): a pin that comes later is written whatever is there.
MissionCriticalFloor ==
    /\ \A k \in forced : AtTheFloor(store[k])
    /\ \A r \in Requests : HoldsCopy(r) /\ KeyFor(r) \in forced => AtTheFloor(rec[r])
=============================================================================
