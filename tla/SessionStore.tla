---------------------------- MODULE SessionStore ----------------------------
(***************************************************************************)
(* The Redis-backed session records (session_router/session_store.py).     *)
(*                                                                         *)
(* Each command is atomic; get_and_refresh is two on a server without      *)
(* GETEX.  What the caller sees of an operation is one of three outcomes,  *)
(* since every method swallows RedisError:                                 *)
(*   "ok"     applied, and the reply arrived                               *)
(*   "error"  not applied                                                  *)
(*   "lost"   applied, but the reply did not arrive (socket timeout)       *)
(* The last two look the same to the caller.                               *)
(*                                                                         *)
(* Time is not counted.  ttl[k] names which deadline runs on a key: the    *)
(* claim's CLAIM_TTL_S, the session's ttl_seconds, or none at all.         *)
(***************************************************************************)
EXTENDS RouterPolicies, SessionKeys

CONSTANTS
    KeepTtl,          \* Redis >= 6.0: SET ... KEEPTTL is supported
    HasGetex          \* Redis >= 6.2: GETEX is supported

VARIABLES
    store,            \* key -> SessionRecord, NoRecord where there is no key
    ttl               \* key -> the deadline that runs on it

storeVars == <<store, ttl>>

Outcomes == {"ok", "error", "lost"}
Deadlines == {"none", "claim", "session", "forever"}

StoreTypeOK ==
    /\ store \in [Keys -> SessionRecord]
    /\ ttl \in [Keys -> Deadlines]

StoreInit ==
    /\ store = [k \in Keys |-> NoRecord]
    /\ ttl = [k \in Keys |-> "none"]

Present(k) == store[k].state # "absent"

\* GETEX: whatever the record is, a placeholder too, its TTL becomes the session's.
GetAndRefresh(k, outcome) ==
    /\ UNCHANGED store
    /\ ttl' = IF outcome # "error" /\ Present(k) THEN [ttl EXCEPT ![k] = "session"] ELSE ttl

\* Without GETEX: EXPIRE, the second command of the pipeline, does that to whatever the key
\* holds by then, which need not be what the GET before it found.
Expire(k, outcome) == GetAndRefresh(k, outcome)

\* The record get_and_refresh returns.
Fetched(k, outcome) == IF outcome = "ok" THEN store[k] ELSE NoRecord

\* SET NX EX CLAIM_TTL_S.
ClaimForClassification(k, outcome) ==
    IF outcome # "error" /\ ~Present(k)
    THEN /\ store' = [store EXCEPT ![k] = ClassifyingPlaceholder]
         /\ ttl' = [ttl EXCEPT ![k] = "claim"]
    ELSE UNCHANGED storeVars

\* Mutant of Claimed: any reply to SET NX counts as a won race.
Claimed_AnyReply(k, outcome) == outcome = "ok"

\* The boolean claim_for_classification returns.
Claimed(k, outcome) == outcome = "ok" /\ ~Present(k)

\* SET EX ttl.
WritePin(k, record, outcome) ==
    IF outcome # "error"
    THEN /\ store' = [store EXCEPT ![k] = record]
         /\ ttl' = [ttl EXCEPT ![k] = "session"]
    ELSE UNCHANGED storeVars

\* SET KEEPTTL: a key that is no longer there has no TTL to keep.
Update(k, record, outcome) ==
    IF outcome # "error"
    THEN /\ store' = [store EXCEPT ![k] = record]
         /\ ttl' = [ttl EXCEPT ![k] = IF ~KeepTtl THEN "session"
                                      ELSE IF Present(k) THEN @ ELSE "forever"]
    ELSE UNCHANGED storeVars

\* Redis drops the key: its deadline passed, or it was evicted or flushed.
Drop(k) ==
    /\ Present(k)
    /\ store' = [store EXCEPT ![k] = NoRecord]
    /\ ttl' = [ttl EXCEPT ![k] = "none"]
=============================================================================
