--------------------------- MODULE SessionRouter ---------------------------
(***************************************************************************)
(* The pre-call hook (session_router/hook.py) over the session store and   *)
(* the classifier.  Requests[r] runs _route once; a step is the code       *)
(* between two awaits, so requests of one or of several proxy workers      *)
(* interleave exactly where the code gives up control.                     *)
(*                                                                         *)
(*   idle -> get -> scan -> [update] -> done          the session is pinned *)
(*             `--> done                              another one claimed it*)
(*             `--> claim -> [parent | classify] -> pin -> emit -> done     *)
(*                     `--> done                      the claim was lost    *)
(***************************************************************************)
EXTENDS SessionStore, EscalationWatermark, FiniteSets

CONSTANTS
    Requests,         \* the calls of the virtual model that are made
    Inputs,           \* what those calls may carry
    ShadowMode,       \* SHADOW_MODE
    MaxInFlight,      \* requests of one key the clients have under way at once
    Environment       \* the faults that may happen

Faults ==
    {"error",         \* a Redis command fails before it is applied
     "lost",          \* a Redis command is applied and its reply is lost
     "crash",         \* a worker dies, or a client hangs up and its task is cancelled
     "bug",           \* the hook raises and async_pre_call_hook fails open
     "idle",          \* a session is silent for ttl_seconds
     "stall",         \* a claim's 30s pass while its winner is still at work
     "evict"}         \* Redis drops a key early: eviction, flush, failover

ASSUME RouterAssumption ==
    /\ Inputs \in SUBSET Request
    /\ Inputs # {}
    /\ ShadowMode \in BOOLEAN
    /\ {KeepTtl, HasGetex} \subseteq BOOLEAN
    /\ Environment \subseteq Faults

VARIABLES
    pc,               \* request -> where it is in the hook
    inp,              \* request -> what it carries
    rec,              \* request -> the record it works on
    decided,          \* request -> the model the hook decided (meta["lite_router"])
    served,           \* request -> the model the hook left in data["model"]
    log               \* key -> the decision events emitted for it

vars == <<store, ttl, pc, inp, rec, decided, served, log>>

PC == {"idle", "get", "expire", "claim", "parent", "expireParent", "classify", "pin",
       "emit", "scan", "update", "done", "aborted"}

Event == [type : {"classified", "fallback", "pinned", "escalated"}, model : Models]

TypeOK ==
    /\ StoreTypeOK
    /\ pc \in [Requests -> PC]
    /\ inp \in [Requests -> Inputs]
    /\ rec \in [Requests -> SessionRecord]
    /\ decided \in [Requests -> Models]
    /\ served \in [Requests -> Models]
    /\ log \in [Keys -> Seq(Event)]

NoInput == CHOOSE i \in Inputs : TRUE

Init ==
    /\ StoreInit
    /\ pc = [r \in Requests |-> "idle"]
    /\ inp = [r \in Requests |-> NoInput]
    /\ rec = [r \in Requests |-> NoRecord]
    /\ decided = [r \in Requests |-> DefaultModel]
    /\ served = [r \in Requests |-> DefaultModel]
    /\ log = [k \in Keys |-> <<>>]

-----------------------------------------------------------------------------
InFlight(r) == pc[r] \notin {"idle", "done", "aborted"}

\* Between a won SET NX and the return of write_pin.
Winner(r) == pc[r] \in {"parent", "expireParent", "classify", "pin"}

KeyFor(r) == KeyOf(inp[r])

InFlightOn(k) == {r \in Requests : InFlight(r) /\ KeyFor(r) = k}

Reachable == {"ok"} \cup (Environment \cap Outcomes)

Goto(r, label) == pc' = [pc EXCEPT ![r] = label]

\* The tail of _route: stash the decision, and in shadow mode route the default.
Answer(r, model) ==
    /\ Goto(r, "done")
    /\ decided' = [decided EXCEPT ![r] = model]
    /\ served' = [served EXCEPT ![r] = IF ShadowMode THEN DefaultModel ELSE model]

Emit(k, events) == log' = [log EXCEPT ![k] = @ \o events]

EventOf(type, record) == [type |-> type, model |-> record.model]

-----------------------------------------------------------------------------
\* A request of the virtual model reaches the hook.
Arrive(r) ==
    /\ pc[r] = "idle"
    /\ \E i \in Inputs :
          /\ ~i.side
          /\ Cardinality(InFlightOn(KeyOf(i))) < MaxInFlight
          /\ inp' = [inp EXCEPT ![r] = i]
    /\ Goto(r, "get")
    /\ UNCHANGED <<store, ttl, rec, decided, served, log>>

\* Client housekeeping: the cheapest tier, with no session and no stash.
SideChannel(r) ==
    /\ pc[r] = "idle"
    /\ \E i \in Inputs : i.side /\ inp' = [inp EXCEPT ![r] = i]
    /\ Goto(r, "done")
    /\ served' = [served EXCEPT ![r] = Ladder[CheapestTier]]
    /\ UNCHANGED <<store, ttl, rec, decided, log>>

\* The branch on what get_and_refresh returned.
Proceed(r, record) ==
    /\ rec' = [rec EXCEPT ![r] = record]
    /\ \/ /\ Pinned(record)
          /\ Goto(r, "scan")
          /\ UNCHANGED <<decided, served>>
       \/ /\ record.state = "classifying"
          /\ Answer(r, DefaultModel)
       \/ /\ record.state = "absent"
          /\ Goto(r, "claim")
          /\ UNCHANGED <<decided, served>>

Get(r) ==
    /\ pc[r] = "get" /\ HasGetex
    /\ \E outcome \in Reachable :
          /\ GetAndRefresh(KeyFor(r), outcome)
          /\ Proceed(r, Fetched(KeyFor(r), outcome))
    /\ UNCHANGED <<inp, log>>

\* The GET of the pipeline: what it found is known only when the whole pipeline is through.
PipelineGet(r) ==
    /\ pc[r] = "get" /\ ~HasGetex
    /\ rec' = [rec EXCEPT ![r] = store[KeyFor(r)]]
    /\ Goto(r, "expire")
    /\ UNCHANGED <<store, ttl, inp, decided, served, log>>

\* The EXPIRE of the pipeline; if either command fails, so does get_and_refresh.
PipelineExpire(r) ==
    /\ pc[r] = "expire"
    /\ \E outcome \in Reachable :
          /\ Expire(KeyFor(r), outcome)
          /\ Proceed(r, IF outcome = "ok" THEN rec[r] ELSE NoRecord)
    /\ UNCHANGED <<inp, log>>

\* Mutant of EscalationEvents: a mission-critical session escalates silently.
EscalationEvents_Silent(record) ==
    IF record.override THEN <<>> ELSE <<EventOf("escalated", Escalated(record))>>

EscalationEvents(record) == <<EventOf("escalated", Escalated(record))>>

\* _handle_pinned up to its write: detect, escalate, emit, or nothing to write.
HandlePinned(r) ==
    /\ pc[r] = "scan"
    /\ \E o \in ScanOutcomes(rec[r].mark, inp[r].n, inp[r].header) :
          LET escalates == o.signal /\ CanEscalate(rec[r])
              spent == Consume(o.mark, inp[r].n)
          IN
          \/ /\ escalates
             /\ rec' = [rec EXCEPT ![r] = [Escalated(rec[r]) EXCEPT !.mark = spent]]
             /\ Emit(KeyFor(r), EscalationEvents(rec[r]))
             /\ Goto(r, "update")
             /\ UNCHANGED <<decided, served>>
          \/ /\ ~escalates /\ o.changed
             /\ rec' = [rec EXCEPT ![r].mark = o.mark]
             /\ Goto(r, "update")
             /\ UNCHANGED <<decided, served, log>>
          \/ /\ ~escalates /\ ~o.changed
             /\ Answer(r, rec[r].model)
             /\ UNCHANGED <<rec, log>>
    /\ UNCHANGED <<store, ttl, inp>>

\* The whole record is written back, whatever the store holds by now.
WriteBack(r) ==
    /\ pc[r] = "update"
    /\ \E outcome \in Reachable : Update(KeyFor(r), rec[r], outcome)
    /\ Answer(r, rec[r].model)
    /\ UNCHANGED <<inp, rec, log>>

\* _handle_first_request up to its next await: a lost claim is answered at once,
\* a path override needs no classifier.
Claim(r) ==
    /\ pc[r] = "claim"
    /\ \E outcome \in Reachable :
          /\ ClaimForClassification(KeyFor(r), outcome)
          /\ \/ /\ ~Claimed(KeyFor(r), outcome)
                /\ Answer(r, DefaultModel)
                /\ UNCHANGED rec
             \/ /\ Claimed(KeyFor(r), outcome)
                /\ \/ /\ RoutedAsSubagent(inp[r])
                      /\ Goto(r, "parent")
                      /\ UNCHANGED rec
                   \/ /\ ~RoutedAsSubagent(inp[r]) /\ inp[r].override
                      /\ Goto(r, "pin")
                      /\ rec' = [rec EXCEPT ![r] = BuildPinRecord(NoVerdict, TRUE, inp[r].n)]
                   \/ /\ ~RoutedAsSubagent(inp[r]) /\ ~inp[r].override
                      /\ Goto(r, "classify")
                      /\ UNCHANGED rec
                /\ UNCHANGED <<decided, served>>
    /\ UNCHANGED <<inp, log>>

\* The pin of a subagent: below its parent's, or at the default when it sees none.
SubagentPin(r, parent) ==
    BuildPinRecord(IF Pinned(parent) THEN SubagentTier(parent) ELSE DefaultTier, FALSE, inp[r].n)

ReadParent(r) ==
    /\ pc[r] = "parent" /\ HasGetex
    /\ \E outcome \in Reachable :
          /\ GetAndRefresh(BaseKey(inp[r]), outcome)
          /\ rec' = [rec EXCEPT ![r] = SubagentPin(r, Fetched(BaseKey(inp[r]), outcome))]
    /\ Goto(r, "pin")
    /\ UNCHANGED <<inp, decided, served, log>>

\* Mutant of PipelineGetParent: a subagent waits until its parent is pinned.
PipelineGetParent_Waits(r) ==
    /\ pc[r] = "parent" /\ Pinned(store[BaseKey(inp[r])])
    /\ rec' = [rec EXCEPT ![r] = SubagentPin(r, store[BaseKey(inp[r])])]
    /\ Goto(r, "expireParent")
    /\ UNCHANGED <<store, ttl, inp, decided, served, log>>

PipelineGetParent(r) ==
    /\ pc[r] = "parent" /\ ~HasGetex
    /\ rec' = [rec EXCEPT ![r] = SubagentPin(r, store[BaseKey(inp[r])])]
    /\ Goto(r, "expireParent")
    /\ UNCHANGED <<store, ttl, inp, decided, served, log>>

PipelineExpireParent(r) ==
    /\ pc[r] = "expireParent"
    /\ \E outcome \in Reachable :
          /\ Expire(BaseKey(inp[r]), outcome)
          /\ rec' = [rec EXCEPT ![r] = IF outcome = "ok" THEN @ ELSE SubagentPin(r, NoRecord)]
    /\ Goto(r, "pin")
    /\ UNCHANGED <<inp, decided, served, log>>

\* The classifier answers any tier of the ladder, or nothing usable.
Classify(r) ==
    /\ pc[r] = "classify"
    /\ \E verdict \in Verdicts :
          rec' = [rec EXCEPT ![r] = BuildPinRecord(verdict, FALSE, inp[r].n)]
    /\ Goto(r, "pin")
    /\ UNCHANGED <<store, ttl, inp, decided, served, log>>

Pin(r) ==
    /\ pc[r] = "pin"
    /\ \E outcome \in Reachable : WritePin(KeyFor(r), rec[r], outcome)
    /\ Goto(r, "emit")
    /\ UNCHANGED <<inp, rec, decided, served, log>>

\* Mutant of PinEvents: only classified pins are logged.
PinEvents_ClassifiedOnly(r) ==
    IF rec[r].classified THEN <<EventOf("pinned", rec[r])>> ELSE <<>>

\* The events of a fresh pin: how the tier was chosen, unless it was inherited or
\* forced, and the pin itself.
PinEvents(r) ==
    IF RoutedAsSubagent(inp[r]) \/ rec[r].override
    THEN <<EventOf("pinned", rec[r])>>
    ELSE <<EventOf(IF rec[r].classified THEN "classified" ELSE "fallback", rec[r]),
           EventOf("pinned", rec[r])>>

EmitPinned(r) ==
    /\ pc[r] = "emit"
    /\ Emit(KeyFor(r), PinEvents(r))
    /\ Answer(r, rec[r].model)
    /\ UNCHANGED <<store, ttl, inp, rec>>

-----------------------------------------------------------------------------
\* The request dies where it stands: what it wrote stays, what it did not is lost.
Crash(r) ==
    /\ "crash" \in Environment
    /\ InFlight(r)
    /\ Goto(r, "aborted")
    /\ UNCHANGED <<store, ttl, inp, rec, decided, served, log>>

\* async_pre_call_hook's catch-all: the default model, and nothing is undone.
FailOpen(r) ==
    /\ "bug" \in Environment
    /\ InFlight(r)
    /\ Goto(r, "done")
    /\ served' = [served EXCEPT ![r] = DefaultModel]
    /\ UNCHANGED <<store, ttl, inp, rec, decided, log>>

\* Mutant of ClaimLapses: the claim's deadline is shorter than a classification.
ClaimLapses_TooSoon(k) ==
    /\ ttl[k] = "claim"
    /\ Drop(k)
    /\ UNCHANGED <<pc, inp, rec, decided, served, log>>

\* CLAIM_TTL_S is far above what a winner takes (1s classifier, 0.25s a command).
ClaimLapses(k) ==
    /\ ttl[k] = "claim"
    /\ "stall" \in Environment \/ ~\E r \in Requests : Winner(r) /\ KeyFor(r) = k
    /\ Drop(k)
    /\ UNCHANGED <<pc, inp, rec, decided, served, log>>

\* ttl_seconds is hours and every request of the key slides it.
SessionLapses(k) ==
    /\ "idle" \in Environment
    /\ ttl[k] = "session"
    /\ InFlightOn(k) = {}
    /\ Drop(k)
    /\ UNCHANGED <<pc, inp, rec, decided, served, log>>

Evict(k) ==
    /\ "evict" \in Environment
    /\ Drop(k)
    /\ UNCHANGED <<pc, inp, rec, decided, served, log>>

\* Every request is over: nothing is left to happen but deadlines.
Terminated ==
    /\ \A r \in Requests : ~InFlight(r) /\ pc[r] # "idle"
    /\ UNCHANGED vars

\* The hook's own steps, each of which ends at an await or at the answer.
HookStep(r) ==
    \/ Get(r) \/ PipelineGet(r) \/ PipelineExpire(r) \/ HandlePinned(r) \/ WriteBack(r)
    \/ Claim(r) \/ ReadParent(r) \/ PipelineGetParent(r) \/ PipelineExpireParent(r)
    \/ Classify(r) \/ Pin(r) \/ EmitPinned(r)

RequestStep(r) ==
    \/ Arrive(r) \/ SideChannel(r) \/ HookStep(r) \/ Crash(r) \/ FailOpen(r)

KeyStep(k) == ClaimLapses(k) \/ SessionLapses(k) \/ Evict(k)

Next ==
    \/ \E r \in Requests : RequestStep(r)
    \/ \E k \in Keys : KeyStep(k)
    \/ Terminated

Spec == Init /\ [][Next]_vars

\* A coroutine that is not cancelled runs on: every await has a timeout.
Fairness == \A r \in Requests : WF_vars(HookStep(r))

FairSpec == Spec /\ Fairness

-----------------------------------------------------------------------------
(***************************************************************************)
(* Properties.                                                             *)
(***************************************************************************)

\* A pinned record stands on a rung it can have climbed to: at most MaxEscalations
\* steps above a real tier, force_tier if it is marked as forced, and naming its tier's
\* own model unless it is the unescalated default pin (state_machine.py:1-6, 40-97).
OnTheLadder(record) ==
    Pinned(record) =>
        /\ record.esc <= MaxEscalations
        /\ BaseTier(record) \in Tiers
        /\ record.override => BaseTier(record) = ForceTier
        /\ \/ record.model = Ladder[record.tier]
           \/ /\ record.esc = 0 /\ ~record.override /\ ~record.classified
              /\ record.tier = DefaultTier /\ record.model = DefaultModel

\* Whatever is lost, repeated or interleaved, every stored record and every copy a
\* request carries is on the ladder.
LadderDiscipline ==
    /\ \A k \in Keys : OnTheLadder(store[k])
    /\ \A r \in Requests : OnTheLadder(rec[r])

EscalationsLogged(k) == Cardinality({j \in DOMAIN log[k] : log[k][j].type = "escalated"})

\* An escalation is emitted before it is written (hook.py:169-186), so the log never
\* knows of fewer escalations than a record of the key has been through.
EscalationsAreLogged ==
    /\ \A k \in Keys : store[k].esc <= EscalationsLogged(k)
    /\ \A r \in Requests : rec[r].esc <= EscalationsLogged(KeyFor(r))

\* session_store.py:64: SET NX lets one request at a time classify a key, and the
\* placeholder it claimed stays its own until it writes the pin.
ClaimExclusion ==
    \A r \in Requests : Winner(r) =>
        /\ store[KeyFor(r)].state = "classifying"
        /\ \A w \in Requests : Winner(w) /\ KeyFor(w) = KeyFor(r) => w = r

SamePin(a, b) ==
    Pinned(a) /\ Pinned(b) /\ BaseTier(a) = BaseTier(b) /\ a.override = b.override

\* A request between its read of a pin and its write of it.
HoldsCopy(r) == pc[r] \in {"scan", "update"} \/ (pc[r] = "expire" /\ Pinned(rec[r]))

\* hook.py:120-188: between its read and its write a request carries a copy of the
\* record; however stale that copy is, it descends from the pin the store still holds.
CopiesAgree == \A r \in Requests : HoldsCopy(r) => SamePin(rec[r], store[KeyFor(r)])

\* Once pinned, a record keeps the tier it was first pinned at and its override mark
\* for as long as it lives: no second classification and no stale write of an earlier
\* record replaces them.
PinnedForLife ==
    [][\A k \in Keys : Pinned(store[k]) /\ Pinned(store'[k]) => SamePin(store'[k], store[k])]_vars

\* test_routing.py:137-138: the requests of a session that never escalated were
\* answered with its pin or, while it was being classified, with the default.
NoThirdModel ==
    \A r, s \in Requests :
        /\ pc[r] = "done" /\ pc[s] = "done"
        /\ KeyFor(r) = KeyFor(s) /\ EscalationsLogged(KeyFor(r)) = 0
        => decided[r] = decided[s] \/ DefaultModel \in {decided[r], decided[s]}

\* README.md:164-165, "No downgrades, ever": while a session's record lives, its tier
\* never goes down.
StickyTier ==
    [][\A k \in Keys : Pinned(store[k]) /\ Pinned(store'[k]) =>
          store'[k].tier >= store[k].tier]_vars

\* escalation.py:113-115, "so the same evidence never fires twice": a stored escalation
\* came from the header or from a history of another length than the one last scanned,
\* so sending a request again does not escalate again.
ResentHistoryIsSpent ==
    [][\A k \in Keys : Pinned(store[k]) /\ Pinned(store'[k]) /\ store'[k].esc > store[k].esc =>
          \E r \in Requests : /\ pc[r] = "update" /\ pc'[r] # "update" /\ KeyFor(r) = k
                              /\ inp[r].header \/ inp[r].n # store[k].mark]_vars

\* The log explains the routing: a model that answered a request is the default or is
\* named by an event of its key.
AnswersAreLogged ==
    \A r \in Requests : pc[r] = "done" /\ ~inp[r].side =>
        \/ decided[r] = DefaultModel
        \/ \E j \in DOMAIN log[KeyFor(r)] : log[KeyFor(r)][j].model = decided[r]

\* hook.py:120-133: while no worker dies, a request that entered the hook comes out of
\* it answered, whichever races it loses.
EveryRequestIsAnswered == \A r \in Requests : pc[r] = "get" ~> pc[r] = "done"

\* hook.py:194-250: without faults a claimed key ends up pinned, by whichever of the
\* winner's paths; no path leaves the placeholder to its deadline.
ClaimIsPinned == \A k \in Keys : store[k].state = "classifying" ~> Pinned(store[k])

\* session_store.py:64, "SET NX a short-lived placeholder": a placeholder never has
\* more than the claim's own time to live.
PlaceholderIsShortLived ==
    \A k \in Keys : store[k].state = "classifying" => ttl[k] = "claim"

-----------------------------------------------------------------------------
(***************************************************************************)
(* The abstract session (SessionPin) behind each record: what is forgotten *)
(* is the watermark, the model's name and where the pin came from.         *)
(***************************************************************************)
PinOf(record) ==
    [status |-> IF record.state = "absent" THEN "unknown"
                ELSE IF Pinned(record) THEN "pinned" ELSE "claimed",
     tier   |-> IF Pinned(record) THEN record.tier ELSE 0,
     steps  |-> record.esc]

Promise == INSTANCE SessionPin WITH session <- [k \in Keys |-> PinOf(store[k])]

\* When the requests of a session come one after another, the store keeps the promise
\* of SessionPin through lost replies, failed commands and silence.
KeepsThePromise == Promise!Spec
=============================================================================
