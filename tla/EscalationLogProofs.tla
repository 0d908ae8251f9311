------------------------- MODULE EscalationLogProofs -------------------------
(***************************************************************************)
(* That the decision log of SessionRouter never misses an escalation the   *)
(* store knows of, for every ladder, any requests and every fault; and     *)
(* that a session whose log has none is answered with one model.           *)
(***************************************************************************)
EXTENDS SessionRouterProofs, FiniteSetTheorems

-----------------------------------------------------------------------------
(***************************************************************************)
(* Counting the escalations of a log.                                      *)
(***************************************************************************)
Places(s) == {j \in DOMAIN s : s[j].type = "escalated"}

\* A log has a number of escalations.
LEMMA PlacesAreFinite ==
    ASSUME NEW s \in Seq(Event)
    PROVE  IsFiniteSet(Places(s)) /\ Cardinality(Places(s)) \in Nat
<1>1. IsFiniteSet(1..Len(s))
  BY FS_Interval
<1>2. Places(s) \subseteq 1..Len(s)
  BY DEF Places
<1>3. IsFiniteSet(Places(s))
  BY <1>1, <1>2, FS_Subset
<1> QED BY <1>3, FS_CardinalityType

\* A log that grows keeps its escalations.
LEMMA LogsGrow ==
    ASSUME NEW s \in Seq(Event), NEW t \in Seq(Event)
    PROVE  Cardinality(Places(s)) <= Cardinality(Places(s \o t))
<1>1. s \o t \in Seq(Event)
  OBVIOUS
<1>2. Places(s) \subseteq Places(s \o t)
  BY DEF Places
<1> QED BY <1>1, <1>2, PlacesAreFinite, FS_Subset

\* An escalation at its end counts one more.
LEMMA EscalationsCount ==
    ASSUME NEW s \in Seq(Event), NEW e \in Event, e.type = "escalated"
    PROVE  Cardinality(Places(s \o <<e>>)) = Cardinality(Places(s)) + 1
<1>1. Len(s) \in Nat /\ Len(s \o <<e>>) = Len(s) + 1
  OBVIOUS
<1>2. /\ \A j \in 1..Len(s) : (s \o <<e>>)[j] = s[j]
      /\ (s \o <<e>>)[Len(s) + 1] = e
  OBVIOUS
<1>3. DOMAIN s = 1..Len(s) /\ DOMAIN (s \o <<e>>) = 1..(Len(s) + 1)
  BY <1>1
<1>4. 1..(Len(s) + 1) = (1..Len(s)) \cup {Len(s) + 1}
  BY <1>1
<1>5. Places(s \o <<e>>) = Places(s) \cup {Len(s) + 1}
  <2> HIDE DEF Event
  <2> QED BY <1>2, <1>3, <1>4 DEF Places
<1>6. Len(s) + 1 \notin Places(s)
  BY <1>1, <1>3 DEF Places
<1> QED BY <1>5, <1>6, PlacesAreFinite, FS_AddElement

-----------------------------------------------------------------------------
(***************************************************************************)
(* The steps of the hook.                                                  *)
(***************************************************************************)

\* What a step does with the log of a key and with the record of a request.
LogKept(k) == Cardinality(Places(log[k])) <= Cardinality(Places(log'[k]))

\* A request changes its key only as it begins; it climbs only with an event in the log.
ClimbLogged(r) ==
    \/ KeyFor(r)' = KeyFor(r) /\ rec'[r].esc \in {0, rec[r].esc, store[KeyFor(r)].esc}
    \/ pc[r] = "idle" /\ rec'[r] = rec[r]
    \/ /\ KeyFor(r)' = KeyFor(r) /\ rec'[r].esc = rec[r].esc + 1
       /\ Cardinality(Places(log'[KeyFor(r)])) = Cardinality(Places(log[KeyFor(r)])) + 1

Steady == (\A k \in Keys : LogKept(k)) /\ (\A r \in Requests : ClimbLogged(r))

\* A step that emits nothing and gives no request a new record.
LEMMA QuietIsSteady ==
    ASSUME TypeOK, UNCHANGED <<inp, rec, log>>
    PROVE  Steady
<1>1. \A k \in Keys : Cardinality(Places(log[k])) \in Nat
  BY PlacesAreFinite DEF TypeOK
<1>2. \A r \in Requests : KeyFor(r)' = KeyFor(r)
  BY DEF KeyFor
<1> QED BY <1>1, <1>2 DEF Steady, LogKept, ClimbLogged

\* A request that begins.
LEMMA BeginningIsSteady ==
    ASSUME TypeOK, NEW r \in Requests, Arrive(r) \/ SideChannel(r)
    PROVE  Steady
<1>1. \A k \in Keys : Cardinality(Places(log[k])) \in Nat
  BY PlacesAreFinite DEF TypeOK
<1>2. pc[r] = "idle" /\ UNCHANGED <<rec, log>>
  BY DEF Arrive, SideChannel
<1>3. \A s \in Requests : s # r => KeyFor(s)' = KeyFor(s)
  BY DEF Arrive, SideChannel, KeyFor, TypeOK
<1> QED BY <1>1, <1>2, <1>3 DEF Steady, LogKept, ClimbLogged

\* A request that takes another record, without a climb.
LEMMA TakingIsSteady ==
    ASSUME TypeOK, UNCHANGED <<inp, log>>, NEW r \in Requests, NEW record,
           rec' = [rec EXCEPT ![r] = record],
           record.esc \in {0, rec[r].esc, store[KeyFor(r)].esc}
    PROVE  Steady
<1>1. \A k \in Keys : Cardinality(Places(log[k])) \in Nat
  BY PlacesAreFinite DEF TypeOK
<1>2. \A s \in Requests : KeyFor(s)' = KeyFor(s)
  BY DEF KeyFor
<1>3. \A s \in Requests : rec'[s] = IF s = r THEN record ELSE rec[s]
  BY DEF TypeOK
<1> QED BY <1>1, <1>2, <1>3 DEF Steady, LogKept, ClimbLogged

\* The events of a key are only ever added to.
LEMMA EmittingKeeps ==
    ASSUME TypeOK, NEW q \in Keys, NEW events \in Seq(Event), Emit(q, events)
    PROVE  \A k \in Keys : LogKept(k)
<1>1. \A k \in Keys : log[k] \in Seq(Event) /\ log'[k] = IF k = q THEN log[k] \o events ELSE log[k]
  BY DEF Emit, TypeOK
<1>2. \A k \in Keys : Cardinality(Places(log[k])) \in Nat
  BY PlacesAreFinite DEF TypeOK
<1> QED BY <1>1, <1>2, LogsGrow DEF LogKept

\* A key without a pin has not climbed.
LEMMA NothingClimbed ==
    NoRecord.esc = 0 /\ ClassifyingPlaceholder.esc = 0
BY DEF NoRecord, ClassifyingPlaceholder, Unpinned

\* An escalation makes the log of its key one longer, as far as the count goes.
LEMMA ClimbIsLogged ==
    ASSUME TypeOK, NEW r \in Requests, CanEscalate(rec[r]),
           Emit(KeyFor(r), EscalationEvents(rec[r]))
    PROVE  Cardinality(Places(log'[KeyFor(r)])) = Cardinality(Places(log[KeyFor(r)])) + 1
<1>1. log \in [Keys -> Seq(Event)] /\ KeyFor(r) \in Keys
  BY InputTypes DEF TypeOK
<1>2. PICK event \in Event : EscalationEvents(rec[r]) = <<event>> /\ event.type = "escalated"
  BY EscalationsAreEvents
<1>3. log'[KeyFor(r)] = log[KeyFor(r)] \o <<event>>
  BY <1>1, <1>2 DEF Emit
<1> QED BY <1>1, <1>2, <1>3, EscalationsCount

\* Of the steps of the hook only this one climbs, and it emits the escalation as it does.
LEMMA HandlingIsSteady ==
    ASSUME TypeOK, NEW r \in Requests, HandlePinned(r)
    PROVE  Steady
<1>1. /\ UNCHANGED inp /\ rec \in [Requests -> SessionRecord] /\ log \in [Keys -> Seq(Event)]
      /\ KeyFor(r) \in Keys /\ rec[r] \in SessionRecord
  BY InputTypes DEF HandlePinned, TypeOK
<1>2. PICK o \in ScanOutcomes(rec[r].mark, inp[r].n, inp[r].header) :
        \/ /\ CanEscalate(rec[r])
           /\ rec' = [rec EXCEPT ![r] = [Escalated(rec[r]) EXCEPT
                                            !.mark = Consume(o.mark, inp[r].n)]]
           /\ Emit(KeyFor(r), EscalationEvents(rec[r]))
        \/ rec' = [rec EXCEPT ![r].mark = o.mark] /\ UNCHANGED log
        \/ UNCHANGED <<rec, log>>
  BY DEF HandlePinned
<1>3. CASE UNCHANGED <<rec, log>>
  BY <1>1, <1>3, QuietIsSteady
<1>4. CASE rec' = [rec EXCEPT ![r].mark = o.mark] /\ UNCHANGED log
  <2>1. rec' = [rec EXCEPT ![r] = [rec[r] EXCEPT !.mark = o.mark]]
    BY <1>4
  <2>2. [rec[r] EXCEPT !.mark = o.mark].esc = rec[r].esc
    BY <1>1 DEF SessionRecord
  <2> QED BY <1>1, <1>4, <2>1, <2>2, TakingIsSteady
<1>5. CASE /\ CanEscalate(rec[r])
           /\ rec' = [rec EXCEPT ![r] = [Escalated(rec[r]) EXCEPT
                                            !.mark = Consume(o.mark, inp[r].n)]]
           /\ Emit(KeyFor(r), EscalationEvents(rec[r]))
  <2>3. EscalationEvents(rec[r]) \in Seq(Event)
    BY <1>1, <1>5, EscalationsAreEvents
  <2>4. \A k \in Keys : LogKept(k)
    BY <1>1, <1>5, <2>3, EmittingKeeps
  <2>5. Cardinality(Places(log'[KeyFor(r)])) = Cardinality(Places(log[KeyFor(r)])) + 1
    BY <1>5, ClimbIsLogged
  <2>6. rec'[r].esc = rec[r].esc + 1 /\ \A s \in Requests : s # r => rec'[s] = rec[s]
    BY <1>1, <1>5 DEF Escalated, SessionRecord
  <2>7. \A s \in Requests : KeyFor(s)' = KeyFor(s)
    BY <1>1 DEF KeyFor
  <2> QED BY <2>4, <2>5, <2>6, <2>7 DEF Steady, ClimbLogged
<1> QED BY <1>2, <1>3, <1>4, <1>5

\* A request that takes a record from the store, from build_pin_record or from nowhere.
LEMMA FetchingIsSteady ==
    ASSUME TypeOK, NEW r \in Requests,
           \/ Get(r) \/ PipelineGet(r) \/ PipelineExpire(r) \/ Claim(r) \/ Classify(r)
           \/ ReadParent(r) \/ PipelineGetParent(r) \/ PipelineExpireParent(r)
    PROVE  Steady
<1>1. ASSUME NEW parent \in SessionRecord PROVE SubagentPin(r, parent).esc = 0
  BY DEF SubagentPin, BuildPinRecord
<1>2. store[BaseKey(inp[r])] \in SessionRecord
  BY InputTypes DEF TypeOK, StoreTypeOK
<1>3. \A outcome \in Reachable : Fetched(BaseKey(inp[r]), outcome) \in SessionRecord
  BY InputTypes, FetchedType DEF TypeOK
<1>4. UNCHANGED <<inp, log>>
  BY DEF Get, PipelineGet, PipelineExpire, Claim, Classify, ReadParent, PipelineGetParent,
         PipelineExpireParent
<1>5. \/ UNCHANGED rec
      \/ \E record : /\ rec' = [rec EXCEPT ![r] = record]
                      /\ record.esc \in {0, rec[r].esc, store[KeyFor(r)].esc}
  <2>1. CASE Get(r)
    <3>1. PICK outcome \in Reachable :
            rec' = [rec EXCEPT ![r] = Fetched(KeyFor(r), outcome)]
      BY <2>1 DEF Get, Proceed
    <3>2. Fetched(KeyFor(r), outcome) \in {NoRecord, store[KeyFor(r)]}
      BY DEF Fetched
    <3> QED BY <3>1, <3>2, NothingClimbed
  <2>2. CASE PipelineGet(r)
    BY <2>2 DEF PipelineGet
  <2>3. CASE PipelineExpire(r)
    <3>1. PICK outcome \in Reachable :
            rec' = [rec EXCEPT ![r] = IF outcome = "ok" THEN rec[r] ELSE NoRecord]
      BY <2>3 DEF PipelineExpire, Proceed
    <3> QED BY <3>1, NothingClimbed
  <2>4. CASE Claim(r)
    <3>1. \/ UNCHANGED rec
          \/ rec' = [rec EXCEPT ![r] = BuildPinRecord(NoVerdict, TRUE, inp[r].n)]
      BY <2>4 DEF Claim
    <3>2. BuildPinRecord(NoVerdict, TRUE, inp[r].n).esc = 0
      BY DEF BuildPinRecord
    <3> QED BY <3>1, <3>2
  <2>5. CASE Classify(r)
    <3>1. PICK verdict \in Verdicts :
            rec' = [rec EXCEPT ![r] = BuildPinRecord(verdict, FALSE, inp[r].n)]
      BY <2>5 DEF Classify
    <3>2. BuildPinRecord(verdict, FALSE, inp[r].n).esc = 0
      BY DEF BuildPinRecord
    <3> QED BY <3>1, <3>2
  <2>6. CASE ReadParent(r)
    <3>1. PICK outcome \in Reachable :
            rec' = [rec EXCEPT ![r] = SubagentPin(r, Fetched(BaseKey(inp[r]), outcome))]
      BY <2>6 DEF ReadParent
    <3> QED BY <3>1, <1>1, <1>3
  <2>7. CASE PipelineGetParent(r)
    BY <2>7, <1>1, <1>2 DEF PipelineGetParent
  <2>8. CASE PipelineExpireParent(r)
    <3>1. PICK outcome \in Reachable :
            rec' = [rec EXCEPT ![r] = IF outcome = "ok" THEN rec[r] ELSE SubagentPin(r, NoRecord)]
      BY <2>8 DEF PipelineExpireParent
    <3>2. SubagentPin(r, NoRecord).esc = 0
      BY <1>1, PlaceholderTypes
    <3> QED BY <3>1, <3>2
  <2> QED BY <2>1, <2>2, <2>3, <2>4, <2>5, <2>6, <2>7, <2>8
<1>6. CASE UNCHANGED rec
  BY <1>4, <1>6, QuietIsSteady
<1>7. CASE \E record : /\ rec' = [rec EXCEPT ![r] = record]
                       /\ record.esc \in {0, rec[r].esc, store[KeyFor(r)].esc}
  BY <1>4, <1>7, TakingIsSteady
<1> QED BY <1>5, <1>6, <1>7

\* The events of a fresh pin.
LEMMA EmittingIsSteady ==
    ASSUME TypeOK, NEW r \in Requests, EmitPinned(r)
    PROVE  Steady
<1>1. KeyFor(r) \in Keys
  BY InputTypes
<1>2. PinEvents(r) \in Seq(Event)
  BY PinEventsAreEvents
<1>3. Emit(KeyFor(r), PinEvents(r)) /\ UNCHANGED <<inp, rec>>
  BY DEF EmitPinned
<1>4. \A k \in Keys : LogKept(k)
  BY <1>1, <1>2, <1>3, EmittingKeeps
<1> QED BY <1>3, <1>4 DEF Steady, ClimbLogged, KeyFor

\* Every step keeps the log and logs what climbs.
LEMMA EveryStepIsSteady ==
    ASSUME TypeOK, [Next]_vars
    PROVE  Steady
<1>1. ASSUME NEW r \in Requests, WriteBack(r) \/ Pin(r) \/ Crash(r) \/ FailOpen(r) PROVE Steady
  BY <1>1, QuietIsSteady DEF WriteBack, Pin, Crash, FailOpen
<1>2. ASSUME NEW k \in Keys, KeyStep(k) PROVE Steady
  BY <1>2, QuietIsSteady DEF KeyStep, ClaimLapses, SessionLapses, Evict
<1>3. CASE UNCHANGED vars
  BY <1>3, QuietIsSteady DEF vars
<1> QED
  BY <1>1, <1>2, <1>3, BeginningIsSteady, FetchingIsSteady, HandlingIsSteady, EmittingIsSteady
     DEF Next, RequestStep, HookStep, Terminated

\* A request that has not begun has done nothing.
LEMMA IdleStays ==
    ASSUME TypeOK, [Next]_vars, NEW r \in Requests, pc'[r] = "idle"
    PROVE  pc[r] = "idle" /\ rec'[r] = rec[r]
<1> DEFINE Goal == pc[r] = "idle" /\ rec'[r] = rec[r]
<1>1. pc \in [Requests -> PC] /\ rec \in [Requests -> SessionRecord]
  BY DEF TypeOK
<1>2. ASSUME NEW s \in Requests, Arrive(s) \/ SideChannel(s) PROVE Goal
  BY <1>1, <1>2 DEF Arrive, SideChannel, Goto
<1>3. ASSUME NEW s \in Requests, Get(s) \/ PipelineGet(s) \/ PipelineExpire(s) PROVE Goal
  BY <1>1, <1>3 DEF Get, PipelineGet, PipelineExpire, Proceed, Answer, Goto
<1>4. ASSUME NEW s \in Requests, HandlePinned(s) PROVE Goal
  BY <1>1, <1>4 DEF HandlePinned, Answer, Goto
<1>5. ASSUME NEW s \in Requests, Claim(s) \/ Classify(s) PROVE Goal
  BY <1>1, <1>5 DEF Claim, Classify, Answer, Goto
<1>6. ASSUME NEW s \in Requests,
             ReadParent(s) \/ PipelineGetParent(s) \/ PipelineExpireParent(s)
      PROVE  Goal
  BY <1>1, <1>6 DEF ReadParent, PipelineGetParent, PipelineExpireParent, Goto
<1>7. ASSUME NEW s \in Requests,
             WriteBack(s) \/ Pin(s) \/ EmitPinned(s) \/ Crash(s) \/ FailOpen(s)
      PROVE  Goal
  BY <1>1, <1>7 DEF WriteBack, Pin, EmitPinned, Crash, FailOpen, Answer, Goto
<1>8. ASSUME NEW k \in Keys, KeyStep(k) PROVE Goal
  BY <1>8 DEF KeyStep, ClaimLapses, SessionLapses, Evict
<1>9. CASE UNCHANGED vars
  BY <1>9 DEF vars
<1> QED BY <1>2, <1>3, <1>4, <1>5, <1>6, <1>7, <1>8, <1>9 DEF Next, RequestStep, HookStep, Terminated

-----------------------------------------------------------------------------
(***************************************************************************)
(* The log never lags behind the store.                                    *)
(*                                                                         *)
(* EscalationsAreLogged is not inductive: a request that begins takes the  *)
(* key of its input, whose log may be shorter, so its record must not have *)
(* climbed yet.                                                            *)
(***************************************************************************)
LogInv ==
    /\ EscalationsAreLogged
    /\ \A r \in Requests : pc[r] = "idle" => rec[r].esc = 0

\* Every step keeps the log ahead of the records.
LEMMA LogStep ==
    ASSUME TypeOK, LogInv, [Next]_vars
    PROVE  LogInv'
<1> DEFINE L(k) == Cardinality(Places(log[k]))
           M(k) == Cardinality(Places(log'[k]))
<1>1. TypeOK'
  BY TypeStep
<1>2. \A k \in Keys : L(k) \in Nat /\ M(k) \in Nat /\ L(k) <= M(k)
  BY <1>1, EveryStepIsSteady, PlacesAreFinite DEF Steady, LogKept, TypeOK
<1>3. /\ \A k \in Keys : EscalationsLogged(k) = L(k)
      /\ \A k \in Keys : EscalationsLogged(k)' = M(k)
  BY DEF EscalationsLogged, Places
<1>4. \A r \in Requests : KeyFor(r) \in Keys
  BY InputTypes
<1>5. \A r \in Requests : KeyFor(r)' \in Keys
  BY <1>1, KeyTypes DEF TypeOK, KeyFor
<1>6. /\ \A k \in Keys : store[k].esc \in Nat /\ store[k].esc <= L(k)
      /\ \A r \in Requests : rec[r].esc \in Nat /\ rec[r].esc <= L(KeyFor(r))
  BY <1>3, <1>4 DEF LogInv, EscalationsAreLogged, TypeOK, StoreTypeOK, SessionRecord
<1>7. \A r \in Requests : ClimbLogged(r)
  BY EveryStepIsSteady DEF Steady
<1> HIDE DEF L, M
<1>8. ASSUME NEW k \in Keys PROVE store'[k].esc <= M(k)
  <2>1. CASE store'[k] \in {store[k], NoRecord, ClassifyingPlaceholder}
    BY <1>2, <1>6, <2>1, NothingClimbed
  <2>2. CASE \E r \in Requests : KeyFor(r) = k /\ store'[k] = rec[r]
    BY <1>2, <1>6, <2>2
  <2> QED BY <2>1, <2>2, StoredRecords
<1>9. ASSUME NEW r \in Requests PROVE rec'[r].esc <= M(KeyFor(r)')
  <2>1. CASE KeyFor(r)' = KeyFor(r) /\ rec'[r].esc \in {0, rec[r].esc, store[KeyFor(r)].esc}
    BY <1>2, <1>4, <1>6, <2>1
  <2>2. CASE pc[r] = "idle" /\ rec'[r] = rec[r]
    BY <1>2, <1>5, <2>2 DEF LogInv
  <2>3. CASE /\ KeyFor(r)' = KeyFor(r) /\ rec'[r].esc = rec[r].esc + 1
             /\ M(KeyFor(r)) = L(KeyFor(r)) + 1
    BY <1>2, <1>4, <1>6, <2>3
  <2> QED BY <1>7, <2>1, <2>2, <2>3 DEF ClimbLogged, L, M
<1>10. EscalationsAreLogged'
  BY <1>3, <1>5, <1>8, <1>9 DEF EscalationsAreLogged
<1>11. \A r \in Requests : pc'[r] = "idle" => rec'[r].esc = 0
  BY IdleStays DEF LogInv
<1> QED BY <1>10, <1>11 DEF LogInv

\* hook.py:169-186 emits an escalation before it writes the record: whatever is lost,
\* repeated or interleaved, the decision log knows of every escalation a record went through.
THEOREM EscalationsAreLoggedHolds == Spec => []EscalationsAreLogged
<1>1. Init => LogInv
  <2>1. SUFFICES ASSUME Init PROVE LogInv
    OBVIOUS
  <2>2. TypeOK
    BY <2>1, TypeInit
  <2>3. \A k \in Keys : EscalationsLogged(k) \in Nat
    BY <2>2, PlacesAreFinite DEF TypeOK, EscalationsLogged, Places
  <2>4. \A r \in Requests : KeyFor(r) \in Keys
    BY <2>2, InputTypes
  <2>5. /\ \A k \in Keys : store[k].esc = 0
        /\ \A r \in Requests : rec[r].esc = 0
    BY <2>1, NothingClimbed DEF Init, StoreInit
  <2> QED BY <2>3, <2>4, <2>5 DEF LogInv, EscalationsAreLogged
<1>2. TypeOK /\ LogInv /\ [Next]_vars => LogInv'
  BY LogStep
<1>3. LogInv => EscalationsAreLogged
  BY DEF LogInv
<1> QED BY <1>1, <1>2, <1>3, TypeCorrect, PTL DEF Spec
-----------------------------------------------------------------------------
(***************************************************************************)
(* One model per session that never escalated, when nothing is forgotten   *)
(* (no silence, no eviction), no command fails outright and no winner      *)
(* outlives its claim.  Each of these is needed: after any of the four the *)
(* session may be classified a second time, by a classifier that has       *)
(* changed its mind.                                                       *)
(*                                                                         *)
(* NoThirdModel is not inductive: it says nothing of the requests still    *)
(* under way, nor of the record they will answer from.  As long as a key's *)
(* log has no escalation, what is answered, about to be answered or about  *)
(* to be written back is the default or the model of the stored pin.       *)
(***************************************************************************)

NeverClimbed(k) == EscalationsLogged(k) = 0

NamesThePin(r, model) == Pinned(store[KeyFor(r)]) /\ model = store[KeyFor(r)].model

CopiesKeepTheModel ==
    \A r \in Requests : NeverClimbed(KeyFor(r)) /\ (HoldsCopy(r) \/ pc[r] = "emit") =>
        NamesThePin(r, rec[r].model)

AnswersKeepTheModel ==
    \A r \in Requests : NeverClimbed(KeyFor(r)) /\ pc[r] = "done" =>
        decided[r] = DefaultModel \/ NamesThePin(r, decided[r])

UndecidedIsDefault == \A r \in Requests : pc[r] # "done" => decided[r] = DefaultModel

ModelInv == CopiesKeepTheModel /\ AnswersKeepTheModel /\ UndecidedIsDefault

NothingForgotten == {"error", "idle", "stall", "evict"} \cap Environment = {}

\* A pin that never climbed keeps its model: nothing drops it, and a late write names the
\* same model.
LEMMA PinsKeepTheirModel ==
    ASSUME TypeOK, ClaimInv, FreshPins, CopiesKeepTheModel, [Next]_vars, NothingForgotten,
           NEW k \in Keys, NeverClimbed(k), Pinned(store[k])
    PROVE  Pinned(store'[k]) /\ store'[k].model = store[k].model
<1> DEFINE Goal == Pinned(store'[k]) /\ store'[k].model = store[k].model
<1>1. /\ store \in [Keys -> SessionRecord]
      /\ Present(k) /\ store[k].state # "classifying"
  BY DEF TypeOK, StoreTypeOK, Present, Pinned
<1>2. CASE store' = store
  BY <1>2
<1>3. ASSUME NEW r \in Requests, WriteBack(r) PROVE Goal
  <2>1. CASE KeyFor(r) # k
    BY <1>1, <1>3, <2>1, <1>2 DEF WriteBack, Update, storeVars
  <2>2. CASE KeyFor(r) = k
    <3>1. HoldsCopy(r)
      BY <1>3 DEF WriteBack, HoldsCopy
    <3>2. Pinned(rec[r]) /\ rec[r].model = store[k].model
      BY <2>2, <3>1 DEF CopiesKeepTheModel, NamesThePin, ClaimInv, CopiesAgree, SamePin
    <3>3. store'[k] \in {store[k], rec[r]}
      BY <1>1, <1>3, <2>2 DEF WriteBack, Update, storeVars
    <3> QED BY <3>2, <3>3
  <2> QED BY <2>1, <2>2
<1>4. ASSUME NEW r \in Requests, Pin(r) PROVE Goal
  <2>1. KeyFor(r) # k
    BY <1>1, <1>4 DEF Pin, ClaimInv, ClaimExclusion, Winner
  <2> QED BY <1>1, <1>4, <2>1, <1>2 DEF Pin, WritePin, storeVars
<1>5. ASSUME NEW r \in Requests, Claim(r) PROVE Goal
  BY <1>1, <1>5, <1>2 DEF Claim, ClaimForClassification, storeVars
<1>6. ASSUME NEW r \in Requests,
             Get(r) \/ PipelineGet(r) \/ PipelineExpire(r)
             \/ ReadParent(r) \/ PipelineGetParent(r) \/ PipelineExpireParent(r)
      PROVE  Goal
  BY <1>2, <1>6 DEF Get, PipelineGet, PipelineExpire, ReadParent, PipelineGetParent,
                    PipelineExpireParent, GetAndRefresh, Expire
<1>7. ASSUME NEW r \in Requests,
             Arrive(r) \/ SideChannel(r) \/ HandlePinned(r) \/ Classify(r) \/ EmitPinned(r)
             \/ Crash(r) \/ FailOpen(r)
      PROVE  Goal
  BY <1>2, <1>7 DEF Arrive, SideChannel, HandlePinned, Classify, EmitPinned, Crash, FailOpen
<1>8. ASSUME NEW q \in Keys, KeyStep(q) PROVE Goal
  <2>1. ClaimLapses(q)
    BY <1>8 DEF KeyStep, SessionLapses, Evict, NothingForgotten
  <2>2. q # k
    BY <1>1, <2>1 DEF ClaimLapses, ClaimInv, ClaimDeadlines
  <2> QED BY <1>1, <2>1, <2>2 DEF ClaimLapses, Drop
<1>9. CASE UNCHANGED vars
  BY <1>2, <1>9 DEF vars
<1> QED BY <1>3, <1>4, <1>5, <1>6, <1>7, <1>8, <1>9 DEF Next, RequestStep, HookStep, Terminated

\* A log that has no escalation had none before.
LEMMA NeverClimbedBefore ==
    ASSUME TypeOK, [Next]_vars, NEW k \in Keys, NeverClimbed(k)'
    PROVE  NeverClimbed(k)
<1>1. TypeOK'
  BY TypeStep
<1>2. /\ Cardinality(Places(log[k])) \in Nat /\ Cardinality(Places(log'[k])) \in Nat
      /\ Cardinality(Places(log[k])) <= Cardinality(Places(log'[k]))
  BY <1>1, EveryStepIsSteady, PlacesAreFinite DEF Steady, LogKept, TypeOK
<1>3. Cardinality(Places(log'[k])) = 0
  BY DEF NeverClimbed, EscalationsLogged, Places
<1>4. Cardinality(Places(log[k])) = 0
  BY <1>2, <1>3
<1> QED BY <1>4 DEF NeverClimbed, EscalationsLogged, Places
\* What one request carries and has answered.
ModelOf(s) ==
    /\ NeverClimbed(KeyFor(s)) =>
         /\ HoldsCopy(s) \/ pc[s] = "emit" => NamesThePin(s, rec[s].model)
         /\ pc[s] = "done" => (decided[s] = DefaultModel \/ NamesThePin(s, decided[s]))
    /\ pc[s] # "done" => decided[s] = DefaultModel

\* The invariant is what it says of each request.
LEMMA ModelInvIsModelOf == ModelInv <=> \A s \in Requests : ModelOf(s)
BY Zenon DEF ModelInv, ModelOf, CopiesKeepTheModel, AnswersKeepTheModel, UndecidedIsDefault

\* Every step keeps every request to the one model.
LEMMA ModelStep ==
    ASSUME TypeOK, ClaimInv, FreshPins, ModelInv, [Next]_vars, NothingForgotten
    PROVE  ModelInv'
<1> SUFFICES ASSUME NEW s \in Requests PROVE ModelOf(s)'
  BY ModelInvIsModelOf, Zenon DEF ModelInv, ModelOf, CopiesKeepTheModel, AnswersKeepTheModel,
     UndecidedIsDefault
<1>1. /\ pc \in [Requests -> PC] /\ inp \in [Requests -> Inputs]
      /\ rec \in [Requests -> SessionRecord] /\ decided \in [Requests -> Models]
      /\ store \in [Keys -> SessionRecord]
  BY DEF TypeOK, StoreTypeOK
<1>2. PICK k \in Keys : k = KeyFor(s)
  BY InputTypes
<1>3. ModelOf(s)
  BY ModelInvIsModelOf
<1>4. NeverClimbed(k)' =>
        /\ NeverClimbed(k)
        /\ Pinned(store[k]) => Pinned(store'[k]) /\ store'[k].model = store[k].model
  BY <1>2, NeverClimbedBefore, PinsKeepTheirModel DEF ModelInv
<1> DEFINE Named(model) == Pinned(store'[k]) /\ model = store'[k].model
<1>5. ASSUME inp'[s] = inp[s],
             pc'[s] # "done" => decided'[s] = DefaultModel,
             NeverClimbed(k)' /\ pc'[s] \in {"expire", "scan", "update", "emit"}
                              /\ (pc'[s] = "expire" => Pinned(rec'[s])) => Named(rec'[s].model),
             NeverClimbed(k)' /\ pc'[s] = "done" => (decided'[s] = DefaultModel \/ Named(decided'[s]))
      PROVE  ModelOf(s)'
  BY <1>2, <1>5 DEF ModelOf, NamesThePin, KeyFor, HoldsCopy
<1>6. CASE Stands(s)
  <2>1. /\ inp'[s] = inp[s] /\ pc'[s] = pc[s] /\ rec'[s] = rec[s] /\ decided'[s] = decided[s]
    BY <1>6 DEF Stands
  <2> HIDE DEF Named
  <2>2. ASSUME NeverClimbed(k)', NEW model, Pinned(store[k]) /\ model = store[k].model
        PROVE  Named(model)
    BY <1>4, <2>2 DEF Named
  <2> QED BY <1>2, <1>3, <1>4, <1>5, <2>1, <2>2 DEF ModelOf, NamesThePin, HoldsCopy
<1>7. CASE Arrive(s) \/ SideChannel(s)
  <2>1. /\ decided'[s] = DefaultModel /\ pc'[s] \in {"get", "done"}
    BY <1>1, <1>3, <1>7 DEF Arrive, SideChannel, Goto, ModelOf
  <2> QED BY <2>1, Zenon DEF ModelOf, HoldsCopy
<1>8. CASE Get(s)
  <2>1. PICK outcome \in Reachable : Proceed(s, Fetched(k, outcome))
    BY <1>2, <1>8 DEF Get
  <2>2. UNCHANGED <<store, inp>> /\ decided[s] = DefaultModel
    BY <1>3, <1>8 DEF Get, GetAndRefresh, ModelOf
  <2>3. Pinned(Fetched(k, outcome)) => Fetched(k, outcome) = store[k]
    BY DEF Fetched, Pinned, NoRecord, Unpinned
  <2>4. \/ pc'[s] = "scan" /\ Pinned(rec'[s]) /\ rec'[s] = store[k] /\ decided'[s] = DefaultModel
        \/ pc'[s] \in {"done", "claim"} /\ decided'[s] = DefaultModel
    BY <1>1, <2>1, <2>2, <2>3 DEF Proceed, Answer, Goto
  <2> QED BY <1>5, <2>2, <2>4
<1>9. CASE PipelineGet(s)
  <2>1. /\ UNCHANGED <<store, inp>> /\ decided'[s] = DefaultModel
        /\ pc'[s] = "expire" /\ rec'[s] = store[k]
    BY <1>1, <1>2, <1>3, <1>9 DEF PipelineGet, Goto, ModelOf
  <2> QED BY <1>5, <2>1
<1>10. CASE PipelineExpire(s)
  <2>1. PICK record \in {rec[s], NoRecord} : Proceed(s, record)
    BY <1>10 DEF PipelineExpire
  <2>2. /\ UNCHANGED <<store, inp>> /\ decided[s] = DefaultModel /\ pc[s] = "expire"
    BY <1>3, <1>10 DEF PipelineExpire, Expire, GetAndRefresh, ModelOf
  <2>3. \/ /\ pc'[s] = "scan" /\ Pinned(rec[s]) /\ rec'[s] = rec[s] /\ decided'[s] = DefaultModel
        \/ pc'[s] \in {"done", "claim"} /\ decided'[s] = DefaultModel
    BY <1>1, <2>1, <2>2 DEF Proceed, Answer, Goto, Pinned, NoRecord, Unpinned
  <2>4. NeverClimbed(k)' /\ Pinned(rec[s]) => Pinned(store[k]) /\ rec[s].model = store[k].model
    BY <1>2, <1>3, <1>4, <2>2 DEF ModelOf, HoldsCopy, NamesThePin
  <2> QED BY <1>5, <2>2, <2>3, <2>4
<1>11. CASE WriteBack(s) \/ EmitPinned(s)
  <2>1. /\ pc[s] \in {"update", "emit"} /\ inp'[s] = inp[s]
        /\ pc'[s] = "done" /\ decided'[s] = rec[s].model
    BY <1>1, <1>11 DEF WriteBack, EmitPinned, Answer, Goto
  <2>2. NeverClimbed(k)' => Pinned(store[k]) /\ rec[s].model = store[k].model
    BY <1>2, <1>3, <1>4, <2>1 DEF ModelOf, HoldsCopy, NamesThePin
  <2> QED BY <1>4, <1>5, <2>1, <2>2
<1>12. CASE Claim(s) \/ Classify(s) \/ ReadParent(s) \/ PipelineGetParent(s)
            \/ PipelineExpireParent(s)
  <2>1. /\ inp'[s] = inp[s] /\ decided[s] = DefaultModel
    BY <1>3, <1>12 DEF Claim, Classify, ReadParent, PipelineGetParent, PipelineExpireParent, ModelOf
  <2>2. /\ decided'[s] = DefaultModel
        /\ pc'[s] \in {"done", "parent", "classify", "pin", "expireParent"}
    BY <1>1, <1>12, <2>1 DEF Claim, Classify, ReadParent, PipelineGetParent, PipelineExpireParent,
                             Answer, Goto
  <2> QED BY <1>5, <2>1, <2>2
<1>13. CASE Pin(s)
  <2>1. PICK outcome \in Reachable : WritePin(k, rec[s], outcome)
    BY <1>2, <1>13 DEF Pin
  <2>2. store'[k] = rec[s]
    BY <1>1, <2>1 DEF WritePin, Reachable, NothingForgotten
  <2>3. /\ inp'[s] = inp[s] /\ rec'[s] = rec[s] /\ pc'[s] = "emit" /\ decided'[s] = DefaultModel
    BY <1>1, <1>3, <1>13 DEF Pin, Goto, ModelOf
  <2>4. Pinned(rec[s])
    BY <1>13 DEF Pin, FreshPins
  <2> QED BY <1>5, <2>2, <2>3, <2>4
<1>14. CASE Crash(s) \/ FailOpen(s)
  <2>1. /\ inp'[s] = inp[s] /\ decided'[s] = DefaultModel /\ pc'[s] \in {"aborted", "done"}
    BY <1>1, <1>3, <1>14 DEF Crash, FailOpen, InFlight, Goto, ModelOf
  <2> QED BY <1>5, <2>1
<1>15. CASE HandlePinned(s)
  <2>1. /\ pc[s] = "scan" /\ decided[s] = DefaultModel /\ UNCHANGED <<store, inp>>
        /\ rec[s] \in SessionRecord
    BY <1>1, <1>3, <1>15 DEF HandlePinned, ModelOf
  <2>2. NeverClimbed(k)' => Pinned(store'[k]) /\ rec[s].model = store'[k].model
    BY <1>2, <1>3, <1>4, <2>1 DEF ModelOf, HoldsCopy, NamesThePin
  <2>3. PICK o \in ScanOutcomes(rec[s].mark, inp[s].n, inp[s].header) :
          \/ /\ CanEscalate(rec[s])
             /\ Emit(KeyFor(s), EscalationEvents(rec[s]))
             /\ Goto(s, "update")
             /\ UNCHANGED decided
          \/ /\ rec' = [rec EXCEPT ![s].mark = o.mark]
             /\ Goto(s, "update")
             /\ UNCHANGED decided
          \/ Answer(s, rec[s].model) /\ UNCHANGED rec
    BY <1>15 DEF HandlePinned
  <2>4. CASE /\ CanEscalate(rec[s])
             /\ Emit(KeyFor(s), EscalationEvents(rec[s]))
             /\ Goto(s, "update")
             /\ UNCHANGED decided
    <3>1. Cardinality(Places(log'[k])) = Cardinality(Places(log[k])) + 1
      BY <1>2, <2>4, ClimbIsLogged
    <3>2. Cardinality(Places(log[k])) \in Nat
      BY PlacesAreFinite DEF TypeOK
    <3>3. Cardinality(Places(log'[k])) # 0
      BY <3>1, <3>2
    <3>4. ~NeverClimbed(k)'
      BY <3>3 DEF NeverClimbed, EscalationsLogged, Places
    <3>5. pc'[s] = "update" /\ decided'[s] = DefaultModel /\ inp'[s] = inp[s]
      BY <1>1, <2>1, <2>4 DEF Goto
    <3> QED BY <1>5, <3>4, <3>5
  <2>5. CASE /\ rec' = [rec EXCEPT ![s].mark = o.mark]
             /\ Goto(s, "update")
             /\ UNCHANGED decided
    <3>1. rec'[s].model = rec[s].model
      BY <1>1, <2>1, <2>5 DEF SessionRecord
    <3>2. pc'[s] = "update" /\ decided'[s] = DefaultModel /\ inp'[s] = inp[s]
      BY <1>1, <2>1, <2>5 DEF Goto
    <3> QED BY <1>5, <2>2, <3>1, <3>2
  <2>6. CASE Answer(s, rec[s].model) /\ UNCHANGED rec
    <3>1. pc'[s] = "done" /\ decided'[s] = rec[s].model /\ inp'[s] = inp[s]
      BY <1>1, <2>1, <2>6 DEF Answer, Goto
    <3> QED BY <1>5, <2>2, <3>1
  <2> QED BY <2>3, <2>4, <2>5, <2>6
<1> QED
  BY <1>6, <1>7, <1>8, <1>9, <1>10, <1>11, <1>12, <1>13, <1>14, <1>15, OthersStand
     DEF RequestStep, HookStep

\* test_routing.py:137-138 and the twenty racing requests of it: while nothing is forgotten, a
\* session that never escalated is answered with one model beside the default, however many
\* requests race, workers die and replies are lost.
THEOREM NoThirdModelHolds ==
    ASSUME NothingForgotten
    PROVE  Spec => []NoThirdModel
<1>1. Init => ModelInv
  BY DEF Init, ModelInv, CopiesKeepTheModel, AnswersKeepTheModel, UndecidedIsDefault, HoldsCopy
<1>2. TypeOK /\ ClaimInv /\ FreshPins /\ ModelInv /\ [Next]_vars => ModelInv'
  BY ModelStep
<1>3. ModelInv => NoThirdModel
  BY DEF ModelInv, AnswersKeepTheModel, NamesThePin, NeverClimbed, NoThirdModel
<1>4. Spec => [](TypeOK /\ ClaimInv)
  BY ClaimInvariant DEF NothingForgotten
<1> QED BY <1>1, <1>2, <1>3, <1>4, PinsAreFresh, PTL DEF Spec
=============================================================================
