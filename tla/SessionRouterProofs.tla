------------------------ MODULE SessionRouterProofs ------------------------
(***************************************************************************)
(* Theorems about SessionRouter for every ladder, every set of sessions,   *)
(* agents, requests and inputs, every number of requests in flight and     *)
(* every combination of faults.                                            *)
(***************************************************************************)
EXTENDS MissionCritical, TLAPS, WellFoundedInduction

-----------------------------------------------------------------------------
(***************************************************************************)
(* Lemmas about the policies, the keys and the scan.                       *)
(***************************************************************************)

\* policies.py:90-95: the default tier is a tier of the ladder, also when
\* default_model is the model of none.
LEMMA DefaultTierIsATier == DefaultTier \in Tiers
<1>1. TopTier \in Nat /\ TopTier > 0
  BY PoliciesAssumption DEF TopTier
<1>2. CASE \E t \in Tiers : IsDefault(t)
  <2> DEFINE Hits == {t \in Tiers : IsDefault(t)}
  <2>1. \E t \in Hits : \A u \in Hits : ~(<<u, t>> \in OpToRel(<, Nat))
    <3>1. Hits \subseteq Nat /\ Hits # {}
      BY <1>1, <1>2 DEF Tiers
    <3> QED BY <3>1, NatLessThanWellFounded, WFMin
  <2>2. PICK t \in Hits : \A u \in Hits : ~(u < t)
    <3>1. \A u, t \in Nat : u < t => <<u, t>> \in OpToRel(<, Nat)
      BY DEF OpToRel
    <3>2. Hits \subseteq Nat
      BY <1>1 DEF Tiers
    <3> QED BY <2>1, <3>1, <3>2
  <2>3. \A u \in 1..(t-1) : ~IsDefault(u)
    BY <2>2, <1>1 DEF Tiers
  <2> QED BY <1>2, <2>2, <2>3 DEF DefaultTier
<1>3. CASE ~\E t \in Tiers : IsDefault(t)
  BY <1>1, <1>3 DEF DefaultTier, Tiers
<1> QED BY <1>2, <1>3

\* Every tier names a model the proxy knows.
LEMMA LadderModels == \A t \in Tiers : Ladder[t] \in Models
BY PoliciesAssumption DEF Tiers, TopTier

\* A key without a pin has a well-typed record.
LEMMA UnpinnedType == \A state \in States : Unpinned(state) \in SessionRecord
BY DefaultTierIsATier, PoliciesAssumption DEF Unpinned, SessionRecord

\* So do no key at all and the classifying placeholder.
LEMMA PlaceholderTypes == NoRecord \in SessionRecord /\ ClassifyingPlaceholder \in SessionRecord
BY UnpinnedType DEF NoRecord, ClassifyingPlaceholder, States

\* build_pin_record returns a record whatever the classifier answered.
LEMMA BuildPinRecordType ==
    ASSUME NEW v \in Verdicts, NEW o \in BOOLEAN, NEW n \in Nat
    PROVE  BuildPinRecord(v, o, n) \in SessionRecord
<1> DEFINE tier == IF o THEN ForceTier ELSE IF v # NoVerdict THEN v ELSE DefaultTier
<1>1. tier \in Tiers
  BY DefaultTierIsATier, PoliciesAssumption DEF Verdicts, Tiers, TopTier
<1>2. (IF o \/ v # NoVerdict THEN Ladder[tier] ELSE DefaultModel) \in Models
  BY <1>1, LadderModels, PoliciesAssumption
<1> QED BY <1>1, <1>2 DEF BuildPinRecord, SessionRecord, States

\* escalate returns a record when it applies, whatever watermark it gets.
LEMMA EscalatedType ==
    ASSUME NEW record \in SessionRecord, CanEscalate(record)
    PROVE  /\ Escalated(record) \in SessionRecord
           /\ Escalated(record).tier = record.tier + 1
           /\ Escalated(record).esc = record.esc + 1
           /\ Escalated(record).model = Ladder[record.tier + 1]
           /\ Escalated(record).override = record.override
           /\ Escalated(record).state = "pinned"
<1>1. TopTier \in Nat
  BY PoliciesAssumption DEF TopTier
<1>2. record.tier + 1 \in Tiers
  BY <1>1 DEF CanEscalate, SessionRecord, Tiers
<1>3. Ladder[record.tier + 1] \in Models
  BY <1>2, LadderModels
<1>4. Escalated(record) \in SessionRecord
  <2>1. record.esc + 1 \in Nat
    BY DEF SessionRecord
  <2> QED BY <2>1, <1>2, <1>3 DEF Escalated, SessionRecord
<1>5. /\ Escalated(record).tier = record.tier + 1
      /\ Escalated(record).esc = record.esc + 1
      /\ Escalated(record).model = Ladder[record.tier + 1]
      /\ Escalated(record).state = "pinned"
  BY DEF CanEscalate, Escalated, SessionRecord, Pinned
<1>6. Escalated(record).override = record.override
  BY DEF Escalated, SessionRecord
<1> QED BY <1>4, <1>5, <1>6

\* subagent_tier returns a tier of the ladder.
LEMMA SubagentTierType == \A parent \in SessionRecord : SubagentTier(parent) \in Tiers
<1>1. TopTier \in Nat
  BY PoliciesAssumption DEF TopTier
<1> QED BY <1>1 DEF SubagentTier, SessionRecord, Tiers

\* A request is routed by a key of the store, and so is its parent.
LEMMA KeyTypes == \A i \in Inputs : KeyOf(i) \in Keys /\ BaseKey(i) \in Keys
BY RouterAssumption DEF KeyOf, BaseKey, Keys, Request

\* Every outcome of detect leaves a watermark.
LEMMA ScanTypes ==
    ASSUME NEW mark \in Nat, NEW n \in Nat, NEW header \in BOOLEAN,
           NEW o \in ScanOutcomes(mark, n, header)
    PROVE  o.mark \in Nat /\ Consume(o.mark, n) \in Nat
BY DEF ScanOutcomes, HeaderOutcomes, TailOutcomes, Consume, MaxOf

-----------------------------------------------------------------------------
(***************************************************************************)
(* The commands of the store keep its type, whatever their outcome.        *)
(***************************************************************************)

\* What get_and_refresh returns is a record.
LEMMA FetchedType ==
    ASSUME StoreTypeOK, NEW k \in Keys, NEW outcome
    PROVE  Fetched(k, outcome) \in SessionRecord
BY PlaceholderTypes DEF Fetched, StoreTypeOK

\* GETEX keeps the store well typed.
LEMMA GetType ==
    ASSUME StoreTypeOK, NEW k \in Keys, NEW outcome, GetAndRefresh(k, outcome)
    PROVE  StoreTypeOK'
BY DEF GetAndRefresh, StoreTypeOK, Deadlines

\* SET NX keeps the store well typed.
LEMMA ClaimType ==
    ASSUME StoreTypeOK, NEW k \in Keys, NEW outcome, ClaimForClassification(k, outcome)
    PROVE  StoreTypeOK'
BY PlaceholderTypes DEF ClaimForClassification, StoreTypeOK, Deadlines, storeVars

\* SET EX of a record keeps the store well typed.
LEMMA WritePinType ==
    ASSUME StoreTypeOK, NEW k \in Keys, NEW outcome, NEW record \in SessionRecord,
           WritePin(k, record, outcome)
    PROVE  StoreTypeOK'
BY DEF WritePin, StoreTypeOK, Deadlines, storeVars

\* SET KEEPTTL of a record keeps the store well typed.
LEMMA UpdateType ==
    ASSUME StoreTypeOK, NEW k \in Keys, NEW outcome, NEW record \in SessionRecord,
           Update(k, record, outcome)
    PROVE  StoreTypeOK'
BY DEF Update, StoreTypeOK, Deadlines, storeVars

\* A key that Redis drops leaves the store well typed.
LEMMA DropType ==
    ASSUME StoreTypeOK, NEW k \in Keys, Drop(k)
    PROVE  StoreTypeOK'
BY PlaceholderTypes DEF Drop, StoreTypeOK, Deadlines

\* An answer with a known model keeps the request's variables well typed.
LEMMA AnswerType ==
    ASSUME TypeOK, NEW r \in Requests, NEW model \in Models, Answer(r, model)
    PROVE  /\ pc' \in [Requests -> PC]
           /\ decided' \in [Requests -> Models]
           /\ served' \in [Requests -> Models]
BY PoliciesAssumption DEF TypeOK, Answer, Goto, PC

\* Emitting events keeps the log well typed.
LEMMA EmitType ==
    ASSUME TypeOK, NEW k \in Keys, NEW events \in Seq(Event), Emit(k, events)
    PROVE  log' \in [Keys -> Seq(Event)]
<1>1. log[k] \o events \in Seq(Event)
  BY DEF TypeOK
<1> QED BY <1>1 DEF TypeOK, Emit

\* What get_and_refresh returned is well handled, if it is a record.
LEMMA ProceedType ==
    ASSUME TypeOK, NEW r \in Requests, NEW record \in SessionRecord, Proceed(r, record)
    PROVE  /\ rec' \in [Requests -> SessionRecord]
           /\ pc' \in [Requests -> PC]
           /\ decided' \in [Requests -> Models]
           /\ served' \in [Requests -> Models]
<1>1. rec' \in [Requests -> SessionRecord]
  BY DEF Proceed, TypeOK
<1>2. \/ Answer(r, DefaultModel)
      \/ /\ Goto(r, "scan") \/ Goto(r, "claim")
         /\ UNCHANGED <<decided, served>>
  BY DEF Proceed
<1> QED BY <1>1, <1>2, AnswerType, PoliciesAssumption DEF Goto, PC, TypeOK

\* A subagent's pin is a record, whatever its parent's is.
LEMMA SubagentPinBuilt ==
    ASSUME NEW r \in Requests, NEW parent \in SessionRecord
    PROVE  \E verdict \in Verdicts : SubagentPin(r, parent) = BuildPinRecord(verdict, FALSE, inp[r].n)
BY SubagentTierType, DefaultTierIsATier DEF SubagentPin, Verdicts

\* The input of a request has the fields of a request, and its key is a key.
LEMMA InputTypes ==
    ASSUME TypeOK, NEW r \in Requests
    PROVE  /\ inp[r] \in Request
           /\ KeyFor(r) \in Keys
           /\ BaseKey(inp[r]) \in Keys
BY KeyTypes, RouterAssumption DEF TypeOK, KeyFor

\* What an escalation emits is one event, of the type that is counted, for the new model.
LEMMA EscalationsAreEvents ==
    ASSUME TypeOK, NEW r \in Requests, CanEscalate(rec[r])
    PROVE  /\ EscalationEvents(rec[r]) \in Seq(Event)
           /\ \E event \in Event : /\ EscalationEvents(rec[r]) = <<event>>
                                   /\ event.type = "escalated"
                                   /\ event.model = Escalated(rec[r]).model
<1> DEFINE event == EventOf("escalated", Escalated(rec[r]))
<1>1. /\ event \in Event /\ event.type = "escalated"
      /\ event.model = Escalated(rec[r]).model
  <2>1. Escalated(rec[r]) \in SessionRecord
    BY EscalatedType DEF TypeOK
  <2> QED BY <2>1 DEF EventOf, Event, SessionRecord
<1>2. EscalationEvents(rec[r]) = <<event>>
  BY DEF EscalationEvents
<1> HIDE DEF event
<1>3. <<event>> \in Seq(Event)
  BY <1>1
<1> QED BY <1>1, <1>2, <1>3

\* What a pin emits are events, and one of them names the model of the pin.
LEMMA PinEventsAreEvents ==
    ASSUME TypeOK, NEW r \in Requests
    PROVE  /\ PinEvents(r) \in Seq(Event)
           /\ \E j \in DOMAIN PinEvents(r) : PinEvents(r)[j].model = rec[r].model
<1> DEFINE how == EventOf(IF rec[r].classified THEN "classified" ELSE "fallback", rec[r])
           pinned == EventOf("pinned", rec[r])
<1>1. rec[r].model \in Models
  BY DEF TypeOK, SessionRecord
<1>2. how \in Event /\ pinned \in Event /\ pinned.model = rec[r].model
  BY <1>1 DEF EventOf, Event
<1>3. PinEvents(r) = <<pinned>> \/ PinEvents(r) = <<how, pinned>>
  BY Zenon DEF PinEvents
<1> HIDE DEF how, pinned
<1>4. CASE PinEvents(r) = <<pinned>>
  <2>1. <<pinned>> \in Seq(Event) /\ 1 \in DOMAIN <<pinned>> /\ <<pinned>>[1] = pinned
    BY <1>2
  <2> QED BY <1>2, <1>4, <2>1
<1>5. CASE PinEvents(r) = <<how, pinned>>
  <2>1. /\ <<how, pinned>> \in Seq(Event)
        /\ 2 \in DOMAIN <<how, pinned>> /\ <<how, pinned>>[2] = pinned
    BY <1>2
  <2> QED BY <1>2, <1>5, <2>1
<1> QED BY <1>3, <1>4, <1>5

-----------------------------------------------------------------------------
(***************************************************************************)
(* Type correctness.                                                       *)
(***************************************************************************)

\* The initial state is well typed.
LEMMA TypeInit == Init => TypeOK
BY PlaceholderTypes, PoliciesAssumption, RouterAssumption
   DEF Init, TypeOK, StoreInit, StoreTypeOK, Deadlines, PC, NoInput

\* Every step keeps every variable in its type.
LEMMA TypeStep ==
    ASSUME TypeOK, [Next]_vars
    PROVE  TypeOK'
<1> USE DEF TypeOK
<1>1. ASSUME NEW r \in Requests, Arrive(r) PROVE TypeOK'
  BY <1>1 DEF Arrive, Goto, PC, StoreTypeOK
<1>2. ASSUME NEW r \in Requests, SideChannel(r) PROVE TypeOK'
  <2>1. Ladder[CheapestTier] \in Models
    BY LadderModels, PoliciesAssumption DEF CheapestTier, Tiers, TopTier
  <2> QED BY <1>2, <2>1 DEF SideChannel, Goto, PC, StoreTypeOK
<1>3. ASSUME NEW r \in Requests, Get(r) \/ PipelineExpire(r) PROVE TypeOK'
  <2>1. PICK outcome \in Reachable, record \in SessionRecord :
          GetAndRefresh(KeyFor(r), outcome) /\ Proceed(r, record)
    BY <1>3, InputTypes, FetchedType, PlaceholderTypes DEF Get, PipelineExpire, Expire
  <2>2. StoreTypeOK'
    BY <2>1, InputTypes, GetType
  <2>3. UNCHANGED <<inp, log>>
    BY <1>3 DEF Get, PipelineExpire
  <2> QED BY <2>1, <2>2, <2>3, ProceedType
<1>3a. ASSUME NEW r \in Requests, PipelineGet(r) PROVE TypeOK'
  BY <1>3a, InputTypes DEF PipelineGet, Goto, PC, StoreTypeOK
<1>4. ASSUME NEW r \in Requests, HandlePinned(r) PROVE TypeOK'
  <2>1. inp[r] \in Request /\ KeyFor(r) \in Keys /\ rec[r] \in SessionRecord
    BY InputTypes
  <2>2. /\ rec[r].mark \in Nat /\ inp[r].n \in Nat /\ inp[r].header \in BOOLEAN
        /\ rec[r].model \in Models
    BY <2>1 DEF Request, SessionRecord
  <2>3. UNCHANGED <<store, ttl, inp>>
    BY <1>4 DEF HandlePinned
  <2>4. PICK o \in ScanOutcomes(rec[r].mark, inp[r].n, inp[r].header) :
          \/ /\ o.signal /\ CanEscalate(rec[r])
             /\ rec' = [rec EXCEPT ![r] = [Escalated(rec[r]) EXCEPT
                                              !.mark = Consume(o.mark, inp[r].n)]]
             /\ Emit(KeyFor(r), EscalationEvents(rec[r]))
             /\ Goto(r, "update")
             /\ UNCHANGED <<decided, served>>
          \/ /\ rec' = [rec EXCEPT ![r].mark = o.mark]
             /\ Goto(r, "update")
             /\ UNCHANGED <<decided, served, log>>
          \/ /\ Answer(r, rec[r].model)
             /\ UNCHANGED <<rec, log>>
    BY <1>4 DEF HandlePinned
  <2>5. o.mark \in Nat /\ Consume(o.mark, inp[r].n) \in Nat
    BY <2>2, ScanTypes
  <2>6. CASE /\ o.signal /\ CanEscalate(rec[r])
             /\ rec' = [rec EXCEPT ![r] = [Escalated(rec[r]) EXCEPT
                                              !.mark = Consume(o.mark, inp[r].n)]]
             /\ Emit(KeyFor(r), EscalationEvents(rec[r]))
             /\ Goto(r, "update")
             /\ UNCHANGED <<decided, served>>
    <3>1. Escalated(rec[r]) \in SessionRecord
      BY <2>6, <2>1, EscalatedType
    <3>2. rec' \in [Requests -> SessionRecord]
      BY <2>6, <3>1, <2>5 DEF SessionRecord
    <3>3. EscalationEvents(rec[r]) \in Seq(Event)
      BY <2>6, EscalationsAreEvents
    <3>4. log' \in [Keys -> Seq(Event)]
      BY <2>6, <2>1, <3>3, EmitType
    <3> QED BY <2>3, <2>6, <3>2, <3>4 DEF Goto, PC, StoreTypeOK
  <2>7. CASE /\ rec' = [rec EXCEPT ![r].mark = o.mark]
             /\ Goto(r, "update")
             /\ UNCHANGED <<decided, served, log>>
    <3>1. rec' \in [Requests -> SessionRecord]
      BY <2>7, <2>1, <2>5 DEF SessionRecord
    <3> QED BY <2>3, <2>7, <3>1 DEF Goto, PC, StoreTypeOK
  <2>8. CASE Answer(r, rec[r].model) /\ UNCHANGED <<rec, log>>
    BY <2>2, <2>3, <2>8, AnswerType DEF StoreTypeOK
  <2> QED BY <2>4, <2>6, <2>7, <2>8
<1>5. ASSUME NEW r \in Requests, WriteBack(r) PROVE TypeOK'
  <2>1. PICK outcome \in Reachable : Update(KeyFor(r), rec[r], outcome)
    BY <1>5 DEF WriteBack
  <2>2. StoreTypeOK'
    BY <2>1, InputTypes, UpdateType
  <2>3. rec[r].model \in Models
    BY DEF SessionRecord
  <2> QED BY <1>5, <2>2, <2>3, AnswerType DEF WriteBack
<1>6. ASSUME NEW r \in Requests, Claim(r) PROVE TypeOK'
  <2>1. PICK outcome \in Reachable : ClaimForClassification(KeyFor(r), outcome)
    BY <1>6 DEF Claim
  <2>2. StoreTypeOK'
    BY <2>1, InputTypes, ClaimType
  <2>3. BuildPinRecord(NoVerdict, TRUE, inp[r].n) \in SessionRecord
    BY InputTypes, BuildPinRecordType DEF Request, Verdicts
  <2>4. \/ Answer(r, DefaultModel) /\ UNCHANGED rec
        \/ /\ pc' \in [Requests -> PC] /\ UNCHANGED <<decided, served>>
           /\ rec' \in [Requests -> SessionRecord]
    BY <1>6, <2>3 DEF Claim, Goto, PC
  <2>5. UNCHANGED <<inp, log>>
    BY <1>6 DEF Claim
  <2> QED BY <2>2, <2>4, <2>5, AnswerType, PoliciesAssumption
<1>7. ASSUME NEW r \in Requests,
             ReadParent(r) \/ PipelineGetParent(r) \/ PipelineExpireParent(r)
      PROVE  TypeOK'
  <2>1. ASSUME NEW parent \in SessionRecord PROVE SubagentPin(r, parent) \in SessionRecord
    <3>1. PICK verdict \in Verdicts :
            SubagentPin(r, parent) = BuildPinRecord(verdict, FALSE, inp[r].n)
      BY SubagentPinBuilt, Zenon
    <3>2. inp[r].n \in Nat
      BY InputTypes DEF Request
    <3> QED BY <3>1, <3>2, BuildPinRecordType
  <2>2. store[BaseKey(inp[r])] \in SessionRecord
    BY InputTypes DEF StoreTypeOK
  <2>3. rec' \in [Requests -> SessionRecord]
    <3>1. CASE ReadParent(r)
      <4>1. PICK outcome \in Reachable :
              rec' = [rec EXCEPT ![r] = SubagentPin(r, Fetched(BaseKey(inp[r]), outcome))]
        BY <3>1 DEF ReadParent
      <4> QED BY <4>1, <2>1, InputTypes, FetchedType
    <3>2. CASE PipelineGetParent(r)
      <4>1. rec' = [rec EXCEPT ![r] = SubagentPin(r, store[BaseKey(inp[r])])]
        BY <3>2 DEF PipelineGetParent
      <4> QED BY <4>1, <2>1, <2>2
    <3>3. CASE PipelineExpireParent(r)
      <4>1. PICK outcome \in Reachable :
              rec' = [rec EXCEPT ![r] = IF outcome = "ok" THEN @ ELSE SubagentPin(r, NoRecord)]
        BY <3>3 DEF PipelineExpireParent
      <4> QED BY <4>1, <2>1, PlaceholderTypes
    <3> QED BY <1>7, <3>1, <3>2, <3>3
  <2>4. StoreTypeOK'
    <3>1. CASE \E outcome \in Reachable : GetAndRefresh(BaseKey(inp[r]), outcome)
      BY <3>1, InputTypes, GetType
    <3>2. CASE UNCHANGED <<store, ttl>>
      BY <3>2 DEF StoreTypeOK
    <3> QED BY <1>7, <3>1, <3>2 DEF ReadParent, PipelineGetParent, PipelineExpireParent, Expire
  <2>5. pc' \in [Requests -> PC]
    BY <1>7 DEF ReadParent, PipelineGetParent, PipelineExpireParent, Goto, PC
  <2> QED BY <1>7, <2>3, <2>4, <2>5 DEF ReadParent, PipelineGetParent, PipelineExpireParent
<1>8. ASSUME NEW r \in Requests, Classify(r) PROVE TypeOK'
  <2>1. PICK verdict \in Verdicts :
          rec' = [rec EXCEPT ![r] = BuildPinRecord(verdict, FALSE, inp[r].n)]
    BY <1>8 DEF Classify
  <2>2. BuildPinRecord(verdict, FALSE, inp[r].n) \in SessionRecord
    BY InputTypes, BuildPinRecordType DEF Request
  <2> QED BY <1>8, <2>1, <2>2 DEF Classify, Goto, PC, StoreTypeOK
<1>9. ASSUME NEW r \in Requests, Pin(r) PROVE TypeOK'
  <2>1. StoreTypeOK'
    BY <1>9, InputTypes, WritePinType DEF Pin
  <2> QED BY <1>9, <2>1 DEF Pin, Goto, PC
<1>10. ASSUME NEW r \in Requests, EmitPinned(r) PROVE TypeOK'
  <2>1. rec[r].model \in Models
    BY DEF SessionRecord
  <2>2. PinEvents(r) \in Seq(Event)
    BY PinEventsAreEvents
  <2>3. log' \in [Keys -> Seq(Event)]
    BY <1>10, <2>2, InputTypes, EmitType DEF EmitPinned
  <2> QED BY <1>10, <2>1, <2>3, AnswerType DEF EmitPinned, StoreTypeOK
<1>11. ASSUME NEW r \in Requests, Crash(r) \/ FailOpen(r) PROVE TypeOK'
  BY <1>11, PoliciesAssumption DEF Crash, FailOpen, Goto, PC, StoreTypeOK
<1>12. ASSUME NEW k \in Keys, KeyStep(k) PROVE TypeOK'
  <2>1. Drop(k) /\ UNCHANGED <<pc, inp, rec, decided, served, log>>
    BY <1>12 DEF KeyStep, ClaimLapses, SessionLapses, Evict
  <2> QED BY <2>1, DropType
<1>13. CASE UNCHANGED vars
  BY <1>13 DEF vars, StoreTypeOK
<1> QED
  BY <1>1, <1>2, <1>3, <1>3a, <1>4, <1>5, <1>6, <1>7, <1>8, <1>9, <1>10, <1>11, <1>12, <1>13
     DEF Next, RequestStep, HookStep, Terminated

\* Every variable keeps its type: in particular a record always names a tier of the
\* ladder and a model the proxy knows.
THEOREM TypeCorrect == Spec => []TypeOK
<1>1. TypeOK /\ [Next]_vars => TypeOK'
  BY TypeStep
<1> QED BY TypeInit, <1>1, PTL DEF Spec

-----------------------------------------------------------------------------
(***************************************************************************)
(* Where the records come from.  A step stores nothing but a placeholder   *)
(* or the record some request carries, and a request gets its record from  *)
(* the store, from build_pin_record or by moving on the one it has.        *)
(***************************************************************************)

\* Where the stored record of a key can come from: it stays, it goes, a placeholder takes
\* the place of no record, or a request leaves its pin or its update by writing the copy it
\* carries.
LEMMA StoredRecords ==
    ASSUME TypeOK, [Next]_vars, NEW k \in Keys
    PROVE  \/ store'[k] \in {store[k], NoRecord}
           \/ ~Present(k) /\ store'[k] = ClassifyingPlaceholder
           \/ \E r \in Requests : /\ pc[r] \in {"pin", "update"} /\ pc'[r] # pc[r]
                                 /\ KeyFor(r) = k
                                 /\ store'[k] = rec[r]
<1> DEFINE Goal == \/ store'[k] \in {store[k], NoRecord}
                   \/ ~Present(k) /\ store'[k] = ClassifyingPlaceholder
                   \/ \E r \in Requests : /\ pc[r] \in {"pin", "update"} /\ pc'[r] # pc[r]
                                         /\ KeyFor(r) = k
                                         /\ store'[k] = rec[r]
<1>1. store \in [Keys -> SessionRecord] /\ pc \in [Requests -> PC]
  BY DEF TypeOK, StoreTypeOK
<1>2. ASSUME NEW r \in Requests, Claim(r) PROVE Goal
  BY <1>1, <1>2, InputTypes DEF Claim, ClaimForClassification, storeVars
<1>3. ASSUME NEW r \in Requests, Pin(r) PROVE Goal
  BY <1>1, <1>3, InputTypes DEF Pin, WritePin, storeVars, Goto
<1>4. ASSUME NEW r \in Requests, WriteBack(r) PROVE Goal
  BY <1>1, <1>4, InputTypes DEF WriteBack, Update, storeVars, Answer, Goto
<1>5. ASSUME NEW r \in Requests,
             Get(r) \/ PipelineGet(r) \/ PipelineExpire(r)
             \/ ReadParent(r) \/ PipelineGetParent(r) \/ PipelineExpireParent(r)
      PROVE  Goal
  BY <1>5 DEF Get, PipelineGet, PipelineExpire, ReadParent, PipelineGetParent,
              PipelineExpireParent, GetAndRefresh, Expire
<1>6. ASSUME NEW r \in Requests,
             Arrive(r) \/ SideChannel(r) \/ HandlePinned(r) \/ Classify(r) \/ EmitPinned(r)
             \/ Crash(r) \/ FailOpen(r)
      PROVE  Goal
  BY <1>6 DEF Arrive, SideChannel, HandlePinned, Classify, EmitPinned, Crash, FailOpen
<1>7. ASSUME NEW q \in Keys, KeyStep(q) PROVE Goal
  BY <1>1, <1>7 DEF KeyStep, ClaimLapses, SessionLapses, Evict, Drop
<1>8. CASE UNCHANGED vars
  BY <1>8 DEF vars
<1> QED BY <1>2, <1>3, <1>4, <1>5, <1>6, <1>7, <1>8 DEF Next, RequestStep, HookStep, Terminated

\* Where the copy a request carries can come from: the store, or one of the three
\* pure transitions of the state machine.
LEMMA CarriedRecords ==
    ASSUME TypeOK, [Next]_vars, NEW r \in Requests
    PROVE  \/ rec'[r] \in {rec[r], NoRecord, store[KeyFor(r)]}
           \/ \E verdict \in Verdicts, override \in BOOLEAN :
                 rec'[r] = BuildPinRecord(verdict, override, inp[r].n)
           \/ \E mark \in Nat : rec'[r] = [rec[r] EXCEPT !.mark = mark]
           \/ /\ CanEscalate(rec[r])
              /\ \E mark \in Nat : rec'[r] = [Escalated(rec[r]) EXCEPT !.mark = mark]
<1> DEFINE Goal == \/ rec'[r] \in {rec[r], NoRecord, store[KeyFor(r)]}
                   \/ \E verdict \in Verdicts, override \in BOOLEAN :
                         rec'[r] = BuildPinRecord(verdict, override, inp[r].n)
                   \/ \E mark \in Nat : rec'[r] = [rec[r] EXCEPT !.mark = mark]
                   \/ /\ CanEscalate(rec[r])
                      /\ \E mark \in Nat : rec'[r] = [Escalated(rec[r]) EXCEPT !.mark = mark]
<1>1. rec \in [Requests -> SessionRecord]
  BY DEF TypeOK
<1>2. ASSUME NEW s \in Requests, Get(s) \/ PipelineGet(s) \/ PipelineExpire(s) PROVE Goal
  BY <1>1, <1>2 DEF Get, PipelineGet, PipelineExpire, Proceed, Fetched
<1>3. ASSUME NEW s \in Requests, HandlePinned(s) PROVE Goal
  <2>1. /\ rec[s].mark \in Nat /\ inp[s].n \in Nat /\ inp[s].header \in BOOLEAN
    BY <1>1, InputTypes DEF Request, SessionRecord
  <2>2. PICK o \in ScanOutcomes(rec[s].mark, inp[s].n, inp[s].header) :
          \/ /\ CanEscalate(rec[s])
             /\ rec' = [rec EXCEPT ![s] = [Escalated(rec[s]) EXCEPT
                                              !.mark = Consume(o.mark, inp[s].n)]]
          \/ rec' = [rec EXCEPT ![s].mark = o.mark]
          \/ rec' = rec
    BY <1>3 DEF HandlePinned
  <2>3. o.mark \in Nat /\ Consume(o.mark, inp[s].n) \in Nat
    BY <2>1, ScanTypes
  <2> QED BY <1>1, <2>2, <2>3
<1>4. ASSUME NEW s \in Requests, Claim(s) PROVE Goal
  <2>1. rec' = rec \/ rec' = [rec EXCEPT ![s] = BuildPinRecord(NoVerdict, TRUE, inp[s].n)]
    BY <1>4 DEF Claim
  <2>2. NoVerdict \in Verdicts /\ TRUE \in BOOLEAN
    BY DEF Verdicts
  <2> QED BY <1>1, <2>1, <2>2
<1>5. ASSUME NEW s \in Requests,
             ReadParent(s) \/ PipelineGetParent(s) \/ PipelineExpireParent(s)
      PROVE  Goal
  <2>1. PICK parent \in SessionRecord : rec' \in {rec, [rec EXCEPT ![s] = SubagentPin(s, parent)]}
    <3>1. store[BaseKey(inp[s])] \in SessionRecord
      BY InputTypes DEF TypeOK, StoreTypeOK
    <3>2. \A outcome \in Reachable : Fetched(BaseKey(inp[s]), outcome) \in SessionRecord
      BY InputTypes, FetchedType DEF TypeOK
    <3> QED BY <1>1, <1>5, <3>1, <3>2, PlaceholderTypes
            DEF ReadParent, PipelineGetParent, PipelineExpireParent
  <2>2. PICK verdict \in Verdicts : SubagentPin(s, parent) = BuildPinRecord(verdict, FALSE, inp[s].n)
    BY SubagentPinBuilt
  <2> QED BY <1>1, <2>1, <2>2
<1>6. ASSUME NEW s \in Requests, Classify(s) PROVE Goal
  BY <1>1, <1>6 DEF Classify
<1>7. ASSUME NEW s \in Requests,
             Arrive(s) \/ SideChannel(s) \/ WriteBack(s) \/ Pin(s) \/ EmitPinned(s)
             \/ Crash(s) \/ FailOpen(s)
      PROVE  Goal
  BY <1>7 DEF Arrive, SideChannel, WriteBack, Pin, EmitPinned, Crash, FailOpen
<1>8. ASSUME NEW q \in Keys, KeyStep(q) PROVE Goal
  BY <1>8 DEF KeyStep, ClaimLapses, SessionLapses, Evict
<1>9. CASE UNCHANGED vars
  BY <1>9 DEF vars
<1> QED BY <1>2, <1>3, <1>4, <1>5, <1>6, <1>7, <1>8, <1>9 DEF Next, RequestStep, HookStep, Terminated

\* What a request holds: nothing but its own steps changes it.
Stands(s) == pc'[s] = pc[s] /\ inp'[s] = inp[s] /\ rec'[s] = rec[s] /\ decided'[s] = decided[s]

\* A step is a request's own, or leaves that request standing where it was.
LEMMA OthersStand ==
    ASSUME TypeOK, [Next]_vars, NEW s \in Requests
    PROVE  RequestStep(s) \/ Stands(s)
<1>1. /\ pc \in [Requests -> PC] /\ inp \in [Requests -> Inputs]
      /\ rec \in [Requests -> SessionRecord] /\ decided \in [Requests -> Models]
  BY DEF TypeOK
<1>2. ASSUME NEW r \in Requests, r # s, Arrive(r) \/ SideChannel(r) \/ Crash(r) \/ FailOpen(r)
      PROVE  Stands(s)
  BY <1>1, <1>2 DEF Stands, Arrive, SideChannel, Crash, FailOpen, Goto
<1>3. ASSUME NEW r \in Requests, r # s, Get(r) \/ PipelineGet(r) \/ PipelineExpire(r)
      PROVE  Stands(s)
  BY <1>1, <1>3 DEF Stands, Get, PipelineGet, PipelineExpire, Proceed, Answer, Goto
<1>4. ASSUME NEW r \in Requests, r # s, HandlePinned(r) PROVE Stands(s)
  BY <1>1, <1>4 DEF Stands, HandlePinned, Answer, Goto
<1>5. ASSUME NEW r \in Requests, r # s, Claim(r) \/ Classify(r) PROVE Stands(s)
  BY <1>1, <1>5 DEF Stands, Claim, Classify, Answer, Goto
<1>6. ASSUME NEW r \in Requests, r # s,
             ReadParent(r) \/ PipelineGetParent(r) \/ PipelineExpireParent(r)
      PROVE  Stands(s)
  BY <1>1, <1>6 DEF Stands, ReadParent, PipelineGetParent, PipelineExpireParent, Goto
<1>7. ASSUME NEW r \in Requests, r # s, WriteBack(r) \/ Pin(r) \/ EmitPinned(r) PROVE Stands(s)
  BY <1>1, <1>7 DEF Stands, WriteBack, Pin, EmitPinned, Answer, Goto
<1>8. ASSUME NEW k \in Keys, KeyStep(k) PROVE Stands(s)
  BY <1>8 DEF Stands, KeyStep, ClaimLapses, SessionLapses, Evict
<1>9. CASE UNCHANGED vars
  BY <1>9 DEF Stands, vars
<1> QED
  BY <1>2, <1>3, <1>4, <1>5, <1>6, <1>7, <1>8, <1>9 DEF Next, RequestStep, HookStep, Terminated

-----------------------------------------------------------------------------
(***************************************************************************)
(* The ladder, under every fault.                                          *)
(***************************************************************************)

\* A key without a pin is no exception to the ladder.
LEMMA UnpinnedOnTheLadder == OnTheLadder(NoRecord) /\ OnTheLadder(ClassifyingPlaceholder)
BY DEF OnTheLadder, Pinned, NoRecord, ClassifyingPlaceholder, Unpinned

\* A fresh pin is on the ladder, at force_tier if it was forced.
LEMMA BuiltOnTheLadder ==
    ASSUME NEW v \in Verdicts, NEW o \in BOOLEAN, NEW n \in Nat
    PROVE  OnTheLadder(BuildPinRecord(v, o, n))
<1> DEFINE tier == IF o THEN ForceTier ELSE IF v # NoVerdict THEN v ELSE DefaultTier
           built == BuildPinRecord(v, o, n)
<1>1. tier \in Tiers /\ tier \in Nat
  BY DefaultTierIsATier, PoliciesAssumption DEF Verdicts, Tiers, TopTier
<1>2. /\ built.tier = tier /\ built.esc = 0
      /\ built.model = IF o \/ v # NoVerdict THEN Ladder[tier] ELSE DefaultModel
      /\ built.override = o
      /\ built.classified = (~o /\ v # NoVerdict)
  BY DEF BuildPinRecord
<1>3. BaseTier(built) = tier
  BY <1>1, <1>2 DEF BaseTier
<1>4. built.esc <= MaxEscalations
  BY <1>2, PoliciesAssumption
<1>5. CASE o \/ v # NoVerdict
  BY <1>1, <1>2, <1>3, <1>4, <1>5 DEF OnTheLadder
<1>6. CASE ~(o \/ v # NoVerdict)
  BY <1>1, <1>2, <1>3, <1>4, <1>6 DEF OnTheLadder
<1> QED BY <1>5, <1>6

\* Moving the watermark keeps a record on the ladder.
LEMMA MarkedOnTheLadder ==
    ASSUME NEW record \in SessionRecord, OnTheLadder(record), NEW mark \in Nat
    PROVE  OnTheLadder([record EXCEPT !.mark = mark])
<1> DEFINE marked == [record EXCEPT !.mark = mark]
<1>1. /\ marked.state = record.state /\ marked.tier = record.tier
      /\ marked.model = record.model /\ marked.esc = record.esc
      /\ marked.override = record.override /\ marked.classified = record.classified
  BY DEF SessionRecord
<1> HIDE DEF marked
<1>2. OnTheLadder(marked)
  BY <1>1 DEF OnTheLadder, Pinned, BaseTier
<1> QED BY <1>2 DEF marked

\* An escalation that applies keeps a record on the ladder.
LEMMA EscalatedOnTheLadder ==
    ASSUME NEW record \in SessionRecord, OnTheLadder(record), CanEscalate(record)
    PROVE  OnTheLadder(Escalated(record))
<1> DEFINE up == Escalated(record)
<1>1. /\ up.tier = record.tier + 1 /\ up.esc = record.esc + 1
      /\ up.model = Ladder[record.tier + 1] /\ up.override = record.override
  BY EscalatedType
<1>2. record.tier \in Nat /\ record.esc \in Nat /\ MaxEscalations \in Nat
  BY PoliciesAssumption DEF SessionRecord, Tiers
<1>3. Pinned(record) /\ record.esc < MaxEscalations
  BY DEF CanEscalate
<1> HIDE DEF up
<1>4. BaseTier(up) = BaseTier(record) /\ up.esc <= MaxEscalations /\ up.model = Ladder[up.tier]
  BY <1>1, <1>2, <1>3 DEF BaseTier
<1>5. OnTheLadder(up)
  BY <1>1, <1>3, <1>4 DEF OnTheLadder
<1> QED BY <1>5 DEF up

RecordsAreOnTheLadder ==
    /\ \A k \in Keys : OnTheLadder(store[k])
    /\ \A r \in Requests : OnTheLadder(rec[r])

\* Every step keeps every stored and carried record on the ladder.
LEMMA LadderStep ==
    ASSUME TypeOK, RecordsAreOnTheLadder, [Next]_vars
    PROVE  RecordsAreOnTheLadder'
<1>1. ASSUME NEW k \in Keys PROVE OnTheLadder(store[k])'
  BY StoredRecords, UnpinnedOnTheLadder DEF RecordsAreOnTheLadder, OnTheLadder
<1>2. ASSUME NEW r \in Requests PROVE OnTheLadder(rec'[r])
  <2>1. rec[r] \in SessionRecord /\ KeyFor(r) \in Keys /\ inp[r].n \in Nat
    BY InputTypes DEF TypeOK, Request
  <2>2. CASE rec'[r] \in {rec[r], NoRecord, store[KeyFor(r)]}
    BY <2>1, <2>2, UnpinnedOnTheLadder DEF RecordsAreOnTheLadder
  <2>3. CASE \E verdict \in Verdicts, override \in BOOLEAN :
               rec'[r] = BuildPinRecord(verdict, override, inp[r].n)
    BY <2>1, <2>3, BuiltOnTheLadder
  <2>4. CASE \E mark \in Nat : rec'[r] = [rec[r] EXCEPT !.mark = mark]
    BY <2>1, <2>4, MarkedOnTheLadder DEF RecordsAreOnTheLadder
  <2>5. CASE /\ CanEscalate(rec[r])
             /\ \E mark \in Nat : rec'[r] = [Escalated(rec[r]) EXCEPT !.mark = mark]
    BY <2>1, <2>5, EscalatedOnTheLadder, EscalatedType, MarkedOnTheLadder DEF RecordsAreOnTheLadder
  <2> QED BY <2>2, <2>3, <2>4, <2>5, CarriedRecords
<1> QED BY <1>1, <1>2 DEF RecordsAreOnTheLadder, OnTheLadder

\* The inductive invariant of the ladder.
LEMMA RecordsStayOnTheLadder == Spec => []RecordsAreOnTheLadder
<1>1. Init => RecordsAreOnTheLadder
  BY UnpinnedOnTheLadder DEF Init, StoreInit, RecordsAreOnTheLadder
<1>2. TypeOK /\ RecordsAreOnTheLadder /\ [Next]_vars => RecordsAreOnTheLadder'
  BY LadderStep
<1> QED BY <1>1, <1>2, TypeCorrect, PTL DEF Spec

\* No interleaving, lost reply or stale write takes a record off the ladder or past the
\* cap on escalations.
THEOREM LadderHolds == Spec => []LadderDiscipline
<1>1. RecordsAreOnTheLadder => LadderDiscipline
  BY DEF RecordsAreOnTheLadder, LadderDiscipline
<1> QED BY <1>1, RecordsStayOnTheLadder, PTL

-----------------------------------------------------------------------------
(***************************************************************************)
(* One winner per claim, and one pin for the life of a record: as long as  *)
(* Redis keeps what it is given and no winner outlives its claim.          *)
(*                                                                         *)
(* ClaimExclusion is not inductive: a late write-back could overwrite the  *)
(* winner's placeholder, or a claim's deadline drop a pin.  CopiesAgree    *)
(* rules out the first and ClaimDeadlines the second.                      *)
(***************************************************************************)

ClaimDeadlines == \A k \in Keys : ttl[k] = "claim" => store[k].state = "classifying"

ClaimInv == ClaimExclusion /\ CopiesAgree /\ ClaimDeadlines

\* An escalation, or a move of the watermark, leaves the pin what it was.
LEMMA EscalatedSamePin ==
    ASSUME NEW a \in SessionRecord, NEW b \in SessionRecord, SamePin(a, b), NEW mark \in Nat
    PROVE  /\ SamePin([a EXCEPT !.mark = mark], b)
           /\ CanEscalate(a) => SamePin([Escalated(a) EXCEPT !.mark = mark], b)
<1>1. ASSUME NEW c \in SessionRecord, SamePin(c, b)
      PROVE  SamePin([c EXCEPT !.mark = mark], b)
  <2> DEFINE marked == [c EXCEPT !.mark = mark]
  <2>1. /\ marked.state = c.state /\ marked.tier = c.tier /\ marked.esc = c.esc
        /\ marked.override = c.override
    BY <1>1 DEF SessionRecord
  <2> HIDE DEF marked
  <2>2. SamePin(marked, b)
    BY <1>1, <2>1 DEF SamePin, Pinned, BaseTier
  <2> QED BY <2>2 DEF marked
<1>2. ASSUME CanEscalate(a) PROVE SamePin(Escalated(a), b)
  <2>1. a.tier \in Nat /\ a.esc \in Nat
    BY PoliciesAssumption DEF SessionRecord, Tiers, TopTier
  <2>2. BaseTier(Escalated(a)) = BaseTier(a)
    BY <1>2, <2>1, EscalatedType DEF BaseTier
  <2> QED BY <1>2, <2>2, EscalatedType DEF SamePin, Pinned
<1> QED BY <1>1, <1>2, EscalatedType

\* Every step keeps the claim invariant, as long as claims outlive their winners and
\* Redis drops no key early.
LEMMA ClaimStep ==
    ASSUME TypeOK, ClaimInv, [Next]_vars,
           "stall" \notin Environment, "evict" \notin Environment
    PROVE  ClaimInv'
<1> USE DEF ClaimInv, ClaimExclusion, CopiesAgree, ClaimDeadlines, Winner, HoldsCopy
<1>0. /\ store \in [Keys -> SessionRecord] /\ ttl \in [Keys -> Deadlines]
      /\ pc \in [Requests -> PC] /\ inp \in [Requests -> Inputs]
      /\ rec \in [Requests -> SessionRecord]
      /\ \A r \in Requests : KeyFor(r) \in Keys
  BY InputTypes DEF TypeOK, StoreTypeOK
<1>1. ASSUME NEW r \in Requests, Arrive(r) \/ SideChannel(r) PROVE ClaimInv'
  <2>1. /\ pc' \in {[pc EXCEPT ![r] = "get"], [pc EXCEPT ![r] = "done"]}
        /\ \A s \in Requests : s # r => KeyFor(s)' = KeyFor(s)
        /\ UNCHANGED <<store, ttl, rec>>
    BY <1>0, <1>1 DEF Arrive, SideChannel, Goto, KeyFor
  <2> QED BY <1>0, <2>1
<1>2. ASSUME NEW r \in Requests, Get(r) \/ PipelineExpire(r) PROVE ClaimInv'
  <2>1. PICK outcome \in Reachable, record \in {NoRecord, rec[r], store[KeyFor(r)]} :
          /\ GetAndRefresh(KeyFor(r), outcome)
          /\ Proceed(r, record)
          /\ \/ record = NoRecord
             \/ record = store[KeyFor(r)]
             \/ record = rec[r] /\ pc[r] = "expire"
    <3>1. CASE Get(r)
      <4>1. PICK outcome \in Reachable : /\ GetAndRefresh(KeyFor(r), outcome)
                                         /\ Proceed(r, Fetched(KeyFor(r), outcome))
        BY <3>1, Zenon DEF Get
      <4>2. Fetched(KeyFor(r), outcome) \in {NoRecord, store[KeyFor(r)]}
        BY DEF Fetched
      <4> QED BY <4>1, <4>2, Zenon
    <3>2. CASE PipelineExpire(r)
      <4>1. /\ pc[r] = "expire"
            /\ \E outcome \in Reachable :
                  /\ GetAndRefresh(KeyFor(r), outcome)
                  /\ Proceed(r, IF outcome = "ok" THEN rec[r] ELSE NoRecord)
        BY <3>2, Zenon DEF PipelineExpire, Expire
      <4>2. PICK outcome \in Reachable :
              /\ GetAndRefresh(KeyFor(r), outcome)
              /\ Proceed(r, IF outcome = "ok" THEN rec[r] ELSE NoRecord)
        BY <4>1, Zenon
      <4>3. CASE outcome = "ok"
        BY <4>1, <4>2, <4>3, Zenon
      <4>4. CASE outcome # "ok"
        BY <4>1, <4>2, <4>4, Zenon
      <4> QED BY <4>3, <4>4
    <3> QED BY <1>2, <3>1, <3>2, Zenon
  <2>2. UNCHANGED <<inp, store>> /\ \A s \in Requests : KeyFor(s)' = KeyFor(s)
    BY <1>2, <2>1 DEF Get, PipelineExpire, GetAndRefresh, KeyFor
  <2>3. \A k \in Keys : ttl'[k] \in {ttl[k], "session"}
    BY <1>0, <2>1 DEF GetAndRefresh
  <2>4. Pinned(record) => SamePin(record, store[KeyFor(r)])
    <3>1. ~Pinned(NoRecord)
      BY DEF Pinned, NoRecord, Unpinned
    <3>2. CASE record = store[KeyFor(r)]
      BY <3>2 DEF SamePin
    <3>3. CASE pc[r] = "expire" /\ record = rec[r]
      BY <3>3
    <3> QED BY <2>1, <3>1, <3>2, <3>3
  <2>5. /\ rec' = [rec EXCEPT ![r] = record]
        /\ \/ Pinned(record) /\ Goto(r, "scan")
           \/ Goto(r, "done")
           \/ Goto(r, "claim")
    BY <2>1 DEF Proceed, Answer
  <2> QED BY <1>0, <2>2, <2>3, <2>4, <2>5 DEF Goto
<1>2a. ASSUME NEW r \in Requests, PipelineGet(r) PROVE ClaimInv'
  <2>1. /\ UNCHANGED <<store, ttl, inp>> /\ Goto(r, "expire")
        /\ rec' = [rec EXCEPT ![r] = store[KeyFor(r)]]
        /\ \A s \in Requests : KeyFor(s)' = KeyFor(s)
    BY <1>2a DEF PipelineGet, KeyFor
  <2>2. Pinned(store[KeyFor(r)]) => SamePin(store[KeyFor(r)], store[KeyFor(r)])
    BY DEF SamePin
  <2> QED BY <1>0, <2>1, <2>2 DEF Goto
<1>3. ASSUME NEW r \in Requests, HandlePinned(r) PROVE ClaimInv'
  <2>1. /\ UNCHANGED <<store, ttl, inp>> /\ pc[r] = "scan"
        /\ Goto(r, "update") \/ Goto(r, "done")
    BY <1>3 DEF HandlePinned, Answer
  <2>2. \A s \in Requests : KeyFor(s)' = KeyFor(s)
    BY <2>1 DEF KeyFor
  <2>3. /\ rec[r].mark \in Nat /\ inp[r].n \in Nat /\ inp[r].header \in BOOLEAN
    BY <1>0, InputTypes DEF Request, SessionRecord
  <2>4. PICK o \in ScanOutcomes(rec[r].mark, inp[r].n, inp[r].header) :
          \/ /\ CanEscalate(rec[r])
             /\ rec' = [rec EXCEPT ![r] = [Escalated(rec[r]) EXCEPT
                                              !.mark = Consume(o.mark, inp[r].n)]]
          \/ rec' = [rec EXCEPT ![r].mark = o.mark]
          \/ rec' = rec
    BY <1>3 DEF HandlePinned
  <2>5. SamePin(rec'[r], store[KeyFor(r)])
    <3>1. o.mark \in Nat /\ Consume(o.mark, inp[r].n) \in Nat
      BY <2>3, ScanTypes
    <3>2. SamePin(rec[r], store[KeyFor(r)])
      BY <2>1
    <3>3. \/ /\ CanEscalate(rec[r])
             /\ rec'[r] = [Escalated(rec[r]) EXCEPT !.mark = Consume(o.mark, inp[r].n)]
          \/ rec'[r] = [rec[r] EXCEPT !.mark = o.mark]
          \/ rec'[r] = rec[r]
      BY <1>0, <2>4
    <3>4. rec[r] \in SessionRecord /\ store[KeyFor(r)] \in SessionRecord
      BY <1>0
    <3>5. /\ SamePin([rec[r] EXCEPT !.mark = o.mark], store[KeyFor(r)])
          /\ CanEscalate(rec[r]) =>
               SamePin([Escalated(rec[r]) EXCEPT !.mark = Consume(o.mark, inp[r].n)],
                       store[KeyFor(r)])
      BY <3>1, <3>2, <3>4, EscalatedSamePin
    <3> QED BY <3>2, <3>3, <3>5, Zenon
  <2>6. \A s \in Requests : s # r => rec'[s] = rec[s] /\ pc'[s] = pc[s]
    BY <1>0, <2>1, <2>4 DEF Goto
  <2>7. pc'[r] \in {"update", "done"}
    BY <1>0, <2>1 DEF Goto
  <2> QED BY <1>0, <2>1, <2>2, <2>5, <2>6, <2>7
<1>4. ASSUME NEW r \in Requests, WriteBack(r) PROVE ClaimInv'
  <2>1. PICK outcome \in Reachable : Update(KeyFor(r), rec[r], outcome)
    BY <1>4 DEF WriteBack
  <2>2. /\ UNCHANGED <<inp, rec>> /\ pc[r] = "update" /\ Goto(r, "done")
    BY <1>4 DEF WriteBack, Answer
  <2>3. \A s \in Requests : KeyFor(s)' = KeyFor(s)
    BY <2>2 DEF KeyFor
  <2>4. SamePin(rec[r], store[KeyFor(r)])
    BY <2>2
  <2>5. \A k \in Keys : k # KeyFor(r) => store'[k] = store[k] /\ ttl'[k] = ttl[k]
    BY <1>0, <2>1 DEF Update, storeVars
  <2>6. store'[KeyFor(r)] \in {store[KeyFor(r)], rec[r]}
    BY <1>0, <2>1 DEF Update, storeVars
  <2>7. ttl'[KeyFor(r)] # "claim"
    BY <1>0, <2>1, <2>4 DEF Update, storeVars, SamePin, Pinned
  <2>8. \A c \in SessionRecord : SamePin(c, store[KeyFor(r)]) => SamePin(c, store'[KeyFor(r)])
    BY <2>4, <2>6 DEF SamePin
  <2>9. ~\E w \in Requests : Winner(w) /\ KeyFor(w) = KeyFor(r)
    BY <2>4 DEF SamePin, Pinned
  <2> QED BY <1>0, <2>2, <2>3, <2>5, <2>7, <2>8, <2>9 DEF Goto
<1>5. ASSUME NEW r \in Requests, Claim(r) PROVE ClaimInv'
  <2>1. PICK outcome \in Reachable :
          /\ ClaimForClassification(KeyFor(r), outcome)
          /\ \/ Goto(r, "done")
             \/ /\ Claimed(KeyFor(r), outcome)
                /\ Goto(r, "parent") \/ Goto(r, "pin") \/ Goto(r, "classify")
    BY <1>5 DEF Claim, Answer
  <2>2. pc[r] = "claim" /\ \A s \in Requests : KeyFor(s)' = KeyFor(s)
    BY <1>5 DEF Claim, KeyFor
  <2>3. \A s \in Requests : s # r => rec'[s] = rec[s] /\ pc'[s] = pc[s]
    BY <1>0, <1>5, <2>1 DEF Claim, Goto
  <2>4. \A k \in Keys : k # KeyFor(r) \/ Present(k) => store'[k] = store[k] /\ ttl'[k] = ttl[k]
    BY <1>0, <2>1 DEF ClaimForClassification, storeVars
  <2>5. pc'[r] # "done" => /\ ~Present(KeyFor(r))
                           /\ store'[KeyFor(r)] = ClassifyingPlaceholder
    BY <1>0, <2>1 DEF ClaimForClassification, Claimed, Goto
  <2>6. ttl'[KeyFor(r)] = "claim" => store'[KeyFor(r)].state = "classifying"
    BY <1>0, <2>1 DEF ClaimForClassification, storeVars, ClassifyingPlaceholder, Unpinned
  <2>7. pc'[r] \in {"done", "parent", "pin", "classify"}
    BY <1>0, <2>1 DEF Goto
  <2>8. ClassifyingPlaceholder.state = "classifying"
    BY DEF ClassifyingPlaceholder, Unpinned
  <2>9. \A s \in Requests : s # r /\ (Winner(s) \/ HoldsCopy(s))
                            => store'[KeyFor(s)] = store[KeyFor(s)] /\ Present(KeyFor(s))
    BY <1>0, <2>4 DEF Present, SamePin, Pinned
  <2>10. ClaimExclusion'
    BY <1>0, <2>2, <2>3, <2>5, <2>7, <2>8, <2>9
  <2>11. CopiesAgree'
    BY <1>0, <2>2, <2>3, <2>7, <2>9
  <2>12. ClaimDeadlines'
    BY <1>0, <2>4, <2>6
  <2> QED BY <2>10, <2>11, <2>12
<1>6. ASSUME NEW r \in Requests,
             ReadParent(r) \/ PipelineGetParent(r) \/ PipelineExpireParent(r) \/ Classify(r)
      PROVE  ClaimInv'
  <2>1. /\ pc[r] \in {"parent", "expireParent", "classify"}
        /\ Goto(r, "pin") \/ Goto(r, "expireParent")
        /\ UNCHANGED <<store, inp>>
        /\ \A s \in Requests : s # r => rec'[s] = rec[s]
        /\ \A k \in Keys : ttl'[k] \in {ttl[k], "session"}
    BY <1>0, <1>6 DEF ReadParent, PipelineGetParent, PipelineExpireParent, Classify,
                      GetAndRefresh, Expire
  <2>2. \A s \in Requests : KeyFor(s)' = KeyFor(s)
    BY <2>1 DEF KeyFor
  <2> QED BY <1>0, <2>1, <2>2 DEF Goto
<1>7. ASSUME NEW r \in Requests, Pin(r) PROVE ClaimInv'
  <2>1. PICK outcome \in Reachable : WritePin(KeyFor(r), rec[r], outcome)
    BY <1>7 DEF Pin
  <2>2. /\ UNCHANGED <<inp, rec>> /\ pc[r] = "pin" /\ Goto(r, "emit")
    BY <1>7 DEF Pin
  <2>3. \A s \in Requests : KeyFor(s)' = KeyFor(s)
    BY <2>2 DEF KeyFor
  <2>4. \A k \in Keys :
          \/ store'[k] = store[k] /\ ttl'[k] = ttl[k]
          \/ k = KeyFor(r) /\ ttl'[k] = "session"
    BY <1>0, <2>1 DEF WritePin, storeVars
  <2>5. \A s \in Requests : s # r /\ (Winner(s) \/ HoldsCopy(s))
                            => KeyFor(s) # KeyFor(r)
    BY <2>2 DEF SamePin, Pinned
  <2> QED BY <1>0, <2>2, <2>3, <2>4, <2>5 DEF Goto
<1>8. ASSUME NEW r \in Requests, EmitPinned(r) \/ Crash(r) \/ FailOpen(r) PROVE ClaimInv'
  <2>1. /\ UNCHANGED <<store, ttl, inp, rec>>
        /\ Goto(r, "done") \/ Goto(r, "aborted")
    BY <1>8 DEF EmitPinned, Answer, Crash, FailOpen
  <2>2. \A s \in Requests : KeyFor(s)' = KeyFor(s)
    BY <2>1 DEF KeyFor
  <2> QED BY <1>0, <2>1, <2>2 DEF Goto
<1>9. ASSUME NEW k \in Keys, KeyStep(k) PROVE ClaimInv'
  <2>1. /\ Drop(k) /\ UNCHANGED <<pc, inp, rec>>
        /\ \/ ttl[k] = "claim" /\ ~\E r \in Requests : Winner(r) /\ KeyFor(r) = k
           \/ InFlightOn(k) = {}
    BY <1>9 DEF KeyStep, ClaimLapses, SessionLapses, Evict
  <2>2. \A s \in Requests : KeyFor(s)' = KeyFor(s)
    BY <2>1 DEF KeyFor
  <2>3. \A s \in Requests : Winner(s) \/ HoldsCopy(s) => KeyFor(s) # k
    BY <2>1 DEF InFlightOn, InFlight, SamePin, Pinned
  <2> QED BY <1>0, <2>1, <2>2, <2>3 DEF Drop
<1>10. CASE UNCHANGED vars
  BY <1>10 DEF vars, KeyFor
<1> QED
  BY <1>1, <1>2, <1>2a, <1>3, <1>4, <1>5, <1>6, <1>7, <1>8, <1>9, <1>10
     DEF Next, RequestStep, HookStep, Terminated

\* The inductive invariant of the claim.
LEMMA ClaimInvariant ==
    ASSUME "stall" \notin Environment, "evict" \notin Environment
    PROVE  Spec => [](TypeOK /\ ClaimInv)
<1>1. Init => ClaimInv
  BY DEF Init, StoreInit, ClaimInv, ClaimExclusion, CopiesAgree, ClaimDeadlines, Winner, HoldsCopy
<1>2. TypeOK /\ ClaimInv /\ [Next]_vars => ClaimInv'
  BY ClaimStep
<1> QED BY <1>1, <1>2, TypeCorrect, PTL DEF Spec

\* As long as no key is evicted and no winner outlives its claim, one request at a time
\* classifies a session, also when replies are lost, workers die and claims lapse.
THEOREM ClaimExclusionHolds ==
    ASSUME "stall" \notin Environment, "evict" \notin Environment
    PROVE  Spec => []ClaimExclusion
<1>1. ClaimInv => ClaimExclusion
  BY DEF ClaimInv
<1> QED BY <1>1, ClaimInvariant, PTL

\* Under the same assumptions, the copy a request carries between its read and its write
\* descends from the pin that is still stored, however stale it is.
THEOREM CopiesAgreeHolds ==
    ASSUME "stall" \notin Environment, "evict" \notin Environment
    PROVE  Spec => []CopiesAgree
<1>1. ClaimInv => CopiesAgree
  BY DEF ClaimInv
<1> QED BY <1>1, ClaimInvariant, PTL

\* What replaces a pinned record that stays pinned descends from the same pin.
LEMMA PinStep ==
    ASSUME TypeOK, ClaimInv, [Next]_vars, NEW k \in Keys, Pinned(store[k]), Pinned(store'[k])
    PROVE  SamePin(store'[k], store[k])
<1>1. \A c \in SessionRecord : Pinned(c) => SamePin(c, c)
  BY DEF SamePin
<1>2. store[k] \in SessionRecord
  BY DEF TypeOK, StoreTypeOK
<1>3. CASE store'[k] \in {store[k], NoRecord, ClassifyingPlaceholder}
  BY <1>1, <1>2, <1>3 DEF Pinned, NoRecord, ClassifyingPlaceholder, Unpinned
<1>4. ASSUME NEW r \in Requests, pc[r] \in {"pin", "update"}, KeyFor(r) = k, store'[k] = rec[r]
      PROVE  SamePin(store'[k], store[k])
  <2>1. pc[r] # "pin"
    BY <1>4 DEF ClaimInv, ClaimExclusion, Winner, Pinned
  <2> QED BY <1>4, <2>1 DEF ClaimInv, CopiesAgree, HoldsCopy
<1> QED BY <1>3, <1>4, StoredRecords

\* Under the same assumption a record's first tier and its override mark last as long as
\* the record: a stale write may undo an escalation but never another pin.
THEOREM PinnedForLifeHolds ==
    ASSUME "stall" \notin Environment, "evict" \notin Environment
    PROVE  Spec => PinnedForLife
<1>1. TypeOK /\ ClaimInv /\ [Next]_vars =>
        [\A k \in Keys : Pinned(store[k]) /\ Pinned(store'[k]) => SamePin(store'[k], store[k])]_vars
  BY PinStep
<1> QED BY <1>1, ClaimInvariant, PTL DEF Spec, PinnedForLife

\* Whatever a session was forced to is still what its record says.
ForcedInv == \A k \in forced : k \in Keys /\ Pinned(store[k]) /\ store[k].override

\* No step takes the mark from the record of a session that was forced.
LEMMA ForcedStep ==
    ASSUME TypeOK, ClaimInv, ForcedInv, [Next /\ Remember]_<<vars, forced>>
    PROVE  ForcedInv'
<1>1. CASE Next /\ Remember
  <2> SUFFICES ASSUME NEW k \in forced'
               PROVE  k \in Keys /\ Pinned(store'[k]) /\ store'[k].override
    BY DEF ForcedInv
  <2>1. k \in Keys /\ Pinned(store'[k]) /\ (k \in forced \/ store'[k].override)
    BY <1>1 DEF Remember
  <2>2. CASE k \in forced
    <3>1. Pinned(store[k]) /\ store[k].override
      BY <2>2 DEF ForcedInv
    <3>2. SamePin(store'[k], store[k])
      BY <1>1, <2>1, <3>1, PinStep
    <3> QED BY <2>1, <3>1, <3>2 DEF SamePin
  <2> QED BY <2>1, <2>2
<1>2. CASE UNCHANGED <<vars, forced>>
  BY <1>2 DEF ForcedInv, vars, Pinned
<1> QED BY <1>1, <1>2

\* A record that is marked as forced is at force_tier or above it: it is on the ladder.
LEMMA ForcedIsAtTheFloor ==
    ASSUME NEW record \in SessionRecord, OnTheLadder(record), Pinned(record), record.override
    PROVE  AtTheFloor(record)
<1>1. record.tier \in Nat /\ record.esc \in Nat /\ record.tier - record.esc = ForceTier
  BY DEF SessionRecord, Tiers, OnTheLadder, BaseTier
<1> QED BY <1>1 DEF AtTheFloor

\* policies.yaml:34-35, for every policy, any number of requests and whichever replies are
\* lost, commands fail and workers die: as long as Redis keeps what it is given and no
\* winner outlives its claim, a force-pinned session is never below force_tier, whoever
\* writes its record after the forced pin.
THEOREM MissionCriticalHolds ==
    ASSUME "stall" \notin Environment, "evict" \notin Environment
    PROVE  RememberingSpec => []MissionCriticalFloor
<1>1. RememberingSpec => Spec
  <2>1. [Next /\ Remember]_<<vars, forced>> => [Next]_vars
    OBVIOUS
  <2> QED BY <2>1, PTL DEF RememberingSpec, Spec
<1>2. Init /\ forced = {} => ForcedInv
  BY DEF ForcedInv
<1>3. TypeOK /\ ClaimInv /\ ForcedInv /\ [Next /\ Remember]_<<vars, forced>> => ForcedInv'
  BY ForcedStep
<1>4. TypeOK /\ ClaimInv /\ ForcedInv /\ RecordsAreOnTheLadder => MissionCriticalFloor
  <2> SUFFICES ASSUME TypeOK, ClaimInv, ForcedInv, RecordsAreOnTheLadder
               PROVE  MissionCriticalFloor
    OBVIOUS
  <2>1. ASSUME NEW k \in forced
        PROVE  AtTheFloor(store[k])
    <3>1. k \in Keys /\ Pinned(store[k]) /\ store[k].override
      BY DEF ForcedInv
    <3>2. store[k] \in SessionRecord /\ OnTheLadder(store[k])
      BY <3>1 DEF TypeOK, StoreTypeOK, RecordsAreOnTheLadder
    <3> QED BY <3>1, <3>2, ForcedIsAtTheFloor
  <2>2. ASSUME NEW r \in Requests, HoldsCopy(r), KeyFor(r) \in forced
        PROVE  AtTheFloor(rec[r])
    <3>1. SamePin(rec[r], store[KeyFor(r)]) /\ store[KeyFor(r)].override
      BY <2>2 DEF ClaimInv, CopiesAgree, ForcedInv
    <3>2. Pinned(rec[r]) /\ rec[r].override
      BY <3>1 DEF SamePin
    <3>3. rec[r] \in SessionRecord /\ OnTheLadder(rec[r])
      BY DEF TypeOK, RecordsAreOnTheLadder
    <3> QED BY <3>2, <3>3, ForcedIsAtTheFloor
  <2> QED BY <2>1, <2>2 DEF MissionCriticalFloor
<1>5. Spec => [](TypeOK /\ ClaimInv)
  BY ClaimInvariant
<1> QED BY <1>1, <1>2, <1>3, <1>4, <1>5, RecordsStayOnTheLadder, PTL DEF RememberingSpec

-----------------------------------------------------------------------------
(***************************************************************************)
(* A pin that is about to be written.                                      *)
(***************************************************************************)

FreshPins ==
    \A r \in Requests : pc[r] \in {"pin", "expireParent"} => Pinned(rec[r]) /\ rec[r].esc = 0

\* What build_pin_record returns is pinned and has not climbed, for a subagent too.
LEMMA BuiltIsFresh ==
    /\ \A v \in Verdicts, o \in BOOLEAN, n \in Nat :
          Pinned(BuildPinRecord(v, o, n)) /\ BuildPinRecord(v, o, n).esc = 0
    /\ \A r, parent : Pinned(SubagentPin(r, parent)) /\ SubagentPin(r, parent).esc = 0
BY DEF BuildPinRecord, SubagentPin, Pinned

\* Every step that leads to a pin carries a fresh one.
LEMMA FreshPinsStep ==
    ASSUME TypeOK, FreshPins, [Next]_vars
    PROVE  FreshPins'
<1> SUFFICES ASSUME NEW s \in Requests, pc'[s] \in {"pin", "expireParent"}
             PROVE  Pinned(rec'[s]) /\ rec'[s].esc = 0
  BY DEF FreshPins
<1>1. /\ pc \in [Requests -> PC] /\ rec \in [Requests -> SessionRecord]
  BY DEF TypeOK
<1>2. CASE Stands(s)
  BY <1>2 DEF Stands, FreshPins
<1>3. CASE Claim(s)
  <2>1. rec'[s] = BuildPinRecord(NoVerdict, TRUE, inp[s].n)
    BY <1>1, <1>3 DEF Claim, Answer, Goto
  <2>2. NoVerdict \in Verdicts /\ inp[s].n \in Nat
    BY InputTypes DEF Verdicts, Request
  <2> QED BY <2>1, <2>2, BuiltIsFresh
<1>4. CASE ReadParent(s)
  BY <1>1, <1>4, BuiltIsFresh DEF ReadParent
<1>5. CASE PipelineGetParent(s)
  BY <1>1, <1>5, BuiltIsFresh DEF PipelineGetParent
<1>6. CASE PipelineExpireParent(s)
  <2>1. PICK outcome \in Reachable :
          rec' = [rec EXCEPT ![s] = IF outcome = "ok" THEN rec[s] ELSE SubagentPin(s, NoRecord)]
    BY <1>6 DEF PipelineExpireParent
  <2>2. Pinned(rec[s]) /\ rec[s].esc = 0
    BY <1>6 DEF PipelineExpireParent, FreshPins
  <2>3. rec'[s] \in {rec[s], SubagentPin(s, NoRecord)}
    BY <1>1, <2>1
  <2> QED BY <2>2, <2>3, BuiltIsFresh
<1>7. CASE Classify(s)
  <2>1. PICK verdict \in Verdicts : rec'[s] = BuildPinRecord(verdict, FALSE, inp[s].n)
    BY <1>1, <1>7 DEF Classify
  <2>2. inp[s].n \in Nat
    BY InputTypes DEF Request
  <2> QED BY <2>1, <2>2, BuiltIsFresh
<1>8. CASE Arrive(s) \/ SideChannel(s) \/ Crash(s) \/ FailOpen(s)
  BY <1>1, <1>8 DEF Arrive, SideChannel, Crash, FailOpen, Goto
<1>9. CASE Get(s) \/ PipelineGet(s) \/ PipelineExpire(s)
  BY <1>1, <1>9 DEF Get, PipelineGet, PipelineExpire, Proceed, Answer, Goto
<1>10. CASE HandlePinned(s) \/ WriteBack(s) \/ Pin(s) \/ EmitPinned(s)
  BY <1>1, <1>10 DEF HandlePinned, WriteBack, Pin, EmitPinned, Answer, Goto
<1> QED
  BY <1>2, <1>3, <1>4, <1>5, <1>6, <1>7, <1>8, <1>9, <1>10, OthersStand DEF RequestStep, HookStep

\* A pin that is about to be written is fresh, under every fault.
LEMMA PinsAreFresh == Spec => []FreshPins
<1>1. Init => FreshPins
  BY DEF Init, FreshPins
<1>2. TypeOK /\ FreshPins /\ [Next]_vars => FreshPins'
  BY FreshPinsStep
<1> QED BY <1>1, <1>2, TypeCorrect, PTL DEF Spec
=============================================================================
