----------------------- MODULE ReloadingRouterProofs -----------------------
(***************************************************************************)
(* Theorems about ReloadingRouter for any number of versions of            *)
(* policies.yaml, whatever each says, and any edits of it while requests   *)
(* are under way.                                                          *)
(***************************************************************************)
EXTENDS ReloadingRouter, SequenceTheorems, WellFoundedInduction, TLAPS

-----------------------------------------------------------------------------
(***************************************************************************)
(* The readers by themselves: that the hook always notices a stale         *)
(* policies file, for any number of versions and whichever are broken.     *)
(***************************************************************************)

\* The order in which the hook reads: it never keeps a version newer than what it serves,
\* and neither it nor a stat under way is ahead of the file.
ReadsInOrder ==
    /\ hook.mtime <= hook.policies
    /\ hook.policies <= file
    /\ hook.seen <= file

IInv == TypeOK /\ ReadsInOrder

\* Both readers start with nothing, which validates.
LEMMA InitReads == Init => IInv
BY ReloadAssumption DEF Init, Starting, IInv, TypeOK, ReadsInOrder, Served, Versions, None

\* A step of the file: versions only grow.
LEMMA FileStep == IInv /\ (Edit \/ Flicker) => IInv'
<1> SUFFICES ASSUME IInv, Edit \/ Flicker PROVE IInv'
    OBVIOUS
<1> USE ReloadAssumption DEF IInv, TypeOK, ReadsInOrder, Served, Versions, None
<1>1. CASE Edit
    BY <1>1 DEF Edit
<1>2. CASE Flicker
    BY <1>2 DEF Flicker
<1> QED BY <1>1, <1>2

\* A step of classifier-svc leaves the file and the hook alone.
LEMMA SvcStep ==
    IInv /\ (SvcWatch \/ SvcReload \/ SvcLoad \/ SvcStat \/ SvcWarmup) => IInv'
<1> SUFFICES ASSUME IInv, SvcWatch \/ SvcReload \/ SvcLoad \/ SvcStat \/ SvcWarmup PROVE IInv'
    OBVIOUS
<1>1. UNCHANGED <<file, readable, hook>>
    BY DEF SvcWatch, SvcReload, SvcLoad, SvcStat, SvcWarmup
<1>2. svc' \in [policies : Served, mtime : Versions \cup {None}, ready : BOOLEAN,
                step : {"idle", "load", "stat", "warmup"}]
    <2> USE DEF IInv, TypeOK
    <2>1. Starting \in [policies : Served, mtime : Versions \cup {None}, ready : BOOLEAN,
                        step : {"idle", "load", "stat", "warmup"}]
        BY DEF Starting, Served
    <2>2. CASE SvcWatch
        BY <2>2 DEF SvcWatch
    <2>3. CASE SvcReload
        BY <2>3 DEF SvcReload
    <2>4. CASE SvcLoad
        <3>1. Loadable => file \in Served
            BY DEF Loadable, Served
        <3> QED BY <2>1, <2>4, <3>1 DEF SvcLoad
    <2>5. CASE SvcStat
        BY <2>1, <2>5 DEF SvcStat
    <2>6. CASE SvcWarmup
        BY <2>6 DEF SvcWarmup
    <2> QED BY <2>2, <2>3, <2>4, <2>5, <2>6
<1> QED BY <1>1, <1>2 DEF IInv, TypeOK, ReadsInOrder

\* A step of the hook: it stats, then loads a version at least as new, and keeps the mtime
\* it saw first.
LEMMA HookStep == IInv /\ (HookStat \/ HookLoad) => IInv'
<1> SUFFICES ASSUME IInv, HookStat \/ HookLoad PROVE IInv'
    OBVIOUS
<1>1. /\ file \in Versions /\ file \in Nat
      /\ hook.policies \in Served /\ hook.policies \in Nat
      /\ hook.mtime \in Versions \cup {None} /\ hook.mtime \in Nat
      /\ hook.seen \in Versions \cup {None} /\ hook.seen \in Nat
    BY ReloadAssumption DEF IInv, TypeOK, Served, Versions, None
<1>2. hook.mtime <= hook.policies /\ hook.policies <= file /\ hook.seen <= file
    BY DEF IInv, ReadsInOrder
<1>3. None \in Nat /\ \A n \in Nat : None <= n
    BY DEF None
<1>4. UNCHANGED <<file, readable, svc>>
    BY DEF HookStat, HookLoad
<1>5. /\ hook' \in [policies : Served, mtime : Versions \cup {None}, seen : Versions \cup {None},
                    step : {"idle", "load"}]
      /\ hook'.mtime <= hook'.policies /\ hook'.policies <= file /\ hook'.seen <= file
    <2> HIDE DEF Versions, None
    <2>1. hook = [policies |-> hook.policies, mtime |-> hook.mtime, seen |-> hook.seen,
                  step |-> hook.step]
        BY DEF IInv, TypeOK
    <2>2. CASE HookStat
        <3>1. hook' = [policies |-> hook.policies, mtime |-> hook.mtime, seen |-> file,
                       step |-> "load"]
            BY <2>1, <2>2 DEF HookStat
        <3> QED BY <1>1, <1>2, <3>1
    <2>3. CASE HookLoad /\ Loadable
        <3>1. hook' = [policies |-> file, mtime |-> hook.seen, seen |-> None, step |-> "idle"]
            BY <2>3 DEF HookLoad
        <3>2. file \in Served
            BY <1>1, <2>3 DEF Loadable, Served
        <3> QED BY <1>1, <1>2, <1>3, <3>1, <3>2
    <2>4. CASE HookLoad /\ ~Loadable
        <3>1. hook' = [policies |-> hook.policies, mtime |-> hook.mtime, seen |-> None,
                       step |-> "idle"]
            BY <2>1, <2>4 DEF HookLoad
        <3> QED BY <1>1, <1>2, <1>3, <3>1
    <2> QED BY <2>2, <2>3, <2>4
<1> QED BY <1>4, <1>5 DEF IInv, TypeOK, ReadsInOrder

\* Every step of the readers and of the file keeps the readers in order.
LEMMA ReadersStep == IInv /\ [Next]_vars => IInv'
<1> SUFFICES ASSUME IInv, [Next]_vars PROVE IInv'
    OBVIOUS
<1>1. CASE UNCHANGED vars
    BY <1>1 DEF vars, IInv, TypeOK, ReadsInOrder
<1> QED BY <1>1, FileStep, SvcStep, HookStep DEF Next

\* As long as they are, a kept mtime that equals the file's is that of what is served.
LEMMA OrderNotices == IInv => StaleIsNoticed
<1> SUFFICES ASSUME IInv, hook.mtime = file PROVE hook.policies = file
    BY DEF StaleIsNoticed
<1>1. hook.policies \in Nat /\ file \in Nat
    BY ReloadAssumption DEF IInv, TypeOK, Served, Versions, None
<1>2. file <= hook.policies /\ hook.policies <= file
    BY DEF IInv, ReadsInOrder
<1> QED BY <1>1, <1>2

\* The inductive invariant of the readers.
THEOREM ReadsStayInOrder == Spec => []IInv
BY InitReads, ReadersStep, PTL DEF Spec

\* Both readers serve only versions that validated, whatever they meet on disk.
THEOREM OnlyValidPoliciesAreServed == Spec => []TypeOK
<1>1. IInv => TypeOK
    BY DEF IInv
<1> QED BY ReadsStayInOrder, <1>1, PTL

\* config.py:69-72: stat before load, so that the mtime the hook keeps equals the file's
\* only if the hook serves the file.
THEOREM StaleIsAlwaysNoticed == Spec => []StaleIsNoticed
BY ReadsStayInOrder, OrderNotices, PTL

-----------------------------------------------------------------------------
(***************************************************************************)
(* Lemmas about one version of the policies.                               *)
(***************************************************************************)

\* A version that validates has tiers, and each has a name and a model.
LEMMA TiersOfAVersion ==
    ASSUME NEW v \in Versions \ Broken
    PROVE  /\ Len(Tiers(v)) \in Nat /\ Len(Tiers(v)) > 0
           /\ \A i \in Positions(v) :
                 /\ Tiers(v)[i] \in [name : TierNames, model : Models]
                 /\ Tiers(v)[i].name \in Names(v)
           /\ Names(v) \subseteq AllNames
           /\ Policies[v].default \in Models
           /\ Policies[v].force \in Names(v)
<1>1. /\ Tiers(v) \in Seq([name : TierNames, model : Models]) /\ Len(Tiers(v)) > 0
      /\ Policies[v].default \in Models
      /\ \E i \in Positions(v) : Tiers(v)[i].name = Policies[v].force
  BY PoliciesAssumption DEF Tiers, Positions
<1>2. \A i \in Positions(v) : Tiers(v)[i] \in [name : TierNames, model : Models]
  BY <1>1, ElementOfSeq, Zenon DEF Positions
<1>3. \A i \in Positions(v) : Tiers(v)[i].name \in Names(v)
  BY DEF Names
<1>4. Names(v) \subseteq AllNames
  BY DEF AllNames
<1>5. Policies[v].force \in Names(v)
  BY <1>1, <1>3
<1>6. Len(Tiers(v)) \in Nat
  BY <1>1
<1> QED BY <1>1, <1>2, <1>3, <1>4, <1>5, <1>6

\* A name the version knows is found at its tier.
LEMMA TierIndexFinds ==
    ASSUME NEW v \in Versions \ Broken, NEW name \in Names(v)
    PROVE  TierIndex(v, name) \in Positions(v) /\ Tiers(v)[TierIndex(v, name)].name = name
<1>1. \E i \in Positions(v) : Tiers(v)[i].name = name
  BY DEF Names
<1> QED BY <1>1 DEF TierIndex

\* policies.py:90-95: the default tier is a tier, also when default_model is that of none.
LEMMA DefaultIndexIsATier ==
    ASSUME NEW v \in Versions \ Broken
    PROVE  DefaultIndex(v) \in Positions(v)
<1> DEFINE Hits == {i \in Positions(v) : Tiers(v)[i].model = Policies[v].default}
<1>1. Len(Tiers(v)) \in Nat /\ Len(Tiers(v)) > 0
  BY TiersOfAVersion
<1>2. CASE Hits = {}
  BY <1>1, <1>2 DEF DefaultIndex, Positions
<1>3. CASE Hits # {}
  <2>1. Hits \subseteq Nat
    BY <1>1 DEF Positions
  <2>2. \E i \in Hits : \A j \in Hits : ~(<<j, i>> \in OpToRel(<, Nat))
    BY <2>1, <1>3, NatLessThanWellFounded, WFMin
  <2>3. PICK i \in Hits : \A j \in Hits : ~(j < i)
    <3>1. \A j, i \in Nat : j < i => <<j, i>> \in OpToRel(<, Nat)
      BY DEF OpToRel
    <3> QED BY <2>1, <2>2, <3>1
  <2>4. \A j \in Hits : i <= j
    BY <2>1, <2>3
  <2> QED BY <1>3, <2>4 DEF DefaultIndex
<1> QED BY <1>2, <1>3

\* Wherever a record's name is anchored, it is at a tier.
LEMMA AnchorIsATier ==
    ASSUME NEW v \in Versions \ Broken, NEW name
    PROVE  Anchor(v, name) \in Positions(v)
BY TierIndexFinds, DefaultIndexIsATier DEF Anchor

\* What a request of version v may write: a record of a tier of v with its model, or the
\* default pin.
PinOf(v, record) ==
    /\ record \in Records
    /\ record.name \in Names(v)
    /\ [name |-> record.name, model |-> record.model] \in Choices(v)

\* A pin at a place in a version's ladder is a tier of that version.
LEMMA PinAtIsAPin ==
    ASSUME NEW v \in Versions \ Broken, NEW i \in Positions(v),
           NEW override \in BOOLEAN, NEW confidence \in 0..1
    PROVE  PinOf(v, PinAt(v, i, override, confidence))
BY TiersOfAVersion DEF PinOf, PinAt, Records, Choices

\* A record whose model is replaced differs in nothing else.
LEMMA OtherModel ==
    ASSUME NEW record \in Records, NEW model \in Models
    PROVE  /\ [record EXCEPT !.model = model] \in Records
           /\ [record EXCEPT !.model = model].name = record.name
           /\ [record EXCEPT !.model = model].confidence = record.confidence
BY DEF Records

\* state_machine.py:59-61: so is the pin at its default tier, which has no confidence.
LEMMA DefaultPinIsAPin ==
    ASSUME NEW v \in Versions \ Broken
    PROVE  PinOf(v, DefaultPin(v)) /\ DefaultPin(v).confidence = 0
<1> DEFINE pin == PinAt(v, DefaultIndex(v), FALSE, 0)
<1>1. FALSE \in BOOLEAN /\ 0 \in 0..1
  OBVIOUS
<1>2. PinOf(v, pin)
  BY <1>1, DefaultIndexIsATier, PinAtIsAPin, Zenon
<1>3. pin.confidence = 0
  BY DEF PinAt
<1>4. Policies[v].default \in Models
  BY TiersOfAVersion
<1> HIDE DEF pin
<1>5. /\ DefaultPin(v) \in Records
      /\ DefaultPin(v).name = pin.name /\ DefaultPin(v).confidence = pin.confidence
  BY <1>2, <1>4, OtherModel, Zenon DEF DefaultPin, PinOf, pin
<1>6. [name |-> DefaultPin(v).name, model |-> DefaultPin(v).model] \in Choices(v)
  BY DEF Choices
<1> QED BY <1>2, <1>3, <1>5, <1>6, Zenon DEF PinOf

\* state_machine.py:50-61: so is a classified pin, and one with confidence is at the tier named.
LEMMA ClassifiedPinIsAPin ==
    ASSUME NEW v \in Versions \ Broken, NEW name, NEW confidence \in 0..1
    PROVE  /\ PinOf(v, ClassifiedPin(v, name, confidence))
           /\ ClassifiedPin(v, name, confidence).confidence > 0
                 => /\ ClassifiedPin(v, name, confidence).name = name
                    /\ confidence > 0
<1>1. CASE name \in Names(v)
  <2>1. TierIndex(v, name) \in Positions(v) /\ Tiers(v)[TierIndex(v, name)].name = name
    BY <1>1, TierIndexFinds
  <2>2. ClassifiedPin(v, name, confidence) = PinAt(v, TierIndex(v, name), FALSE, confidence)
    BY <1>1 DEF ClassifiedPin
  <2>3. /\ PinAt(v, TierIndex(v, name), FALSE, confidence).name = name
        /\ PinAt(v, TierIndex(v, name), FALSE, confidence).confidence = confidence
    BY <2>1 DEF PinAt
  <2> QED BY <2>1, <2>2, <2>3, PinAtIsAPin
<1>2. CASE name \notin Names(v)
  <2>1. ClassifiedPin(v, name, confidence) = DefaultPin(v)
    BY <1>2 DEF ClassifiedPin
  <2> QED BY <2>1, DefaultPinIsAPin
<1> QED BY <1>1, <1>2

\* state_machine.py:100-113: so is a subagent's, whatever its parent's record names.
LEMMA SubagentPinIsAPin ==
    ASSUME NEW v \in Versions \ Broken, NEW parent
    PROVE  PinOf(v, SubagentPin(v, parent))
<1>1. Anchor(v, parent.name) \in Positions(v) /\ DefaultIndex(v) \in Positions(v)
  BY AnchorIsATier, DefaultIndexIsATier
<1>2. Anchor(v, parent.name) # 1 => Anchor(v, parent.name) - 1 \in Positions(v)
  BY <1>1, TiersOfAVersion DEF Positions
<1>3. \A i \in Positions(v) : PinOf(v, PinAt(v, i, FALSE, 1))
  <2>1. FALSE \in BOOLEAN /\ 1 \in 0..1
    OBVIOUS
  <2> QED BY <2>1, PinAtIsAPin, Zenon
<1>4. \E i \in Positions(v) : SubagentPin(v, parent) = PinAt(v, i, FALSE, 1)
  <2>1. CASE parent = Unpinned
    BY <1>1, <2>1 DEF SubagentPin
  <2>2. CASE parent # Unpinned /\ (parent.override \/ Anchor(v, parent.name) = 1)
    BY <1>1, <2>2 DEF SubagentPin
  <2>3. CASE parent # Unpinned /\ ~(parent.override \/ Anchor(v, parent.name) = 1)
    BY <1>2, <2>3 DEF SubagentPin
  <2> QED BY <2>1, <2>2, <2>3
<1> QED BY <1>3, <1>4

-----------------------------------------------------------------------------
(***************************************************************************)
(* The inductive invariant.                                                *)
(***************************************************************************)

\* classifier-svc takes requests only once it has loaded policies.
UpIsLoaded == svc.ready \/ svc.step \in {"stat", "warmup"} => svc.policies # None

\* A request carries confidence only with an answer, and the answer is the model's own.
AnswerIsEarned == call.confidence > 0 => call.at = "answered" /\ call.name = call.verdict

RInv == IInv /\ RTypeOK /\ UpIsLoaded /\ AnswerIsEarned

\* Before the first request there is a well-formed call and no pin.
LEMMA IdleIsACall == Idle \in Calls /\ Unpinned \in Records
<1>1. None \in Served /\ "main" \in Keys /\ 0 \in 0..1 /\ FALSE \in BOOLEAN /\ 0 \in Nat
  BY DEF Served, Keys
<1>2. Unpinned \in Records
  BY <1>1 DEF Unpinned, Records
<1>3. Idle \in Calls
  BY <1>1, <1>2 DEF Idle, Calls
<1> QED BY <1>2, <1>3

\* The invariant holds at the start.
LEMMA InitRouting == RInit => RInv
<1> SUFFICES ASSUME RInit PROVE RInv
  OBVIOUS
<1>1. IInv
  BY InitReads DEF RInit
<1>2. UpIsLoaded
  BY DEF RInit, Init, Starting, UpIsLoaded
<1>3. call.at = "idle" /\ call.confidence = 0 /\ call.found = Unpinned
  BY DEF RInit, Idle
<1>4. RTypeOK
  BY <1>1, <1>3, IdleIsACall DEF RInit, RTypeOK, IInv
<1> QED BY <1>1, <1>2, <1>3, <1>4 DEF RInv, AnswerIsEarned

\* A step of the readers or of the file leaves sessions and requests alone.
LEMMA ReadersKeepRouting ==
    ASSUME RInv, Next, UNCHANGED <<session, call>>
    PROVE  RInv'
<1>1. IInv'
  BY ReadersStep DEF RInv
<1>2. RTypeOK'
  BY <1>1 DEF RInv, RTypeOK, IInv
<1>3. AnswerIsEarned'
  BY DEF RInv, AnswerIsEarned
<1>4. UpIsLoaded'
  <2>1. TypeOK /\ UpIsLoaded
    BY DEF RInv, IInv
  <2>2. CASE HookStat \/ HookLoad \/ Edit \/ Flicker
    BY <2>1, <2>2 DEF HookStat, HookLoad, Edit, Flicker, UpIsLoaded
  <2>3. CASE SvcWatch \/ SvcReload
    BY <2>1, <2>3 DEF SvcWatch, SvcReload, SvcUp, UpIsLoaded, TypeOK
  <2>4. CASE SvcLoad
    <3>1. file # None
      BY <2>1, ReloadAssumption DEF TypeOK, Versions, None
    <3> QED BY <2>1, <2>4, <3>1 DEF SvcLoad, Starting, UpIsLoaded, TypeOK
  <2>5. CASE SvcStat
    BY <2>1, <2>5 DEF SvcStat, Starting, UpIsLoaded, TypeOK
  <2>6. CASE SvcWarmup
    BY <2>1, <2>6 DEF SvcWarmup, UpIsLoaded, TypeOK
  <2> QED BY <2>2, <2>3, <2>4, <2>5, <2>6 DEF Next
<1> QED BY <1>1, <1>2, <1>3, <1>4 DEF RInv

\* A step of a request leaves the readers and the file alone.
LEMMA RoutingKeepsReaders ==
    ASSUME RInv, UNCHANGED vars
    PROVE  IInv' /\ TypeOK' /\ UpIsLoaded'
BY DEF RInv, vars, IInv, TypeOK, ReadsInOrder, UpIsLoaded

\* The facts of a request under way.
LEMMA UnderWay ==
    ASSUME RInv, call.at # "idle"
    PROVE  /\ call.under \in Versions \ Broken
           /\ call.key \in Keys
           /\ session[call.key] \in Records /\ call.found \in Records
BY DEF RInv, RTypeOK, Calls, Served, None

\* A record that climbs differs from what it was in its tier, its model and one escalation.
Up(record, name, model) == [record EXCEPT !.name = name, !.model = model, !.esc = @ + 1]

\* It is a record at the tier and with the model it was given.
LEMMA UpIsARecord ==
    ASSUME NEW record \in Records, NEW name \in TierNames, NEW model \in Models
    PROVE  /\ Up(record, name, model) \in Records
           /\ Up(record, name, model).name = name
           /\ Up(record, name, model).model = model
<1>1. record.esc \in Nat
  BY DEF Records
<1>2. record.esc + 1 \in Nat
  BY <1>1
<1>3. ASSUME NEW esc \in Nat
      PROVE  LET up == [record EXCEPT !.name = name, !.model = model, !.esc = esc]
             IN  up \in Records /\ up.name = name /\ up.model = model
  BY DEF Records
<1> QED BY <1>2, <1>3, Zenon DEF Up

\* One step up from where a record's tier is found.
LEMMA EscalationIsAPin ==
    ASSUME NEW v \in Versions \ Broken, NEW record \in Records,
           Anchor(v, record.name) < Len(Tiers(v))
    PROVE  LET above == Tiers(v)[Anchor(v, record.name) + 1]
           IN  PinOf(v, Up(record, above.name, above.model))
<1> DEFINE i == Anchor(v, record.name)
           above == Tiers(v)[i + 1]
<1>1. i + 1 \in Positions(v)
  BY AnchorIsATier, TiersOfAVersion DEF Positions
<1>2. above.name \in TierNames /\ above.model \in Models /\ above.name \in Names(v)
  BY <1>1, TiersOfAVersion
<1>3. [name |-> above.name, model |-> above.model] \in Choices(v)
  BY <1>1 DEF Choices
<1> HIDE DEF above
<1>4. PinOf(v, Up(record, above.name, above.model))
  BY <1>2, <1>3, UpIsARecord DEF PinOf
<1> QED BY <1>4 DEF above

\* What the end of a request leaves at its key: what was there, what it found, or a pin of
\* the version it began with, which carries confidence after an answer only if it is the model's own.
Ending(record) ==
    /\ EndWith(record)
    /\ \/ record \in {session[call.key], call.found}
       \/ PinOf(call.under, record)
    /\ call.at = "answered" /\ record.confidence > 0 => record.name = call.verdict

EndStep == FollowPin \/ Escalate \/ ForcePin \/ PinSubagent \/ ReadAnswer \/ NoAnswer

\* These steps end the request that is under way with some record.
LEMMA RequestsEnd ==
    ASSUME RInv, EndStep
    PROVE  call.at # "idle" /\ \E record \in Records : Ending(record)
<1>1. call.at # "idle"
  BY DEF EndStep, FollowPin, Escalate, ForcePin, PinSubagent, ReadAnswer, NoAnswer, Routing
<1>2. /\ call.under \in Versions \ Broken /\ call.key \in Keys
      /\ session[call.key] \in Records /\ call.found \in Records
  BY <1>1, UnderWay
<1>3. CASE FollowPin
  <2>1. PICK record \in {session[call.key], call.found} : EndWith(record) /\ call.at = "routing"
    BY <1>3 DEF FollowPin, Routing
  <2> QED BY <1>1, <1>2, <2>1 DEF Ending
<1>4. CASE Escalate
  <2> DEFINE record == call.found
             above == Tiers(call.under)[Anchor(call.under, record.name) + 1]
  <2>1. /\ EndWith(Up(record, above.name, above.model)) /\ call.at = "routing"
        /\ Anchor(call.under, record.name) < Len(Tiers(call.under))
    BY <1>4, Zenon DEF Escalate, Routing, Up
  <2>2. PinOf(call.under, Up(record, above.name, above.model))
    BY <1>2, <2>1, EscalationIsAPin, Zenon
  <2> QED BY <1>1, <2>1, <2>2 DEF Ending, PinOf
<1>5. CASE ForcePin
  <2> DEFINE pin == PinAt(call.under, TierIndex(call.under, Policies[call.under].force), TRUE, 1)
  <2>1. EndWith(pin) /\ call.at = "routing"
    BY <1>5 DEF ForcePin, Routing
  <2>2. TierIndex(call.under, Policies[call.under].force) \in Positions(call.under)
    BY <1>2, TiersOfAVersion, TierIndexFinds
  <2>3. TRUE \in BOOLEAN /\ 1 \in 0..1
    OBVIOUS
  <2>4. PinOf(call.under, pin)
    BY <1>2, <2>2, <2>3, PinAtIsAPin, Zenon
  <2> HIDE DEF pin
  <2> QED BY <1>1, <2>1, <2>4 DEF Ending, PinOf
<1>6. CASE PinSubagent
  <2>1. EndWith(SubagentPin(call.under, session["main"])) /\ call.at = "routing"
    BY <1>6 DEF PinSubagent, Routing
  <2>2. PinOf(call.under, SubagentPin(call.under, session["main"]))
    BY <1>2, SubagentPinIsAPin
  <2> QED BY <1>1, <2>1, <2>2 DEF Ending, PinOf
<1>7. CASE EndWith(DefaultPin(call.under))
  <2>1. PinOf(call.under, DefaultPin(call.under)) /\ DefaultPin(call.under).confidence = 0
    BY <1>2, DefaultPinIsAPin
  <2> QED BY <1>1, <1>7, <2>1 DEF Ending, PinOf
<1>8. CASE EndWith(ClassifiedPin(call.under, call.name, call.confidence))
  <2> DEFINE pin == ClassifiedPin(call.under, call.name, call.confidence)
  <2>1. call.confidence \in 0..1
    BY DEF RInv, RTypeOK, Calls
  <2>2. PinOf(call.under, pin)
    BY <1>2, <2>1, ClassifiedPinIsAPin
  <2>3. pin.confidence > 0 => pin.name = call.name /\ call.confidence > 0
    BY <1>2, <2>1, ClassifiedPinIsAPin
  <2>4. call.confidence > 0 => call.name = call.verdict
    BY DEF RInv, AnswerIsEarned
  <2> HIDE DEF pin
  <2> QED BY <1>1, <1>8, <2>2, <2>3, <2>4 DEF Ending, PinOf, pin
<1> QED BY <1>3, <1>4, <1>5, <1>6, <1>7, <1>8 DEF EndStep, ReadAnswer, NoAnswer

\* A request that ends leaves a typed record behind.
LEMMA EndingsKeepRouting ==
    ASSUME RInv, EndStep
    PROVE  RInv'
<1>1. PICK record \in Records : Ending(record)
  BY RequestsEnd
<1>2. /\ call.at # "idle"
      /\ call.under \in Versions \ Broken /\ call.key \in Keys
  BY RequestsEnd, UnderWay
<1>3. /\ UNCHANGED vars
      /\ session' = [session EXCEPT ![call.key] = record]
      /\ call' = Idle
  BY <1>1 DEF Ending, EndWith
<1>4. record = Unpinned \/ record.name \in AllNames
  <2>1. Names(call.under) \subseteq AllNames
    BY <1>2, TiersOfAVersion
  <2> QED BY <1>1, <1>2, <2>1 DEF Ending, PinOf, RInv, RTypeOK
<1>5. /\ session' \in [Keys -> Records]
      /\ \A k \in Keys : session'[k] = Unpinned \/ session'[k].name \in AllNames
  BY <1>2, <1>3, <1>4 DEF RInv, RTypeOK
<1>6. call'.at = "idle" /\ call'.confidence = 0 /\ call'.found = Unpinned /\ call' \in Calls
  BY <1>3, IdleIsACall DEF Idle
<1>7. IInv' /\ TypeOK' /\ UpIsLoaded'
  BY <1>3, RoutingKeepsReaders
<1> QED BY <1>5, <1>6, <1>7 DEF RInv, RTypeOK, AnswerIsEarned

\* So does a record that is forgotten.
LEMMA ForgettingKeepsRouting ==
    ASSUME RInv, NEW k \in Keys, Forget(k)
    PROVE  RInv'
<1>1. IInv' /\ TypeOK' /\ UpIsLoaded'
  BY RoutingKeepsReaders DEF Forget
<1>2. /\ session' \in [Keys -> Records]
      /\ \A j \in Keys : session'[j] = Unpinned \/ session'[j].name \in AllNames
  BY IdleIsACall DEF Forget, RInv, RTypeOK
<1> QED BY <1>1, <1>2 DEF Forget, RInv, RTypeOK, AnswerIsEarned

\* A request that begins, asks or is answered keeps the sessions as they are; what it
\* carries was loaded, and its confidence is the model's own.
Onward ==
    \/ \E k \in Keys : Begin(k)
    \/ Ask \/ SvcTakes
    \/ \E verdict \in BackendAnswers, confidence \in 0..1 : SvcAnswers(verdict, confidence)

\* The other steps of a request keep the invariant and touch no record.
LEMMA OnwardKeepsRouting ==
    ASSUME RInv, Onward
    PROVE  RInv' /\ UNCHANGED session
<1>1. UNCHANGED vars /\ UNCHANGED session
  BY DEF Onward, Begin, Ask, SvcTakes, SvcAnswers
<1>2. IInv' /\ TypeOK' /\ UpIsLoaded'
  BY <1>1, RoutingKeepsReaders
<1>3. /\ session' \in [Keys -> Records]
      /\ \A k \in Keys : session'[k] = Unpinned \/ session'[k].name \in AllNames
  BY <1>1 DEF RInv, RTypeOK
<1>4. /\ call \in Calls
      /\ call.at # "idle" => call.under # None
      /\ call.found = Unpinned \/ call.found.name \in AllNames
      /\ call.confidence > 0 => call.at = "answered"
  BY DEF RInv, RTypeOK, AnswerIsEarned
<1> DEFINE Sound(c) ==
      /\ c \in Calls
      /\ c.at # "idle" => c.under # None
      /\ c.found = Unpinned \/ c.found.name \in AllNames
      /\ c.at = "asked" => c.asked # None
      /\ c.at = "answered" => c.name \in AllNames
      /\ c.confidence > 0 => c.at = "answered" /\ c.name = c.verdict
<1>5. Sound(call')
  <2>1. ASSUME NEW k \in Keys, Begin(k) PROVE Sound(call')
    <3>1. hook.policies \in Served /\ hook.policies # None
      BY <2>1 DEF Begin, HookIsBetweenReads, RInv, IInv, TypeOK
    <3>2. call' = [Idle EXCEPT !.at = "routing", !.key = k, !.under = hook.policies,
                               !.found = session[k]]
      BY <2>1 DEF Begin
    <3>3. Idle \in Calls /\ Idle.confidence = 0
      BY IdleIsACall DEF Idle
    <3>4. session[k] \in Records /\ (session[k] = Unpinned \/ session[k].name \in AllNames)
      BY DEF RInv, RTypeOK
    <3>5. /\ call' \in Calls /\ call'.at = "routing" /\ call'.under = hook.policies
          /\ call'.confidence = 0 /\ call'.found = session[k]
      BY <3>1, <3>2, <3>3, <3>4 DEF Calls
    <3> QED BY <3>1, <3>4, <3>5
  <2>2. CASE Ask
    <3>1. call.at = "routing" /\ call' = [call EXCEPT !.at = "asking"]
      BY <2>2 DEF Ask, Routing
    <3>2. /\ call' \in Calls /\ call'.at = "asking" /\ call'.under = call.under
          /\ call'.found = call.found
          /\ call'.confidence = call.confidence
      BY <1>4, <3>1 DEF Calls
    <3> QED BY <1>4, <3>1, <3>2
  <2>3. CASE SvcTakes
    <3>1. svc.policies \in Served /\ svc.policies # None
      BY <2>3 DEF SvcTakes, SvcUp, RInv, IInv, TypeOK, UpIsLoaded
    <3>2. call.at = "asking" /\ call' = [call EXCEPT !.at = "asked", !.asked = svc.policies]
      BY <2>3 DEF SvcTakes
    <3>3. /\ call' \in Calls /\ call'.at = "asked" /\ call'.under = call.under
          /\ call'.found = call.found
          /\ call'.asked = svc.policies /\ call'.confidence = call.confidence
      BY <1>4, <3>1, <3>2 DEF Calls
    <3> QED BY <1>4, <3>1, <3>2, <3>3
  <2>4. ASSUME NEW verdict \in BackendAnswers, NEW confidence \in 0..1,
               SvcAnswers(verdict, confidence)
        PROVE  Sound(call')
    <3>1. call.at = "asked" /\ call.under # None /\ verdict \in TierNames \cup {""}
      BY <1>4, <2>4 DEF SvcAnswers, BackendAnswers
    <3>2. call.asked \in Versions \ Broken
      BY <3>1 DEF RInv, RTypeOK, Calls, Served, None
    <3>3. CASE verdict \in Names(call.asked)
      <4>1. verdict \in AllNames
        BY <3>2, <3>3, TiersOfAVersion
      <4>2. call' = [call EXCEPT !.at = "answered", !.verdict = verdict, !.name = verdict,
                                 !.confidence = confidence]
        BY <2>4, <3>3 DEF SvcAnswers
      <4>3. /\ call' \in Calls /\ call'.at = "answered" /\ call'.under = call.under
            /\ call'.found = call.found
            /\ call'.name = verdict /\ call'.verdict = verdict
        BY <1>4, <3>1, <4>2 DEF Calls
      <4> QED BY <1>4, <3>1, <4>1, <4>3
    <3>4. CASE verdict \notin Names(call.asked)
      <4> DEFINE default == Tiers(call.asked)[DefaultIndex(call.asked)].name
      <4>1. default \in AllNames /\ default \in TierNames
        BY <3>2, DefaultIndexIsATier, TiersOfAVersion
      <4>2. call' = [call EXCEPT !.at = "answered", !.verdict = verdict, !.name = default]
        BY <2>4, <3>4 DEF SvcAnswers
      <4> HIDE DEF default
      <4>3. /\ call' \in Calls /\ call'.at = "answered" /\ call'.under = call.under
            /\ call'.found = call.found
            /\ call'.name = default /\ call'.confidence = call.confidence
        BY <1>4, <3>1, <4>1, <4>2 DEF Calls
      <4>4. ~(call.confidence > 0)
        BY <1>4, <3>1
      <4> QED BY <1>4, <3>1, <4>1, <4>3, <4>4
    <3> QED BY <3>3, <3>4
  <2> QED BY <2>1, <2>2, <2>3, <2>4 DEF Onward
<1> QED BY <1>1, <1>2, <1>3, <1>5 DEF RInv, RTypeOK, AnswerIsEarned

-----------------------------------------------------------------------------
(***************************************************************************)
(* The theorems.                                                           *)
(***************************************************************************)

\* Every step is of one of the kinds above, or changes nothing.
LEMMA StepKinds ==
    ASSUME [RNext]_rvars
    PROVE  \/ Next /\ UNCHANGED <<session, call>>
           \/ EndStep
           \/ \E k \in Keys : Forget(k)
           \/ Onward
           \/ UNCHANGED rvars
BY Zenon DEF RNext, CallStep, EndStep, Onward

\* Every step keeps the invariant.
LEMMA RoutingStep == RInv /\ [RNext]_rvars => RInv'
<1> SUFFICES ASSUME RInv, [RNext]_rvars PROVE RInv'
  OBVIOUS
<1>1. CASE UNCHANGED rvars
  <2>1. IInv' /\ TypeOK' /\ UpIsLoaded'
    BY <1>1, RoutingKeepsReaders DEF rvars
  <2> QED BY <1>1, <2>1 DEF rvars, RInv, RTypeOK, AnswerIsEarned
<1> QED BY <1>1, StepKinds, ReadersKeepRouting, EndingsKeepRouting, ForgettingKeepsRouting,
           OnwardKeepsRouting

\* Served versions validated, records and answers on their way come from them: always.
THEOREM RoutingInvariant == RSpec => []RInv
BY InitRouting, RoutingStep, PTL DEF RSpec

\* Whatever the versions say, however edits fall between a request's reads: what is served,
\* asked about and pinned comes from a version that validated.
THEOREM RoutingTypeCorrect == RSpec => []RTypeOK
<1>1. RInv => RTypeOK
  BY DEF RInv
<1> QED BY <1>1, RoutingInvariant, PTL

\* Requests do not disturb it: the hook notices every stale copy.
THEOREM RoutingNoticesStale == RSpec => []StaleIsNoticed
<1>1. RInv => StaleIsNoticed
  BY OrderNotices DEF RInv
<1> QED BY <1>1, RoutingInvariant, PTL

\* A request writes a tier of the version it began with, with that version's model.
THEOREM OneVersionDecidesHolds == RSpec => OneVersionDecides
<1> DEFINE Good ==
      \A k \in Keys :
          session'[k] \notin {session[k], Unpinned, call.found} =>
              [name |-> session'[k].name, model |-> session'[k].model] \in Choices(call.under)
<1>1. RInv /\ [RNext]_rvars => Good
  <2> SUFFICES ASSUME RInv, [RNext]_rvars PROVE Good
    OBVIOUS
  <2>1. CASE UNCHANGED session
    BY <2>1
  <2>2. ASSUME NEW k \in Keys, Forget(k) PROVE Good
    BY <2>2 DEF Forget, RInv, RTypeOK
  <2>3. CASE EndStep
    <3>1. PICK record \in Records : Ending(record)
      BY <2>3, RequestsEnd
    <3> QED BY <3>1 DEF Ending, EndWith, PinOf, RInv, RTypeOK
  <2> QED BY <2>1, <2>2, <2>3, StepKinds, OnwardKeepsRouting DEF rvars
<1>2. [RNext]_rvars /\ RInv => [Good]_rvars
  BY <1>1
<1> QED BY <1>2, RoutingInvariant, PTL DEF RSpec, OneVersionDecides

\* A classification pinned with confidence names the tier the model itself named.
THEOREM ConfidenceIsEarnedHolds == RSpec => ConfidenceIsEarned
<1> DEFINE Good ==
      call.at = "answered" /\ session'["main"] # session["main"]
          /\ session'["main"].confidence > 0 => session'["main"].name = call.verdict
<1>1. RInv /\ [RNext]_rvars => Good
  <2> SUFFICES ASSUME RInv, [RNext]_rvars PROVE Good
    OBVIOUS
  <2>1. CASE UNCHANGED session
    BY <2>1
  <2>2. ASSUME NEW k \in Keys, Forget(k) PROVE Good
    <3>1. Unpinned.confidence = 0 /\ "main" \in Keys
      BY DEF Unpinned, Keys
    <3> QED BY <2>2, <3>1 DEF Forget, RInv, RTypeOK
  <2>3. CASE EndStep
    <3>1. PICK record \in Records : Ending(record)
      BY <2>3, RequestsEnd
    <3>2. "main" \in Keys
      BY DEF Keys
    <3> QED BY <3>1, <3>2 DEF Ending, EndWith, RInv, RTypeOK
  <2> QED BY <2>1, <2>2, <2>3, StepKinds, OnwardKeepsRouting DEF rvars
<1>2. [RNext]_rvars /\ RInv => [Good]_rvars
  BY <1>1
<1> QED BY <1>2, RoutingInvariant, PTL DEF RSpec, ConfidenceIsEarned
=============================================================================
