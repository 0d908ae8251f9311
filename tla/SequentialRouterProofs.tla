------------------------ MODULE SequentialRouterProofs ------------------------
(***************************************************************************)
(* Theorems about SessionRouter when the requests of a session come one    *)
(* after another: MaxInFlight = 1, as a client does that waits for an      *)
(* answer before it asks again.  Requests of different sessions still      *)
(* interleave, and a subagent with a key of its own runs beside its parent.*)
(***************************************************************************)
EXTENDS SessionRouterProofs, FiniteSetTheorems

OneAfterAnother == MaxInFlight = 1 /\ IsFiniteSet(Requests)

-----------------------------------------------------------------------------
(***************************************************************************)
(* At most one request of a key is under way.                              *)
(***************************************************************************)

Alone ==
    \A r, s \in Requests : InFlight(r) /\ InFlight(s) /\ KeyFor(r) = KeyFor(s) => r = s

\* A request is under way because it was before, on the same key, or because it arrives.
LEMMA UnderWay ==
    ASSUME TypeOK, [Next]_vars, NEW s \in Requests, InFlight(s)'
    PROVE  \/ InFlight(s) /\ inp'[s] = inp[s]
           \/ Arrive(s)
<1>1. pc \in [Requests -> PC]
  BY DEF TypeOK
<1>2. CASE Stands(s)
  BY <1>2 DEF Stands, InFlight
<1>3. CASE SideChannel(s) \/ Crash(s) \/ FailOpen(s)
  BY <1>1, <1>3 DEF SideChannel, Crash, FailOpen, Goto, InFlight
<1>4. CASE Get(s) \/ PipelineGet(s) \/ PipelineExpire(s)
  BY <1>4 DEF Get, PipelineGet, PipelineExpire, InFlight
<1>5. CASE HandlePinned(s) \/ WriteBack(s) \/ Claim(s) \/ Classify(s) \/ Pin(s) \/ EmitPinned(s)
  BY <1>5 DEF HandlePinned, WriteBack, Claim, Classify, Pin, EmitPinned, InFlight
<1>6. CASE ReadParent(s) \/ PipelineGetParent(s) \/ PipelineExpireParent(s)
  BY <1>6 DEF ReadParent, PipelineGetParent, PipelineExpireParent, InFlight
<1> QED BY <1>2, <1>3, <1>4, <1>5, <1>6, OthersStand DEF RequestStep, HookStep

\* A request that arrives finds no other of its key under way.
LEMMA ArrivesAlone ==
    ASSUME OneAfterAnother, TypeOK, NEW r \in Requests, Arrive(r)
    PROVE  \A s \in Requests : InFlight(s) => KeyFor(s) # KeyFor(r)'
<1>1. PICK i \in Inputs : /\ Cardinality(InFlightOn(KeyOf(i))) < MaxInFlight
                          /\ inp' = [inp EXCEPT ![r] = i]
  BY DEF Arrive
<1>2. KeyFor(r)' = KeyOf(i)
  BY <1>1 DEF KeyFor, TypeOK
<1>3. IsFiniteSet(InFlightOn(KeyOf(i)))
  BY FS_Subset DEF OneAfterAnother, InFlightOn
<1>4. Cardinality(InFlightOn(KeyOf(i))) = 0
  BY <1>1, <1>3, FS_CardinalityType DEF OneAfterAnother
<1>5. InFlightOn(KeyOf(i)) = {}
  BY <1>3, <1>4, FS_EmptySet
<1> QED BY <1>2, <1>5 DEF InFlightOn

\* Every step keeps the requests of a key one after another.
LEMMA AloneStep ==
    ASSUME OneAfterAnother, TypeOK, Alone, [Next]_vars
    PROVE  Alone'
<1> SUFFICES ASSUME NEW r \in Requests, NEW s \in Requests, InFlight(r)', InFlight(s)',
                    KeyFor(r)' = KeyFor(s)', r # s
             PROVE  FALSE
  BY DEF Alone
<1>1. \A q \in Requests : inp'[q] = inp[q] => KeyFor(q)' = KeyFor(q)
  BY DEF KeyFor
<1>2. CASE InFlight(r) /\ inp'[r] = inp[r] /\ InFlight(s) /\ inp'[s] = inp[s]
  BY <1>1, <1>2 DEF Alone
<1>3. CASE InFlight(r) /\ inp'[r] = inp[r] /\ Arrive(s)
  BY <1>1, <1>3, ArrivesAlone
<1>4. CASE InFlight(s) /\ inp'[s] = inp[s] /\ Arrive(r)
  BY <1>1, <1>4, ArrivesAlone
<1>5. CASE Arrive(r) /\ Arrive(s)
  <2>1. pc' = [pc EXCEPT ![r] = "get"] /\ pc[s] = "idle"
    BY <1>5 DEF Arrive, Goto
  <2>2. pc'[s] = "idle"
    BY <2>1 DEF TypeOK
  <2> QED BY <2>2 DEF InFlight
<1> QED BY <1>2, <1>3, <1>4, <1>5, UnderWay

\* Requests of a key that come one after another stay so.
LEMMA AloneHolds ==
    ASSUME OneAfterAnother
    PROVE  Spec => []Alone
<1>1. Init => Alone
  BY DEF Init, Alone, InFlight
<1>2. TypeOK /\ Alone /\ [Next]_vars => Alone'
  BY AloneStep
<1> QED BY <1>1, <1>2, TypeCorrect, PTL DEF Spec
-----------------------------------------------------------------------------
(***************************************************************************)
(* Copies are fresh.  What a request carries between its read and its      *)
(* write is the stored record itself, or what one transition makes of it,  *)
(* unless the record is gone; and the winner of a claim finds no pin.      *)
(* Under every fault: a key that is evicted or whose claim lapses is empty *)
(* until the request that is alone with it writes.                         *)
(***************************************************************************)

\* Evidence the stored record has not been through: asked for, or in a history of another
\* length.
Unspent(r) == inp[r].header \/ inp[r].n # store[KeyFor(r)].mark

\* The write a request is about to make: the watermark moves, or the tier does as well.
Moved(r) ==
    \/ \E mark \in Nat : rec[r] = [store[KeyFor(r)] EXCEPT !.mark = mark]
    \/ /\ CanEscalate(store[KeyFor(r)])
       /\ Unspent(r)
       /\ \E mark \in Nat : rec[r] = [Escalated(store[KeyFor(r)]) EXCEPT !.mark = mark]

CopyIsFresh(r) ==
    Pinned(store[KeyFor(r)]) =>
        /\ (pc[r] = "expire" /\ Pinned(rec[r])) \/ pc[r] = "scan" => rec[r] = store[KeyFor(r)]
        /\ pc[r] = "update" => Moved(r)
        /\ ~Winner(r)

CopiesAreFresh == \A r \in Requests : CopyIsFresh(r)

\* Only the request under way puts a pin where it is the one of its key.
LEMMA AloneWithItsKey ==
    ASSUME TypeOK, Alone, [Next]_vars, NEW s \in Requests, InFlight(s), NEW k \in Keys,
           k = KeyFor(s), Pinned(store'[k])
    PROVE  store'[k] = store[k] \/ (pc[s] \in {"pin", "update"} /\ pc'[s] # pc[s])
<1>1. ~Pinned(NoRecord) /\ ~Pinned(ClassifyingPlaceholder)
  BY DEF Pinned, NoRecord, ClassifyingPlaceholder, Unpinned
<1>2. \A r \in Requests : pc[r] \in {"pin", "update"} /\ KeyFor(r) = k => r = s
  BY DEF Alone, InFlight
<1> QED BY <1>1, <1>2, StoredRecords

\* A signal without the header comes from a message past the watermark.
LEMMA SignalsAreUnspent ==
    ASSUME NEW mark \in Nat, NEW n \in Nat, NEW header \in BOOLEAN,
           NEW o \in ScanOutcomes(mark, n, header), o.signal
    PROVE  header \/ n # mark
BY TailAssumption DEF ScanOutcomes, TailOutcomes, ScanStart, ResetMark, MaxOf, TailOf

\* Every step keeps the copies fresh.
LEMMA FreshStep ==
    ASSUME TypeOK, Alone, CopiesAreFresh, [Next]_vars
    PROVE  CopiesAreFresh'
<1> SUFFICES ASSUME NEW s \in Requests PROVE CopyIsFresh(s)'
  BY Zenon DEF CopiesAreFresh
<1>1. /\ pc \in [Requests -> PC] /\ inp \in [Requests -> Inputs]
      /\ rec \in [Requests -> SessionRecord] /\ store \in [Keys -> SessionRecord]
  BY DEF TypeOK, StoreTypeOK
<1>2. PICK k \in Keys : k = KeyFor(s)
  BY InputTypes
<1>3. CopyIsFresh(s)
  BY DEF CopiesAreFresh
<1>4. ASSUME inp'[s] = inp[s],
             Pinned(store'[k]) =>
               /\ (pc'[s] = "expire" /\ Pinned(rec'[s])) \/ pc'[s] = "scan" => rec'[s] = store'[k]
               /\ pc'[s] # "update"
               /\ pc'[s] \notin {"parent", "expireParent", "classify", "pin"}
      PROVE  CopyIsFresh(s)'
  BY <1>2, <1>4 DEF CopyIsFresh, KeyFor, Winner
<1>5. CASE Stands(s)
  <2>1. inp'[s] = inp[s] /\ pc'[s] = pc[s] /\ rec'[s] = rec[s] /\ KeyFor(s)' = k
    BY <1>2, <1>5 DEF Stands, KeyFor
  <2>2. CASE ~InFlight(s)
    BY <2>1, <2>2 DEF CopyIsFresh, InFlight, Winner
  <2>3. CASE InFlight(s)
    <3>1. Pinned(store'[k]) => store'[k] = store[k]
      BY <1>2, <2>1, <2>3, AloneWithItsKey
    <3> QED BY <1>2, <1>3, <2>1, <3>1 DEF CopyIsFresh, Moved, Unspent, Winner
  <2> QED BY <2>2, <2>3
<1>6. CASE Arrive(s) \/ SideChannel(s)
  <2>1. pc'[s] \in {"get", "done"}
    BY <1>1, <1>6 DEF Arrive, SideChannel, Goto
  <2> QED BY <2>1 DEF CopyIsFresh, Winner
<1>7. CASE Get(s)
  <2>1. PICK outcome \in Reachable : Proceed(s, Fetched(k, outcome))
    BY <1>2, <1>7 DEF Get
  <2>2. UNCHANGED <<store, inp>>
    BY <1>7 DEF Get, GetAndRefresh
  <2>3. Pinned(Fetched(k, outcome)) => Fetched(k, outcome) = store[k]
    BY DEF Fetched, Pinned, NoRecord, Unpinned
  <2>4. \/ pc'[s] = "scan" /\ rec'[s] = store[k]
        \/ pc'[s] \in {"done", "claim"}
    BY <1>1, <2>1, <2>3 DEF Proceed, Answer, Goto
  <2> QED BY <1>4, <2>2, <2>4
<1>8. CASE PipelineGet(s)
  <2>1. UNCHANGED <<store, inp>> /\ pc'[s] = "expire" /\ rec'[s] = store[k]
    BY <1>1, <1>2, <1>8 DEF PipelineGet, Goto
  <2> QED BY <1>4, <2>1
<1>9. CASE PipelineExpire(s)
  <2>1. PICK record \in {rec[s], NoRecord} : Proceed(s, record)
    BY <1>9 DEF PipelineExpire
  <2>2. UNCHANGED <<store, inp>> /\ pc[s] = "expire"
    BY <1>9 DEF PipelineExpire, Expire, GetAndRefresh
  <2>3. \/ pc'[s] = "scan" /\ Pinned(rec[s]) /\ rec'[s] = rec[s]
        \/ pc'[s] \in {"done", "claim"}
    BY <1>1, <2>1 DEF Proceed, Answer, Goto, Pinned, NoRecord, Unpinned
  <2> QED BY <1>2, <1>3, <1>4, <2>2, <2>3 DEF CopyIsFresh
<1>10. CASE WriteBack(s) \/ EmitPinned(s) \/ Crash(s) \/ FailOpen(s)
  <2>1. inp'[s] = inp[s] /\ pc'[s] \in {"done", "aborted"}
    BY <1>1, <1>10 DEF WriteBack, EmitPinned, Crash, FailOpen, Answer, Goto
  <2> QED BY <1>4, <2>1
<1>11. CASE Claim(s)
  <2>1. PICK outcome \in Reachable :
          /\ ClaimForClassification(k, outcome)
          /\ Claimed(k, outcome) \/ Goto(s, "done")
    BY <1>2, <1>11 DEF Claim, Answer
  <2>2. Claimed(k, outcome) => ~Pinned(store'[k])
    BY <1>1, <2>1 DEF ClaimForClassification, Claimed, Pinned, ClassifyingPlaceholder, Unpinned
  <2>3. inp'[s] = inp[s] /\ pc'[s] \in {"done", "parent", "pin", "classify"}
    BY <1>1, <1>11 DEF Claim, Answer, Goto
  <2> QED BY <1>1, <1>4, <2>1, <2>2, <2>3 DEF Goto
<1>12. CASE ReadParent(s) \/ PipelineGetParent(s) \/ PipelineExpireParent(s) \/ Classify(s)
  <2>1. Winner(s) /\ UNCHANGED <<store, inp>>
    BY <1>12 DEF ReadParent, PipelineGetParent, PipelineExpireParent, Classify, GetAndRefresh,
                 Expire, Winner
  <2>2. ~Pinned(store'[k])
    BY <1>2, <1>3, <2>1 DEF CopyIsFresh
  <2> QED BY <1>4, <2>1, <2>2
<1>13. CASE Pin(s)
  <2>1. inp'[s] = inp[s] /\ pc'[s] = "emit"
    BY <1>1, <1>13 DEF Pin, Goto
  <2> QED BY <1>4, <2>1
<1>14. CASE HandlePinned(s)
  <2>1. /\ pc[s] = "scan" /\ UNCHANGED <<store, inp>> /\ KeyFor(s)' = k
    BY <1>2, <1>14 DEF HandlePinned, KeyFor
  <2>2. Pinned(store[k]) => rec[s] = store[k]
    BY <1>2, <1>3, <2>1 DEF CopyIsFresh
  <2>3. /\ rec[s].mark \in Nat /\ inp[s].n \in Nat /\ inp[s].header \in BOOLEAN
    BY <1>1, InputTypes DEF Request, SessionRecord
  <2>4. PICK o \in ScanOutcomes(rec[s].mark, inp[s].n, inp[s].header) :
          \/ /\ o.signal /\ CanEscalate(rec[s])
             /\ rec' = [rec EXCEPT ![s] = [Escalated(rec[s]) EXCEPT
                                              !.mark = Consume(o.mark, inp[s].n)]]
             /\ Goto(s, "update")
          \/ /\ rec' = [rec EXCEPT ![s].mark = o.mark]
             /\ Goto(s, "update")
          \/ Answer(s, rec[s].model)
    BY <1>14 DEF HandlePinned
  <2>5. o.mark \in Nat /\ Consume(o.mark, inp[s].n) \in Nat
    BY <2>3, ScanTypes
  <2>6. CASE Answer(s, rec[s].model)
    BY <1>1, <1>4, <2>1, <2>6 DEF Answer, Goto
  <2>7. CASE /\ rec' = [rec EXCEPT ![s].mark = o.mark]
             /\ Goto(s, "update")
    <3>1. pc'[s] = "update" /\ rec'[s] = [rec[s] EXCEPT !.mark = o.mark]
      BY <1>1, <2>7 DEF Goto
    <3>2. Pinned(store[k]) => Moved(s)'
      BY <2>1, <2>2, <2>5, <3>1 DEF Moved
    <3> QED BY <2>1, <3>1, <3>2 DEF CopyIsFresh, Winner
  <2>8. CASE /\ o.signal /\ CanEscalate(rec[s])
             /\ rec' = [rec EXCEPT ![s] = [Escalated(rec[s]) EXCEPT
                                              !.mark = Consume(o.mark, inp[s].n)]]
             /\ Goto(s, "update")
    <3>1. /\ pc'[s] = "update"
          /\ rec'[s] = [Escalated(rec[s]) EXCEPT !.mark = Consume(o.mark, inp[s].n)]
      BY <1>1, <2>8 DEF Goto
    <3>2. inp[s].header \/ inp[s].n # rec[s].mark
      BY <2>3, <2>8, SignalsAreUnspent
    <3>3. Pinned(store[k]) => Moved(s)'
      BY <2>1, <2>2, <2>5, <2>8, <3>1, <3>2 DEF Moved, Unspent
    <3> QED BY <2>1, <3>1, <3>3 DEF CopyIsFresh, Winner
  <2> QED BY <2>4, <2>6, <2>7, <2>8
<1> QED
  BY <1>5, <1>6, <1>7, <1>8, <1>9, <1>10, <1>11, <1>12, <1>13, <1>14, OthersStand
     DEF RequestStep, HookStep

\* The invariant of requests that come one after another, under every fault.
LEMMA CopiesStayFresh ==
    ASSUME OneAfterAnother
    PROVE  Spec => [](TypeOK /\ Alone /\ CopiesAreFresh)
<1>1. Init => CopiesAreFresh
  BY DEF Init, CopiesAreFresh, CopyIsFresh, Winner
<1>2. TypeOK /\ Alone /\ CopiesAreFresh /\ [Next]_vars => CopiesAreFresh'
  BY FreshStep
<1> QED BY <1>1, <1>2, TypeCorrect, AloneHolds, PTL DEF Spec
-----------------------------------------------------------------------------
(***************************************************************************)
(* What a pinned record can become.                                        *)
(***************************************************************************)

\* A pinned record that stays pinned moves its watermark, or climbs one tier on evidence
\* its request had not spent.
LEMMA PinnedMoves ==
    ASSUME TypeOK, CopiesAreFresh, [Next]_vars, NEW k \in Keys,
           Pinned(store[k]), Pinned(store'[k])
    PROVE  \/ \E mark \in Nat : store'[k] = [store[k] EXCEPT !.mark = mark]
           \/ /\ CanEscalate(store[k])
              /\ \E mark \in Nat : store'[k] = [Escalated(store[k]) EXCEPT !.mark = mark]
              /\ \E r \in Requests : /\ pc[r] = "update" /\ pc'[r] # "update" /\ KeyFor(r) = k
                                     /\ inp[r].header \/ inp[r].n # store[k].mark
<1> DEFINE Moves == \E mark \in Nat : store'[k] = [store[k] EXCEPT !.mark = mark]
           Climbs == /\ CanEscalate(store[k])
                     /\ \E mark \in Nat : store'[k] = [Escalated(store[k]) EXCEPT !.mark = mark]
                     /\ \E r \in Requests : /\ pc[r] = "update" /\ pc'[r] # "update" /\ KeyFor(r) = k
                                            /\ inp[r].header \/ inp[r].n # store[k].mark
<1>1. store[k] \in SessionRecord
  BY DEF TypeOK, StoreTypeOK
<1>2. ASSUME store'[k] \in {store[k], NoRecord, ClassifyingPlaceholder}
      PROVE  Moves \/ Climbs
  <2>1. store'[k] = store[k]
    BY <1>2 DEF Pinned, NoRecord, ClassifyingPlaceholder, Unpinned
  <2>2. store[k] = [store[k] EXCEPT !.mark = store[k].mark] /\ store[k].mark \in Nat
    BY <1>1 DEF SessionRecord
  <2> QED BY <2>1, <2>2
<1>3. ASSUME NEW r \in Requests, pc[r] \in {"pin", "update"}, pc'[r] # pc[r], KeyFor(r) = k,
             store'[k] = rec[r]
      PROVE  Moves \/ Climbs
  <2>1. CopyIsFresh(r)
    BY DEF CopiesAreFresh
  <2>2. pc[r] = "update" /\ Moved(r)
    BY <1>3, <2>1 DEF CopyIsFresh, Winner
  <2>3. CASE \E mark \in Nat : rec[r] = [store[KeyFor(r)] EXCEPT !.mark = mark]
    BY <1>3, <2>3
  <2>4. CASE /\ CanEscalate(store[KeyFor(r)])
             /\ Unspent(r)
             /\ \E mark \in Nat : rec[r] = [Escalated(store[KeyFor(r)]) EXCEPT !.mark = mark]
    <3>1. inp[r].header \/ inp[r].n # store[k].mark
      BY <1>3, <2>4 DEF Unspent
    <3>2. pc[r] = "update" /\ pc'[r] # "update" /\ KeyFor(r) = k
      BY <1>3, <2>2
    <3>3. CanEscalate(store[k])
      BY <1>3, <2>4
    <3>4. \E mark \in Nat : store'[k] = [Escalated(store[k]) EXCEPT !.mark = mark]
      BY <1>3, <2>4
    <3> QED BY <3>1, <3>2, <3>3, <3>4
  <2> QED BY <2>2, <2>3, <2>4 DEF Moved
<1> HIDE DEF Moves, Climbs
<1>4. Moves \/ Climbs
  BY <1>2, <1>3, StoredRecords
<1> QED BY <1>4 DEF Moves, Climbs

\* The tier and the steps of a record after each of the two.
LEMMA MovesClimb ==
    ASSUME NEW record \in SessionRecord, NEW mark \in Nat
    PROVE  /\ [record EXCEPT !.mark = mark].tier = record.tier
           /\ [record EXCEPT !.mark = mark].esc = record.esc
           /\ [record EXCEPT !.mark = mark].state = record.state
           /\ CanEscalate(record) =>
                /\ [Escalated(record) EXCEPT !.mark = mark].tier = record.tier + 1
                /\ [Escalated(record) EXCEPT !.mark = mark].esc = record.esc + 1
                /\ [Escalated(record) EXCEPT !.mark = mark].state = "pinned"
<1>1. ASSUME NEW c \in SessionRecord
      PROVE  /\ [c EXCEPT !.mark = mark].tier = c.tier
             /\ [c EXCEPT !.mark = mark].esc = c.esc
             /\ [c EXCEPT !.mark = mark].state = c.state
  BY DEF SessionRecord
<1> QED BY <1>1, EscalatedType

\* So its tier and its steps stay, or both climb by one.
LEMMA PinnedClimbs ==
    ASSUME TypeOK, CopiesAreFresh, [Next]_vars, NEW k \in Keys,
           Pinned(store[k]), Pinned(store'[k])
    PROVE  \/ store'[k].tier = store[k].tier /\ store'[k].esc = store[k].esc
           \/ /\ CanEscalate(store[k])
              /\ store'[k].tier = store[k].tier + 1 /\ store'[k].esc = store[k].esc + 1
              /\ \E r \in Requests : /\ pc[r] = "update" /\ pc'[r] # "update" /\ KeyFor(r) = k
                                     /\ inp[r].header \/ inp[r].n # store[k].mark
<1>1. store[k] \in SessionRecord
  BY DEF TypeOK, StoreTypeOK
<1>2. ASSUME NEW mark \in Nat, store'[k] = [store[k] EXCEPT !.mark = mark]
      PROVE  store'[k].tier = store[k].tier /\ store'[k].esc = store[k].esc
  BY <1>1, <1>2, MovesClimb
<1>3. ASSUME CanEscalate(store[k]),
             NEW mark \in Nat, store'[k] = [Escalated(store[k]) EXCEPT !.mark = mark]
      PROVE  store'[k].tier = store[k].tier + 1 /\ store'[k].esc = store[k].esc + 1
  BY <1>1, <1>3, MovesClimb
<1> QED BY <1>2, <1>3, PinnedMoves

\* README.md:164-165, "No downgrades, ever", of the record: when the requests of a key come
\* one after another, no pin that is stored over another is at a lower tier, whatever fails,
\* lapses, is evicted or dies.  A key that Redis lost may be pinned anew at any tier, and a
\* request whose read fails is answered with the default: neither is a pin over a pin.
THEOREM StickyTierHolds ==
    ASSUME OneAfterAnother
    PROVE  Spec => StickyTier
<1>1. ASSUME TypeOK, CopiesAreFresh, [Next]_vars, NEW k \in Keys,
             Pinned(store[k]), Pinned(store'[k])
      PROVE  store'[k].tier >= store[k].tier
  <2>1. store[k] \in SessionRecord /\ store[k].tier \in Nat
    BY <1>1, PoliciesAssumption DEF TypeOK, StoreTypeOK, SessionRecord, Tiers
  <2>2. store'[k].tier \in {store[k].tier, store[k].tier + 1}
    BY <1>1, PinnedClimbs
  <2> QED BY <2>1, <2>2
<1>2. TypeOK /\ Alone /\ CopiesAreFresh /\ [Next]_vars =>
        [\A k \in Keys : Pinned(store[k]) /\ Pinned(store'[k]) =>
            store'[k].tier >= store[k].tier]_vars
  BY <1>1
<1> QED BY <1>2, CopiesStayFresh, PTL DEF Spec, StickyTier

\* escalation.py:113-115, "so the same evidence never fires twice": for requests one after
\* another a stored escalation had the header, or a history of another length than the one
\* last scanned, under every fault.
THEOREM ResentHistoryIsSpentHolds ==
    ASSUME OneAfterAnother
    PROVE  Spec => ResentHistoryIsSpent
<1>1. ASSUME TypeOK, CopiesAreFresh, [Next]_vars, NEW k \in Keys,
             Pinned(store[k]), Pinned(store'[k]), store'[k].esc > store[k].esc
      PROVE  \E r \in Requests : /\ pc[r] = "update" /\ pc'[r] # "update" /\ KeyFor(r) = k
                                 /\ inp[r].header \/ inp[r].n # store[k].mark
  <2>1. store[k].esc \in Nat
    BY <1>1 DEF TypeOK, StoreTypeOK, SessionRecord
  <2>2. store'[k].esc # store[k].esc
    BY <1>1, <2>1
  <2> QED BY <1>1, <2>2, PinnedClimbs
<1>2. TypeOK /\ Alone /\ CopiesAreFresh /\ [Next]_vars =>
        [\A k \in Keys : Pinned(store[k]) /\ Pinned(store'[k]) /\ store'[k].esc > store[k].esc =>
            \E r \in Requests : /\ pc[r] = "update" /\ pc'[r] # "update" /\ KeyFor(r) = k
                                /\ inp[r].header \/ inp[r].n # store[k].mark]_vars
  BY <1>1
<1> QED BY <1>2, CopiesStayFresh, PTL DEF Spec, ResentHistoryIsSpent
-----------------------------------------------------------------------------
(***************************************************************************)
(* The refinement of SessionPin.  It needs more than fresh copies: that a  *)
(* pin replaces the placeholder of its own claim and a write-back a pin,   *)
(* which ClaimInv says when no key is evicted and no winner outlives its   *)
(* claim; that the pin has not climbed; and that a key without a pin tells *)
(* nothing else.                                                           *)
(***************************************************************************)

Blank == \A k \in Keys : Pinned(store[k]) \/ store[k] \in {NoRecord, ClassifyingPlaceholder}

\* Every step leaves a key pinned or blank.
LEMMA BlankStep ==
    ASSUME TypeOK, ClaimInv, FreshPins, Blank, [Next]_vars
    PROVE  Blank'
<1> SUFFICES ASSUME NEW k \in Keys
             PROVE  Pinned(store'[k]) \/ store'[k] \in {NoRecord, ClassifyingPlaceholder}
  BY DEF Blank
<1>1. CASE store'[k] \in {store[k], NoRecord, ClassifyingPlaceholder}
  BY <1>1 DEF Blank
<1>2. ASSUME NEW r \in Requests, pc[r] \in {"pin", "update"}, KeyFor(r) = k, store'[k] = rec[r]
      PROVE  Pinned(store'[k])
  BY <1>2 DEF FreshPins, ClaimInv, CopiesAgree, HoldsCopy, SamePin
<1> QED BY <1>1, <1>2, StoredRecords

\* A step changes the record of one key at most.
LEMMA OneKeyAtATime ==
    ASSUME TypeOK, [Next]_vars
    PROVE  \/ store' = store
           \/ /\ store' \in [Keys -> SessionRecord]
              /\ \E k \in Keys : \A q \in Keys : q # k => store'[q] = store[q]
<1> DEFINE One == \E k \in Keys : \A q \in Keys : q # k => store'[q] = store[q]
<1>1. store \in [Keys -> SessionRecord] /\ store' \in [Keys -> SessionRecord]
  BY TypeStep DEF TypeOK, StoreTypeOK
<1>2. ASSUME NEW r \in Requests, WriteBack(r) \/ Pin(r) \/ Claim(r) PROVE One
  <2>1. KeyFor(r) \in Keys
    BY InputTypes
  <2>2. \A q \in Keys : q # KeyFor(r) => store'[q] = store[q]
    BY <1>1, <1>2 DEF WriteBack, Update, Pin, WritePin, Claim, ClaimForClassification, storeVars
  <2> QED BY <2>1, <2>2
<1>3. ASSUME NEW k \in Keys, KeyStep(k) PROVE One
  BY <1>1, <1>3 DEF KeyStep, ClaimLapses, SessionLapses, Evict, Drop
<1>4. ASSUME NEW r \in Requests,
             Get(r) \/ PipelineGet(r) \/ PipelineExpire(r)
             \/ ReadParent(r) \/ PipelineGetParent(r) \/ PipelineExpireParent(r)
      PROVE  store' = store
  BY <1>4 DEF Get, PipelineGet, PipelineExpire, ReadParent, PipelineGetParent,
              PipelineExpireParent, GetAndRefresh, Expire
<1>5. ASSUME NEW r \in Requests,
             Arrive(r) \/ SideChannel(r) \/ HandlePinned(r) \/ Classify(r) \/ EmitPinned(r)
             \/ Crash(r) \/ FailOpen(r)
      PROVE  store' = store
  BY <1>5 DEF Arrive, SideChannel, HandlePinned, Classify, EmitPinned, Crash, FailOpen
<1>6. CASE UNCHANGED vars
  BY <1>6 DEF vars
<1> QED BY <1>1, <1>2, <1>3, <1>4, <1>5, <1>6 DEF Next, RequestStep, HookStep, Terminated

\* What a record is to SessionPin.
LEMMA Images ==
    /\ PinOf(NoRecord) = Promise!Unknown
    /\ PinOf(ClassifyingPlaceholder) = Promise!BeingDecided
    /\ \A record : Pinned(record) => PinOf(record) = Promise!At(record.tier, record.esc)
BY DEF PinOf, NoRecord, ClassifyingPlaceholder, Unpinned, Pinned, Promise!Unknown,
       Promise!BeingDecided, Promise!At

\* What one step does to the session behind a key is what SessionPin allows.
LEMMA PromiseOfAKey ==
    ASSUME TypeOK, ClaimInv, FreshPins, CopiesAreFresh, Blank, [Next]_vars, NEW k \in Keys
    PROVE  \/ PinOf(store'[k]) = PinOf(store[k])
           \/ /\ PinOf(store[k]) = Promise!Unknown
              /\ PinOf(store'[k]) = Promise!BeingDecided
           \/ /\ PinOf(store[k]) = Promise!BeingDecided
              /\ \E tier \in 1..TopTier : PinOf(store'[k]) = Promise!At(tier, 0)
           \/ /\ PinOf(store[k]).status = "pinned"
              /\ PinOf(store[k]).tier < TopTier
              /\ PinOf(store[k]).steps < MaxEscalations
              /\ PinOf(store'[k]) = Promise!At(PinOf(store[k]).tier + 1, PinOf(store[k]).steps + 1)
           \/ /\ PinOf(store[k]) # Promise!Unknown
              /\ PinOf(store'[k]) = Promise!Unknown
<1>1. /\ store \in [Keys -> SessionRecord] /\ rec \in [Requests -> SessionRecord]
  BY DEF TypeOK, StoreTypeOK
<1>2. CASE store'[k] \in {store[k], NoRecord}
  <2>1. CASE store'[k] = store[k]
    BY <2>1
  <2>2. CASE store'[k] = NoRecord
    BY <2>2, Images, Zenon
  <2> QED BY <1>2, <2>1, <2>2
<1>3. CASE ~Present(k) /\ store'[k] = ClassifyingPlaceholder
  <2>1. store[k] = NoRecord
    BY <1>3 DEF Blank, Present, Pinned, ClassifyingPlaceholder, Unpinned
  <2> QED BY <1>3, <2>1, Images
<1>4. ASSUME NEW r \in Requests, pc[r] = "pin", KeyFor(r) = k, store'[k] = rec[r]
      PROVE  /\ PinOf(store[k]) = Promise!BeingDecided
             /\ \E tier \in 1..TopTier : PinOf(store'[k]) = Promise!At(tier, 0)
  <2>1. Pinned(rec[r]) /\ rec[r].esc = 0 /\ rec[r].tier \in 1..TopTier
    BY <1>1, <1>4 DEF FreshPins, SessionRecord, Tiers
  <2>2. store[k].state = "classifying"
    BY <1>4 DEF ClaimInv, ClaimExclusion, Winner
  <2>3. store[k] = ClassifyingPlaceholder
    BY <2>2 DEF Blank, Pinned, NoRecord, Unpinned
  <2> QED BY <1>4, <2>1, <2>3, Images
<1>5. ASSUME NEW r \in Requests, pc[r] = "update", KeyFor(r) = k
      PROVE  Pinned(store[k]) /\ Pinned(rec[r])
  BY <1>5 DEF ClaimInv, CopiesAgree, HoldsCopy, SamePin
<1>6. ASSUME Pinned(store[k]), Pinned(store'[k])
      PROVE  \/ PinOf(store'[k]) = PinOf(store[k])
             \/ /\ PinOf(store[k]).status = "pinned"
                /\ PinOf(store[k]).tier < TopTier
                /\ PinOf(store[k]).steps < MaxEscalations
                /\ PinOf(store'[k]) =
                     Promise!At(PinOf(store[k]).tier + 1, PinOf(store[k]).steps + 1)
  <2>1. /\ PinOf(store[k]) = Promise!At(store[k].tier, store[k].esc)
        /\ PinOf(store'[k]) = Promise!At(store'[k].tier, store'[k].esc)
    BY <1>6, Images
  <2>2. /\ PinOf(store[k]).status = "pinned"
        /\ PinOf(store[k]).tier = store[k].tier
        /\ PinOf(store[k]).steps = store[k].esc
    BY <2>1 DEF Promise!At
  <2>3. CASE store'[k].tier = store[k].tier /\ store'[k].esc = store[k].esc
    BY <2>1, <2>3
  <2>4. CASE /\ CanEscalate(store[k])
             /\ store'[k].tier = store[k].tier + 1 /\ store'[k].esc = store[k].esc + 1
    BY <2>1, <2>2, <2>4 DEF CanEscalate
  <2> QED BY <1>6, <2>3, <2>4, PinnedClimbs
<1> QED BY <1>2, <1>3, <1>4, <1>5, <1>6, StoredRecords
\* Every step of the router is a step of SessionPin or leaves it as it is.
LEMMA PromiseStep ==
    ASSUME TypeOK, ClaimInv, FreshPins, CopiesAreFresh, Blank, [Next]_vars
    PROVE  [Promise!Next]_[k \in Keys |-> PinOf(store[k])]
<1> DEFINE session == [k \in Keys |-> PinOf(store[k])]
           after == [k \in Keys |-> PinOf(store'[k])]
<1>1. session' = after
  OBVIOUS
<1>2. CASE store' = store
  BY <1>2
<1>3. ASSUME NEW k \in Keys, \A q \in Keys : q # k => store'[q] = store[q]
      PROVE  after = session \/ Promise!Next
  <2>1. after = [session EXCEPT ![k] = PinOf(store'[k])]
    BY <1>3
  <2>2. session[k] = PinOf(store[k])
    OBVIOUS
  <2>3. ASSUME NEW image, PinOf(store'[k]) = image PROVE Promise!Become(k, image)
    BY <1>1, <2>1, <2>3 DEF Promise!Become
  <2>4. CASE PinOf(store'[k]) = PinOf(store[k])
    BY <2>1, <2>2, <2>4
  <2>5. CASE /\ PinOf(store[k]) = Promise!Unknown
             /\ PinOf(store'[k]) = Promise!BeingDecided
    <3>1. Promise!Decide(k)
      BY <2>2, <2>3, <2>5 DEF Promise!Decide
    <3> QED BY <3>1 DEF Promise!Next
  <2>6. CASE /\ PinOf(store[k]) = Promise!BeingDecided
             /\ \E tier \in 1..TopTier : PinOf(store'[k]) = Promise!At(tier, 0)
    <3>1. PICK tier \in 1..TopTier : Promise!PinTo(k, tier)
      BY <2>2, <2>3, <2>6 DEF Promise!PinTo
    <3> QED BY <3>1 DEF Promise!Next
  <2>7. CASE /\ PinOf(store[k]).status = "pinned"
             /\ PinOf(store[k]).tier < TopTier
             /\ PinOf(store[k]).steps < MaxEscalations
             /\ PinOf(store'[k]) = Promise!At(PinOf(store[k]).tier + 1, PinOf(store[k]).steps + 1)
    <3>1. Promise!Climb(k)
      BY <2>2, <2>3, <2>7 DEF Promise!Climb
    <3> QED BY <3>1 DEF Promise!Next
  <2>8. CASE /\ PinOf(store[k]) # Promise!Unknown
             /\ PinOf(store'[k]) = Promise!Unknown
    <3>1. Promise!Forget(k)
      BY <2>2, <2>3, <2>8 DEF Promise!Forget
    <3> QED BY <3>1 DEF Promise!Next
  <2> QED BY <2>4, <2>5, <2>6, <2>7, <2>8, PromiseOfAKey
<1> QED BY <1>1, <1>2, <1>3, OneKeyAtATime

\* state_machine.py:3-6: for the requests of a session one after another the store keeps the
\* promise of SessionPin, one classification and then only upwards by one, as long as no key
\* is evicted and no winner outlives its claim: through lost replies, failed commands,
\* crashes, hook bugs and silence.
THEOREM KeepsThePromiseHolds ==
    ASSUME OneAfterAnother, "stall" \notin Environment, "evict" \notin Environment
    PROVE  Spec => KeepsThePromise
<1>1. Init => Promise!Init
  BY Images DEF Init, StoreInit, Promise!Init
<1>2. Init => Blank
  BY DEF Init, StoreInit, Blank
<1>3. TypeOK /\ ClaimInv /\ FreshPins /\ Blank /\ [Next]_vars => Blank'
  BY BlankStep
<1>4. TypeOK /\ ClaimInv /\ FreshPins /\ CopiesAreFresh /\ Blank /\ [Next]_vars
        => [Promise!Next]_[k \in Keys |-> PinOf(store[k])]
  BY PromiseStep
<1>5. Spec => [](TypeOK /\ ClaimInv)
  BY ClaimInvariant
<1> QED
  BY <1>1, <1>2, <1>3, <1>4, <1>5, CopiesStayFresh, PinsAreFresh, PTL
     DEF Spec, KeepsThePromise, Promise!Spec
-----------------------------------------------------------------------------
(***************************************************************************)
(* The log explains every answer, when no worker dies or fails between the *)
(* pin and its events.                                                     *)
(*                                                                         *)
(* AnswersAreLogged is not inductive: a pin is stored before its event is  *)
(* emitted, so the model of a stored record is in the log, or its request  *)
(* still stands at the emission; being alone, that request is the next of  *)
(* its key to go on.                                                       *)
(***************************************************************************)

NamedInLog(k, model) ==
    \/ model = DefaultModel
    \/ \E j \in DOMAIN log[k] : log[k][j].model = model

\* The same of the log after a step.
NamedAfter(k, model) ==
    \/ model = DefaultModel
    \/ \E j \in DOMAIN log'[k] : log'[k][j].model = model

PinsAreLogged ==
    \A k \in Keys :
        \/ NamedInLog(k, store[k].model)
        \/ \E r \in Requests : /\ pc[r] = "emit" /\ KeyFor(r) = k
                               /\ rec[r].model = store[k].model

CopyIsLogged(r) ==
    pc[r] \in {"expire", "scan", "update"} => NamedInLog(KeyFor(r), rec[r].model)

AnswerIsLogged(r) == pc[r] = "done" /\ ~inp[r].side => NamedInLog(KeyFor(r), decided[r])

AnswerInv ==
    /\ PinsAreLogged
    /\ \A r \in Requests : CopyIsLogged(r) /\ AnswerIsLogged(r)

\* Only the default is named by a key without a pin.
LEMMA BlanksAreNamed ==
    \A k \in Keys : /\ NamedInLog(k, NoRecord.model)
                    /\ NamedInLog(k, ClassifyingPlaceholder.model)
BY DEF NamedInLog, NoRecord, ClassifyingPlaceholder, Unpinned

\* A log that grows names what it named, and what is new.
LEMMA GrowingLogs ==
    ASSUME NEW s \in Seq(Event), NEW t \in Seq(Event)
    PROVE  /\ \A j \in DOMAIN s : j \in DOMAIN (s \o t) /\ (s \o t)[j] = s[j]
           /\ \A j \in DOMAIN t : /\ Len(s) + j \in DOMAIN (s \o t)
                                  /\ (s \o t)[Len(s) + j] = t[j]
OBVIOUS
\* The log of a key only grows.
LEMMA LogsOnlyGrow ==
    ASSUME TypeOK, [Next]_vars, NEW k \in Keys
    PROVE  \E t \in Seq(Event) : log'[k] = log[k] \o t
<1>1. log[k] \in Seq(Event) /\ log \in [Keys -> Seq(Event)]
  BY DEF TypeOK
<1>2. ASSUME log'[k] = log[k] PROVE \E t \in Seq(Event) : log'[k] = log[k] \o t
  <2>1. <<>> \in Seq(Event) /\ log[k] = log[k] \o <<>>
    BY <1>1
  <2> QED BY <1>2, <2>1
<1>3. ASSUME NEW q \in Keys, NEW t \in Seq(Event), Emit(q, t)
      PROVE  log'[k] = log[k] \/ log'[k] = log[k] \o t
  BY <1>1, <1>3 DEF Emit
<1>4. ASSUME NEW r \in Requests, EmitPinned(r)
      PROVE  \E t \in Seq(Event) : log'[k] = log[k] \/ log'[k] = log[k] \o t
  BY <1>3, <1>4, InputTypes, PinEventsAreEvents DEF EmitPinned
<1>5. ASSUME NEW r \in Requests, HandlePinned(r)
      PROVE  \E t \in Seq(Event) : log'[k] = log[k] \/ log'[k] = log[k] \o t
  <2>1. \/ CanEscalate(rec[r]) /\ Emit(KeyFor(r), EscalationEvents(rec[r]))
        \/ log' = log
    BY <1>5 DEF HandlePinned
  <2>2. CASE CanEscalate(rec[r]) /\ Emit(KeyFor(r), EscalationEvents(rec[r]))
    BY <1>3, <2>2, InputTypes, EscalationsAreEvents
  <2>3. CASE log' = log
    <3>1. <<>> \in Seq(Event)
      OBVIOUS
    <3> QED BY <2>3, <3>1
  <2> QED BY <2>1, <2>2, <2>3
<1>6. ASSUME NEW r \in Requests,
             \/ Arrive(r) \/ SideChannel(r) \/ Get(r) \/ PipelineGet(r) \/ PipelineExpire(r)
             \/ WriteBack(r) \/ Claim(r) \/ ReadParent(r) \/ PipelineGetParent(r)
             \/ PipelineExpireParent(r) \/ Classify(r) \/ Pin(r) \/ Crash(r) \/ FailOpen(r)
      PROVE  log' = log
  BY <1>6 DEF Arrive, SideChannel, Get, PipelineGet, PipelineExpire, WriteBack, Claim, ReadParent,
              PipelineGetParent, PipelineExpireParent, Classify, Pin, Crash, FailOpen
<1>7. ASSUME NEW q \in Keys, KeyStep(q) PROVE log' = log
  BY <1>7 DEF KeyStep, ClaimLapses, SessionLapses, Evict
<1>8. CASE UNCHANGED vars
  BY <1>2, <1>8 DEF vars
<1> QED
  BY <1>2, <1>4, <1>5, <1>6, <1>7, <1>8 DEF Next, RequestStep, HookStep, Terminated

\* So what it names it goes on naming.
LEMMA NamesAreKept ==
    ASSUME TypeOK, [Next]_vars, NEW k \in Keys, NEW model, NamedInLog(k, model)
    PROVE  NamedAfter(k, model)
<1>1. PICK t \in Seq(Event) : log'[k] = log[k] \o t
  BY LogsOnlyGrow
<1>2. log[k] \in Seq(Event)
  BY DEF TypeOK
<1>3. \A j \in DOMAIN log[k] : j \in DOMAIN log'[k] /\ log'[k][j] = log[k][j]
  BY <1>1, <1>2, GrowingLogs
<1> QED BY <1>3 DEF NamedInLog, NamedAfter

\* The events of a step name what they name from then on.
LEMMA EmittedNames ==
    ASSUME TypeOK, NEW k \in Keys, NEW t \in Seq(Event), NEW j \in DOMAIN t, Emit(k, t)
    PROVE  \E i \in DOMAIN log'[k] : log'[k][i].model = t[j].model
<1>1. log[k] \in Seq(Event) /\ log'[k] = log[k] \o t
  BY DEF TypeOK, Emit
<1>2. Len(log[k]) + j \in DOMAIN log'[k] /\ log'[k][Len(log[k]) + j] = t[j]
  BY <1>1, GrowingLogs
<1> QED BY <1>2
NobodyDies == "crash" \notin Environment /\ "bug" \notin Environment

\* Every step leaves each stored model in the log, or its request about to emit it.
LEMMA PinsAreLoggedStep ==
    ASSUME TypeOK, AnswerInv, [Next]_vars, NobodyDies
    PROVE  PinsAreLogged'
<1> SUFFICES ASSUME NEW k \in Keys
             PROVE  \/ NamedAfter(k, store'[k].model)
                    \/ \E r \in Requests : /\ pc'[r] = "emit" /\ KeyFor(r)' = k
                                           /\ rec'[r].model = store'[k].model
  BY DEF PinsAreLogged, NamedInLog, NamedAfter
<1>1. pc \in [Requests -> PC] /\ rec \in [Requests -> SessionRecord]
  BY DEF TypeOK
<1>2. CASE store'[k] = store[k]
  <2>1. CASE NamedInLog(k, store[k].model)
    BY <1>2, <2>1, NamesAreKept
  <2>2. ASSUME NEW r \in Requests, pc[r] = "emit", KeyFor(r) = k, rec[r].model = store[k].model
        PROVE  \/ NamedAfter(k, store'[k].model)
               \/ pc'[r] = "emit" /\ KeyFor(r)' = k /\ rec'[r].model = store'[k].model
    <3>1. CASE Stands(r)
      BY <1>2, <2>2, <3>1 DEF Stands, KeyFor
    <3>2. CASE EmitPinned(r)
      <4>1. PICK j \in DOMAIN PinEvents(r) : PinEvents(r)[j].model = rec[r].model
        BY PinEventsAreEvents
      <4>2. \E i \in DOMAIN log'[k] : log'[k][i].model = rec[r].model
        BY <2>2, <3>2, <4>1, PinEventsAreEvents, EmittedNames DEF EmitPinned
      <4> QED BY <1>2, <2>2, <4>2 DEF NamedAfter
    <3>3. Stands(r) \/ EmitPinned(r)
      BY <2>2, OthersStand DEF RequestStep, HookStep, NobodyDies, Arrive, SideChannel, Get,
         PipelineGet, PipelineExpire, HandlePinned, WriteBack, Claim, ReadParent,
         PipelineGetParent, PipelineExpireParent, Classify, Pin, Crash, FailOpen
    <3> QED BY <3>1, <3>2, <3>3
  <2> QED BY <2>1, <2>2 DEF AnswerInv, PinsAreLogged
<1>3. CASE store'[k] \in {NoRecord, ClassifyingPlaceholder}
  BY <1>3, BlanksAreNamed, NamesAreKept
<1>4. ASSUME NEW r \in Requests, pc[r] = "update", KeyFor(r) = k, store'[k] = rec[r]
      PROVE  NamedAfter(k, store'[k].model)
  <2>1. NamedInLog(k, rec[r].model)
    BY <1>4 DEF AnswerInv, CopyIsLogged
  <2> QED BY <1>4, <2>1, NamesAreKept
<1>5. ASSUME NEW r \in Requests, pc[r] = "pin", pc'[r] # pc[r], KeyFor(r) = k, store'[k] = rec[r]
      PROVE  pc'[r] = "emit" /\ KeyFor(r)' = k /\ rec'[r].model = store'[k].model
  <2>1. Pin(r)
    BY <1>5, OthersStand DEF Stands, RequestStep, HookStep, NobodyDies, Arrive, SideChannel, Get,
       PipelineGet, PipelineExpire, HandlePinned, WriteBack, Claim, ReadParent,
       PipelineGetParent, PipelineExpireParent, Classify, EmitPinned, Crash, FailOpen
  <2> QED BY <1>1, <1>5, <2>1 DEF Pin, Goto, KeyFor
<1> QED BY <1>2, <1>3, <1>4, <1>5, StoredRecords
\* Every step leaves what a request carries and what it answered in the log.
LEMMA AnswersStep ==
    ASSUME TypeOK, Alone, AnswerInv, [Next]_vars, NobodyDies, NEW s \in Requests
    PROVE  CopyIsLogged(s)' /\ AnswerIsLogged(s)'
<1>1. /\ pc \in [Requests -> PC] /\ inp \in [Requests -> Inputs]
      /\ rec \in [Requests -> SessionRecord] /\ decided \in [Requests -> Models]
      /\ store \in [Keys -> SessionRecord]
  BY DEF TypeOK, StoreTypeOK
<1>2. PICK k \in Keys : k = KeyFor(s)
  BY InputTypes
<1>3. CopyIsLogged(s) /\ AnswerIsLogged(s)
  BY DEF AnswerInv
<1>4. ASSUME inp'[s] = inp[s],
             pc'[s] \in {"expire", "scan", "update"} => NamedAfter(k, rec'[s].model),
             pc'[s] = "done" /\ ~inp[s].side => NamedAfter(k, decided'[s])
      PROVE  CopyIsLogged(s)' /\ AnswerIsLogged(s)'
  <2>1. KeyFor(s)' = k
    BY <1>2, <1>4 DEF KeyFor
  <2> QED BY <1>4, <2>1 DEF CopyIsLogged, AnswerIsLogged, NamedInLog, NamedAfter
<1>5. ASSUME NEW model, NamedInLog(k, model) PROVE NamedAfter(k, model)
  BY <1>5, NamesAreKept
<1>6. NamedAfter(k, DefaultModel) /\ NamedAfter(k, NoRecord.model)
  BY DEF NamedAfter, NoRecord, Unpinned
<1>7. CASE Stands(s)
  <2>1. inp'[s] = inp[s] /\ pc'[s] = pc[s] /\ rec'[s] = rec[s] /\ decided'[s] = decided[s]
    BY <1>7 DEF Stands
  <2> QED BY <1>2, <1>3, <1>4, <1>5, <2>1 DEF CopyIsLogged, AnswerIsLogged
<1>8. CASE Arrive(s) \/ SideChannel(s)
  <2>1. pc'[s] = "get" \/ (pc'[s] = "done" /\ inp'[s].side)
    BY <1>1, <1>8 DEF Arrive, SideChannel, Goto
  <2> QED BY <2>1 DEF CopyIsLogged, AnswerIsLogged
<1>9. ASSUME pc[s] = "get" PROVE NamedAfter(k, store[k].model)
  <2>1. ~\E r \in Requests : pc[r] = "emit" /\ KeyFor(r) = k
    BY <1>2, <1>9 DEF Alone, InFlight
  <2> QED BY <1>5, <2>1 DEF AnswerInv, PinsAreLogged
<1>10. CASE Get(s)
  <2>1. PICK outcome \in Reachable : Proceed(s, Fetched(k, outcome))
    BY <1>2, <1>10 DEF Get
  <2>2. UNCHANGED inp /\ pc[s] = "get"
    BY <1>10 DEF Get
  <2>3. rec'[s] \in {NoRecord, store[k]}
    BY <1>1, <2>1 DEF Proceed, Fetched
  <2>4. pc'[s] \in {"scan", "claim"} \/ (pc'[s] = "done" /\ decided'[s] = DefaultModel)
    BY <1>1, <2>1 DEF Proceed, Answer, Goto
  <2> QED BY <1>4, <1>6, <1>9, <2>2, <2>3, <2>4
<1>11. CASE PipelineGet(s)
  <2>1. UNCHANGED inp /\ pc[s] = "get" /\ pc'[s] = "expire" /\ rec'[s] = store[k]
    BY <1>1, <1>2, <1>11 DEF PipelineGet, Goto
  <2> QED BY <1>4, <1>9, <2>1
<1>12. CASE PipelineExpire(s)
  <2>1. PICK record \in {rec[s], NoRecord} : Proceed(s, record)
    BY <1>12 DEF PipelineExpire
  <2>2. UNCHANGED inp /\ NamedAfter(k, rec[s].model)
    BY <1>2, <1>3, <1>5, <1>12 DEF PipelineExpire, CopyIsLogged
  <2>3. rec'[s] \in {NoRecord, rec[s]}
    BY <1>1, <2>1 DEF Proceed
  <2>4. pc'[s] \in {"scan", "claim"} \/ (pc'[s] = "done" /\ decided'[s] = DefaultModel)
    BY <1>1, <2>1 DEF Proceed, Answer, Goto
  <2> QED BY <1>4, <1>6, <2>2, <2>3, <2>4
<1>13. CASE WriteBack(s)
  <2>1. inp'[s] = inp[s] /\ pc'[s] = "done" /\ decided'[s] = rec[s].model
    BY <1>1, <1>13 DEF WriteBack, Answer, Goto
  <2>2. NamedAfter(k, rec[s].model)
    BY <1>2, <1>3, <1>5, <1>13 DEF WriteBack, CopyIsLogged
  <2> QED BY <1>4, <2>1, <2>2
<1>14. CASE Claim(s) \/ Classify(s) \/ ReadParent(s) \/ PipelineGetParent(s)
            \/ PipelineExpireParent(s) \/ Pin(s)
  <2>1. /\ inp'[s] = inp[s]
        /\ \/ pc'[s] \in {"parent", "classify", "pin", "expireParent", "emit"}
           \/ pc'[s] = "done" /\ decided'[s] = DefaultModel
    BY <1>1, <1>14 DEF Claim, Classify, ReadParent, PipelineGetParent, PipelineExpireParent, Pin,
                       Answer, Goto
  <2> QED BY <1>4, <1>6, <2>1
<1>15. CASE EmitPinned(s)
  <2>1. inp'[s] = inp[s] /\ pc'[s] = "done" /\ decided'[s] = rec[s].model
    BY <1>1, <1>15 DEF EmitPinned, Answer, Goto
  <2>2. PICK j \in DOMAIN PinEvents(s) : PinEvents(s)[j].model = rec[s].model
    BY PinEventsAreEvents
  <2>3. \E i \in DOMAIN log'[k] : log'[k][i].model = rec[s].model
    BY <1>2, <1>15, <2>2, PinEventsAreEvents, EmittedNames DEF EmitPinned
  <2> QED BY <1>4, <2>1, <2>3 DEF NamedAfter
<1>16. CASE HandlePinned(s)
  <2>1. /\ pc[s] = "scan" /\ inp'[s] = inp[s] /\ NamedAfter(k, rec[s].model)
        /\ rec[s] \in SessionRecord
    BY <1>1, <1>2, <1>3, <1>5, <1>16 DEF HandlePinned, CopyIsLogged
  <2>2. PICK o \in ScanOutcomes(rec[s].mark, inp[s].n, inp[s].header) :
          \/ /\ CanEscalate(rec[s])
             /\ rec' = [rec EXCEPT ![s] = [Escalated(rec[s]) EXCEPT
                                              !.mark = Consume(o.mark, inp[s].n)]]
             /\ Emit(k, EscalationEvents(rec[s]))
             /\ Goto(s, "update")
          \/ /\ rec' = [rec EXCEPT ![s].mark = o.mark]
             /\ Goto(s, "update")
          \/ Answer(s, rec[s].model)
    BY <1>2, <1>16 DEF HandlePinned
  <2>3. CASE Answer(s, rec[s].model)
    BY <1>1, <1>4, <2>1, <2>3 DEF Answer, Goto
  <2>4. CASE rec' = [rec EXCEPT ![s].mark = o.mark] /\ Goto(s, "update")
    <3>1. rec'[s].model = rec[s].model /\ pc'[s] = "update"
      BY <1>1, <2>1, <2>4 DEF SessionRecord, Goto
    <3> QED BY <1>4, <2>1, <3>1
  <2>5. CASE /\ CanEscalate(rec[s])
             /\ rec' = [rec EXCEPT ![s] = [Escalated(rec[s]) EXCEPT
                                              !.mark = Consume(o.mark, inp[s].n)]]
             /\ Emit(k, EscalationEvents(rec[s]))
             /\ Goto(s, "update")
    <3>1. PICK event \in Event : /\ EscalationEvents(rec[s]) = <<event>>
                                 /\ event.model = Escalated(rec[s]).model
      BY <2>5, EscalationsAreEvents
    <3>2. <<event>> \in Seq(Event) /\ 1 \in DOMAIN <<event>> /\ <<event>>[1] = event
      OBVIOUS
    <3>3. \E i \in DOMAIN log'[k] : log'[k][i].model = Escalated(rec[s]).model
      BY <2>5, <3>1, <3>2, EmittedNames
    <3>4. Escalated(rec[s]) \in SessionRecord
      BY <2>1, <2>5, EscalatedType
    <3>5. rec'[s].model = Escalated(rec[s]).model /\ pc'[s] = "update"
      BY <1>1, <2>5, <3>4 DEF SessionRecord, Goto
    <3> QED BY <1>4, <2>1, <3>3, <3>5 DEF NamedAfter
  <2> QED BY <2>2, <2>3, <2>4, <2>5
<1> QED
  BY <1>7, <1>8, <1>10, <1>11, <1>12, <1>13, <1>14, <1>15, <1>16, OthersStand
     DEF RequestStep, HookStep, NobodyDies, Crash, FailOpen

\* The log explains the routing of a session whose requests come one after another: a model
\* that answered one is the default or is named by an event of its key, through lost
\* replies, failed commands, evictions, silence and claims that lapse too early, as long as
\* no worker dies or fails between writing a pin and emitting its events.
THEOREM AnswersAreLoggedHolds ==
    ASSUME OneAfterAnother, NobodyDies
    PROVE  Spec => []AnswersAreLogged
<1>1. Init => AnswerInv
  BY BlanksAreNamed DEF Init, StoreInit, AnswerInv, PinsAreLogged, CopyIsLogged, AnswerIsLogged
<1>2. TypeOK /\ Alone /\ AnswerInv /\ [Next]_vars => AnswerInv'
  BY PinsAreLoggedStep, AnswersStep DEF AnswerInv
<1>3. AnswerInv => AnswersAreLogged
  BY DEF AnswerInv, AnswerIsLogged, NamedInLog, AnswersAreLogged
<1> QED BY <1>1, <1>2, <1>3, TypeCorrect, AloneHolds, PTL DEF Spec
=============================================================================
