--------------------------- MODULE DecisionLogProofs ---------------------------
(***************************************************************************)
(* That the decision log loses sight of no event without counting it,      *)
(* stores no event twice but for a failed write, and keeps the order of a  *)
(* log without failures: for every queue, batch and number of events.      *)
(***************************************************************************)
EXTENDS DecisionLog, FiniteSetTheorems, SequenceTheorems, TLAPS

-----------------------------------------------------------------------------
(***************************************************************************)
(* The invariant.                                                          *)
(***************************************************************************)

\* No event twice in a sequence.
Distinct(s) == \A i, j \in 1..Len(s) : s[i] = s[j] => i = j

\* The batch as long as its decisions are not inserted.
Unwritten == IF flusher = "messages" THEN <<>> ELSE batch

\* Only events that were emitted are anywhere.
OnlyEmitted == ToSet(queue) \cup ToSet(batch) \cup ToSet(rows) \subseteq 1..emitted

\* The flusher holds a batch only between its first event and its fate, and one whose
\* texts are due has its decisions stored.
BatchIsInPlace ==
    /\ flusher \in {"none", "backoff", "cancelled"} => batch = <<>>
    /\ flusher = "messages" => ToSet(batch) \subseteq ToSet(rows)

\* Memory holds an event once.
HeldOnce ==
    /\ Distinct(queue)
    /\ Distinct(batch)
    /\ ToSet(queue) \cap ToSet(batch) = {}

\* Where an event is in a sequence.
PlacesOf(s, e) == {i \in DOMAIN s : s[i] = e}

\* One more copy of an event is to come as long as memory holds it, unless the copy is
\* the row of a batch whose texts are due.
CopiesAreBounded ==
    \A e \in Events :
        Cardinality(PlacesOf(rows, e))
            + (IF e \in ToSet(queue) \cup ToSet(Unwritten) THEN 1 ELSE 0) <= 1 + rewrites

Increasing(s) == \A i, j \in 1..Len(s) : i < j => s[i] < s[j]
Before(s, t) == \A i \in 1..Len(s), j \in 1..Len(t) : s[i] < t[j]

\* Rows, unwritten batch and queue are one line.
InLine ==
    ~failed => /\ Increasing(rows) /\ Increasing(Unwritten) /\ Increasing(queue)
               /\ Before(rows, Unwritten) /\ Before(rows, queue) /\ Before(Unwritten, queue)

LogInv ==
    /\ TypeOK
    /\ OnlyEmitted
    /\ BatchIsInPlace
    /\ HeldOnce
    /\ CopiesAreBounded
    /\ InLine
    /\ EveryEventIsAccountedFor
    /\ RowsHaveTheirTexts
-----------------------------------------------------------------------------
(***************************************************************************)
(* Sequences of events.                                                    *)
(***************************************************************************)

\* What a sequence holds, by its places.
LEMMA SetBySeq ==
    ASSUME NEW s \in Seq(Events)
    PROVE  /\ Len(s) \in Nat
           /\ ToSet(s) = {s[i] : i \in 1..Len(s)}
           /\ \A e : PlacesOf(s, e) = {i \in 1..Len(s) : s[i] = e}
           /\ IsFiniteSet(ToSet(s))
           /\ ToSet(s) \subseteq Events
<1>1. Len(s) \in Nat /\ DOMAIN s = 1..Len(s) /\ s \in [1..Len(s) -> Events]
  BY LenProperties
<1>2. ToSet(s) = {s[i] : i \in 1..Len(s)}
  BY <1>1 DEF ToSet
<1>3. s \in Surjection(1..Len(s), ToSet(s))
  BY <1>1, <1>2 DEF Surjection
<1>4. IsFiniteSet(1..Len(s))
  BY <1>1, FS_Interval
<1>5. IsFiniteSet(ToSet(s))
  BY <1>3, <1>4, FS_Surjection
<1> QED BY <1>1, <1>2, <1>5 DEF PlacesOf

\* An empty sequence.
LEMMA EmptyIsTrivial ==
    /\ ToSet(<<>>) = {} /\ Distinct(<<>>) /\ Increasing(<<>>)
    /\ \A s : Before(<<>>, s) /\ Before(s, <<>>)
    /\ \A e : PlacesOf(<<>>, e) = {}
<1>1. Len(<<>>) = 0 /\ DOMAIN <<>> = {}
  OBVIOUS
<1>2. 1..0 = {}
  OBVIOUS
<1> QED BY <1>1, <1>2 DEF ToSet, Distinct, Increasing, Before, PlacesOf

\* A concatenation, by the places of its parts.
LEMMA ConcatPlaces ==
    ASSUME NEW s \in Seq(Events), NEW t \in Seq(Events)
    PROVE  /\ s \o t \in Seq(Events)
           /\ Len(s \o t) = Len(s) + Len(t)
           /\ \A i \in 1..Len(s) : (s \o t)[i] = s[i]
           /\ \A j \in 1..Len(t) : (s \o t)[Len(s) + j] = t[j]
           /\ \A k \in 1..Len(s \o t) :
                 k \in 1..Len(s) \/ \E j \in 1..Len(t) : k = Len(s) + j
<1>1. Len(s) \in Nat /\ Len(t) \in Nat
  BY LenProperties
<1>2. /\ s \o t \in Seq(Events)
      /\ Len(s \o t) = Len(s) + Len(t)
      /\ \A i \in 1 .. Len(s) + Len(t) : (s \o t)[i] = IF i <= Len(s) THEN s[i] ELSE t[i - Len(s)]
  BY ConcatProperties
<1>3. \A i \in 1..Len(s) : (s \o t)[i] = s[i]
  BY <1>1, <1>2
<1>4. ASSUME NEW j \in 1..Len(t) PROVE (s \o t)[Len(s) + j] = t[j]
  <2>1. Len(s) + j \in 1 .. Len(s) + Len(t) /\ ~(Len(s) + j <= Len(s)) /\ (Len(s) + j) - Len(s) = j
    BY <1>1
  <2> QED BY <2>1, <1>2
<1>5. ASSUME NEW k \in 1..Len(s \o t), k \notin 1..Len(s)
      PROVE  \E j \in 1..Len(t) : k = Len(s) + j
  <2>1. k - Len(s) \in 1..Len(t) /\ k = Len(s) + (k - Len(s))
    BY <1>1, <1>2, <1>5
  <2> QED BY <2>1
<1> QED BY <1>2, <1>3, <1>4, <1>5

\* A concatenation holds what its parts hold.
LEMMA SetOfConcat ==
    ASSUME NEW s \in Seq(Events), NEW t \in Seq(Events)
    PROVE  ToSet(s \o t) = ToSet(s) \cup ToSet(t)
<1>1. Len(s) \in Nat /\ Len(t) \in Nat /\ Len(s \o t) = Len(s) + Len(t)
  BY LenProperties, ConcatPlaces
<1>2. /\ ToSet(s) = {s[i] : i \in 1..Len(s)}
      /\ ToSet(t) = {t[i] : i \in 1..Len(t)}
      /\ ToSet(s \o t) = {(s \o t)[i] : i \in 1..Len(s \o t)}
  BY SetBySeq, ConcatPlaces
<1>3. \A i \in 1..Len(s) : i \in 1..Len(s \o t)
  BY <1>1
<1>4. \A j \in 1..Len(t) : Len(s) + j \in 1..Len(s \o t)
  BY <1>1
<1>5. ToSet(s) \subseteq ToSet(s \o t)
  BY <1>2, <1>3, ConcatPlaces
<1>6. ToSet(t) \subseteq ToSet(s \o t)
  BY <1>2, <1>4, ConcatPlaces
<1>7. ToSet(s \o t) \subseteq ToSet(s) \cup ToSet(t)
  <2>1. SUFFICES ASSUME NEW k \in 1..Len(s \o t) PROVE (s \o t)[k] \in ToSet(s) \cup ToSet(t)
    BY <1>2
  <2> QED BY <1>2, ConcatPlaces
<1> QED BY <1>5, <1>6, <1>7

\* A concatenation is increasing when its parts are, the one before the other.
LEMMA IncreasingConcat ==
    ASSUME NEW s \in Seq(Events), NEW t \in Seq(Events)
    PROVE  Increasing(s \o t) <=> Increasing(s) /\ Increasing(t) /\ Before(s, t)
<1>1. Len(s) \in Nat /\ Len(t) \in Nat /\ Len(s \o t) = Len(s) + Len(t)
  BY LenProperties, ConcatPlaces
<1>2. \A i \in 1..Len(s) : i \in 1..Len(s \o t) /\ (s \o t)[i] = s[i]
  BY <1>1, ConcatPlaces
<1>3. \A j \in 1..Len(t) : Len(s) + j \in 1..Len(s \o t) /\ (s \o t)[Len(s) + j] = t[j]
  BY <1>1, ConcatPlaces
<1>4. ASSUME Increasing(s \o t) PROVE Increasing(s)
  BY <1>2, <1>4 DEF Increasing
<1>5. ASSUME Increasing(s \o t) PROVE Increasing(t)
  <2>1. SUFFICES ASSUME NEW i \in 1..Len(t), NEW j \in 1..Len(t), i < j PROVE t[i] < t[j]
    BY DEF Increasing
  <2>2. Len(s) + i < Len(s) + j
    BY <1>1, <2>1
  <2> QED BY <1>3, <1>5, <2>2 DEF Increasing
<1>6. ASSUME Increasing(s \o t) PROVE Before(s, t)
  <2>1. SUFFICES ASSUME NEW i \in 1..Len(s), NEW j \in 1..Len(t) PROVE s[i] < t[j]
    BY DEF Before
  <2>2. i < Len(s) + j
    BY <1>1
  <2> QED BY <1>2, <1>3, <1>6, <2>2 DEF Increasing
<1>7. ASSUME Increasing(s), Increasing(t), Before(s, t) PROVE Increasing(s \o t)
  <2>1. SUFFICES ASSUME NEW i \in 1..Len(s \o t), NEW j \in 1..Len(s \o t), i < j
                 PROVE  (s \o t)[i] < (s \o t)[j]
    BY DEF Increasing
  <2>2. CASE i \in 1..Len(s) /\ j \in 1..Len(s)
    BY <1>2, <1>7, <2>1, <2>2 DEF Increasing
  <2>3. CASE i \in 1..Len(s) /\ j \notin 1..Len(s)
    <3>1. PICK b \in 1..Len(t) : j = Len(s) + b
      BY <2>3, ConcatPlaces
    <3> QED BY <1>2, <1>3, <1>7, <2>3, <3>1 DEF Before
  <2>4. CASE i \notin 1..Len(s)
    <3>1. PICK a \in 1..Len(t) : i = Len(s) + a
      BY <2>4, ConcatPlaces
    <3>2. j \notin 1..Len(s)
      BY <1>1, <2>1, <3>1
    <3>3. PICK b \in 1..Len(t) : j = Len(s) + b
      BY <3>2, ConcatPlaces
    <3>4. a < b
      BY <1>1, <2>1, <3>1, <3>3
    <3> QED BY <1>3, <1>7, <3>1, <3>3, <3>4 DEF Increasing
  <2> QED BY <2>2, <2>3, <2>4
<1> QED BY <1>4, <1>5, <1>6, <1>7

\* A concatenation has no event twice when its parts have none twice and none in common.
LEMMA DistinctConcat ==
    ASSUME NEW s \in Seq(Events), NEW t \in Seq(Events)
    PROVE  Distinct(s \o t) <=> Distinct(s) /\ Distinct(t) /\ ToSet(s) \cap ToSet(t) = {}
<1>1. Len(s) \in Nat /\ Len(t) \in Nat /\ Len(s \o t) = Len(s) + Len(t)
  BY LenProperties, ConcatPlaces
<1>2. \A i \in 1..Len(s) : i \in 1..Len(s \o t) /\ (s \o t)[i] = s[i]
  BY <1>1, ConcatPlaces
<1>3. \A j \in 1..Len(t) : Len(s) + j \in 1..Len(s \o t) /\ (s \o t)[Len(s) + j] = t[j]
  BY <1>1, ConcatPlaces
<1>4. /\ ToSet(s) = {s[i] : i \in 1..Len(s)}
      /\ ToSet(t) = {t[i] : i \in 1..Len(t)}
  BY SetBySeq
<1>5. ASSUME Distinct(s \o t) PROVE Distinct(s)
  BY <1>2, <1>5 DEF Distinct
<1>6. ASSUME Distinct(s \o t) PROVE Distinct(t)
  <2>1. SUFFICES ASSUME NEW i \in 1..Len(t), NEW j \in 1..Len(t), t[i] = t[j] PROVE i = j
    BY DEF Distinct
  <2>2. Len(s) + i = Len(s) + j
    BY <1>3, <1>6, <2>1 DEF Distinct
  <2> QED BY <1>1, <2>2
<1>7. ASSUME Distinct(s \o t) PROVE ToSet(s) \cap ToSet(t) = {}
  <2>1. SUFFICES ASSUME NEW i \in 1..Len(s), NEW j \in 1..Len(t), s[i] = t[j] PROVE FALSE
    BY <1>4
  <2>2. i = Len(s) + j
    BY <1>2, <1>3, <1>7, <2>1 DEF Distinct
  <2> QED BY <1>1, <2>2
<1>8. ASSUME Distinct(s), Distinct(t), ToSet(s) \cap ToSet(t) = {} PROVE Distinct(s \o t)
  <2>1. SUFFICES ASSUME NEW i \in 1..Len(s \o t), NEW j \in 1..Len(s \o t),
                        (s \o t)[i] = (s \o t)[j]
                 PROVE  i = j
    BY DEF Distinct
  <2>2. \A a \in 1..Len(s), b \in 1..Len(t) : s[a] # t[b]
    BY <1>4, <1>8
  <2>3. CASE i \in 1..Len(s) /\ j \in 1..Len(s)
    BY <1>2, <1>8, <2>1, <2>3 DEF Distinct
  <2>4. CASE i \in 1..Len(s) /\ j \notin 1..Len(s)
    <3>1. PICK b \in 1..Len(t) : j = Len(s) + b
      BY <2>4, ConcatPlaces
    <3> QED BY <1>2, <1>3, <2>1, <2>2, <2>4, <3>1
  <2>5. CASE i \notin 1..Len(s) /\ j \in 1..Len(s)
    <3>1. PICK a \in 1..Len(t) : i = Len(s) + a
      BY <2>5, ConcatPlaces
    <3>2. s[j] = t[a]
      BY <1>2, <1>3, <2>1, <2>5, <3>1
    <3> QED BY <2>2, <2>5, <3>2
  <2>6. CASE i \notin 1..Len(s) /\ j \notin 1..Len(s)
    <3>1. PICK a \in 1..Len(t) : i = Len(s) + a
      BY <2>6, ConcatPlaces
    <3>2. PICK b \in 1..Len(t) : j = Len(s) + b
      BY <2>6, ConcatPlaces
    <3>3. t[a] = t[b]
      BY <1>3, <2>1, <3>1, <3>2
    <3> QED BY <1>8, <3>1, <3>2, <3>3 DEF Distinct
  <2> QED BY <2>3, <2>4, <2>5, <2>6
<1> QED BY <1>5, <1>6, <1>7, <1>8

\* As many events as places.
LEMMA CountDistinct ==
    ASSUME NEW s \in Seq(Events), Distinct(s)
    PROVE  IsFiniteSet(ToSet(s)) /\ Cardinality(ToSet(s)) = Len(s)
<1>1. Len(s) \in Nat /\ s \in [1..Len(s) -> Events] /\ ToSet(s) = {s[i] : i \in 1..Len(s)}
  BY LenProperties, SetBySeq
<1>2. s \in Surjection(1..Len(s), ToSet(s)) /\ s \in Injection(1..Len(s), ToSet(s))
  BY <1>1 DEF Surjection, Injection, IsInjective, Distinct
<1>3. IsFiniteSet(1..Len(s)) /\ Cardinality(1..Len(s)) = Len(s)
  BY <1>1, FS_Interval
<1> QED BY <1>2, <1>3, FS_Surjection

\* A sequence has a number of copies of an event.
LEMMA CopiesAreFinite ==
    ASSUME NEW s \in Seq(Events), NEW e
    PROVE  IsFiniteSet(PlacesOf(s, e)) /\ Cardinality(PlacesOf(s, e)) \in Nat
<1>1. Len(s) \in Nat /\ PlacesOf(s, e) \subseteq 1..Len(s)
  BY SetBySeq
<1>2. IsFiniteSet(1..Len(s))
  BY <1>1, FS_Interval
<1>3. IsFiniteSet(PlacesOf(s, e))
  BY <1>1, <1>2, FS_Subset
<1> QED BY <1>3, FS_CardinalityType

\* What has no event twice adds at most one copy.
LEMMA CopiesOfConcat ==
    ASSUME NEW s \in Seq(Events), NEW t \in Seq(Events), Distinct(t), NEW e
    PROVE  Cardinality(PlacesOf(s \o t, e))
              <= Cardinality(PlacesOf(s, e)) + (IF e \in ToSet(t) THEN 1 ELSE 0)
<1>1. Len(s) \in Nat /\ Len(t) \in Nat /\ Len(s \o t) = Len(s) + Len(t) /\ s \o t \in Seq(Events)
  BY LenProperties, ConcatPlaces
<1>2. /\ PlacesOf(s, e) = {i \in 1..Len(s) : s[i] = e}
      /\ PlacesOf(s \o t, e) = {i \in 1..Len(s \o t) : (s \o t)[i] = e}
      /\ ToSet(t) = {t[i] : i \in 1..Len(t)}
  <2>1. DOMAIN s = 1..Len(s) /\ DOMAIN t = 1..Len(t) /\ DOMAIN (s \o t) = 1..Len(s \o t)
    BY <1>1, LenProperties
  <2> QED BY <2>1 DEF PlacesOf, ToSet
<1>3. Cardinality(PlacesOf(s, e)) \in Nat /\ IsFiniteSet(PlacesOf(s, e))
  BY CopiesAreFinite
<1>4. ASSUME NEW k \in PlacesOf(s \o t, e), k \notin PlacesOf(s, e)
      PROVE  \E j \in 1..Len(t) : k = Len(s) + j /\ t[j] = e
  <2>1. k \notin 1..Len(s)
    BY <1>2, <1>4, ConcatPlaces
  <2>2. PICK j \in 1..Len(t) : k = Len(s) + j
    BY <1>2, <2>1, ConcatPlaces
  <2>3. t[j] = e
    BY <1>2, <2>2, ConcatPlaces
  <2> QED BY <2>2, <2>3
<1>5. CASE e \notin ToSet(t)
  <2>1. PlacesOf(s \o t, e) \subseteq PlacesOf(s, e)
    BY <1>2, <1>4, <1>5
  <2> QED BY <1>3, <1>5, <2>1, FS_Subset
<1>6. CASE e \in ToSet(t)
  <2>1. PICK j \in 1..Len(t) : t[j] = e
    BY <1>2, <1>6
  <2>2. PlacesOf(s \o t, e) \subseteq PlacesOf(s, e) \cup {Len(s) + j}
    BY <1>4, <2>1 DEF Distinct
  <2>3. /\ IsFiniteSet(PlacesOf(s, e) \cup {Len(s) + j})
        /\ Cardinality(PlacesOf(s, e) \cup {Len(s) + j}) <= Cardinality(PlacesOf(s, e)) + 1
    <3>1. /\ IsFiniteSet(PlacesOf(s, e) \cup {Len(s) + j})
          /\ Cardinality(PlacesOf(s, e) \cup {Len(s) + j}) =
                IF Len(s) + j \in PlacesOf(s, e) THEN Cardinality(PlacesOf(s, e))
                ELSE Cardinality(PlacesOf(s, e)) + 1
      BY <1>3, FS_AddElement
    <3>2. Cardinality(PlacesOf(s, e)) <= Cardinality(PlacesOf(s, e)) + 1
      BY <1>3
    <3> QED BY <1>3, <3>1, <3>2
  <2>4. /\ Cardinality(PlacesOf(s \o t, e)) <= Cardinality(PlacesOf(s, e) \cup {Len(s) + j})
        /\ Cardinality(PlacesOf(s, e) \cup {Len(s) + j}) \in Nat
    <3> HIDE DEF PlacesOf
    <3>1. PlacesOf(s \o t, e) \in SUBSET (PlacesOf(s, e) \cup {Len(s) + j})
      BY <2>2
    <3>2. Cardinality(PlacesOf(s \o t, e)) <= Cardinality(PlacesOf(s, e) \cup {Len(s) + j})
      BY <2>3, <3>1, FS_Subset
    <3> QED BY <2>3, <3>2, FS_CardinalityType
  <2>5. Cardinality(PlacesOf(s \o t, e)) \in Nat
    BY <1>1, CopiesAreFinite
  <2> QED BY <1>3, <1>6, <2>3, <2>4, <2>5
<1> QED BY <1>5, <1>6

\* The first event of a sequence and the rest of it.
LEMMA HeadAndTail ==
    ASSUME NEW s \in Seq(Events), s # <<>>
    PROVE  /\ Head(s) \in Events /\ <<Head(s)>> \in Seq(Events) /\ Tail(s) \in Seq(Events)
           /\ s = <<Head(s)>> \o Tail(s) /\ Len(Tail(s)) = Len(s) - 1
<1>1. /\ Head(s) \in Events /\ Tail(s) \in Seq(Events) /\ Len(s) \in Nat \ {0}
      /\ Len(Tail(s)) = Len(s) - 1
      /\ \A i \in 1..Len(Tail(s)) : Tail(s)[i] = s[i + 1]
  BY HeadTailProperties, EmptySeq
<1>2. <<Head(s)>> \in Seq(Events) /\ Len(<<Head(s)>>) = 1 /\ <<Head(s)>>[1] = s[1]
  BY <1>1
<1>3. \A i \in 1..Len(s) : (<<Head(s)>> \o Tail(s))[i] = s[i]
  <2>1. TAKE i \in 1..Len(s)
  <2>2. (<<Head(s)>> \o Tail(s))[i] = IF i <= 1 THEN <<Head(s)>>[i] ELSE Tail(s)[i - 1]
    BY <1>1, <1>2, ConcatProperties
  <2> QED BY <1>1, <1>2, <2>2
<1>4. Len(<<Head(s)>> \o Tail(s)) = Len(s) /\ <<Head(s)>> \o Tail(s) \in Seq(Events)
  BY <1>1, <1>2, ConcatProperties
<1> QED BY <1>1, <1>2, <1>3, <1>4, SeqEqual

\* One event in a sequence of its own.
LEMMA OneEvent ==
    ASSUME NEW e \in Events
    PROVE  /\ <<e>> \in Seq(Events) /\ Len(<<e>>) = 1 /\ ToSet(<<e>>) = {e}
           /\ Distinct(<<e>>) /\ Increasing(<<e>>)
<1>1. <<e>> \in Seq(Events) /\ Len(<<e>>) = 1 /\ <<e>>[1] = e /\ 1..1 = {1}
  OBVIOUS
<1>2. ToSet(<<e>>) = {<<e>>[i] : i \in 1..Len(<<e>>)}
  BY <1>1, SetBySeq
<1> QED BY <1>1, <1>2 DEF Distinct, Increasing

-----------------------------------------------------------------------------
(***************************************************************************)
(* The steps of the log.                                                   *)
(***************************************************************************)

\* What is enqueued is cut in two: what the queue has room for, and what is counted.
LEMMA EnqueueCuts ==
    ASSUME TypeOK, NEW events \in Seq(Events), Enqueue(events)
    PROVE  \E kept, gone \in Seq(Events) :
              /\ events = kept \o gone
              /\ queue' = queue \o kept
              /\ dropped' = dropped + Len(gone)
              /\ Len(queue) + Len(kept) <= QueueMax
<1> DEFINE n == Fitting(Len(events))
<1> DEFINE kept == SubSeq(events, 1, n)
<1> DEFINE gone == SubSeq(events, n + 1, Len(events))
<1>1. Len(events) \in Nat /\ Len(queue) \in Nat /\ Len(queue) <= QueueMax /\ QueueMax \in Nat
  BY LenProperties, LogAssumption DEF TypeOK
<1>2. n \in 0..Len(events) /\ Len(queue) + n <= QueueMax
  BY <1>1 DEF Fitting
<1> HIDE DEF n
<1>3. \A i \in 1..Len(events) : events[i] \in Events
  BY ElementOfSeq
<1>4. kept \in Seq(Events) /\ Len(kept) = n
  BY <1>1, <1>2, <1>3, SubSeqProperties
<1>5. gone \in Seq(Events) /\ Len(gone) = Len(events) - n
  BY <1>1, <1>2, <1>3, SubSeqProperties
<1>6. kept \o gone = events
  <2>1. 1 \in 1..Len(events) + 1 /\ n \in 1 - 1..Len(events) /\ Len(events) \in n..Len(events)
    BY <1>1, <1>2
  <2>2. kept \o gone = SubSeq(events, 1, Len(events))
    BY <2>1, ConcatAdjacentSubSeq
  <2> QED BY <2>2, SubSeqFull
<1>7. queue' = queue \o kept /\ dropped' = dropped + (Len(events) - n)
  BY <1>1, <1>2 DEF Enqueue, n, TypeOK
<1> QED BY <1>2, <1>4, <1>5, <1>6, <1>7

\* The same with what the cut leaves of the invariant: the requeued batch.
LEMMA RequeueCuts ==
    ASSUME TypeOK, HeldOnce, Requeue
    PROVE  \E kept, gone \in Seq(Events) :
              /\ batch = kept \o gone
              /\ queue' = queue \o kept
              /\ dropped' = dropped + Len(gone)
              /\ Len(queue) + Len(kept) <= QueueMax
              /\ ToSet(batch) = ToSet(kept) \cup ToSet(gone)
              /\ ToSet(queue') = ToSet(queue) \cup ToSet(kept)
              /\ Distinct(kept) /\ Distinct(gone) /\ ToSet(kept) \cap ToSet(gone) = {}
              /\ IsFiniteSet(ToSet(gone)) /\ Cardinality(ToSet(gone)) = Len(gone)
              /\ batch' = <<>> /\ ToSet(batch') = {}
<1>1. batch \in Seq(Events) /\ queue \in Seq(Events) /\ Enqueue(batch) /\ batch' = <<>>
  BY DEF TypeOK, Requeue
<1>2. PICK kept, gone \in Seq(Events) :
              /\ batch = kept \o gone
              /\ queue' = queue \o kept
              /\ dropped' = dropped + Len(gone)
              /\ Len(queue) + Len(kept) <= QueueMax
  BY <1>1, EnqueueCuts
<1>3. ToSet(batch) = ToSet(kept) \cup ToSet(gone) /\ ToSet(queue') = ToSet(queue) \cup ToSet(kept)
  BY <1>1, <1>2, SetOfConcat
<1>4. Distinct(kept) /\ Distinct(gone) /\ ToSet(kept) \cap ToSet(gone) = {}
  BY <1>1, <1>2, DistinctConcat DEF HeldOnce
<1>5. IsFiniteSet(ToSet(gone)) /\ Cardinality(ToSet(gone)) = Len(gone)
  BY <1>4, CountDistinct
<1> QED BY <1>1, <1>2, <1>3, <1>4, <1>5, EmptyIsTrivial

\* A new event goes behind the queue or is counted.
LEMMA EmitCuts ==
    ASSUME TypeOK, Emit
    PROVE  /\ emitted + 1 \in Events
           /\ \/ /\ queue' = queue \o <<emitted + 1>> /\ dropped' = dropped
                 /\ ToSet(queue') = ToSet(queue) \cup {emitted + 1}
                 /\ Len(queue) + 1 <= QueueMax
              \/ queue' = queue /\ dropped' = dropped + 1
<1>1. emitted + 1 \in Events /\ emitted \in Nat
  BY LogAssumption DEF TypeOK, Emit, Events
<1>2. /\ <<emitted + 1>> \in Seq(Events) /\ queue \in Seq(Events) /\ Enqueue(<<emitted + 1>>)
      /\ Len(<<emitted + 1>>) = 1 /\ ToSet(<<emitted + 1>>) = {emitted + 1}
  BY <1>1, OneEvent DEF Emit, TypeOK
<1>3. PICK kept, gone \in Seq(Events) :
              /\ <<emitted + 1>> = kept \o gone
              /\ queue' = queue \o kept
              /\ dropped' = dropped + Len(gone)
              /\ Len(queue) + Len(kept) <= QueueMax
  BY <1>2, EnqueueCuts
<1>4. Len(kept) \in Nat /\ Len(gone) \in Nat /\ Len(kept) + Len(gone) = 1
  BY <1>2, <1>3, ConcatProperties, LenProperties
<1>5. CASE Len(gone) = 0
  <2>1. gone = <<>>
    BY <1>5, EmptySeq
  <2>2. kept = <<emitted + 1>>
    BY <1>3, <2>1, ConcatEmptySeq
  <2>3. dropped' = dropped
    BY <1>3, <1>5 DEF TypeOK
  <2>4. ToSet(queue \o <<emitted + 1>>) = ToSet(queue) \cup {emitted + 1}
    BY <1>2, SetOfConcat
  <2> QED BY <1>1, <1>2, <1>3, <2>2, <2>3, <2>4
<1>6. CASE Len(gone) = 1
  <2>1. kept = <<>>
    BY <1>4, <1>6, EmptySeq
  <2>2. queue' = queue
    BY <1>2, <1>3, <2>1, ConcatEmptySeq
  <2> QED BY <1>1, <1>3, <1>6, <2>2
<1> QED BY <1>4, <1>5, <1>6

\* One event goes from the queue into the batch.
LEMMA CollectMoves ==
    ASSUME TypeOK, Collect
    PROVE  \E e \in Events, rest \in Seq(Events) :
              /\ queue = <<e>> \o rest /\ queue' = rest /\ batch' = batch \o <<e>>
              /\ Len(rest) = Len(queue) - 1
              /\ ToSet(queue) = {e} \cup ToSet(queue')
              /\ ToSet(batch') = ToSet(batch) \cup {e}
<1>1. queue \in Seq(Events) /\ batch \in Seq(Events) /\ queue # <<>>
  BY DEF TypeOK, Collect
<1>2. /\ Head(queue) \in Events /\ <<Head(queue)>> \in Seq(Events) /\ Tail(queue) \in Seq(Events)
      /\ queue = <<Head(queue)>> \o Tail(queue) /\ Len(Tail(queue)) = Len(queue) - 1
  BY <1>1, HeadAndTail
<1>3. queue' = Tail(queue) /\ batch' = batch \o <<Head(queue)>>
  BY <1>1, <1>2, AppendIsConcat DEF Collect
<1>4. ToSet(<<Head(queue)>>) = {Head(queue)}
  BY <1>2, OneEvent
<1>5. ToSet(queue) = {Head(queue)} \cup ToSet(Tail(queue))
  BY <1>2, <1>4, SetOfConcat
<1>6. ToSet(batch \o <<Head(queue)>>) = ToSet(batch) \cup {Head(queue)}
  BY <1>1, <1>2, <1>4, SetOfConcat
<1> QED BY <1>2, <1>3, <1>5, <1>6

\* A step keeps the types.
LEMMA TypeStep ==
    ASSUME TypeOK, [Next]_vars
    PROVE  TypeOK'
<1>1. /\ queue \in Seq(Events) /\ batch \in Seq(Events) /\ rows \in Seq(Events)
      /\ Len(queue) \in Nat /\ Len(batch) \in Nat /\ dropped \in Nat /\ <<>> \in Seq(Events)
      /\ Len(<<>>) = 0 /\ BatchMax \in Nat \ {0} /\ QueueMax \in Nat \ {0}
      /\ MaxEvents \in Nat /\ MaxRewrites \in Nat
  BY LenProperties, EmptySeq, LogAssumption DEF TypeOK
<1>2. CASE Emit
  <2>1. UNCHANGED <<batch, rows, messages, up, failed, rewrites>>
    BY <1>2 DEF Emit
  <2>2. emitted' \in 0..MaxEvents /\ flusher' \in {flusher, "collect"}
    BY <1>1, <1>2 DEF Emit, TypeOK
  <2>3. CASE queue' = queue \o <<emitted + 1>> /\ dropped' = dropped /\ Len(queue) + 1 <= QueueMax
    <3>1. <<emitted + 1>> \in Seq(Events) /\ Len(<<emitted + 1>>) = 1
      BY <1>2, EmitCuts, OneEvent
    <3>2. queue \o <<emitted + 1>> \in Seq(Events) /\ Len(queue \o <<emitted + 1>>) = Len(queue) + 1
      BY <1>1, <3>1, ConcatPlaces
    <3>3. queue' \in Seq(Events) /\ Len(queue') <= QueueMax /\ dropped' \in Nat
      BY <1>1, <2>3, <3>2
    <3> QED BY <2>1, <2>2, <3>3 DEF TypeOK
  <2>4. CASE queue' = queue /\ dropped' = dropped + 1
    BY <1>1, <2>1, <2>2, <2>4 DEF TypeOK
  <2> QED BY <1>2, <2>3, <2>4, EmitCuts
<1>3. CASE Collect
  <2>1. PICK e \in Events, rest \in Seq(Events) :
              /\ queue' = rest /\ batch' = batch \o <<e>> /\ Len(rest) = Len(queue) - 1
    BY <1>3, CollectMoves
  <2>2. batch \o <<e>> \in Seq(Events) /\ Len(batch \o <<e>>) = Len(batch) + 1
    BY <1>1, OneEvent, ConcatPlaces
  <2>3. Len(batch) < BatchMax
    BY <1>3 DEF Collect
  <2> QED BY <1>1, <1>3, <2>1, <2>2, <2>3 DEF Collect, TypeOK
<1>4. CASE Requeue /\ UNCHANGED up /\ UNCHANGED emitted
           /\ rows' \in {rows, rows \o batch}
           /\ messages' \in {messages, messages \cup TextsOf(batch)}
           /\ rewrites' \in {rewrites, rewrites + 1} /\ (rewrites' = rewrites \/ rewrites < MaxRewrites)
  <2>1. PICK kept, gone \in Seq(Events) :
              /\ queue' = queue \o kept
              /\ dropped' = dropped + Len(gone)
              /\ Len(queue) + Len(kept) <= QueueMax
    BY <1>1, <1>4, EnqueueCuts DEF Requeue
  <2>2. queue \o kept \in Seq(Events) /\ Len(queue \o kept) = Len(queue) + Len(kept) /\ Len(gone) \in Nat
    BY <1>1, ConcatPlaces, LenProperties
  <2>3. queue' \in Seq(Events) /\ Len(queue') <= QueueMax /\ dropped' \in Nat
    BY <1>1, <2>1, <2>2
  <2>4. rows \o batch \in Seq(Events)
    BY <1>1, ConcatPlaces
  <2>5. rows' \in Seq(Events)
    BY <1>1, <1>4, <2>4
  <2>6. messages' \subseteq Texts
    BY <1>4 DEF TypeOK, TextsOf
  <2>7. batch' = <<>> /\ flusher' = "backoff" /\ failed' = TRUE
    BY <1>4 DEF Requeue
  <2>8. rewrites' \in 0..MaxRewrites
    BY <1>1, <1>4 DEF TypeOK
  <2> QED BY <1>1, <1>4, <2>3, <2>5, <2>6, <2>7, <2>8 DEF TypeOK
<1>5. CASE InsertDecisions
  <2>1. rows \o batch \in Seq(Events)
    BY <1>1, ConcatPlaces
  <2>2. rows' = rows \o batch
    BY <1>5 DEF InsertDecisions
  <2>3. UNCHANGED <<queue, dropped, messages, up, emitted, failed, rewrites>>
    BY <1>5 DEF InsertDecisions, Written
  <2>4. flusher' \in {"collect", "messages"} /\ batch' \in {<<>>, batch}
    BY <1>5 DEF InsertDecisions, Written
  <2>5. batch' \in Seq(Events) /\ Len(batch') <= BatchMax
    <3>1. CASE batch' = batch
      BY <3>1 DEF TypeOK
    <3>2. CASE batch' = <<>>
      BY <1>1, <3>2
    <3> QED BY <2>4, <3>1, <3>2
  <2>6. rows' \in Seq(Events)
    BY <2>1, <2>2
  <2>7. /\ queue' \in Seq(Events) /\ Len(queue') <= QueueMax /\ dropped' \in Nat
        /\ messages' \subseteq Texts /\ emitted' \in 0..MaxEvents /\ rewrites' \in 0..MaxRewrites
    BY <2>3 DEF TypeOK
  <2>8. up' \in BOOLEAN /\ failed' \in BOOLEAN
    BY <2>3 DEF TypeOK
  <2>9. flusher' \in {"none", "collect", "write", "messages", "backoff", "cancelled"}
    BY <2>4
  <2> QED BY <2>5, <2>6, <2>7, <2>8, <2>9 DEF TypeOK
<1>6. CASE InsertMessages
  BY <1>1, <1>6 DEF InsertMessages, Written, TypeOK, TextsOf
<1>7. CASE CloseBatch \/ BackOff \/ Close \/ Toggle \/ UNCHANGED vars
  <2>1. /\ UNCHANGED <<queue, dropped, rows, messages, emitted, failed, rewrites>>
        /\ batch' \in {batch, <<>>}
        /\ flusher' \in {flusher, "write", "collect", "cancelled"}
    BY <1>7 DEF CloseBatch, BackOff, Close, Toggle, vars
  <2>2. up' \in BOOLEAN
    BY <1>7 DEF CloseBatch, BackOff, Close, Toggle, vars, TypeOK
  <2>3. batch' \in Seq(Events) /\ Len(batch') <= BatchMax
    <3>1. CASE batch' = batch
      BY <3>1 DEF TypeOK
    <3>2. CASE batch' = <<>>
      BY <1>1, <3>2
    <3> QED BY <2>1, <3>1, <3>2
  <2>4. /\ queue' \in Seq(Events) /\ Len(queue') <= QueueMax /\ dropped' \in Nat
        /\ rows' \in Seq(Events)
        /\ messages' \subseteq Texts /\ emitted' \in 0..MaxEvents /\ rewrites' \in 0..MaxRewrites
    BY <2>1 DEF TypeOK
  <2>5. failed' \in BOOLEAN
    BY <2>1 DEF TypeOK
  <2>6. flusher' \in {"none", "collect", "write", "messages", "backoff", "cancelled"}
    BY <2>1 DEF TypeOK
  <2> QED BY <2>2, <2>3, <2>4, <2>5, <2>6 DEF TypeOK
<1>8. CASE WriteFails \/ ReplyLost \/ MessagesFail
  BY <1>4, <1>8 DEF WriteFails, ReplyLost, MessagesFail
<1> QED BY <1>2, <1>3, <1>5, <1>6, <1>7, <1>8 DEF Next, FlusherStep

\* Before, by what the sequences hold.
LEMMA BeforeBySets ==
    ASSUME NEW s \in Seq(Events), NEW t \in Seq(Events)
    PROVE  Before(s, t) <=> \A x \in ToSet(s), y \in ToSet(t) : x < y
<1>1. ToSet(s) = {s[i] : i \in 1..Len(s)} /\ ToSet(t) = {t[i] : i \in 1..Len(t)}
  BY SetBySeq
<1> QED BY <1>1 DEF Before

\* The sequences of the log.
LEMMA LogSequences ==
    ASSUME TypeOK
    PROVE  /\ queue \in Seq(Events) /\ batch \in Seq(Events) /\ rows \in Seq(Events)
           /\ Unwritten \in Seq(Events) /\ <<>> \in Seq(Events)
           /\ ToSet(Unwritten) \subseteq ToSet(batch)
           /\ flusher = "messages" => Unwritten = <<>> /\ ToSet(Unwritten) = {}
           /\ flusher # "messages" => Unwritten = batch
           /\ ToSet(<<>>) = {}
<1>1. /\ queue \in Seq(Events) /\ batch \in Seq(Events) /\ rows \in Seq(Events)
      /\ <<>> \in Seq(Events) /\ ToSet(<<>>) = {}
  BY EmptySeq, EmptyIsTrivial DEF TypeOK
<1>2. CASE flusher = "messages"
  BY <1>1, <1>2 DEF Unwritten
<1>3. CASE flusher # "messages"
  BY <1>1, <1>3 DEF Unwritten
<1> QED BY <1>1, <1>2, <1>3

\* What requeueing does with memory, whatever became of the rows.
LEMMA RequeueSteps ==
    ASSUME WriteFails \/ ReplyLost \/ MessagesFail
    PROVE  /\ Requeue /\ flusher \in {"write", "messages"} /\ flusher' = "backoff"
           /\ failed' = TRUE /\ batch' = <<>> /\ emitted' = emitted
           /\ \/ rows' = rows /\ rewrites' = rewrites /\ flusher = "write"
              \/ rows' = rows \o batch /\ rewrites' = rewrites + 1 /\ flusher = "write"
              \/ rows' = rows /\ rewrites' = rewrites + 1
           /\ \/ messages' = messages
              \/ messages' = messages \cup TextsOf(batch) /\ flusher = "messages"
BY DEF WriteFails, ReplyLost, MessagesFail, Requeue

\* The steps that only move the flusher, or the database.
LEMMA QuietSteps ==
    ASSUME CloseBatch \/ BackOff \/ Toggle \/ UNCHANGED vars
    PROVE  /\ UNCHANGED <<queue, batch, dropped, rows, messages, emitted, failed, rewrites>>
           /\ flusher' = "messages" <=> flusher = "messages"
           /\ flusher' = "cancelled" <=> flusher = "cancelled"
           /\ flusher' \in {"none", "backoff", "cancelled"} => flusher' = flusher
           /\ Unwritten' = Unwritten
BY DEF CloseBatch, BackOff, Toggle, vars, Unwritten

\* Each event stays in its place.
LEMMA PlacementStep ==
    ASSUME TypeOK, OnlyEmitted, BatchIsInPlace, HeldOnce, [Next]_vars
    PROVE  OnlyEmitted' /\ BatchIsInPlace' /\ HeldOnce'
<1>1. /\ queue \in Seq(Events) /\ batch \in Seq(Events) /\ rows \in Seq(Events)
      /\ <<>> \in Seq(Events) /\ ToSet(<<>>) = {} /\ Distinct(<<>>)
      /\ emitted \in Nat
  BY EmptySeq, EmptyIsTrivial, LogAssumption DEF TypeOK
<1>2. CASE Emit
  <2>1. UNCHANGED <<batch, rows>> /\ emitted' = emitted + 1
    BY <1>2 DEF Emit
  <2>2. flusher' = flusher \/ (flusher = "none" /\ flusher' = "collect")
    BY <1>2 DEF Emit
  <2>3. BatchIsInPlace'
    BY <2>1, <2>2 DEF BatchIsInPlace
  <2>4. CASE queue' = queue
    BY <1>1, <2>1, <2>3, <2>4 DEF OnlyEmitted, HeldOnce
  <2>5. CASE queue' = queue \o <<emitted + 1>> /\ ToSet(queue') = ToSet(queue) \cup {emitted + 1}
    <3>1. OnlyEmitted'
      BY <1>1, <2>1, <2>5 DEF OnlyEmitted
    <3>2. /\ <<emitted + 1>> \in Seq(Events) /\ Distinct(<<emitted + 1>>)
          /\ ToSet(<<emitted + 1>>) = {emitted + 1}
      BY <1>2, EmitCuts, OneEvent
    <3>3. emitted + 1 \notin ToSet(queue) \cup ToSet(batch)
      BY <1>1 DEF OnlyEmitted
    <3>4. Distinct(queue) /\ ToSet(queue) \cap ToSet(<<emitted + 1>>) = {}
      BY <3>2, <3>3 DEF HeldOnce
    <3>5. Distinct(queue \o <<emitted + 1>>)
      BY <1>1, <3>2, <3>4, DistinctConcat
    <3> QED BY <2>1, <2>3, <2>5, <3>1, <3>3, <3>5 DEF HeldOnce
  <2> QED BY <1>2, <2>4, <2>5, EmitCuts
<1>3. CASE Collect
  <2>1. PICK e \in Events, rest \in Seq(Events) :
              /\ queue = <<e>> \o rest /\ queue' = rest /\ batch' = batch \o <<e>>
              /\ ToSet(queue) = {e} \cup ToSet(queue')
              /\ ToSet(batch') = ToSet(batch) \cup {e}
    BY <1>3, CollectMoves
  <2>2. UNCHANGED <<rows, emitted>> /\ flusher = "collect" /\ flusher' = "collect"
    BY <1>3 DEF Collect
  <2>3. OnlyEmitted' /\ BatchIsInPlace'
    BY <2>1, <2>2 DEF OnlyEmitted, BatchIsInPlace
  <2>4. <<e>> \in Seq(Events) /\ ToSet(<<e>>) = {e} /\ Distinct(<<e>>)
    BY OneEvent
  <2>5. Distinct(<<e>> \o rest) /\ Distinct(batch) /\ ToSet(queue) \cap ToSet(batch) = {}
    BY <2>1 DEF HeldOnce
  <2>6. Distinct(rest) /\ e \notin ToSet(rest)
    BY <2>4, <2>5, DistinctConcat
  <2>7. ToSet(batch) \cap ToSet(<<e>>) = {}
    BY <2>1, <2>4, <2>5
  <2>8. Distinct(batch \o <<e>>)
    BY <1>1, <2>4, <2>5, <2>7, DistinctConcat
  <2> QED BY <2>1, <2>3, <2>5, <2>6, <2>8 DEF HeldOnce
<1>4. CASE WriteFails \/ ReplyLost \/ MessagesFail
  <2>1. PICK kept, gone \in Seq(Events) :
              /\ queue' = queue \o kept
              /\ ToSet(batch) = ToSet(kept) \cup ToSet(gone)
              /\ ToSet(queue') = ToSet(queue) \cup ToSet(kept)
              /\ Distinct(kept)
              /\ batch' = <<>> /\ ToSet(batch') = {}
    BY <1>4, RequeueCuts, RequeueSteps
  <2>2. flusher' = "backoff" /\ emitted' = emitted /\ rows' \in {rows, rows \o batch}
    BY <1>4, RequeueSteps
  <2>3. ToSet(rows \o batch) = ToSet(rows) \cup ToSet(batch)
    BY <1>1, SetOfConcat
  <2>4. OnlyEmitted' /\ BatchIsInPlace'
    BY <2>1, <2>2, <2>3 DEF OnlyEmitted, BatchIsInPlace
  <2>5. Distinct(queue \o kept)
    <3>1. Distinct(queue) /\ ToSet(queue) \cap ToSet(kept) = {}
      BY <2>1 DEF HeldOnce
    <3> QED BY <1>1, <2>1, <3>1, DistinctConcat
  <2>6. Distinct(batch')
    BY <1>1, <2>1
  <2> QED BY <2>1, <2>4, <2>5, <2>6 DEF HeldOnce
<1>5. CASE InsertDecisions
  <2>1. /\ UNCHANGED <<queue, emitted>> /\ rows' = rows \o batch
        /\ \/ flusher' = "collect" /\ batch' = <<>>
           \/ flusher' = "messages" /\ batch' = batch
    BY <1>5 DEF InsertDecisions, Written
  <2>2. ToSet(rows') = ToSet(rows) \cup ToSet(batch)
    BY <1>1, <2>1, SetOfConcat
  <2>3. CASE batch' = <<>> /\ flusher' = "collect"
    BY <1>1, <2>1, <2>2, <2>3 DEF OnlyEmitted, BatchIsInPlace, HeldOnce
  <2>4. CASE batch' = batch /\ flusher' = "messages"
    BY <2>1, <2>2, <2>4 DEF OnlyEmitted, BatchIsInPlace, HeldOnce
  <2> QED BY <2>1, <2>3, <2>4
<1>6. CASE InsertMessages \/ Close
  <2>1. /\ UNCHANGED <<queue, emitted, rows>> /\ batch' = <<>>
        /\ flusher' \in {"collect", "cancelled"}
    BY <1>6 DEF InsertMessages, Written, Close
  <2> QED BY <1>1, <2>1 DEF OnlyEmitted, BatchIsInPlace, HeldOnce
<1>7. CASE CloseBatch \/ BackOff \/ Toggle \/ UNCHANGED vars
  BY <1>7, QuietSteps DEF OnlyEmitted, BatchIsInPlace, HeldOnce
<1> QED BY <1>2, <1>3, <1>4, <1>5, <1>6, <1>7 DEF Next, FlusherStep

-----------------------------------------------------------------------------
(***************************************************************************)
(* How often an event is stored.                                           *)
(***************************************************************************)

\* The copies of an event stay bounded.
LEMMA CopiesStep ==
    ASSUME TypeOK, OnlyEmitted, HeldOnce, CopiesAreBounded, [Next]_vars
    PROVE  CopiesAreBounded'
<1> DEFINE copies(e) == Cardinality(PlacesOf(rows, e))
<1> DEFINE due(e) == e \in ToSet(queue) \cup ToSet(Unwritten)
<1>1. /\ queue \in Seq(Events) /\ batch \in Seq(Events) /\ rows \in Seq(Events)
      /\ ToSet(Unwritten) \subseteq ToSet(batch)
      /\ flusher = "messages" => ToSet(Unwritten) = {}
      /\ flusher # "messages" => Unwritten = batch
      /\ ToSet(<<>>) = {}
  BY LogSequences
<1>2. rewrites \in Nat /\ emitted \in Nat
  BY LogAssumption DEF TypeOK
<1>3. \A e \in Events : copies(e) \in Nat /\ copies(e) + (IF due(e) THEN 1 ELSE 0) <= 1 + rewrites
  BY <1>1, CopiesAreFinite DEF CopiesAreBounded
<1>4. \A e : copies(e)' = Cardinality(PlacesOf(rows', e))
  OBVIOUS
<1>5. ASSUME ASSUME NEW e \in Events
             PROVE  copies(e)' + (IF due(e)' THEN 1 ELSE 0) <= 1 + rewrites'
      PROVE  CopiesAreBounded'
  BY <1>5 DEF CopiesAreBounded
<1>6. \A e \in Events : e \in ToSet(batch) /\ flusher # "messages" => due(e) /\ e \notin ToSet(queue)
  BY <1>1 DEF HeldOnce
<1>7. ASSUME NEW e \in Events, rows' = rows \o batch
      PROVE  /\ copies(e)' <= copies(e) + (IF e \in ToSet(batch) THEN 1 ELSE 0)
             /\ copies(e)' \in Nat
  <2>1. rows \o batch \in Seq(Events)
    BY <1>1, ConcatPlaces
  <2> QED BY <1>1, <1>7, <2>1, CopiesOfConcat, CopiesAreFinite DEF HeldOnce
<1> HIDE DEF copies, due
<1>8. CASE Emit
  <2>1. UNCHANGED <<batch, rows, rewrites>> /\ emitted' = emitted + 1
        /\ (flusher' = "messages" <=> flusher = "messages")
    BY <1>8 DEF Emit
  <2>2. Unwritten' = Unwritten
    BY <2>1 DEF Unwritten
  <2>3. ToSet(queue') \subseteq ToSet(queue) \cup {emitted + 1}
    BY <1>8, EmitCuts
  <2>4. copies(emitted + 1) = 0
    <3>1. rows \in Seq(Events) /\ emitted + 1 \notin ToSet(rows)
      BY <1>1, <1>2 DEF OnlyEmitted
    <3>2. PlacesOf(rows, emitted + 1) = {}
      BY <3>1 DEF PlacesOf, ToSet
    <3> QED BY <3>2, FS_EmptySet DEF copies
  <2>5. ASSUME NEW e \in Events
        PROVE  copies(e)' + (IF due(e)' THEN 1 ELSE 0) <= 1 + rewrites'
    <3>1. copies(e)' = copies(e) /\ rewrites' = rewrites
      BY <2>1 DEF copies
    <3>2. due(e)' => due(e) \/ e = emitted + 1
      BY <2>2, <2>3 DEF due
    <3> QED BY <1>2, <1>3, <2>4, <3>1, <3>2
  <2> QED BY <1>5, <2>5
<1>9. CASE Collect
  <2>1. UNCHANGED <<rows, rewrites>> /\ flusher = "collect" /\ flusher' = "collect"
    BY <1>9 DEF Collect
  <2>2. ToSet(queue) \cup ToSet(batch) = ToSet(queue') \cup ToSet(batch')
    BY <1>9, CollectMoves
  <2>3. Unwritten = batch /\ Unwritten' = batch'
    BY <2>1 DEF Unwritten
  <2>4. \A e \in Events : copies(e)' = copies(e) /\ due(e)' = due(e)
    BY <2>1, <2>2, <2>3 DEF copies, due
  <2> QED BY <1>3, <1>5, <2>1, <2>4
<1>10. CASE WriteFails \/ ReplyLost \/ MessagesFail
  <2>1. ToSet(queue') \subseteq ToSet(queue) \cup ToSet(batch) /\ ToSet(batch') = {}
    BY <1>10, RequeueCuts, RequeueSteps
  <2>2. /\ \/ rows' = rows /\ rewrites' = rewrites /\ flusher = "write"
           \/ rows' = rows \o batch /\ rewrites' = rewrites + 1 /\ flusher = "write"
           \/ rows' = rows /\ rewrites' = rewrites + 1
        /\ flusher' = "backoff"
    BY <1>10, RequeueSteps
  <2>3. Unwritten' = batch'
    BY <2>2 DEF Unwritten
  <2>4. ASSUME NEW e \in Events
        PROVE  copies(e)' + (IF due(e)' THEN 1 ELSE 0) <= 1 + rewrites'
    <3>1. due(e)' => e \in ToSet(queue) \cup ToSet(batch)
      BY <2>1, <2>3 DEF due
    <3>2. CASE rows' = rows /\ rewrites' = rewrites /\ flusher = "write"
      <4>1. copies(e)' = copies(e)
        BY <3>2 DEF copies
      <4>2. e \in ToSet(queue) \cup ToSet(batch) => due(e)
        BY <3>2 DEF Unwritten, due
      <4>3. due(e)' => due(e)
        BY <3>1, <4>2
      <4> QED BY <1>2, <1>3, <3>2, <4>1, <4>3
    <3>3. CASE rows' = rows \o batch /\ rewrites' = rewrites + 1 /\ flusher = "write"
      <4>1. /\ copies(e)' <= copies(e) + (IF e \in ToSet(batch) THEN 1 ELSE 0)
            /\ copies(e)' \in Nat
        BY <1>7, <3>3
      <4>2. e \in ToSet(batch) => due(e)
        BY <1>6, <3>3
      <4> QED BY <1>2, <1>3, <3>3, <4>1, <4>2
    <3>4. CASE rows' = rows /\ rewrites' = rewrites + 1
      <4>1. copies(e)' = copies(e)
        BY <3>4 DEF copies
      <4> QED BY <1>2, <1>3, <3>4, <4>1
    <3> QED BY <2>2, <3>2, <3>3, <3>4
  <2> QED BY <1>5, <2>4
<1>11. CASE InsertDecisions
  <2>1. /\ UNCHANGED <<queue, rewrites>> /\ rows' = rows \o batch /\ flusher = "write"
        /\ flusher' = "messages" \/ batch' = <<>>
    BY <1>11 DEF InsertDecisions, Written
  <2>2. ToSet(Unwritten') = {}
    BY <1>1, <2>1 DEF Unwritten
  <2>3. ASSUME NEW e \in Events
        PROVE  copies(e)' + (IF due(e)' THEN 1 ELSE 0) <= 1 + rewrites'
    <3>1. /\ copies(e)' <= copies(e) + (IF e \in ToSet(batch) THEN 1 ELSE 0)
          /\ copies(e)' \in Nat
      BY <1>7, <2>1
    <3>2. due(e)' <=> e \in ToSet(queue)
      BY <2>1, <2>2 DEF due
    <3>3. e \in ToSet(batch) => due(e) /\ ~due(e)'
      BY <1>6, <2>1, <3>2
    <3>4. due(e)' => due(e)
      BY <3>2 DEF due
    <3> QED BY <1>2, <1>3, <2>1, <3>1, <3>3, <3>4
  <2> QED BY <1>5, <2>3
<1>12. CASE InsertMessages \/ Close
  <2>1. UNCHANGED <<queue, rows, rewrites>> /\ batch' = <<>>
    BY <1>12 DEF InsertMessages, Written, Close
  <2>2. ToSet(Unwritten') = {}
    BY <1>1, <2>1 DEF Unwritten
  <2>3. ASSUME NEW e \in Events
        PROVE  copies(e)' + (IF due(e)' THEN 1 ELSE 0) <= 1 + rewrites'
    <3>1. copies(e)' = copies(e) /\ rewrites' = rewrites
      BY <2>1 DEF copies
    <3>2. due(e)' => due(e)
      BY <2>1, <2>2 DEF due
    <3> QED BY <1>2, <1>3, <3>1, <3>2
  <2> QED BY <1>5, <2>3
<1>13. CASE CloseBatch \/ BackOff \/ Toggle \/ UNCHANGED vars
  <2>1. UNCHANGED <<queue, rows, rewrites, Unwritten>>
    BY <1>13, QuietSteps
  <2> QED BY <2>1 DEF CopiesAreBounded
<1> QED BY <1>8, <1>9, <1>10, <1>11, <1>12, <1>13 DEF Next, FlusherStep

-----------------------------------------------------------------------------
(***************************************************************************)
(* In which order events are stored.                                       *)
(***************************************************************************)

\* Rows, unwritten batch and queue stay in line.
LEMMA LineStep ==
    ASSUME TypeOK, OnlyEmitted, InLine, [Next]_vars
    PROVE  InLine'
<1>1. /\ queue \in Seq(Events) /\ batch \in Seq(Events) /\ rows \in Seq(Events)
      /\ Unwritten \in Seq(Events) /\ <<>> \in Seq(Events)
      /\ ToSet(Unwritten) \subseteq ToSet(batch)
      /\ flusher = "messages" => Unwritten = <<>>
      /\ flusher # "messages" => Unwritten = batch
  BY LogSequences
<1>2. emitted \in Nat
  BY LogAssumption DEF TypeOK
<1>3. CASE Emit
  <2>1. /\ UNCHANGED <<batch, rows, failed>> /\ emitted' = emitted + 1
        /\ flusher' = "messages" <=> flusher = "messages"
    BY <1>3 DEF Emit
  <2>2. Unwritten' = Unwritten
    BY <2>1 DEF Unwritten
  <2>3. CASE queue' = queue
    BY <2>1, <2>2, <2>3 DEF InLine
  <2>4. CASE queue' = queue \o <<emitted + 1>> /\ ToSet(queue') = ToSet(queue) \cup {emitted + 1}
    <3>1. SUFFICES ASSUME ~failed'
                   PROVE  Increasing(queue') /\ Before(rows, queue') /\ Before(Unwritten, queue')
      BY <2>1, <2>2 DEF InLine
    <3>2. /\ Increasing(queue) /\ Before(rows, queue) /\ Before(Unwritten, queue)
      BY <2>1, <3>1 DEF InLine
    <3>3. /\ <<emitted + 1>> \in Seq(Events) /\ Increasing(<<emitted + 1>>)
          /\ ToSet(<<emitted + 1>>) = {emitted + 1}
      BY <1>3, EmitCuts, OneEvent
    <3>4. \A x \in ToSet(queue) \cup ToSet(rows) \cup ToSet(Unwritten) : x < emitted + 1
      BY <1>1, <1>2 DEF OnlyEmitted
    <3>5. Before(queue, <<emitted + 1>>)
      BY <1>1, <3>3, <3>4, BeforeBySets
    <3>6. queue \o <<emitted + 1>> \in Seq(Events) /\ Increasing(queue \o <<emitted + 1>>)
      BY <1>1, <3>2, <3>3, <3>5, IncreasingConcat, ConcatPlaces
    <3>7. \A x \in ToSet(rows) \cup ToSet(Unwritten), y \in ToSet(queue) : x < y
      BY <1>1, <3>2, BeforeBySets
    <3>8. queue' \in Seq(Events)
      BY <2>4, <3>6
    <3>9. \A x \in ToSet(rows) \cup ToSet(Unwritten), y \in ToSet(queue') : x < y
      BY <2>4, <3>4, <3>7
    <3>10. Before(rows, queue') /\ Before(Unwritten, queue')
      BY <1>1, <3>8, <3>9, BeforeBySets
    <3> QED BY <2>4, <3>6, <3>10
  <2> QED BY <1>3, <2>3, <2>4, EmitCuts
<1>4. CASE Collect
  <2>1. PICK e \in Events, rest \in Seq(Events) :
              /\ queue = <<e>> \o rest /\ queue' = rest /\ batch' = batch \o <<e>>
              /\ ToSet(queue) = {e} \cup ToSet(queue')
              /\ ToSet(batch') = ToSet(batch) \cup {e}
    BY <1>4, CollectMoves
  <2>2. UNCHANGED <<rows, failed>> /\ flusher = "collect" /\ flusher' = "collect"
    BY <1>4 DEF Collect
  <2>3. Unwritten = batch /\ Unwritten' = batch'
    BY <2>2 DEF Unwritten
  <2>4. SUFFICES ASSUME ~failed'
                 PROVE  /\ Increasing(batch') /\ Increasing(rest)
                        /\ Before(rows, batch') /\ Before(rows, rest) /\ Before(batch', rest)
    BY <2>1, <2>2, <2>3 DEF InLine
  <2>5. /\ Increasing(rows) /\ Increasing(batch) /\ Increasing(<<e>> \o rest)
        /\ Before(rows, batch) /\ Before(rows, queue) /\ Before(batch, queue)
    BY <2>1, <2>2, <2>3, <2>4 DEF InLine
  <2>6. <<e>> \in Seq(Events) /\ ToSet(<<e>>) = {e} /\ Increasing(<<e>>)
    BY OneEvent
  <2>7. Increasing(rest) /\ Before(<<e>>, rest)
    BY <2>5, <2>6, IncreasingConcat
  <2>8. /\ \A x \in ToSet(rows), y \in ToSet(batch) \cup ToSet(queue) : x < y
        /\ \A x \in ToSet(batch), y \in ToSet(queue) : x < y
        /\ \A y \in ToSet(rest) : e < y
    BY <1>1, <2>5, <2>6, <2>7, BeforeBySets
  <2>9. Before(batch, <<e>>)
    BY <1>1, <2>1, <2>6, <2>8, BeforeBySets
  <2>10. batch \o <<e>> \in Seq(Events) /\ Increasing(batch \o <<e>>)
    BY <1>1, <2>5, <2>6, <2>9, IncreasingConcat, ConcatPlaces
  <2>11. batch' \in Seq(Events)
    BY <2>1, <2>10
  <2>12. Before(rows, batch') /\ Before(rows, rest) /\ Before(batch', rest)
    BY <1>1, <2>1, <2>8, <2>11, BeforeBySets
  <2> QED BY <2>1, <2>7, <2>10, <2>12
<1>5. CASE WriteFails \/ ReplyLost \/ MessagesFail
  BY <1>5, RequeueSteps DEF InLine
<1>6. CASE InsertDecisions
  <2>1. /\ UNCHANGED <<queue, failed>> /\ rows' = rows \o batch /\ flusher = "write"
        /\ flusher' = "messages" \/ batch' = <<>>
    BY <1>6 DEF InsertDecisions, Written
  <2>2. Unwritten = batch /\ Unwritten' = <<>>
    BY <1>1, <2>1 DEF Unwritten
  <2>3. SUFFICES ASSUME ~failed
                 PROVE  /\ Increasing(rows \o batch) /\ Increasing(queue)
                        /\ Before(rows \o batch, queue)
    BY <2>1, <2>2, EmptyIsTrivial DEF InLine
  <2>4. /\ Increasing(rows) /\ Increasing(batch) /\ Increasing(queue)
        /\ Before(rows, batch) /\ Before(rows, queue) /\ Before(batch, queue)
    BY <2>2, <2>3 DEF InLine
  <2>5. Increasing(rows \o batch) /\ rows \o batch \in Seq(Events)
    BY <1>1, <2>4, IncreasingConcat, ConcatPlaces
  <2>6. ToSet(rows \o batch) = ToSet(rows) \cup ToSet(batch)
    BY <1>1, SetOfConcat
  <2>7. Before(rows \o batch, queue)
    BY <1>1, <2>4, <2>5, <2>6, BeforeBySets
  <2> QED BY <2>4, <2>5, <2>7
<1>7. CASE InsertMessages \/ Close
  <2>1. UNCHANGED <<queue, rows, failed>> /\ batch' = <<>>
    BY <1>7 DEF InsertMessages, Written, Close
  <2>2. Unwritten' = <<>>
    BY <2>1 DEF Unwritten
  <2> QED BY <2>1, <2>2, EmptyIsTrivial DEF InLine
<1>8. CASE CloseBatch \/ BackOff \/ Toggle \/ UNCHANGED vars
  BY <1>8, QuietSteps DEF InLine
<1> QED BY <1>3, <1>4, <1>5, <1>6, <1>7, <1>8 DEF Next, FlusherStep

\* The line, as one sequence.
LEMMA LineIsInOrder ==
    ASSUME TypeOK, InLine
    PROVE  FirstTriesAreInOrder
<1>1. /\ queue \in Seq(Events) /\ rows \in Seq(Events) /\ Unwritten \in Seq(Events)
  BY LogSequences
<1> DEFINE line == rows \o Unwritten \o queue
<1>2. SUFFICES ASSUME ~failed PROVE \A i, j \in DOMAIN line : i < j => line[i] < line[j]
  BY DEF FirstTriesAreInOrder, Unwritten
<1>3. /\ Increasing(rows) /\ Increasing(Unwritten) /\ Increasing(queue)
      /\ Before(rows, Unwritten) /\ Before(rows, queue) /\ Before(Unwritten, queue)
  BY <1>2 DEF InLine
<1>4. /\ rows \o Unwritten \in Seq(Events) /\ Increasing(rows \o Unwritten)
      /\ ToSet(rows \o Unwritten) = ToSet(rows) \cup ToSet(Unwritten)
  BY <1>1, <1>3, IncreasingConcat, ConcatPlaces, SetOfConcat
<1>5. Before(rows \o Unwritten, queue)
  BY <1>1, <1>3, <1>4, BeforeBySets
<1>6. line \in Seq(Events) /\ Increasing(line)
  BY <1>1, <1>3, <1>4, <1>5, IncreasingConcat, ConcatPlaces
<1> HIDE DEF line
<1>7. DOMAIN line = 1..Len(line)
  BY <1>6, LenProperties
<1> QED BY <1>6, <1>7 DEF Increasing

-----------------------------------------------------------------------------
(***************************************************************************)
(* What is lost, and what is counted.                                      *)
(***************************************************************************)

\* The events that are nowhere, and the decisions that have lost their text.
Missing == (1..emitted) \ (Held \cup ToSet(rows))
MissingTexts == TextsOf(rows) \ (messages \cup Held)

\* A step that loses the events of lost counts as many.
Counts(lost) ==
    /\ IsFiniteSet(lost)
    /\ Missing' \subseteq Missing \cup lost
    /\ MissingTexts' \subseteq MissingTexts \cup lost
    /\ Allowance + Cardinality(lost) <= Allowance'

\* A set that grows by no more than what is counted.
LEMMA GrowsAsCounted ==
    ASSUME NEW A, NEW B, NEW lost, IsFiniteSet(A), IsFiniteSet(lost), B \subseteq A \cup lost,
           NEW n \in Nat, NEW m \in Nat, Cardinality(A) <= n, n + Cardinality(lost) <= m
    PROVE  Cardinality(B) <= m
<1>1. /\ IsFiniteSet(A \cup lost) /\ IsFiniteSet(A \cap lost)
      /\ Cardinality(A \cup lost) = Cardinality(A) + Cardinality(lost) - Cardinality(A \cap lost)
  BY FS_Union, FS_Intersection
<1>2. Cardinality(B) <= Cardinality(A \cup lost) /\ IsFiniteSet(B)
  BY <1>1, FS_Subset
<1>3. /\ Cardinality(A) \in Nat /\ Cardinality(lost) \in Nat /\ Cardinality(B) \in Nat
      /\ Cardinality(A \cap lost) \in Nat /\ Cardinality(A \cup lost) \in Nat
  BY <1>1, <1>2, FS_CardinalityType
<1> QED BY <1>1, <1>2, <1>3

\* No step loses an event without counting it, unless it closes the log.
LEMMA LossStep ==
    ASSUME TypeOK, OnlyEmitted, BatchIsInPlace, HeldOnce, [Next]_vars
    PROVE  \E lost : Counts(lost)
<1>1. /\ queue \in Seq(Events) /\ batch \in Seq(Events) /\ rows \in Seq(Events)
      /\ ToSet(<<>>) = {} /\ dropped \in Nat /\ emitted \in Nat
      /\ BatchMax \in Nat
  BY EmptyIsTrivial, LogAssumption DEF TypeOK
<1>2. IsFiniteSet({}) /\ Cardinality({}) = 0
  BY FS_EmptySet
<1>3. ASSUME Missing' \subseteq Missing, MissingTexts' \subseteq MissingTexts,
             Allowance' = Allowance
      PROVE  Counts({})
  <2>1. Allowance \in Nat
    BY <1>1 DEF Allowance
  <2> QED BY <1>2, <1>3, <2>1 DEF Counts
<1>4. CASE Emit
  <2>1. /\ UNCHANGED <<batch, rows, messages>> /\ emitted' = emitted + 1
        /\ flusher' = "cancelled" <=> flusher = "cancelled"
    BY <1>4 DEF Emit
  <2>2. 1..emitted' = (1..emitted) \cup {emitted + 1}
    BY <1>1, <2>1
  <2>3. CASE queue' = queue /\ dropped' = dropped + 1
    <3>1. Held' = Held
      BY <2>1, <2>3 DEF Held
    <3>2. Missing' \subseteq Missing \cup {emitted + 1} /\ MissingTexts' = MissingTexts
      BY <2>1, <2>2, <3>1 DEF Missing, MissingTexts, TextsOf
    <3>3. IsFiniteSet({emitted + 1}) /\ Cardinality({emitted + 1}) = 1
      BY FS_Singleton
    <3>4. Allowance' = Allowance + 1
      BY <1>1, <2>1, <2>3 DEF Allowance
    <3>5. Allowance \in Nat
      BY <1>1 DEF Allowance
    <3> QED BY <3>2, <3>3, <3>4, <3>5 DEF Counts
  <2>4. CASE ToSet(queue') = ToSet(queue) \cup {emitted + 1} /\ dropped' = dropped
    <3>1. Held' = Held \cup {emitted + 1}
      BY <2>1, <2>4 DEF Held
    <3>2. Missing' \subseteq Missing /\ MissingTexts' \subseteq MissingTexts
      BY <2>1, <2>2, <3>1 DEF Missing, MissingTexts, TextsOf
    <3> QED BY <1>3, <2>1, <2>4, <3>2 DEF Allowance
  <2> QED BY <1>4, <2>3, <2>4, EmitCuts
<1>5. CASE Collect
  <2>1. UNCHANGED <<dropped, rows, messages, emitted, flusher>>
    BY <1>5 DEF Collect
  <2>2. Held' = Held
    BY <1>5, CollectMoves DEF Held
  <2> QED BY <1>3, <2>1, <2>2 DEF Missing, MissingTexts, TextsOf, Allowance
<1>6. CASE WriteFails \/ ReplyLost \/ MessagesFail
  <2>1. PICK kept, gone \in Seq(Events) :
              /\ dropped' = dropped + Len(gone)
              /\ ToSet(batch) = ToSet(kept) \cup ToSet(gone)
              /\ ToSet(queue') = ToSet(queue) \cup ToSet(kept)
              /\ IsFiniteSet(ToSet(gone)) /\ Cardinality(ToSet(gone)) = Len(gone)
              /\ ToSet(batch') = {}
    BY <1>6, RequeueCuts, RequeueSteps
  <2>2. /\ flusher \in {"write", "messages"} /\ flusher' = "backoff" /\ emitted' = emitted
        /\ rows' \in {rows, rows \o batch}
        /\ messages \subseteq messages'
    BY <1>6, RequeueSteps
  <2>3. ToSet(rows \o batch) = ToSet(rows) \cup ToSet(batch)
    BY <1>1, SetOfConcat
  <2>4. Held \subseteq Held' \cup ToSet(gone) /\ ToSet(batch) \subseteq Held' \cup ToSet(gone)
    BY <2>1 DEF Held
  <2>5. ToSet(rows) \subseteq ToSet(rows') /\ ToSet(rows') \subseteq ToSet(rows) \cup ToSet(batch)
    BY <2>2, <2>3
  <2>6. Missing' \subseteq Missing \cup ToSet(gone)
    BY <2>2, <2>4, <2>5 DEF Missing
  <2>7. MissingTexts' \subseteq MissingTexts \cup ToSet(gone)
    BY <2>2, <2>4, <2>5 DEF MissingTexts, TextsOf
  <2>8. Len(gone) \in Nat
    BY LenProperties
  <2>9. Allowance + Cardinality(ToSet(gone)) <= Allowance'
    BY <1>1, <2>1, <2>2, <2>8 DEF Allowance
  <2> QED BY <2>1, <2>6, <2>7, <2>9 DEF Counts
<1>7. CASE InsertDecisions
  <2>1. /\ UNCHANGED <<queue, dropped, messages, emitted>> /\ rows' = rows \o batch
        /\ flusher = "write"
        /\ \/ flusher' = "messages" /\ batch' = batch
           \/ flusher' = "collect" /\ batch' = <<>> /\ TextsOf(batch) = {}
    BY <1>7 DEF InsertDecisions, Written
  <2>2. ToSet(rows') = ToSet(rows) \cup ToSet(batch)
    BY <1>1, <2>1, SetOfConcat
  <2>3. Held' = Held \/ (Held' = ToSet(queue) /\ TextsOf(batch) = {})
    BY <1>1, <2>1 DEF Held
  <2>4. Missing' \subseteq Missing
    BY <1>1, <2>1, <2>2, <2>3 DEF Missing, Held
  <2>5. MissingTexts' \subseteq MissingTexts
    BY <1>1, <2>1, <2>2, <2>3 DEF MissingTexts, Held, TextsOf
  <2> QED BY <1>3, <2>1, <2>4, <2>5 DEF Allowance
<1>8. CASE InsertMessages
  <2>1. /\ UNCHANGED <<queue, dropped, rows, emitted>> /\ messages' = messages \cup TextsOf(batch)
        /\ flusher = "messages" /\ flusher' = "collect" /\ batch' = <<>>
    BY <1>8 DEF InsertMessages, Written
  <2>2. Held' = ToSet(queue) /\ ToSet(batch) \subseteq ToSet(rows)
    BY <1>1, <2>1 DEF Held, BatchIsInPlace
  <2>3. Missing' \subseteq Missing /\ MissingTexts' \subseteq MissingTexts
    BY <2>1, <2>2 DEF Missing, MissingTexts, Held, TextsOf
  <2> QED BY <1>3, <2>1, <2>3 DEF Allowance
<1>9. CASE Close
  <2>1. /\ UNCHANGED <<queue, dropped, rows, messages, emitted>>
        /\ flusher # "cancelled" /\ flusher' = "cancelled" /\ batch' = <<>>
    BY <1>9 DEF Close
  <2>2. Held' = ToSet(queue)
    BY <1>1, <2>1 DEF Held
  <2>3. Missing' \subseteq Missing \cup ToSet(batch) /\ MissingTexts' \subseteq MissingTexts \cup ToSet(batch)
    BY <2>1, <2>2 DEF Missing, MissingTexts, Held, TextsOf
  <2>4. IsFiniteSet(ToSet(batch)) /\ Cardinality(ToSet(batch)) = Len(batch)
    BY <1>1, CountDistinct DEF HeldOnce
  <2>5. Len(batch) <= BatchMax /\ Len(batch) \in Nat
    BY <1>1, LenProperties DEF TypeOK
  <2>6. Allowance + Cardinality(ToSet(batch)) <= Allowance'
    BY <1>1, <2>1, <2>4, <2>5 DEF Allowance
  <2> QED BY <2>3, <2>4, <2>6 DEF Counts
<1>10. CASE CloseBatch \/ BackOff \/ Toggle \/ UNCHANGED vars
  <2>1. /\ UNCHANGED <<queue, batch, dropped, rows, messages, emitted>>
        /\ flusher' = "cancelled" <=> flusher = "cancelled"
    BY <1>10, QuietSteps
  <2> QED BY <1>3, <2>1 DEF Missing, MissingTexts, Held, TextsOf, Allowance
<1> QED BY <1>4, <1>5, <1>6, <1>7, <1>8, <1>9, <1>10 DEF Next, FlusherStep

\* No text is stored before its decision.
LEMMA TextsFollowRows ==
    ASSUME TypeOK, BatchIsInPlace, messages \subseteq ToSet(rows), [Next]_vars
    PROVE  (messages \subseteq ToSet(rows))'
<1>1. /\ batch \in Seq(Events) /\ rows \in Seq(Events)
  BY DEF TypeOK
<1>2. ToSet(rows \o batch) = ToSet(rows) \cup ToSet(batch)
  BY <1>1, SetOfConcat
<1>3. rows' \in {rows, rows \o batch}
  BY DEF Next, FlusherStep, vars, Emit, Collect, CloseBatch, WriteFails, InsertDecisions,
     ReplyLost, InsertMessages, MessagesFail, BackOff, Close, Toggle
<1>4. \/ messages' = messages
      \/ messages' \subseteq messages \cup ToSet(batch) /\ flusher = "messages"
  BY DEF Next, FlusherStep, vars, Emit, Collect, CloseBatch, WriteFails, InsertDecisions,
     ReplyLost, InsertMessages, MessagesFail, BackOff, Close, Toggle, TextsOf
<1> QED BY <1>2, <1>3, <1>4 DEF BatchIsInPlace

-----------------------------------------------------------------------------
(***************************************************************************)
(* The invariant, and the theorems.                                        *)
(***************************************************************************)

\* The log starts in the invariant.
LEMMA LogInvInit == Init => LogInv
<1> SUFFICES ASSUME Init PROVE LogInv
  OBVIOUS
<1>1. /\ queue = <<>> /\ batch = <<>> /\ rows = <<>> /\ flusher = "none" /\ emitted = 0
      /\ dropped = 0 /\ messages = {} /\ rewrites = 0
  BY DEF Init
<1>2. ToSet(<<>>) = {} /\ Distinct(<<>>) /\ Increasing(<<>>) /\ Before(<<>>, <<>>)
      /\ \A e : PlacesOf(<<>>, e) = {}
  BY EmptyIsTrivial
<1>3. <<>> \in Seq(Events) /\ Len(<<>>) = 0
  BY EmptySeq
<1>4. TypeOK
  <2>1. up \in BOOLEAN /\ failed \in BOOLEAN
    BY DEF Init
  <2>2. /\ queue \in Seq(Events) /\ Len(queue) <= QueueMax
        /\ batch \in Seq(Events) /\ Len(batch) <= BatchMax /\ rows \in Seq(Events)
        /\ emitted \in 0..MaxEvents /\ rewrites \in 0..MaxRewrites
    BY <1>1, <1>3, LogAssumption
  <2> QED BY <1>1, <2>1, <2>2 DEF TypeOK
<1>5. OnlyEmitted /\ BatchIsInPlace /\ HeldOnce
  BY <1>1, <1>2 DEF OnlyEmitted, BatchIsInPlace, HeldOnce
<1>6. Unwritten = <<>>
  BY <1>1 DEF Unwritten
<1>7. CopiesAreBounded
  <2>1. Cardinality({}) = 0
    BY FS_EmptySet
  <2>2. \A e : PlacesOf(rows, e) = {} /\ e \notin ToSet(queue) \cup ToSet(Unwritten)
    BY <1>1, <1>2, <1>6
  <2>3. \A e : Cardinality(PlacesOf(rows, e)) = 0
    BY <2>1, <2>2
  <2>4. rewrites = 0
    BY <1>1
  <2> QED BY <2>2, <2>3, <2>4 DEF CopiesAreBounded
<1>8. InLine
  BY <1>1, <1>2, <1>6 DEF InLine
<1>9. Missing = {} /\ MissingTexts = {} /\ Allowance = 0
  <2>1. 1..0 = {}
    OBVIOUS
  <2> QED BY <1>1, <1>2, <2>1 DEF Missing, MissingTexts, TextsOf, Allowance
<1>10. EveryEventIsAccountedFor /\ RowsHaveTheirTexts
  <2>1. Cardinality({}) = 0
    BY FS_EmptySet
  <2>2. Cardinality(Missing) <= Allowance /\ Cardinality(MissingTexts) <= Allowance
    BY <1>9, <2>1
  <2>3. messages \subseteq ToSet(rows)
    BY <1>1
  <2> QED BY <2>2, <2>3
          DEF EveryEventIsAccountedFor, RowsHaveTheirTexts, Missing, MissingTexts
<1> QED BY <1>4, <1>5, <1>7, <1>8, <1>10 DEF LogInv

\* Every step keeps it.
LEMMA LogInvStep == LogInv /\ [Next]_vars => LogInv'
<1> SUFFICES ASSUME LogInv, [Next]_vars PROVE LogInv'
  OBVIOUS
<1>1. /\ TypeOK /\ OnlyEmitted /\ BatchIsInPlace /\ HeldOnce /\ CopiesAreBounded /\ InLine
      /\ EveryEventIsAccountedFor /\ RowsHaveTheirTexts
  BY DEF LogInv
<1>2. TypeOK'
  BY <1>1, TypeStep
<1>3. OnlyEmitted' /\ BatchIsInPlace' /\ HeldOnce'
  BY <1>1, PlacementStep
<1>4. CopiesAreBounded' /\ InLine'
  BY <1>1, CopiesStep, LineStep
<1>5. PICK lost : Counts(lost)
  BY <1>1, LossStep
<1>6. Allowance \in Nat /\ Allowance' \in Nat
  <2>1. dropped \in Nat /\ dropped' \in Nat /\ BatchMax \in Nat
    BY <1>1, <1>2, LogAssumption DEF TypeOK
  <2>2. Allowance \in Nat
    BY <2>1 DEF Allowance
  <2>3. \A a, b \in Nat : a + b \in Nat
    OBVIOUS
  <2>4. dropped' + BatchMax \in Nat /\ dropped' + 0 \in Nat
    BY <2>1, <2>3
  <2>5. Allowance' = dropped' + BatchMax \/ Allowance' = dropped' + 0
    BY DEF Allowance
  <2> QED BY <2>2, <2>4, <2>5
<1>7. IsFiniteSet(Missing) /\ IsFiniteSet(MissingTexts)
  <2>1. IsFiniteSet(1..MaxEvents) /\ IsFiniteSet(1..emitted)
    BY <1>1, LogAssumption, FS_Interval DEF TypeOK
  <2>2. Missing \subseteq 1..emitted /\ MissingTexts \subseteq 1..MaxEvents
    BY LogAssumption DEF Missing, MissingTexts, TextsOf
  <2> QED BY <2>1, <2>2, FS_Subset
<1>8. EveryEventIsAccountedFor'
  <2>1. Cardinality(Missing) <= Allowance
    BY <1>1 DEF EveryEventIsAccountedFor, Missing
  <2>2. Cardinality(Missing') <= Allowance'
    BY <1>5, <1>6, <1>7, <2>1, GrowsAsCounted DEF Counts
  <2> QED BY <2>2 DEF EveryEventIsAccountedFor, Missing
<1>9. RowsHaveTheirTexts'
  <2>1. Cardinality(MissingTexts) <= Allowance
    BY <1>1 DEF RowsHaveTheirTexts, MissingTexts
  <2>2. Cardinality(MissingTexts') <= Allowance'
    BY <1>5, <1>6, <1>7, <2>1, GrowsAsCounted DEF Counts
  <2>3. (messages \subseteq ToSet(rows))'
    BY <1>1, TextsFollowRows DEF RowsHaveTheirTexts
  <2> QED BY <2>2, <2>3 DEF RowsHaveTheirTexts, MissingTexts
<1> QED BY <1>2, <1>3, <1>4, <1>8, <1>9 DEF LogInv

\* The invariant of the log.
THEOREM LogInvariant == Spec => []LogInv
BY LogInvInit, LogInvStep, PTL DEF Spec

\* TypeOK in every state: queue and batch never grow past QUEUE_MAX and BATCH_MAX, whatever
\* fails and however often a batch is requeued (decision_log.py:17-20, 87-91).
THEOREM LogTypeCorrect == Spec => []TypeOK
<1>1. LogInv => TypeOK
  BY DEF LogInv
<1> QED BY <1>1, LogInvariant, PTL

\* decision_log.py:3-5: until the log is closed, an emitted event is in memory, in
\* router_decisions or counted, for every queue, every batch size, any failures and any
\* refused values.  A closed log may also have lost, uncounted, as many events as the
\* batch its flusher held: BATCH_MAX, and no more.
THEOREM EventsAreAccountedFor ==
    Spec => [](/\ EveryEventIsAccountedFor
               /\ flusher # "cancelled" => Cardinality(Missing) <= dropped)
<1>1. LogInv => EveryEventIsAccountedFor
  BY DEF LogInv
<1>2. LogInv /\ flusher # "cancelled" => Cardinality(Missing) <= dropped
  <2> SUFFICES ASSUME LogInv, flusher # "cancelled" PROVE Cardinality(Missing) <= dropped
    OBVIOUS
  <2>1. Cardinality(Missing) <= Allowance
    BY DEF LogInv, EveryEventIsAccountedFor, Missing
  <2>2. dropped \in Nat
    BY DEF LogInv, TypeOK
  <2>3. Allowance = dropped
    BY <2>2 DEF Allowance
  <2> QED BY <2>1, <2>3
<1> QED BY <1>1, <1>2, LogInvariant, PTL

\* decision_log.py:134-137: no text without its decision.  A stored decision is without its
\* text only while memory holds the event, to be retried, or when the retry was dropped and
\* counted, or, in a closed log, when it was in the batch of the cancelled flusher.
THEOREM TextsAreKept == Spec => []RowsHaveTheirTexts
<1>1. LogInv => RowsHaveTheirTexts
  BY DEF LogInv
<1> QED BY <1>1, LogInvariant, PTL

\* decision_log.py:84-92: an event has one row, and one more for each failed batch whose
\* rows were committed.
THEOREM RepeatsAreRewrites == Spec => []RowsRepeatOnlyAfterRewrites
<1>1. ASSUME LogInv PROVE RowsRepeatOnlyAfterRewrites
  <2>1. TypeOK /\ CopiesAreBounded /\ rows \in Seq(Events)
    BY <1>1 DEF LogInv, TypeOK
  <2>2. SUFFICES ASSUME NEW e \in Events
                 PROVE  Cardinality(PlacesOf(rows, e)) <= 1 + rewrites
    BY DEF RowsRepeatOnlyAfterRewrites, PlacesOf
  <2>3. Cardinality(PlacesOf(rows, e)) \in Nat /\ rewrites \in Nat
    BY <2>1, CopiesAreFinite, LogAssumption DEF TypeOK
  <2> QED BY <2>1, <2>3 DEF CopiesAreBounded
<1> QED BY <1>1, LogInvariant, PTL

\* Until a write fails, rows, batch and queue are in the order of the decisions.
THEOREM LogIsInOrder == Spec => []FirstTriesAreInOrder
<1>1. LogInv => FirstTriesAreInOrder
  BY LineIsInOrder DEF LogInv
<1> QED BY <1>1, LogInvariant, PTL

-----------------------------------------------------------------------------
(***************************************************************************)
(* The log implements the ledger.                                          *)
(***************************************************************************)

\* Emitting is accepting.
LEMMA EmitAccepts ==
    ASSUME LogInv, Emit
    PROVE  \E e \in Events \ (1..emitted) : Ledger!Accept(e)
<1>1. TypeOK /\ emitted \in Nat /\ dropped \in Nat
  BY LogAssumption DEF LogInv, TypeOK
<1>2. emitted + 1 \in Events \ (1..emitted)
  BY <1>1, EmitCuts
<1>3. 1..emitted' = (1..emitted) \cup {emitted + 1}
  BY <1>1 DEF Emit
<1>4. UNCHANGED <<batch, rows>>
  BY DEF Emit
<1>5. (flusher = "cancelled")' = (flusher = "cancelled")
  BY DEF Emit
<1>6. \/ Held' = Held \cup {emitted + 1} /\ dropped' = dropped
      \/ Held' = Held /\ dropped' = dropped + 1
  <2>1. CASE queue' = queue /\ dropped' = dropped + 1
    BY <1>4, <2>1 DEF Held
  <2>2. CASE ToSet(queue') = ToSet(queue) \cup {emitted + 1} /\ dropped' = dropped
    BY <1>4, <2>2 DEF Held
  <2> QED BY <1>1, <2>1, <2>2, EmitCuts
<1>7. ToSet(rows)' = ToSet(rows)
  BY <1>4
<1>8. Ledger!Accept(emitted + 1)
  BY <1>3, <1>5, <1>6, <1>7, Zenon DEF Ledger!Accept
<1> QED BY <1>2, <1>8

\* Moving events between memory and rows is flushing.
LEMMA MovesFlush ==
    ASSUME NEW written \in SUBSET Held, NEW left \in SUBSET Held, NEW discarded \in SUBSET left,
           flusher # "cancelled", flusher' # "cancelled", emitted' = emitted,
           ToSet(rows)' = ToSet(rows) \cup written,
           Held' = Held \ left,
           left \ discarded \subseteq ToSet(rows)',
           dropped' = dropped + Cardinality(discarded)
    PROVE  Ledger!Flush
<1>1. (1..emitted)' = 1..emitted
  OBVIOUS
<1>2. (flusher = "cancelled")' = (flusher = "cancelled")
  OBVIOUS
<1>3. \E d \in SUBSET left :
          /\ ToSet(rows)' = ToSet(rows) \cup written
          /\ Held' = Held \ left
          /\ left \ d \subseteq ToSet(rows)'
          /\ dropped' = dropped + Cardinality(d)
  OBVIOUS
<1>4. \E w, l \in SUBSET Held : \E d \in SUBSET l :
          /\ ToSet(rows)' = ToSet(rows) \cup w
          /\ Held' = Held \ l
          /\ l \ d \subseteq ToSet(rows)'
          /\ dropped' = dropped + Cardinality(d)
  BY <1>3, Zenon
<1>5. ~(flusher = "cancelled")
  OBVIOUS
<1>6. \A S : Ledger!Cardinality(S) = Cardinality(S)
  BY DEF Ledger!Cardinality, Cardinality
<1> QED BY <1>1, <1>2, <1>4, <1>5, <1>6, Zenon DEF Ledger!Flush

\* A failed write flushes: the batch stays but for what was counted.
LEMMA RequeueFlushes ==
    ASSUME LogInv, WriteFails \/ ReplyLost \/ MessagesFail
    PROVE  Ledger!Flush
<1>1. TypeOK /\ HeldOnce /\ queue \in Seq(Events) /\ batch \in Seq(Events) /\ rows \in Seq(Events)
  BY DEF LogInv, TypeOK
<1>2. PICK kept, gone \in Seq(Events) :
              /\ dropped' = dropped + Len(gone)
              /\ ToSet(batch) = ToSet(kept) \cup ToSet(gone)
              /\ ToSet(queue') = ToSet(queue) \cup ToSet(kept)
              /\ ToSet(kept) \cap ToSet(gone) = {}
              /\ Cardinality(ToSet(gone)) = Len(gone)
              /\ ToSet(batch') = {}
  BY <1>1, RequeueCuts, RequeueSteps
<1>3. /\ flusher \in {"write", "messages"} /\ flusher' = "backoff" /\ emitted' = emitted
      /\ rows' \in {rows, rows \o batch}
  BY RequeueSteps
<1>4. ToSet(rows \o batch) = ToSet(rows) \cup ToSet(batch)
  BY <1>1, SetOfConcat
<1>5. PICK written \in {{}, ToSet(batch)} : ToSet(rows)' = ToSet(rows) \cup written
  BY <1>3, <1>4
<1>6. ToSet(queue) \cap ToSet(batch) = {}
  BY <1>1 DEF HeldOnce
<1>7. Held' = Held \ ToSet(gone)
  BY <1>2, <1>6 DEF Held
<1>8. written \in SUBSET Held /\ ToSet(gone) \in SUBSET Held
  BY <1>2 DEF Held
<1> QED BY <1>2, <1>3, <1>5, <1>7, <1>8, MovesFlush

\* A written batch leaves for its rows.
LEMMA WriteFlushes ==
    ASSUME LogInv, InsertDecisions \/ InsertMessages
    PROVE  Ledger!Flush
<1>1. /\ TypeOK /\ HeldOnce /\ BatchIsInPlace /\ ToSet(<<>>) = {}
      /\ queue \in Seq(Events) /\ batch \in Seq(Events) /\ rows \in Seq(Events)
  BY EmptyIsTrivial DEF LogInv, TypeOK
<1>2. ToSet(rows \o batch) = ToSet(rows) \cup ToSet(batch)
  BY <1>1, SetOfConcat
<1>3. ToSet(queue) \cap ToSet(batch) = {}
  BY <1>1 DEF HeldOnce
<1>4. UNCHANGED <<queue, dropped, emitted>> /\ flusher # "cancelled" /\ flusher' # "cancelled"
  BY DEF InsertDecisions, InsertMessages, Written
<1>5. PICK written \in {{}, ToSet(batch)} : ToSet(rows)' = ToSet(rows) \cup written
  BY <1>2 DEF InsertDecisions, InsertMessages
<1>6. /\ batch' \in {batch, <<>>}
      /\ ToSet(batch) \subseteq ToSet(rows)'
  BY <1>1, <1>2 DEF InsertDecisions, InsertMessages, Written, BatchIsInPlace
<1>7. PICK left \in {{}, ToSet(batch)} : Held' = Held \ left
  <2>1. CASE batch' = batch
    BY <1>4, <2>1 DEF Held
  <2>2. CASE batch' = <<>>
    <3>1. Held = ToSet(queue) \cup ToSet(batch) /\ Held' = ToSet(queue)
      BY <1>1, <1>4, <2>2 DEF Held
    <3> QED BY <1>3, <3>1
  <2> QED BY <1>6, <2>1, <2>2
<1>8. Cardinality({}) = 0 /\ dropped + 0 = dropped
  BY <1>1, FS_EmptySet DEF TypeOK
<1>9. written \in SUBSET Held /\ left \in SUBSET Held /\ left \ {} \subseteq ToSet(rows)'
  BY <1>6 DEF Held
<1> QED BY <1>4, <1>5, <1>7, <1>8, <1>9, MovesFlush

\* Every step of the log is one of the ledger's.
LEMMA LedgerStep == LogInv /\ [Next]_vars => [Ledger!Next]_(Ledger!vars)
<1> SUFFICES ASSUME LogInv, [Next]_vars PROVE [Ledger!Next]_(Ledger!vars)
  OBVIOUS
<1>1. ASSUME emitted' = emitted, Held' = Held, ToSet(rows)' = ToSet(rows), dropped' = dropped,
             (flusher = "cancelled")' = (flusher = "cancelled")
      PROVE  UNCHANGED Ledger!vars
  BY <1>1 DEF Ledger!vars
<1>2. CASE Emit
  BY <1>2, EmitAccepts DEF Ledger!Next
<1>3. CASE Collect
  <2>1. UNCHANGED <<dropped, rows, emitted, flusher>>
    BY <1>3 DEF Collect
  <2>2. Held' = Held
    BY <1>3, CollectMoves DEF Held, LogInv
  <2> QED BY <1>1, <2>1, <2>2
<1>4. CASE WriteFails \/ ReplyLost \/ MessagesFail
  BY <1>4, RequeueFlushes DEF Ledger!Next
<1>5. CASE InsertDecisions \/ InsertMessages
  BY <1>5, WriteFlushes DEF Ledger!Next
<1>6. CASE Close
  <2>1. /\ UNCHANGED <<queue, dropped, rows, emitted>>
        /\ flusher # "cancelled" /\ flusher' = "cancelled" /\ batch' = <<>>
    BY <1>6 DEF Close
  <2>2. Held' \in SUBSET Held
    BY <2>1, EmptyIsTrivial DEF Held
  <2>3. /\ (1..emitted)' = 1..emitted /\ ToSet(rows)' = ToSet(rows) /\ dropped' = dropped
        /\ ~(flusher = "cancelled") /\ (flusher = "cancelled")' = TRUE
    BY <2>1
  <2>4. Ledger!Close
    BY <2>2, <2>3, Zenon DEF Ledger!Close
  <2> QED BY <2>4 DEF Ledger!Next
<1>7. CASE CloseBatch \/ BackOff \/ Toggle \/ UNCHANGED vars
  <2>1. /\ UNCHANGED <<queue, batch, dropped, rows, emitted>>
        /\ flusher' = "cancelled" <=> flusher = "cancelled"
    BY <1>7, QuietSteps
  <2> QED BY <1>1, <2>1 DEF Held
<1> QED BY <1>2, <1>3, <1>4, <1>5, <1>6, <1>7 DEF Next, FlusherStep

\* decision_log.py:1-9: the log implements EventLedger, for every queue, batch and number
\* of events: in each of its steps an event leaves memory only for its row or the counter.
THEOREM LogKeepsTheLedger == Spec => KeepsTheLedger
<1>1. Init => Ledger!Init
  <2> SUFFICES ASSUME Init PROVE Ledger!Init
    OBVIOUS
  <2>1. /\ queue = <<>> /\ batch = <<>> /\ rows = <<>> /\ flusher = "none" /\ emitted = 0
        /\ dropped = 0
    BY DEF Init
  <2>2. 1..emitted = {} /\ Held = {} /\ ToSet(rows) = {} /\ (flusher = "cancelled") = FALSE
    BY <2>1, EmptyIsTrivial DEF Held
  <2> QED BY <2>1, <2>2 DEF Ledger!Init
<1> QED BY <1>1, LedgerStep, LogInvariant, PTL DEF Spec, KeepsTheLedger, Ledger!Spec

=============================================================================
