------------------------- MODULE RequestIntakeProofs -------------------------
(***************************************************************************)
(* Proofs about the intake of requests: that the table of logged overrides *)
(* neither repeats nor hides one, that flattening nested contents yields   *)
(* the beginning of their text, and what follows for the identities that   *)
(* conversations are routed under.                                         *)
(***************************************************************************)
EXTENDS RequestIntake, Recursion, FiniteSetTheorems, SequenceTheorems, TLAPS

-----------------------------------------------------------------------------
(***************************************************************************)
(* The table of logged overrides.                                          *)
(***************************************************************************)

\* The table is the end of the log: as much of it as the table holds.
TableIsTheEnd ==
    /\ Len(seen) = IF Len(logged) < DedupeMax THEN Len(logged) ELSE DedupeMax
    /\ \A i \in 1..Len(seen) : seen[i] = logged[Len(logged) - Len(seen) + i]

\* No two events within reach of the table are the same.
NearbyEventsDiffer ==
    \A i, j \in 1..Len(logged) : i < j /\ j - i <= DedupeMax => logged[i] # logged[j]

TableInv ==
    /\ TableTypeOK
    /\ TableIsTheEnd
    /\ NearbyEventsDiffer
    /\ OverridesAreReported

\* The lengths of the two sequences, and what the one has of the other.
LEMMA TableShape ==
    ASSUME TableTypeOK, TableIsTheEnd
    PROVE  /\ DedupeMax \in Nat \ {0}
           /\ Len(seen) \in Nat /\ Len(logged) \in Nat /\ Len(seen) <= Len(logged)
           /\ DOMAIN seen = 1..Len(seen) /\ DOMAIN logged = 1..Len(logged)
           /\ Len(seen) = IF Len(logged) < DedupeMax THEN Len(logged) ELSE DedupeMax
           /\ \A i \in 1..Len(seen) : seen[i] = logged[Len(logged) - Len(seen) + i]
<1>1. DedupeMax \in Nat \ {0}
  BY TableAssumption
<1>2. /\ Len(seen) \in Nat /\ Len(logged) \in Nat
      /\ DOMAIN seen = 1..Len(seen) /\ DOMAIN logged = 1..Len(logged)
  BY DEF TableTypeOK
<1>3. Len(seen) = IF Len(logged) < DedupeMax THEN Len(logged) ELSE DedupeMax
  BY DEF TableIsTheEnd
<1>4. Len(seen) <= Len(logged)
  BY <1>1, <1>2, <1>3
<1> QED BY <1>1, <1>2, <1>3, <1>4 DEF TableIsTheEnd

\* The new event, and the old ones.
LEMMA AppendedLog ==
    ASSUME TableTypeOK, NEW pair \in Pairs
    PROVE  /\ Len(logged) \in Nat
           /\ Append(logged, pair) \in Seq(Pairs)
           /\ Len(Append(logged, pair)) = Len(logged) + 1
           /\ Append(logged, pair)[Len(logged) + 1] = pair
           /\ \A i \in 1..Len(logged) : Append(logged, pair)[i] = logged[i]
BY DEF TableTypeOK

\* hook.py:285-287: the pair is put at the end of the table, which loses its oldest pair
\* when it is full.
LEMMA RememberedTable ==
    ASSUME TableTypeOK, NEW pair \in Pairs
    PROVE  LET table == Remember(pair)
               lost == IF Len(seen) = DedupeMax THEN 1 ELSE 0
           IN  /\ table \in Seq(Pairs)
               /\ Len(seen) \in Nat
               /\ Len(table) = Len(seen) + 1 - lost
               /\ \A i \in 1..Len(table) :
                     table[i] = IF i + lost = Len(seen) + 1 THEN pair ELSE seen[i + lost]
<1> DEFINE longer == Append(seen, pair)
<1>1. seen \in Seq(Pairs) /\ Len(seen) \in Nat /\ Len(seen) <= DedupeMax /\ DedupeMax \in Nat
  BY TableAssumption DEF TableTypeOK
<1>2. /\ longer \in Seq(Pairs) /\ Len(longer) = Len(seen) + 1
      /\ \A i \in 1..Len(longer) : longer[i] = IF i = Len(seen) + 1 THEN pair ELSE seen[i]
  BY <1>1
<1> HIDE DEF longer
<1>3. CASE Len(seen) = DedupeMax
  <2>1. Remember(pair) = Tail(longer)
    BY <1>1, <1>2, <1>3 DEF Remember, longer
  <2>2. longer # <<>>
    BY <1>1, <1>2
  <2>3. /\ Tail(longer) \in Seq(Pairs) /\ Len(Tail(longer)) = Len(longer) - 1
        /\ \A i \in 1..Len(Tail(longer)) : Tail(longer)[i] = longer[i+1]
    BY <1>2, <2>2, HeadTailProperties
  <2> QED BY <1>1, <1>2, <1>3, <2>1, <2>3
<1>4. CASE Len(seen) # DedupeMax
  <2>1. Remember(pair) = longer
    BY <1>1, <1>2, <1>4 DEF Remember, longer
  <2> QED BY <1>1, <1>2, <1>4, <2>1
<1> QED BY <1>3, <1>4

\* A call that is not news changes nothing but what was asked, and was reported before.
LEMMA OldCall ==
    ASSUME TableInv, NEW pair \in Pairs, Call(pair), ~IsNews(pair)
    PROVE  TableInv'
<1>1. asked' = asked \cup {pair} /\ UNCHANGED <<seen, logged>>
  BY DEF Call
<1>2. pair \in ToSet(logged)
  <2>1. PICK i \in 1..Len(seen) : seen[i] = pair
    BY DEF IsNews, ToSet, TableInv, TableTypeOK
  <2>2. /\ Len(seen) \in Nat /\ Len(logged) \in Nat /\ Len(seen) <= Len(logged)
        /\ DOMAIN logged = 1..Len(logged)
        /\ seen[i] = logged[Len(logged) - Len(seen) + i]
    BY TableShape DEF TableInv
  <2>3. Len(logged) - Len(seen) + i \in DOMAIN logged
    BY <2>2
  <2> QED BY <2>1, <2>2, <2>3 DEF ToSet
<1>3. TableTypeOK'
  BY <1>1 DEF TableInv, TableTypeOK
<1>4. OverridesAreReported'
  BY <1>1, <1>2 DEF TableInv, OverridesAreReported
<1> QED BY <1>1, <1>3, <1>4 DEF TableInv, TableIsTheEnd, NearbyEventsDiffer

\* A call that is news is none of the events within reach of the table.
LEMMA NewsIsNew ==
    ASSUME TableInv, NEW pair \in Pairs, IsNews(pair),
           NEW i \in 1..Len(logged), Len(logged) + 1 - i <= DedupeMax
    PROVE  logged[i] # pair
<1> DEFINE k == i - (Len(logged) - Len(seen))
<1>1. /\ Len(seen) \in Nat /\ Len(logged) \in Nat /\ DedupeMax \in Nat
      /\ DOMAIN seen = 1..Len(seen)
      /\ Len(seen) = IF Len(logged) < DedupeMax THEN Len(logged) ELSE DedupeMax
      /\ \A j \in 1..Len(seen) : seen[j] = logged[Len(logged) - Len(seen) + j]
  BY TableShape DEF TableInv
<1>2. k \in 1..Len(seen) /\ Len(logged) - Len(seen) + k = i
  <2> DEFINE n == Len(logged)
             m == Len(seen)
  <2>1. /\ n \in Nat /\ m \in Nat /\ DedupeMax \in Nat
        /\ m = IF n < DedupeMax THEN n ELSE DedupeMax
    BY <1>1
  <2>2. i \in 1..n /\ n + 1 - i <= DedupeMax
    OBVIOUS
  <2>3. i - (n - m) \in 1..m /\ n - m + (i - (n - m)) = i
    <3> HIDE DEF n, m
    <3> QED BY <2>1, <2>2
  <2> QED BY <2>3
<1>3. seen[k] = logged[i]
  BY <1>1, <1>2
<1>4. seen[k] # pair
  BY <1>1, <1>2 DEF IsNews, ToSet
<1> QED BY <1>3, <1>4

\* It is logged and remembered.
LEMMA NewCall ==
    ASSUME TableInv, NEW pair \in Pairs, Call(pair), IsNews(pair)
    PROVE  TableInv'
<1> DEFINE n == Len(logged)
           lost == IF Len(seen) = DedupeMax THEN 1 ELSE 0
<1>1. /\ asked' = asked \cup {pair}
      /\ seen' = Remember(pair)
      /\ logged' = Append(logged, pair)
  BY DEF Call
<1>2. /\ n \in Nat /\ logged' \in Seq(Pairs) /\ Len(logged') = n + 1
      /\ logged'[n + 1] = pair
      /\ \A i \in 1..n : logged'[i] = logged[i]
  BY <1>1, AppendedLog DEF TableInv
<1>3. /\ seen' \in Seq(Pairs) /\ Len(seen) \in Nat
      /\ Len(seen') = Len(seen) + 1 - lost
      /\ \A i \in 1..Len(seen') :
            seen'[i] = IF i + lost = Len(seen) + 1 THEN pair ELSE seen[i + lost]
  BY <1>1, RememberedTable DEF TableInv
<1>4. /\ DedupeMax \in Nat \ {0} /\ Len(seen) <= n
      /\ Len(seen) = IF n < DedupeMax THEN n ELSE DedupeMax
      /\ \A i \in 1..Len(seen) : seen[i] = logged[n - Len(seen) + i]
  BY TableShape DEF TableInv
<1> HIDE DEF n
<1>5. Len(seen') = IF n + 1 < DedupeMax THEN n + 1 ELSE DedupeMax
  BY <1>2, <1>3, <1>4
<1>6. TableTypeOK'
  <2>1. Len(seen') <= DedupeMax
    BY <1>2, <1>4, <1>5
  <2> QED BY <1>1, <1>2, <1>3, <2>1 DEF TableInv, TableTypeOK
<1>7. ASSUME NEW i \in 1..Len(seen')
      PROVE  seen'[i] = logged'[n + 1 - Len(seen') + i]
  <2>1. i \in Nat /\ i + lost \in 1..(Len(seen) + 1)
    BY <1>2, <1>3, <1>4
  <2>2. n + 1 - Len(seen') + i = n - Len(seen) + (i + lost)
    BY <1>2, <1>3, <1>4
  <2> HIDE DEF lost
  <2>3. lost \in Nat
    BY DEF lost
  <2>4. CASE i + lost = Len(seen) + 1
    <3>1. n - Len(seen) + (i + lost) = n + 1
      BY <1>2, <1>3, <2>4
    <3> QED BY <1>2, <1>3, <2>2, <2>4, <3>1
  <2>5. CASE i + lost # Len(seen) + 1
    <3>1. i + lost \in 1..Len(seen) /\ n - Len(seen) + (i + lost) \in 1..n
      BY <1>2, <1>3, <1>4, <2>1, <2>3, <2>5
    <3> QED BY <1>2, <1>3, <1>4, <2>2, <2>5, <3>1
  <2> QED BY <2>4, <2>5
<1>8. TableIsTheEnd'
  <2>1. Len(seen') = IF Len(logged') < DedupeMax THEN Len(logged') ELSE DedupeMax
    BY <1>2, <1>5
  <2>2. \A i \in 1..Len(seen') : seen'[i] = logged'[Len(logged') - Len(seen') + i]
    BY <1>2, <1>7
  <2> QED BY <2>1, <2>2 DEF TableIsTheEnd
<1>9. NearbyEventsDiffer'
  <2> SUFFICES ASSUME NEW i \in 1..(n + 1), NEW j \in 1..(n + 1), i < j, j - i <= DedupeMax
               PROVE  logged'[i] # logged'[j]
    BY <1>2 DEF NearbyEventsDiffer
  <2>1. i \in 1..n
    BY <1>2
  <2>2. CASE j = n + 1
    <3>1. logged[i] # pair
      BY <1>2, <2>1, <2>2, NewsIsNew DEF n
    <3> QED BY <1>2, <2>1, <2>2, <3>1
  <2>3. CASE j # n + 1
    <3>1. j \in 1..n
      BY <1>2, <2>3
    <3>2. logged[i] # logged[j]
      BY <2>1, <3>1 DEF TableInv, NearbyEventsDiffer, n
    <3> QED BY <1>2, <2>1, <3>1, <3>2
  <2> QED BY <2>2, <2>3
<1>10. OverridesAreReported'
  <2>1. DOMAIN logged = 1..n /\ DOMAIN logged' = 1..(n + 1)
    BY <1>2 DEF TableInv, TableTypeOK, n
  <2>2. ToSet(logged) \subseteq ToSet(logged')
    BY <1>2, <2>1 DEF ToSet
  <2>3. pair \in ToSet(logged')
    <3>1. n + 1 \in DOMAIN logged'
      BY <1>2, <2>1
    <3> QED BY <1>2, <3>1 DEF ToSet
  <2>4. asked \subseteq ToSet(logged)
    BY DEF TableInv, OverridesAreReported
  <2> QED BY <1>1, <2>2, <2>3, <2>4 DEF OverridesAreReported
<1> QED BY <1>6, <1>8, <1>9, <1>10 DEF TableInv

\* The table is the end of the log, and its reach is free of repetitions.
THEOREM TableInvariant == TableSpec => []TableInv
<1>1. TableInit => TableInv
  <2> SUFFICES ASSUME TableInit PROVE TableInv
    OBVIOUS
  <2>1. /\ seen = <<>> /\ logged = <<>> /\ asked = {}
        /\ <<>> \in Seq(Pairs) /\ Len(<<>>) = 0
    BY DEF TableInit
  <2>2. DedupeMax \in Nat /\ 0 < DedupeMax
    BY TableAssumption
  <2>3. TableTypeOK
    BY <2>1, <2>2 DEF TableTypeOK
  <2>4. TableIsTheEnd /\ NearbyEventsDiffer
    BY <2>1, <2>2 DEF TableIsTheEnd, NearbyEventsDiffer
  <2>5. OverridesAreReported
    BY <2>1 DEF OverridesAreReported
  <2> QED BY <2>3, <2>4, <2>5 DEF TableInv
<1>2. TableInv /\ [TableNext]_tableVars => TableInv'
  <2> SUFFICES ASSUME TableInv, [TableNext]_tableVars PROVE TableInv'
    OBVIOUS
  <2>1. ASSUME NEW pair \in Pairs, Call(pair) PROVE TableInv'
    BY <2>1, OldCall, NewCall
  <2>2. CASE UNCHANGED tableVars
    BY <2>2 DEF tableVars, TableInv, TableTypeOK, TableIsTheEnd, NearbyEventsDiffer,
                OverridesAreReported
  <2> QED BY <2>1, <2>2 DEF TableNext
<1> QED BY <1>1, <1>2, PTL DEF TableSpec

\* Every model a session has called by name is in the log.
THEOREM OverridesAreReportedHolds == TableSpec => []OverridesAreReported
<1>1. TableInv => OverridesAreReported
  BY DEF TableInv
<1> QED BY <1>1, TableInvariant, PTL

\* The entries of a stretch of the log without repetitions are as many as it is long.
LEMMA StretchesAreSpread ==
    ASSUME TableInv, NEW a \in Nat, a + DedupeMax <= Len(logged)
    PROVE  LET stretch == {logged[m] : m \in (a+1)..(a+DedupeMax)}
           IN  IsFiniteSet(stretch) /\ Cardinality(stretch) = DedupeMax
<1> DEFINE places == (a+1)..(a+DedupeMax)
           stretch == {logged[m] : m \in places}
           f == [m \in places |-> logged[m]]
<1>1. DedupeMax \in Nat \ {0} /\ Len(logged) \in Nat
  BY TableAssumption DEF TableInv, TableTypeOK
<1>2. IsFiniteSet(places) /\ Cardinality(places) = DedupeMax
  <2>1. a + 1 \in Int /\ a + DedupeMax \in Int /\ ~(a + 1 > a + DedupeMax)
        /\ a + DedupeMax - (a + 1) + 1 = DedupeMax
    BY <1>1
  <2> DEFINE b == a + DedupeMax
  <2> HIDE DEF b
  <2>2. b \in Int
    BY <1>1 DEF b
  <2>3. IsFiniteSet((a+1)..b) /\ Cardinality((a+1)..b) = b - (a+1) + 1
    BY <2>1, <2>2, FS_Interval DEF b
  <2> QED BY <1>1, <2>3 DEF b
<1>3. ASSUME NEW i \in places, NEW j \in places, i < j
      PROVE  logged[i] # logged[j]
  <2>1. i \in 1..Len(logged) /\ j \in 1..Len(logged) /\ j - i <= DedupeMax
    BY <1>1
  <2> QED BY <1>3, <2>1 DEF TableInv, NearbyEventsDiffer
<1>4. f \in Bijection(places, stretch)
  <2>1. f \in [places -> stretch]
    OBVIOUS
  <2>2. ASSUME NEW i \in places, NEW j \in places, f[i] = f[j]
        PROVE  i = j
    <3>1. i \in Nat /\ j \in Nat /\ logged[i] = logged[j]
      BY <1>1, <2>2
    <3>2. ~(i < j) /\ ~(j < i)
      BY <1>3, <3>1
    <3> QED BY <3>1, <3>2
  <2>3. \A x \in stretch : \E i \in places : f[i] = x
    OBVIOUS
  <2> HIDE DEF f, places, stretch
  <2>4. f \in Injection(places, stretch)
    BY <2>1, <2>2 DEF Injection, IsInjective
  <2>5. f \in Surjection(places, stretch)
    BY <2>1, <2>3 DEF Surjection
  <2> QED BY <2>4, <2>5 DEF Bijection
<1>5. ExistsBijection(places, stretch)
  BY <1>4 DEF ExistsBijection
<1> HIDE DEF places, stretch
<1>6. IsFiniteSet(stretch) /\ Cardinality(stretch) = Cardinality(places)
  BY <1>2, <1>5, FS_Bijection
<1> QED BY <1>2, <1>6 DEF places, stretch

\* hook.py:276, "log once per session+model": between two events of one pair there are
\* events of DedupeMax other pairs.
THEOREM RepeatsAreSpacedHolds == TableSpec => []RepeatsAreSpaced
<1>1. TableInv => RepeatsAreSpaced
  <2> SUFFICES ASSUME TableInv, NEW i \in DOMAIN logged, NEW j \in DOMAIN logged,
                      i < j, logged[i] = logged[j]
               PROVE  Cardinality(ToSet(SubSeq(logged, i + 1, j - 1)) \ {logged[i]}) >= DedupeMax
    BY DEF RepeatsAreSpaced
  <2> DEFINE between == SubSeq(logged, i + 1, j - 1)
             others == ToSet(between) \ {logged[i]}
             stretch == {logged[m] : m \in (i+1)..(i+DedupeMax)}
  <2>1. /\ DedupeMax \in Nat \ {0} /\ Len(logged) \in Nat /\ logged \in Seq(Pairs)
        /\ i \in 1..Len(logged) /\ j \in 1..Len(logged)
    BY TableAssumption DEF TableInv, TableTypeOK
  <2>2. ~(j - i <= DedupeMax)
    BY <2>1 DEF TableInv, NearbyEventsDiffer
  <2>3. /\ between \in Seq(Pairs)
        /\ Len(between) = j - 1 - (i + 1) + 1
        /\ \A m \in 1..(j - 1 - (i + 1) + 1) : between[m] = logged[i + 1 + m - 1]
    <3>1. \A m \in (i+1)..(j-1) : logged[m] \in Pairs
      BY <2>1, ElementOfSeq
    <3>2. i + 1 \in Int /\ j - 1 \in Int /\ i + 1 <= j - 1
      BY <2>1, <2>2
    <3> QED BY <3>1, <3>2, SubSeqProperties
  <2>4. IsFiniteSet(ToSet(between))
    <3>1. between \in [1..Len(between) -> Pairs] /\ Len(between) \in Nat
      BY <2>3, LenProperties
    <3> HIDE DEF between
    <3>2. between \in Surjection(1..Len(between), ToSet(between))
      BY <3>1 DEF Surjection, ToSet
    <3>3. IsFiniteSet(1..Len(between))
      BY <3>1, FS_Interval
    <3> QED BY <3>2, <3>3, FS_Surjection
  <2>5. IsFiniteSet(stretch) /\ Cardinality(stretch) = DedupeMax
    <3>1. i \in Nat /\ i + DedupeMax <= Len(logged)
      BY <2>1, <2>2
    <3> QED BY <3>1, StretchesAreSpread
  <2>6. ASSUME NEW m \in (i+1)..(i+DedupeMax)
        PROVE  logged[m] \in others
    <3>1. m \in 1..Len(logged) /\ i < m /\ m - i <= DedupeMax
      BY <2>1, <2>2
    <3>2. logged[m] # logged[i]
      BY <2>1, <3>1 DEF TableInv, NearbyEventsDiffer
    <3>3. m - i \in 1..(j - 1 - (i + 1) + 1) /\ i + 1 + (m - i) - 1 = m
      <4>1. i \in Nat /\ j \in Nat /\ DedupeMax \in Nat
        BY <2>1
      <4> QED BY <2>2, <4>1
    <3>4. between[m - i] = logged[m]
      BY <2>3, <3>3
    <3>5. m - i \in DOMAIN between
      BY <2>3, <3>3, LenProperties
    <3> HIDE DEF between
    <3> QED BY <3>2, <3>4, <3>5 DEF ToSet
  <2>7. stretch \subseteq others
    BY <2>6
  <2> HIDE DEF between, stretch
  <2>8. IsFiniteSet(others) /\ Cardinality(others) \in Nat
    BY <2>4, FS_Subset, FS_CardinalityType
  <2> HIDE DEF others
  <2>9. Cardinality(stretch) <= Cardinality(others)
    BY <2>7, <2>8, FS_Subset
  <2> QED BY <2>1, <2>5, <2>8, <2>9 DEF others, between
<1> QED BY <1>1, TableInvariant, PTL
-----------------------------------------------------------------------------
(***************************************************************************)
(* Contents: nested blocks, and the texts in them.                         *)
(***************************************************************************)

\* A content is a text or has blocks, which are nested less deeply than it is.
LEMMA ContentShape ==
    ASSUME NEW content \in Contents
    PROVE  /\ MaxNesting \in Nat /\ Nesting[content] \in 0..MaxNesting
           /\ content.text \in Seq(STRING)
           /\ content.parts \in Seq(Contents)
           /\ content.kind = "text" => content.parts = <<>>
           /\ content.kind # "text" => content.text = <<>>
           /\ \A i \in DOMAIN content.parts :
                 /\ content.parts[i] \in Contents
                 /\ Nesting[content.parts[i]] < Nesting[content]
<1>1. MaxNesting \in Nat /\ Nesting[content] \in 0..MaxNesting
  BY ContentAssumption
<1>2. CASE content = Text(content.text) /\ content.text \in Seq(STRING)
  <2>1. content.kind = "text" /\ content.parts = <<>>
    BY <1>2 DEF Text
  <2> QED BY <1>1, <1>2, <2>1
<1>3. CASE /\ content = Blocks(content.parts) /\ content.parts \in Seq(Contents)
           /\ \A i \in DOMAIN content.parts : Nesting[content.parts[i]] < Nesting[content]
  <2>1. content.kind = "blocks" /\ content.text = <<>>
    BY <1>3 DEF Blocks
  <2>2. \A i \in DOMAIN content.parts : content.parts[i] \in Contents
    BY <1>3
  <2> QED BY <1>1, <1>3, <2>1, <2>2
<1> QED BY <1>2, <1>3, ContentAssumption

\* What holds of a content whenever it holds of its blocks, holds of every content.
LEMMA NestedInduction ==
    ASSUME NEW T,
           \A content \in Contents :
               (\A i \in DOMAIN content.parts : content.parts[i] \in T) => content \in T
    PROVE  Contents \subseteq T
<1> DEFINE U == {d \in 0..(MaxNesting + 1) :
                    \A content \in Contents : Nesting[content] < d => content \in T}
<1>1. MaxNesting + 1 \in Nat /\ 0 \in 0..(MaxNesting + 1)
  BY ContentAssumption
<1>2. 0 \in U
  BY <1>1, ContentShape
<1>3. ASSUME NEW d \in 0..(MaxNesting + 1), d \in U, d < MaxNesting + 1
      PROVE  d + 1 \in U
  <2>1. ASSUME NEW content \in Contents, Nesting[content] < d + 1
        PROVE  content \in T
    <3>1. ASSUME NEW i \in DOMAIN content.parts
          PROVE  content.parts[i] \in T
      <4>1. /\ content.parts[i] \in Contents
            /\ Nesting[content.parts[i]] < Nesting[content]
            /\ Nesting[content] \in Nat
        BY ContentShape
      <4>2. Nesting[content.parts[i]] \in Nat
        BY <4>1, ContentShape
      <4>3. Nesting[content.parts[i]] < d
        BY <2>1, <4>1, <4>2
      <4> QED BY <1>3, <4>1, <4>3
    <3> QED BY <3>1
  <2>2. d + 1 \in 0..(MaxNesting + 1)
    BY <1>1, <1>3
  <2> QED BY <2>1, <2>2
<1>4. MaxNesting + 1 \in U
  <2> HIDE DEF U
  <2> QED BY <1>1, <1>2, <1>3, IntervalInduction
<1>5. ASSUME NEW content \in Contents PROVE content \in T
  <2>1. Nesting[content] < MaxNesting + 1
    BY ContentShape
  <2> QED BY <1>4, <2>1
<1> QED BY <1>5

\* body looks at a function over contents only at the blocks of the content in question.
LooksAtBlocks(body, V) ==
    \A content \in Contents : \A g, h \in [Contents -> V] :
        (\A i \in DOMAIN content.parts : g[content.parts[i]] = h[content.parts[i]])
            => body[content][g] = body[content][h]

\* f is defined by body from its values at blocks.
Recurs(f, body) == \A content \in Contents : f[content] = body[content][f]

\* Such a function exists.
LEMMA NestedRecursion ==
    ASSUME NEW V, NEW v \in V, NEW body \in [Contents -> [[Contents -> V] -> V]],
           LooksAtBlocks(body, V)
    PROVE  \E f \in [Contents -> V] : Recurs(f, body)
<1> DEFINE Solves(g, d) ==
               \A content \in Contents : Nesting[content] < d => g[content] = body[content][g]
           U == {d \in 0..(MaxNesting + 1) : \E g \in [Contents -> V] : Solves(g, d)}
<1>1. MaxNesting + 1 \in Nat /\ 0 \in 0..(MaxNesting + 1)
  BY ContentAssumption
<1>2. 0 \in U
  <2> DEFINE g == [content \in Contents |-> v]
  <2>1. g \in [Contents -> V]
    OBVIOUS
  <2>2. Solves(g, 0)
    BY ContentShape
  <2> HIDE DEF g, Solves
  <2> QED BY <1>1, <2>1, <2>2
<1>3. ASSUME NEW d \in 0..(MaxNesting + 1), d \in U, d < MaxNesting + 1
      PROVE  d + 1 \in U
  <2>1. PICK g \in [Contents -> V] : Solves(g, d)
    BY <1>3
  <2> DEFINE h == [content \in Contents |-> body[content][g]]
  <2>2. h \in [Contents -> V]
    OBVIOUS
  <2>3. ASSUME NEW content \in Contents, Nesting[content] < d + 1
        PROVE  h[content] = body[content][h]
    <3>1. ASSUME NEW i \in DOMAIN content.parts
          PROVE  g[content.parts[i]] = h[content.parts[i]]
      <4>1. /\ content.parts[i] \in Contents
            /\ Nesting[content.parts[i]] < Nesting[content]
            /\ Nesting[content] \in Nat
        BY ContentShape
      <4>2. Nesting[content.parts[i]] \in Nat
        BY <4>1, ContentShape
      <4>3. Nesting[content.parts[i]] < d
        BY <2>3, <4>1, <4>2
      <4> QED BY <2>1, <4>1, <4>3
    <3>2. body[content][g] = body[content][h]
      <4> HIDE DEF h
      <4> QED BY <2>2, <3>1 DEF LooksAtBlocks
    <3> QED BY <3>2
  <2>4. Solves(h, d + 1)
    BY <2>3
  <2>5. d + 1 \in 0..(MaxNesting + 1)
    BY <1>1, <1>3
  <2> HIDE DEF h, Solves
  <2> QED BY <2>2, <2>4, <2>5
<1>4. MaxNesting + 1 \in U
  <2> HIDE DEF U
  <2> QED BY <1>1, <1>2, <1>3, IntervalInduction
<1>5. PICK g \in [Contents -> V] : Solves(g, MaxNesting + 1)
  BY <1>4
<1>6. \A content \in Contents : Nesting[content] < MaxNesting + 1
  BY ContentShape
<1> QED BY <1>5, <1>6 DEF Recurs
-----------------------------------------------------------------------------
(***************************************************************************)
(* Texts, cut and put together.                                            *)
(***************************************************************************)
Texts == Seq(STRING)

\* A text that is cut keeps its beginning.
LEMMA CutShape ==
    ASSUME NEW s \in Texts, NEW n \in Nat
    PROVE  /\ Cut(s, n) \in Texts
           /\ Len(Cut(s, n)) = IF Len(s) < n THEN Len(s) ELSE n
           /\ \A i \in 1..Len(Cut(s, n)) : Cut(s, n)[i] = s[i]
<1> DEFINE m == IF Len(s) < n THEN Len(s) ELSE n
<1>1. Len(s) \in Nat /\ m \in 0..Len(s)
  BY DEF Texts
<1>2. \A i \in 1..m : s[i] \in STRING
  BY <1>1, ElementOfSeq DEF Texts
<1>3. Cut(s, n) = SubSeq(s, 1, m)
  BY DEF Cut
<1> HIDE DEF m
<1>4. /\ SubSeq(s, 1, m) \in Seq(STRING)
      /\ Len(SubSeq(s, 1, m)) = m
      /\ \A i \in 1..m : SubSeq(s, 1, m)[i] = s[i]
  <2>1. CASE m = 0
    BY <2>1, <1>1 DEF Texts
  <2>2. CASE m # 0
    BY <1>1, <1>2, <2>2, SubSeqProperties DEF Texts
  <2> QED BY <2>1, <2>2
<1> QED BY <1>3, <1>4 DEF m, Texts

\* Texts of one length with the same words are the same.
LEMMA SameTexts ==
    ASSUME NEW s \in Texts, NEW t \in Texts, Len(s) = Len(t),
           \A i \in 1..Len(s) : s[i] = t[i]
    PROVE  s = t
BY SeqEqual DEF Texts

\* Two texts, end to end.
LEMMA JoinShape ==
    ASSUME NEW s \in Texts, NEW t \in Texts
    PROVE  /\ s \o t \in Texts
           /\ Len(s) \in Nat /\ Len(t) \in Nat
           /\ Len(s \o t) = Len(s) + Len(t)
           /\ \A i \in 1..Len(s) : (s \o t)[i] = s[i]
           /\ \A i \in (Len(s) + 1)..(Len(s) + Len(t)) : (s \o t)[i] = t[i - Len(s)]
BY DEF Texts

\* A text within the limit is not cut.
LEMMA CutWhole ==
    ASSUME NEW s \in Texts, NEW n \in Nat, Len(s) <= n
    PROVE  Cut(s, n) = s
<1>1. Len(s) \in Nat
  BY JoinShape
<1>2. Len(Cut(s, n)) = Len(s)
  BY <1>1, CutShape
<1> QED BY <1>1, <1>2, CutShape, SameTexts

\* The cut falls into the first of two texts.
LEMMA CutBefore ==
    ASSUME NEW s \in Texts, NEW t \in Texts, NEW n \in Nat, Len(s) >= n
    PROVE  Cut(s \o t, n) = Cut(s, n)
<1> DEFINE whole == s \o t
<1>1. /\ whole \in Texts /\ Len(s) \in Nat /\ Len(t) \in Nat
      /\ Len(whole) = Len(s) + Len(t)
      /\ \A i \in 1..Len(s) : whole[i] = s[i]
  BY JoinShape
<1> HIDE DEF whole
<1>2. /\ Cut(whole, n) \in Texts /\ Len(Cut(whole, n)) = n
      /\ \A i \in 1..n : Cut(whole, n)[i] = whole[i]
  BY <1>1, CutShape
<1>3. /\ Cut(s, n) \in Texts /\ Len(Cut(s, n)) = n
      /\ \A i \in 1..n : Cut(s, n)[i] = s[i]
  BY <1>1, CutShape
<1>4. Cut(whole, n) = Cut(s, n)
  BY <1>1, <1>2, <1>3, SameTexts
<1> QED BY <1>4 DEF whole

\* The cut falls into the second.
LEMMA CutBehind ==
    ASSUME NEW s \in Texts, NEW t \in Texts, NEW n \in Nat, Len(s) <= n
    PROVE  Cut(s \o t, n) = s \o Cut(t, n - Len(s))
<1> DEFINE whole == s \o t
           rest == Cut(t, n - Len(s))
           other == s \o rest
<1>1. /\ whole \in Texts /\ Len(s) \in Nat /\ Len(t) \in Nat /\ n - Len(s) \in Nat
      /\ Len(whole) = Len(s) + Len(t)
      /\ \A i \in 1..Len(s) : whole[i] = s[i]
      /\ \A i \in (Len(s) + 1)..(Len(s) + Len(t)) : whole[i] = t[i - Len(s)]
  BY JoinShape
<1>2. /\ rest \in Texts
      /\ Len(rest) = IF Len(t) < n - Len(s) THEN Len(t) ELSE n - Len(s)
      /\ \A i \in 1..Len(rest) : rest[i] = t[i]
  BY <1>1, CutShape
<1> HIDE DEF rest
<1>3. /\ other \in Texts /\ Len(rest) \in Nat
      /\ Len(other) = Len(s) + Len(rest)
      /\ \A i \in 1..Len(s) : other[i] = s[i]
      /\ \A i \in (Len(s) + 1)..(Len(s) + Len(rest)) : other[i] = rest[i - Len(s)]
  BY <1>2, JoinShape
<1> HIDE DEF whole, other
<1>4. /\ Cut(whole, n) \in Texts
      /\ Len(Cut(whole, n)) = IF Len(whole) < n THEN Len(whole) ELSE n
      /\ \A i \in 1..Len(Cut(whole, n)) : Cut(whole, n)[i] = whole[i]
  BY <1>1, CutShape
<1>5. Len(Cut(whole, n)) = Len(other)
  BY <1>1, <1>2, <1>3, <1>4
<1>6. ASSUME NEW i \in 1..Len(other) PROVE whole[i] = other[i]
  <2>1. CASE i <= Len(s)
    BY <1>1, <1>3, <2>1
  <2>2. CASE i > Len(s)
    <3>1. i - Len(s) \in 1..Len(rest) /\ Len(rest) <= Len(t)
      BY <1>1, <1>2, <1>3, <2>2
    <3>2. i \in (Len(s) + 1)..(Len(s) + Len(rest)) /\ i \in (Len(s) + 1)..(Len(s) + Len(t))
      BY <1>1, <1>3, <2>2, <3>1
    <3>3. rest[i - Len(s)] = t[i - Len(s)]
      BY <1>2, <3>1
    <3> QED BY <1>1, <1>3, <3>2, <3>3
  <2>3. Len(s) \in Nat /\ i \in Int
    BY <1>1, <1>3
  <2> QED BY <2>1, <2>2, <2>3
<1>7. Cut(whole, n) = other
  BY <1>3, <1>4, <1>5, <1>6, SameTexts
<1> QED BY <1>7 DEF whole, other, rest

\* u is what has been put together after each of some texts.
Joins(u, texts) ==
    /\ u \in [0..Len(texts) -> Texts]
    /\ u[0] = <<>>
    /\ \A i \in 1..Len(texts) : u[i] = u[i-1] \o texts[i]

\* FlattenSeq puts texts together, one after another.
LEMMA FlattenSeqJoins ==
    ASSUME NEW texts \in Seq(Texts)
    PROVE  \E u : Joins(u, texts) /\ FlattenSeq(texts) = u[Len(texts)]
<1> DEFINE n == Len(texts)
           More(i, s) == s \o texts[i]
           step == [i \in 2..n |-> [s \in Texts |-> More(i, s)]]
           Unrolls(f) == f = [i \in 1..n |-> IF i = 1 THEN texts[i] ELSE More(i, f[i-1])]
<1>1. n \in Nat /\ <<>> \in Texts
  BY DEF Texts
<1>2. \A i \in 1..n : texts[i] \in Texts
  BY <1>1, ElementOfSeq
<1>3. CASE n = 0
  <2> DEFINE u == [i \in 0..0 |-> <<>>]
  <2>1. Joins(u, texts)
    BY <1>1, <1>3 DEF Joins
  <2>2. FlattenSeq(texts) = texts /\ texts = <<>>
    BY <1>3 DEF FlattenSeq
  <2>3. u[n] = <<>>
    BY <1>3
  <2> HIDE DEF u
  <2> QED BY <2>1, <2>2, <2>3
<1>4. CASE n # 0
  <2>1. 1 \in Nat /\ 1 <= n /\ texts[1] \in Texts
    BY <1>1, <1>2, <1>4
  <2>2. \A i \in 1..n, s \in Texts : More(i, s) \in Texts
    BY <1>2, JoinShape
  <2> HIDE DEF More
  <2>3. step \in [(1+1)..n -> [Texts -> Texts]] /\ 1 + 1 = 2
    BY <1>1, <2>2
  <2>4. \A i \in 2..n, s \in Texts : step[i][s] = More(i, s)
    OBVIOUS
  <2> HIDE DEF step
  <2>5. PICK f : Follows(f, 1, n, texts[1], step)
    BY <1>1, <2>1, <2>3, IntervalRecursion
  <2>6. f \in [1..n -> Texts]
    BY <1>1, <2>1, <2>3, <2>5, IntervalRecursion
  <2>7. ASSUME NEW i \in 1..n
        PROVE  f[i] = IF i = 1 THEN texts[i] ELSE More(i, f[i-1])
    <3>1. f[i] = IF i = 1 THEN texts[1] ELSE step[i][f[i-1]]
      BY <2>5 DEF Follows
    <3>2. ASSUME i # 1 PROVE i \in 2..n /\ f[i-1] \in Texts
      <4>1. i \in 2..n /\ i - 1 \in 1..n
        BY <1>1, <3>2
      <4> QED BY <4>1, <2>6
    <3> QED BY <2>4, <3>1, <3>2
  <2>8. \E g : Unrolls(g)
    <3>1. \A i \in 1..n : f[i] = IF i = 1 THEN texts[i] ELSE More(i, f[i-1])
      BY <2>7, Zenon
    <3>2. f = [i \in 1..n |-> f[i]]
      BY <2>6
    <3>3. Unrolls(f)
      BY <3>1, <3>2, Zenon
    <3> QED BY <3>3, Zenon
  <2> DEFINE g == CHOOSE g : Unrolls(g)
  <2>9. Unrolls(g)
    BY <2>8
  <2>10. FlattenSeq(texts) = g[n]
    BY <1>4 DEF FlattenSeq, More
  <2> HIDE DEF g
  <2>11. g[1] = texts[1] /\ \A i \in 2..n : g[i] = More(i, g[i-1])
    BY <1>1, <2>1, <2>9
  <2>12. \A i \in 1..n : g[i] \in Texts
    <3> DEFINE U == {m \in 1..n : g[m] \in Texts}
    <3>1. 1 \in U
      BY <1>1, <2>1, <2>11
    <3>2. ASSUME NEW m \in 1..n, m \in U, m < n PROVE m + 1 \in U
      <4>1. m + 1 \in 2..n /\ m + 1 - 1 = m /\ m + 1 \in 1..n
        BY <1>1, <3>2
      <4>2. g[m+1] = More(m + 1, g[m])
        BY <2>11, <4>1
      <4> QED BY <2>2, <3>2, <4>1, <4>2
    <3>3. \A m \in 1..n : m \in U
      <4> HIDE DEF U
      <4> QED BY <1>1, <2>1, <3>1, <3>2, IntervalInduction
    <3> QED BY <3>3
  <2> DEFINE u == [i \in 0..n |-> IF i = 0 THEN <<>> ELSE g[i]]
  <2>13. u \in [0..n -> Texts] /\ u[0] = <<>> /\ u[n] = g[n]
    BY <1>1, <1>4, <2>12
  <2>14. ASSUME NEW i \in 1..n PROVE u[i] = u[i-1] \o texts[i]
    <3>1. CASE i = 1
      <4>1. <<>> \o texts[1] = texts[1]
        BY <2>1 DEF Texts
      <4>2. 1 \in 0..n /\ 0 \in 0..n /\ 1 - 1 = 0
        BY <1>1, <2>1
      <4>3. u[1] = g[1] /\ u[0] = <<>>
        BY <4>2
      <4> HIDE DEF u
      <4> QED BY <2>11, <3>1, <4>1, <4>2, <4>3
    <3>2. CASE i # 1
      <4>1. i \in 2..n /\ i - 1 \in 0..n /\ i \in 0..n /\ i - 1 # 0 /\ i # 0
        BY <1>1, <3>2
      <4>2. u[i] = g[i] /\ u[i-1] = g[i-1]
        BY <4>1
      <4> HIDE DEF u
      <4> QED BY <2>11, <4>1, <4>2 DEF More
    <3> QED BY <3>1, <3>2
  <2> HIDE DEF u
  <2>15. Joins(u, texts)
    BY <2>13, <2>14 DEF Joins
  <2> QED BY <2>10, <2>13, <2>15
<1> QED BY <1>3, <1>4

\* What a block yields under each limit.
Yield == [Nat -> Texts]

\* u is what has been gathered under a limit after each of some blocks.
Gathers(u, texts, limit) ==
    /\ u \in [0..Len(texts) -> Texts]
    /\ u[0] = <<>>
    /\ \A i \in 1..Len(texts) :
          u[i] = IF Len(u[i-1]) >= limit THEN u[i-1]
                 ELSE u[i-1] \o texts[i][limit - Len(u[i-1])]

\* session_key.py:58-72: the loop over the blocks computes that.
LEMMA GatherGathers ==
    ASSUME NEW texts \in Seq(Yield), NEW limit \in Nat
    PROVE  \E u : Gathers(u, texts, limit) /\ Gather(texts, limit) = u[Len(texts)]
<1> DEFINE n == Len(texts)
           More(i, s) == IF Len(s) >= limit THEN s ELSE s \o texts[i][limit - Len(s)]
           step == [i \in 1..n |-> [s \in Texts |-> More(i, s)]]
           Unrolls(f) == f = [i \in 0..n |-> IF i = 0 THEN <<>> ELSE More(i, f[i-1])]
<1>1. n \in Nat /\ 0 \in Nat /\ 0 <= n /\ <<>> \in Texts
  BY DEF Texts
<1>2. ASSUME NEW i \in 1..n, NEW s \in Texts PROVE More(i, s) \in Texts
  <2>1. texts[i] \in Yield /\ Len(s) \in Nat
    BY <1>1, ElementOfSeq, JoinShape
  <2>2. CASE Len(s) >= limit
    BY <2>2
  <2>3. CASE ~(Len(s) >= limit)
    <3>1. limit - Len(s) \in Nat
      BY <2>1, <2>3
    <3>2. texts[i][limit - Len(s)] \in Texts
      BY <2>1, <3>1 DEF Yield
    <3> QED BY <2>3, <3>2, JoinShape
  <2> QED BY <2>2, <2>3
<1> HIDE DEF More
<1>3. step \in [(0+1)..n -> [Texts -> Texts]] /\ 0 + 1 = 1
  BY <1>2
<1>4. \A i \in 1..n, s \in Texts : step[i][s] = More(i, s)
  OBVIOUS
<1> HIDE DEF step
<1>5. PICK f : Follows(f, 0, n, <<>>, step)
  BY <1>1, <1>3, IntervalRecursion
<1>6. f \in [0..n -> Texts]
  BY <1>1, <1>3, <1>5, IntervalRecursion
<1>7. ASSUME NEW i \in 0..n
      PROVE  f[i] = IF i = 0 THEN <<>> ELSE More(i, f[i-1])
  <2>1. f[i] = IF i = 0 THEN <<>> ELSE step[i][f[i-1]]
    BY <1>5 DEF Follows
  <2>2. ASSUME i # 0 PROVE i \in 1..n /\ f[i-1] \in Texts
    <3>1. i \in 1..n /\ i - 1 \in 0..n
      BY <1>1, <2>2
    <3> QED BY <3>1, <1>6
  <2> QED BY <1>4, <2>1, <2>2
<1>8. \E g : Unrolls(g)
  <2>1. \A i \in 0..n : f[i] = IF i = 0 THEN <<>> ELSE More(i, f[i-1])
    BY <1>7, Zenon
  <2>2. f = [i \in 0..n |-> f[i]]
    BY <1>6
  <2>3. Unrolls(f)
    BY <2>1, <2>2, Zenon
  <2> QED BY <2>3, Zenon
<1> DEFINE g == CHOOSE g : Unrolls(g)
<1>9. Unrolls(g)
  BY <1>8
<1>10. Gather(texts, limit) = g[n]
  BY DEF Gather, More
<1> HIDE DEF g
<1>11. g[0] = <<>> /\ \A i \in 1..n : g[i] = More(i, g[i-1])
  BY <1>1, <1>9
<1>12. \A i \in 0..n : g[i] \in Texts
  <2> DEFINE U == {m \in 0..n : g[m] \in Texts}
  <2>1. 0 \in U
    BY <1>1, <1>11
  <2>2. ASSUME NEW m \in 0..n, m \in U, m < n PROVE m + 1 \in U
    <3>1. m + 1 \in 1..n /\ m + 1 - 1 = m /\ m + 1 \in 0..n
      BY <1>1, <2>2
    <3>2. g[m+1] = More(m + 1, g[m])
      BY <1>11, <3>1
    <3> QED BY <1>2, <2>2, <3>1, <3>2
  <2>3. \A m \in 0..n : m \in U
    <3> HIDE DEF U
    <3> QED BY <1>1, <2>1, <2>2, IntervalInduction
  <2> QED BY <2>3
<1>13. g \in [0..n -> Texts]
  <2>1. g = [i \in 0..n |-> g[i]]
    BY <1>9
  <2> QED BY <1>12, <2>1
<1>14. Gathers(g, texts, limit)
  BY <1>11, <1>13 DEF Gathers, More
<1> QED BY <1>10, <1>14
\* session_key.py:58-72: when every block yields the beginning of its text, the loop over
\* them yields the beginning of their texts, one after another.
LEMMA GatherIsCut ==
    ASSUME NEW texts \in Seq(Yield), NEW whole \in Seq(Texts), Len(texts) = Len(whole),
           \A i \in 1..Len(whole), m \in Nat : texts[i][m] = Cut(whole[i], m),
           NEW limit \in Nat
    PROVE  /\ FlattenSeq(whole) \in Texts
           /\ Gather(texts, limit) = Cut(FlattenSeq(whole), limit)
<1> DEFINE n == Len(whole)
<1>1. n \in Nat /\ n = Len(texts)
  OBVIOUS
<1>2. PICK u : Gathers(u, texts, limit) /\ Gather(texts, limit) = u[n]
  BY <1>1, GatherGathers
<1>3. PICK w : Joins(w, whole) /\ FlattenSeq(whole) = w[n]
  BY FlattenSeqJoins
<1> DEFINE U == {i \in 0..n : u[i] = Cut(w[i], limit)}
<1>4. /\ u[0] = <<>> /\ w[0] = <<>>
      /\ \A i \in 0..n : u[i] \in Texts /\ w[i] \in Texts
  BY <1>1, <1>2, <1>3 DEF Gathers, Joins
<1>5. 0 \in U
  <2>1. <<>> \in Texts /\ Len(<<>>) <= limit
    BY DEF Texts
  <2>2. Cut(<<>>, limit) = <<>>
    BY <2>1, CutWhole
  <2> QED BY <1>1, <1>4, <2>2
<1>6. ASSUME NEW i \in 0..n, i \in U, i < n PROVE i + 1 \in U
  <2>1. i + 1 \in 1..n /\ i + 1 - 1 = i /\ i + 1 \in 0..n
    BY <1>1, <1>6
  <2> DEFINE block == whole[i+1]
  <2>2. /\ u[i+1] = IF Len(u[i]) >= limit THEN u[i] ELSE u[i] \o texts[i+1][limit - Len(u[i])]
        /\ w[i+1] = w[i] \o block
    <3> HIDE DEF n
    <3>1. i + 1 \in 1..Len(texts) /\ i + 1 \in 1..Len(whole) /\ i = i + 1 - 1
      BY <1>1, <2>1 DEF n
    <3>2. \A j \in 1..Len(texts) :
             u[j] = IF Len(u[j-1]) >= limit THEN u[j-1]
                    ELSE u[j-1] \o texts[j][limit - Len(u[j-1])]
      BY <1>2 DEF Gathers
    <3>3. \A j \in 1..Len(whole) : w[j] = w[j-1] \o whole[j]
      BY <1>3 DEF Joins
    <3>4. PICK j \in 1..Len(whole) : j = i + 1 /\ j - 1 = i
      BY <3>1
    <3>5. /\ u[j] = IF Len(u[i]) >= limit THEN u[i] ELSE u[i] \o texts[j][limit - Len(u[i])]
          /\ w[j] = w[i] \o whole[j]
      BY <1>1, <3>2, <3>3, <3>4
    <3> QED BY <3>4, <3>5
  <2>3. /\ w[i] \in Texts /\ block \in Texts /\ Len(w[i]) \in Nat
        /\ u[i] = Cut(w[i], limit)
    BY <1>4, <1>6, <2>1, ElementOfSeq, JoinShape
  <2>4. Len(u[i]) = IF Len(w[i]) < limit THEN Len(w[i]) ELSE limit
    BY <2>3, CutShape
  <2> HIDE DEF block
  <2>5. u[i+1] = Cut(w[i+1], limit)
    <3>1. CASE Len(w[i]) >= limit
      <4>1. Len(u[i]) >= limit
        BY <2>3, <2>4, <3>1
      <4>2. Cut(w[i] \o block, limit) = Cut(w[i], limit)
        BY <2>3, <3>1, CutBefore
      <4> QED BY <2>2, <2>3, <4>1, <4>2
    <3>2. CASE Len(w[i]) < limit
      <4>1. u[i] = w[i] /\ ~(Len(u[i]) >= limit)
        BY <2>3, <3>2, CutWhole
      <4>2. Cut(w[i] \o block, limit) = w[i] \o Cut(block, limit - Len(w[i]))
        <5>1. Len(w[i]) <= limit
          BY <2>3, <3>2
        <5> QED BY <2>3, <5>1, CutBehind
      <4>3. limit - Len(w[i]) \in Nat
        BY <2>3, <3>2
      <4>4. texts[i+1][limit - Len(w[i])] = Cut(block, limit - Len(w[i]))
        BY <2>1, <4>3 DEF block
      <4> QED BY <2>2, <4>1, <4>2, <4>4
    <3> QED BY <2>3, <3>1, <3>2
  <2> QED BY <2>1, <2>5
<1>7. \A i \in 0..n : i \in U
  <2> HIDE DEF U, n
  <2> QED BY <1>1, <1>5, <1>6, IntervalInduction
<1>8. n \in 0..n
  BY <1>1
<1> QED BY <1>2, <1>3, <1>4, <1>7, <1>8
\* What a function over contents says of the blocks of one.
OfBlocks(content, g) == [i \in DOMAIN content.parts |-> g[content.parts[i]]]

\* It is a sequence, one thing for each block.
LEMMA OfBlocksShape ==
    ASSUME NEW V, NEW content \in Contents, NEW g \in [Contents -> V]
    PROVE  /\ OfBlocks(content, g) \in Seq(V)
           /\ Len(OfBlocks(content, g)) = Len(content.parts)
           /\ \A i \in 1..Len(content.parts) :
                 /\ i \in DOMAIN content.parts
                 /\ content.parts[i] \in Contents
                 /\ OfBlocks(content, g)[i] = g[content.parts[i]]
<1>1. /\ content.parts \in Seq(Contents)
      /\ \A i \in DOMAIN content.parts : content.parts[i] \in Contents
  BY ContentShape
<1> DEFINE parts == content.parts
           n == Len(parts)
<1>2. n \in Nat /\ DOMAIN parts = 1..n
  BY <1>1
<1>3. OfBlocks(content, g) = [i \in 1..n |-> g[parts[i]]]
  BY <1>2 DEF OfBlocks
<1>4. \A i \in 1..n : parts[i] \in Contents
  BY <1>1, <1>2
<1> HIDE DEF parts
<1>5. [i \in 1..n |-> g[parts[i]]] \in [1..n -> V]
  BY <1>4
<1> HIDE DEF n
<1>6. [i \in 1..n |-> g[parts[i]]] \in Seq(V)
  BY <1>2, <1>5
<1>7. Len([i \in 1..n |-> g[parts[i]]]) = n
  BY <1>2, <1>5, <1>6
<1> QED BY <1>2, <1>3, <1>4, <1>6, <1>7 DEF n, parts

\* Functions that agree on the blocks of a content say the same of them.
LEMMA OfBlocksLocal ==
    ASSUME NEW content, NEW g, NEW h,
           \A i \in DOMAIN content.parts : g[content.parts[i]] = h[content.parts[i]]
    PROVE  OfBlocks(content, g) = OfBlocks(content, h)
BY DEF OfBlocks

\* What flatten_content makes of a content, if g is what it makes of its blocks.
FlattenBody(content, g) ==
    [limit \in Nat |-> IF content.kind = "text" THEN Cut(content.text, limit)
                       ELSE Gather(OfBlocks(content, g), limit)]

\* session_key.py:51-72: flattening comes to an end, with a text under each limit.
LEMMA FlattenUnfolds ==
    /\ Flatten \in [Contents -> Yield]
    /\ \A content \in Contents : Flatten[content] = FlattenBody(content, Flatten)
<1> DEFINE body == [content \in Contents |-> [g \in [Contents -> Yield] |-> FlattenBody(content, g)]]
           v == [limit \in Nat |-> <<>>]
           Solves(f) == f = [content \in Contents |-> FlattenBody(content, f)]
<1>1. v \in Yield
  BY DEF Yield, Texts
<1>2. ASSUME NEW content \in Contents, NEW g \in [Contents -> Yield]
      PROVE  FlattenBody(content, g) \in Yield
  <2>1. ASSUME NEW limit \in Nat
        PROVE  /\ Cut(content.text, limit) \in Texts
               /\ Gather(OfBlocks(content, g), limit) \in Texts
    <3>1. Cut(content.text, limit) \in Texts
      BY ContentShape, CutShape DEF Texts
    <3>2. OfBlocks(content, g) \in Seq(Yield) /\ Len(OfBlocks(content, g)) \in Nat
      BY OfBlocksShape
    <3>3. PICK u : /\ Gathers(u, OfBlocks(content, g), limit)
                   /\ Gather(OfBlocks(content, g), limit) = u[Len(OfBlocks(content, g))]
      BY <3>2, GatherGathers
    <3>4. u[Len(OfBlocks(content, g))] \in Texts
      BY <3>2, <3>3 DEF Gathers
    <3> QED BY <3>1, <3>3, <3>4
  <2> QED BY <2>1 DEF FlattenBody, Yield
<1>3. ASSUME NEW content \in Contents,
             NEW g \in [Contents -> Yield], NEW h \in [Contents -> Yield],
             \A i \in DOMAIN content.parts : g[content.parts[i]] = h[content.parts[i]]
      PROVE  FlattenBody(content, g) = FlattenBody(content, h)
  <2>1. OfBlocks(content, g) = OfBlocks(content, h)
    BY <1>3, OfBlocksLocal
  <2> QED BY <2>1 DEF FlattenBody
<1>4. body \in [Contents -> [[Contents -> Yield] -> Yield]]
  BY <1>2
<1>5. \A content \in Contents, g \in [Contents -> Yield] :
         body[content][g] = FlattenBody(content, g)
  OBVIOUS
<1>6. LooksAtBlocks(body, Yield)
  BY <1>3, <1>5 DEF LooksAtBlocks
<1> HIDE DEF body, v
<1>7. PICK f \in [Contents -> Yield] : \A content \in Contents : f[content] = body[content][f]
  <2>1. PICK g \in [Contents -> Yield] : Recurs(g, body)
    BY <1>1, <1>4, <1>6, NestedRecursion
  <2> QED BY <2>1 DEF Recurs
<1>8. \E g : Solves(g)
  <2>1. \A content \in Contents : f[content] = FlattenBody(content, f)
    BY <1>5, <1>7
  <2>2. f = [content \in Contents |-> f[content]]
    BY <1>7
  <2>3. Solves(f)
    BY <2>1, <2>2, Zenon
  <2> QED BY <2>3, Zenon
<1> DEFINE chosen == CHOOSE g : Solves(g)
<1>9. Solves(chosen)
  BY <1>8
<1>10. Flatten = chosen
  BY DEF Flatten, FlattenBody, OfBlocks
<1>11. \A content \in Contents : Flatten[content] = FlattenBody(content, Flatten)
  BY <1>9, <1>10
<1> DEFINE T == {content \in Contents : Flatten[content] = f[content]}
<1>12. ASSUME NEW content \in Contents, \A i \in DOMAIN content.parts : content.parts[i] \in T
       PROVE  content \in T
  <2>1. OfBlocks(content, Flatten) = OfBlocks(content, f)
    BY <1>12, OfBlocksLocal
  <2>2. FlattenBody(content, Flatten) = FlattenBody(content, f)
    BY <2>1 DEF FlattenBody
  <2> QED BY <1>5, <1>7, <1>11, <2>2
<1>13. Contents \subseteq T
  <2> HIDE DEF T
  <2> QED BY <1>12, NestedInduction
<1>14. Flatten = f
  BY <1>7, <1>9, <1>10, <1>13
<1> QED BY <1>11, <1>14
\* The words of a content, if g are those of its blocks.
FullTextBody(content, g) == content.text \o FlattenSeq(OfBlocks(content, g))

\* All the words of a content are a text, put together from those of its blocks.
LEMMA FullTextUnfolds ==
    /\ FullText \in [Contents -> Texts]
    /\ \A content \in Contents : FullText[content] = FullTextBody(content, FullText)
<1> DEFINE body == [content \in Contents |-> [g \in [Contents -> Texts] |-> FullTextBody(content, g)]]
           Solves(f) == f = [content \in Contents |-> FullTextBody(content, f)]
<1>1. <<>> \in Texts
  BY DEF Texts
<1>2. ASSUME NEW content \in Contents, NEW g \in [Contents -> Texts]
      PROVE  FullTextBody(content, g) \in Texts
  <2>1. OfBlocks(content, g) \in Seq(Texts) /\ Len(OfBlocks(content, g)) \in Nat
    BY OfBlocksShape
  <2>2. PICK u : /\ Joins(u, OfBlocks(content, g))
                 /\ FlattenSeq(OfBlocks(content, g)) = u[Len(OfBlocks(content, g))]
    BY <2>1, FlattenSeqJoins
  <2>3. FlattenSeq(OfBlocks(content, g)) \in Texts
    BY <2>1, <2>2 DEF Joins
  <2>4. content.text \in Texts
    BY ContentShape DEF Texts
  <2> QED BY <2>3, <2>4, JoinShape DEF FullTextBody
<1>3. ASSUME NEW content \in Contents,
             NEW g \in [Contents -> Texts], NEW h \in [Contents -> Texts],
             \A i \in DOMAIN content.parts : g[content.parts[i]] = h[content.parts[i]]
      PROVE  FullTextBody(content, g) = FullTextBody(content, h)
  <2>1. OfBlocks(content, g) = OfBlocks(content, h)
    BY <1>3, OfBlocksLocal
  <2> QED BY <2>1 DEF FullTextBody
<1>4. body \in [Contents -> [[Contents -> Texts] -> Texts]]
  BY <1>2
<1>5. \A content \in Contents, g \in [Contents -> Texts] :
         body[content][g] = FullTextBody(content, g)
  OBVIOUS
<1>6. LooksAtBlocks(body, Texts)
  BY <1>3, <1>5 DEF LooksAtBlocks
<1> HIDE DEF body
<1>7. PICK f \in [Contents -> Texts] : \A content \in Contents : f[content] = body[content][f]
  <2>1. PICK g \in [Contents -> Texts] : Recurs(g, body)
    BY <1>1, <1>4, <1>6, NestedRecursion
  <2> QED BY <2>1 DEF Recurs
<1>8. \E g : Solves(g)
  <2>1. \A content \in Contents : f[content] = FullTextBody(content, f)
    BY <1>5, <1>7
  <2>2. f = [content \in Contents |-> f[content]]
    BY <1>7
  <2>3. Solves(f)
    BY <2>1, <2>2, Zenon
  <2> QED BY <2>3, Zenon
<1> DEFINE chosen == CHOOSE g : Solves(g)
<1>9. Solves(chosen)
  BY <1>8
<1>10. FullText = chosen
  BY DEF FullText, FullTextBody, OfBlocks
<1>11. \A content \in Contents : FullText[content] = FullTextBody(content, FullText)
  BY <1>9, <1>10
<1> DEFINE T == {content \in Contents : FullText[content] = f[content]}
<1>12. ASSUME NEW content \in Contents, \A i \in DOMAIN content.parts : content.parts[i] \in T
       PROVE  content \in T
  <2>1. OfBlocks(content, FullText) = OfBlocks(content, f)
    BY <1>12, OfBlocksLocal
  <2>2. FullTextBody(content, FullText) = FullTextBody(content, f)
    BY <2>1 DEF FullTextBody
  <2> QED BY <1>5, <1>7, <1>11, <2>2
<1>13. Contents \subseteq T
  <2> HIDE DEF T
  <2> QED BY <1>12, NestedInduction
<1>14. FullText = f
  BY <1>7, <1>9, <1>10, <1>13
<1> QED BY <1>11, <1>14

\* session_key.py:51-72, "flatten ... to plain text": however blocks are nested, what is
\* looked at of a content is the beginning of all its words, up to the limit.
THEOREM FlattenIsTheBeginning ==
    \A content \in Contents, limit \in Nat :
        FlattenContent(content, limit) = Cut(FullText[content], limit)
<1> DEFINE T == {content \in Contents :
                    \A limit \in Nat : Flatten[content][limit] = Cut(FullText[content], limit)}
<1>1. ASSUME NEW content \in Contents, \A i \in DOMAIN content.parts : content.parts[i] \in T,
             NEW limit \in Nat
      PROVE  Flatten[content][limit] = Cut(FullText[content], limit)
  <2> DEFINE texts == OfBlocks(content, Flatten)
             whole == OfBlocks(content, FullText)
  <2>1. /\ texts \in Seq(Yield) /\ whole \in Seq(Texts) /\ Len(texts) = Len(whole)
        /\ Len(whole) = Len(content.parts)
        /\ \A i \in 1..Len(whole) : /\ i \in DOMAIN content.parts
                                    /\ texts[i] = Flatten[content.parts[i]]
                                    /\ whole[i] = FullText[content.parts[i]]
    <3>1. /\ texts \in Seq(Yield) /\ Len(texts) = Len(content.parts)
          /\ \A i \in 1..Len(content.parts) : i \in DOMAIN content.parts /\ texts[i] = Flatten[content.parts[i]]
      BY FlattenUnfolds, OfBlocksShape
    <3>2. /\ whole \in Seq(Texts) /\ Len(whole) = Len(content.parts)
          /\ \A i \in 1..Len(content.parts) : whole[i] = FullText[content.parts[i]]
      BY FullTextUnfolds, OfBlocksShape
    <3> HIDE DEF texts, whole
    <3> QED BY <3>1, <3>2
  <2>2. \A i \in 1..Len(whole), m \in Nat : texts[i][m] = Cut(whole[i], m)
    BY <1>1, <2>1
  <2>3. /\ Flatten[content][limit] = IF content.kind = "text" THEN Cut(content.text, limit)
                                     ELSE Gather(texts, limit)
        /\ FullText[content] = content.text \o FlattenSeq(whole)
    BY FlattenUnfolds, FullTextUnfolds DEF FlattenBody, FullTextBody
  <2> HIDE DEF texts, whole
  <2>4. FlattenSeq(whole) \in Texts /\ Gather(texts, limit) = Cut(FlattenSeq(whole), limit)
    BY <2>1, <2>2, GatherIsCut
  <2>5. CASE content.kind = "text"
    <3>1. content.text \in Texts /\ content.parts = <<>>
      BY <2>5, ContentShape DEF Texts
    <3>2. FlattenSeq(whole) = <<>>
      BY <3>1, <2>1 DEF FlattenSeq
    <3> QED BY <2>3, <2>5, <3>1, <3>2 DEF Texts
  <2>6. CASE content.kind # "text"
    <3>1. content.text = <<>>
      BY <2>6, ContentShape
    <3>2. FullText[content] = FlattenSeq(whole)
      BY <2>3, <2>4, <3>1 DEF Texts
    <3> QED BY <2>3, <2>4, <2>6, <3>2
  <2> QED BY <2>5, <2>6
<1>2. Contents \subseteq T
  <2>1. ASSUME NEW content \in Contents, \A i \in DOMAIN content.parts : content.parts[i] \in T
        PROVE  content \in T
    BY <1>1, <2>1
  <2> HIDE DEF T
  <2> QED BY <2>1, NestedInduction
<1> QED BY <1>2 DEF FlattenContent
-----------------------------------------------------------------------------
(***************************************************************************)
(* What a request says of its conversation.                                *)
(***************************************************************************)

\* Natural numbers have a least one.
LEMMA LeastIs ==
    ASSUME NEW I, I \subseteq Nat, I # {}
    PROVE  Min(I) \in I /\ \A i \in I : Min(I) <= i
<1>1. PICK m \in I : \A u \in I : ~(<<u, m>> \in OpToRel(<, Nat))
  BY NatLessThanWellFounded, WFMin
<1>2. \A u, t \in Nat : u < t => <<u, t>> \in OpToRel(<, Nat)
  BY DEF OpToRel
<1>3. ASSUME NEW i \in I PROVE m <= i
  <2>1. i \in Nat /\ m \in Nat /\ ~(i < m)
    BY <1>1, <1>2
  <2> QED BY <2>1
<1>4. \E x \in I : \A y \in I : x =< y
  BY <1>3
<1> QED BY <1>4 DEF Min

\* The first message of a role is the one that is looked at.
LEMMA FirstTextIs ==
    ASSUME NEW messages, NEW role, NEW limit, Len(messages) \in Nat,
           NEW at \in 1..Len(messages), messages[at].role = role,
           \A i \in 1..Len(messages) : i < at => messages[i].role # role
    PROVE  FirstText(messages, role, limit) = FlattenContent(messages[at].content, limit)
<1> DEFINE I == {i \in 1..Len(messages) : messages[i].role = role}
<1>1. at \in I /\ I \subseteq Nat /\ \A i \in I : at <= i
  OBVIOUS
<1>2. SelectInSeq(messages, LAMBDA msg : msg.role = role) = IF I # {} THEN Min(I) ELSE 0
  BY DEF SelectInSeq
<1> HIDE DEF I
<1>3. Min(I) = at
  <2>1. Min(I) \in I /\ Min(I) <= at
    BY <1>1, LeastIs
  <2>2. Min(I) \in Nat /\ at \in Nat /\ at <= Min(I)
    BY <1>1, <2>1
  <2> QED BY <2>1, <2>2
<1>4. I # {} /\ at # 0
  BY <1>1
<1> QED BY <1>2, <1>3, <1>4 DEF FirstText

\* The first of the session headers that says something, if one does.
LEMMA SessionIdIs ==
    ASSUME NEW headers
    PROVE  \/ SessionId(headers) = ""
           \/ \E name \in ToSet(SessionHeaders) : SessionId(headers) = Header(headers, name)
<1> DEFINE I == {i \in 1..Len(SessionHeaders) : Header(headers, SessionHeaders[i]) # ""}
<1>1. /\ I \subseteq 1..Len(SessionHeaders) /\ Len(SessionHeaders) \in Nat
      /\ DOMAIN SessionHeaders = 1..Len(SessionHeaders)
  <2>1. SessionHeaders \in Seq(STRING)
    BY IntakeAssumption
  <2>2. Len(SessionHeaders) \in Nat /\ DOMAIN SessionHeaders = 1..Len(SessionHeaders)
    BY <2>1
  <2> DEFINE n == Len(SessionHeaders)
  <2>3. I \subseteq 1..n
    OBVIOUS
  <2> HIDE DEF I
  <2> QED BY <2>2, <2>3
<1>2. SelectInSeq(SessionHeaders, LAMBDA name : Header(headers, name) # "")
        = IF I # {} THEN Min(I) ELSE 0
  BY DEF SelectInSeq
<1>3. CASE I = {}
  BY <1>2, <1>3 DEF SessionId
<1>4. CASE I # {}
  <2> HIDE DEF I
  <2>1. Min(I) \in I
    <3>1. I \subseteq Nat
      BY <1>1
    <3> QED BY <1>4, <3>1, LeastIs
  <2>2. Min(I) \in 1..Len(SessionHeaders) /\ Min(I) # 0
    <3>1. Min(I) \in 1..Len(SessionHeaders)
      BY <1>1, <2>1
    <3> QED BY <1>1, <3>1
  <2>3. SessionId(headers) = Header(headers, SessionHeaders[Min(I)])
    BY <1>2, <1>4, <2>2 DEF SessionId
  <2>4. SessionHeaders[Min(I)] \in ToSet(SessionHeaders)
    BY <1>1, <2>2 DEF ToSet
  <2> QED BY <2>3, <2>4
<1> QED BY <1>3, <1>4

\* The containers by their place.
LEMMA ContainersAre ==
    /\ Containers[1] \in ToSet(Containers)
    /\ Containers[2] \in ToSet(Containers)
    /\ Containers[3] \in ToSet(Containers)
<1>1. 1 \in DOMAIN Containers /\ 2 \in DOMAIN Containers /\ 3 \in DOMAIN Containers
  BY DEF Containers
<1> QED BY <1>1 DEF ToSet
\* session_key.py:34-36, headers "in litellm_metadata, ... in metadata, and both in
\* proxy_server_request": whatever another container has, the proxy's own has as well.
HeadersAgree ==
    /\ \A present \in Presences : Containers[1] \in present
    /\ \A c \in Conversations, at \in ToSet(Containers) :
          LET there == Shape[c].headers[at]
              own == Shape[c].headers[Containers[1]]
          IN  \A name \in DOMAIN there : name \in DOMAIN own /\ there[name] = own[name]

\* The headers of the proxy's own container.
Own(c) == LET own == Shape[c].headers[Containers[1]] IN [name \in DOMAIN own |-> own[name]]

\* Headers are what some containers have, each with its value in one of them.
ComeFrom(headers, c, present) ==
    /\ headers = [name \in DOMAIN headers |-> headers[name]]
    /\ DOMAIN headers = UNION {DOMAIN Shape[c].headers[at] : at \in present}
    /\ \A name \in DOMAIN headers : \E at \in present :
          name \in DOMAIN Shape[c].headers[at] /\ headers[name] = Shape[c].headers[at][name]

\* session_key.py:31-49: merging invents no header and no value.
LEMMA ExtractedHeaders ==
    ASSUME NEW c \in Conversations, NEW present, present \subseteq ToSet(Containers)
    PROVE  ComeFrom(ExtractHeaders(c, present), c, present)
<1> DEFINE naming(name) == {i \in DOMAIN Containers :
                              Containers[i] \in present /\ name \in DOMAIN Shape[c].headers[Containers[i]]}
           names == UNION {DOMAIN Shape[c].headers[at] : at \in present}
           from(name) == Shape[c].headers[Containers[Max(naming(name))]]
<1>1. ExtractHeaders(c, present) = [name \in names |-> from(name)[name]]
  BY DEF ExtractHeaders
<1>2. ASSUME NEW name \in names
      PROVE  Max(naming(name)) \in naming(name)
  <2>1. PICK at \in present : name \in DOMAIN Shape[c].headers[at]
    OBVIOUS
  <2>2. PICK i \in DOMAIN Containers : Containers[i] = at
    BY <2>1 DEF ToSet
  <2>3. i \in naming(name) /\ naming(name) \subseteq {1, 2, 3}
    BY <2>1, <2>2 DEF Containers
  <2> DEFINE I == naming(name)
  <2> HIDE DEF naming, I
  <2>4. I \subseteq {1, 2, 3} /\ I # {}
    BY <2>3 DEF I
  <2>5. \E x \in I : \A y \in I : x >= y
    <3>1. CASE 3 \in I
      BY <2>4, <3>1
    <3>2. CASE 3 \notin I /\ 2 \in I
      BY <2>4, <3>2
    <3>3. CASE 3 \notin I /\ 2 \notin I
      <4>1. 1 \in I /\ \A y \in I : y = 1
        BY <2>4, <3>3
      <4> QED BY <4>1
    <3> QED BY <3>1, <3>2, <3>3
  <2>6. Max(I) \in I
    BY <2>5 DEF Max
  <2> QED BY <2>6 DEF I
<1>3. ASSUME NEW name \in names
      PROVE  \E at \in present : /\ name \in DOMAIN Shape[c].headers[at]
                                 /\ from(name)[name] = Shape[c].headers[at][name]
  BY <1>2, <1>3
<1> HIDE DEF names, from
<1> QED BY <1>1, <1>3 DEF names, ComeFrom

\* session_key.py:31-49: then whichever other containers a request has, merging makes no
\* difference.
LEMMA MergedHeaders ==
    ASSUME HeadersAgree, NEW c \in Conversations,
           NEW present, present \subseteq ToSet(Containers), Containers[1] \in present
    PROVE  ExtractHeaders(c, present) = Own(c)
<1> DEFINE own == Shape[c].headers[Containers[1]]
           headers == ExtractHeaders(c, present)
<1>1. /\ headers = [name \in DOMAIN headers |-> headers[name]]
      /\ DOMAIN headers = UNION {DOMAIN Shape[c].headers[at] : at \in present}
      /\ \A name \in DOMAIN headers : \E at \in present :
            name \in DOMAIN Shape[c].headers[at] /\ headers[name] = Shape[c].headers[at][name]
  <2>1. ComeFrom(headers, c, present)
    BY ExtractedHeaders
  <2> HIDE DEF headers
  <2> QED BY <2>1, Zenon DEF ComeFrom
<1> HIDE DEF headers
<1>2. \A at \in present : \A name \in DOMAIN Shape[c].headers[at] :
         name \in DOMAIN own /\ Shape[c].headers[at][name] = own[name]
  <2> SUFFICES ASSUME NEW at \in present, NEW name \in DOMAIN Shape[c].headers[at]
               PROVE  name \in DOMAIN own /\ Shape[c].headers[at][name] = own[name]
    BY Zenon
  <2>1. at \in ToSet(Containers)
    OBVIOUS
  <2> QED BY <2>1, Zenon DEF HeadersAgree
<1>3. DOMAIN headers = DOMAIN own
  BY <1>1, <1>2
<1>4. \A name \in DOMAIN own : headers[name] = own[name]
  BY <1>1, <1>2, <1>3
<1>5. headers = Own(c)
  BY <1>1, <1>3, <1>4 DEF Own
<1> QED BY <1>5 DEF headers

\* session_key.py:20-28: a session id is one that clients send.
LEMMA SessionIdType ==
    ASSUME NEW c \in Conversations, NEW present, present \subseteq ToSet(Containers)
    PROVE  SessionId(ExtractHeaders(c, present)) \in SessionIds \cup {""}
<1> DEFINE headers == ExtractHeaders(c, present)
<1>1. \A name \in DOMAIN headers : \E at \in present :
         name \in DOMAIN Shape[c].headers[at] /\ headers[name] = Shape[c].headers[at][name]
  <2>1. ComeFrom(headers, c, present)
    BY ExtractedHeaders
  <2> HIDE DEF headers
  <2> QED BY <2>1, Zenon DEF ComeFrom
<1> HIDE DEF headers
<1>2. ASSUME NEW name \in ToSet(SessionHeaders), name \in DOMAIN headers
      PROVE  headers[name] \in SessionIds \cup {""}
  <2>1. PICK at \in present : /\ name \in DOMAIN Shape[c].headers[at]
                              /\ headers[name] = Shape[c].headers[at][name]
    BY <1>1, <1>2
  <2>2. at \in ToSet(Containers)
    OBVIOUS
  <2>3. Shape[c].headers[at][name] \in SessionIds \cup {""}
    BY <2>1, <2>2, IntakeAssumption, Zenon
  <2> QED BY <2>1, <2>3
<1>3. \A name \in ToSet(SessionHeaders) : Header(headers, name) \in SessionIds \cup {""}
  BY <1>2 DEF Header
<1>4. SessionId(headers) \in SessionIds \cup {""}
  BY <1>3, SessionIdIs
<1> QED BY <1>4 DEF headers

\* The system prompt and the opening, as they are looked at, do not depend on how long the
\* conversation is.
LEMMA TextsOfRequest ==
    ASSUME NEW c \in Conversations, NEW n \in 1..MaxMessages
    PROVE  /\ SystemText(c, n) = FlattenContent(Shape[c].system, SystemLimit)
           /\ FirstUserMessageText(c, n) = FlattenContent(Opening(c), MessageLimit)
<1> DEFINE said == [i \in 1..n |-> [role    |-> IF i % 2 = 1 THEN "user" ELSE "assistant",
                                   content |-> IF i = 1 THEN Opening(c) ELSE Later]]
           prompt == [role |-> "system", content |-> Shape[c].system]
           whole == <<prompt>> \o said
<1>1. n \in Nat /\ 1 \in 1..n
  <2>1. MaxMessages \in Nat
    BY IntakeAssumption
  <2> QED BY <2>1
<1>2. Len(said) = n /\ said[1].role = "user" /\ said[1].content = Opening(c)
  BY <1>1
<1>3. CASE Shape[c].topLevel
  <2>1. SystemText(c, n) = FlattenContent(Shape[c].system, SystemLimit)
    BY <1>3 DEF SystemText
  <2>2. Messages(c, n) = <<>> \o said
    BY <1>3 DEF Messages
  <2>3. <<>> \o said = said
    BY <1>1
  <2> HIDE DEF said
  <2>4. FirstText(said, "user", MessageLimit) = FlattenContent(said[1].content, MessageLimit)
    BY <1>1, <1>2, FirstTextIs
  <2> QED BY <1>2, <2>1, <2>2, <2>3, <2>4 DEF FirstUserMessageText
<1>4. CASE ~Shape[c].topLevel
  <2>1. Messages(c, n) = whole
    BY <1>4 DEF Messages
  <2>2. /\ Len(whole) = n + 1
        /\ whole[1] = prompt
        /\ whole[2] = said[1]
    <3> DEFINE S == {prompt} \cup {said[i] : i \in 1..n}
    <3>1. <<prompt>> \in Seq(S) /\ Len(<<prompt>>) = 1
      OBVIOUS
    <3>2. said \in Seq(S) /\ Len(said) = n
      BY <1>1
    <3> HIDE DEF S, said, prompt
    <3> QED BY <1>1, <3>1, <3>2
  <2>3. prompt.role = "system" /\ prompt.content = Shape[c].system
    OBVIOUS
  <2> HIDE DEF said, prompt, whole
  <2>4. 1 \in 1..Len(whole) /\ 2 \in 1..Len(whole) /\ Len(whole) \in Nat
    BY <1>1, <2>2
  <2>5. FirstText(whole, "system", SystemLimit) = FlattenContent(whole[1].content, SystemLimit)
    BY <2>2, <2>3, <2>4, FirstTextIs
  <2>6. FirstText(whole, "user", MessageLimit) = FlattenContent(whole[2].content, MessageLimit)
    BY <1>2, <2>2, <2>3, <2>4, FirstTextIs
  <2> QED BY <1>2, <1>4, <2>1, <2>2, <2>3, <2>5, <2>6 DEF FirstUserMessageText, SystemText
<1> QED BY <1>3, <1>4
-----------------------------------------------------------------------------
(***************************************************************************)
(* The intake of requests.                                                 *)
(***************************************************************************)

\* The containers of a request are the ones there are.
LEMMA PresencesAre ==
    ASSUME NEW present \in Presences
    PROVE  present \subseteq ToSet(Containers)
BY IntakeAssumption

\* hook.py:279-281: whatever clients send, the table of overrides is used as OverrideTable
\* has it: only for sessions that a header names, and by calls of concrete models alone.
THEOREM IntakeUsesTheTable == Spec => TableSpec
<1>1. Init => TableInit
  BY DEF Init
<1>2. [Next]_vars => [TableNext]_tableVars
  <2> SUFFICES ASSUME [Next]_vars PROVE [TableNext]_tableVars
    OBVIOUS
  <2>1. ASSUME NEW c \in Conversations, NEW present \in Presences, NEW n \in 1..MaxMessages,
               Route(c, present, n)
        PROVE  [TableNext]_tableVars
    BY <2>1 DEF Route
  <2>2. ASSUME NEW c \in Conversations, NEW present \in Presences, NEW model \in ConcreteModels,
               Override(c, present, model)
        PROVE  [TableNext]_tableVars
    <3> DEFINE id == SessionId(ExtractHeaders(c, present))
    <3>1. id \in SessionIds
      BY <2>2, PresencesAre, SessionIdType DEF Override
    <3>2. Call(<<id, model>>)
      BY <2>2 DEF Override
    <3> HIDE DEF id
    <3>3. <<id, model>> \in Pairs
      BY <3>1 DEF Pairs
    <3> QED BY <3>2, <3>3 DEF TableNext
  <2>3. ASSUME NEW c \in Conversations, Compact(c) PROVE [TableNext]_tableVars
    BY <2>3 DEF Compact
  <2>4. CASE UNCHANGED vars
    BY <2>4 DEF vars
  <2> QED BY <2>1, <2>2, <2>3, <2>4 DEF Next
<1> QED BY <1>1, <1>2, PTL DEF Spec, TableSpec

\* Compaction is recorded for each conversation, whatever else happens.
LEMMA CompactedType ==
    ASSUME compacted \in [Conversations -> BOOLEAN], [Next]_vars
    PROVE  compacted' \in [Conversations -> BOOLEAN]
<1>1. CASE UNCHANGED compacted
  BY <1>1
<1>2. ASSUME NEW c \in Conversations, Compact(c) PROVE compacted' \in [Conversations -> BOOLEAN]
  BY <1>2 DEF Compact
<1> QED BY <1>1, <1>2 DEF Next, Route, Override, vars

\* The states of the intake are well-formed: only sessions that a header names are in the
\* table and its log, and the table is never over its limit (hook.py:279-287).
THEOREM IntakeTypeCorrect == Spec => []TypeOK
<1>1. Spec => []TableInv
  BY IntakeUsesTheTable, TableInvariant, PTL
<1>2. Spec => [](compacted \in [Conversations -> BOOLEAN])
  <2>1. Init => compacted \in [Conversations -> BOOLEAN]
    BY DEF Init
  <2>2. compacted \in [Conversations -> BOOLEAN] /\ [Next]_vars
          => (compacted \in [Conversations -> BOOLEAN])'
    BY CompactedType
  <2> QED BY <2>1, <2>2, PTL DEF Spec
<1>3. TableInv /\ compacted \in [Conversations -> BOOLEAN] => TypeOK
  BY DEF TableInv, TypeOK
<1> QED BY <1>1, <1>2, <1>3, PTL

\* The intake inherits what the table promises: hook.py:276, every override is in the log,
\* and again only after as many others as the table holds.
THEOREM IntakeLogsOverrides == Spec => [](OverridesAreReported /\ RepeatsAreSpaced)
BY IntakeUsesTheTable, OverridesAreReportedHolds, RepeatsAreSpacedHolds, PTL

-----------------------------------------------------------------------------
\* What its headers and its system prompt say of a conversation's tier.
Forced(c) ==
    \/ Header(Own(c), "x-lite-tier") = ForceTierName
    \/ /\ IsClaudeCode(Own(c))
       /\ RepoHints(FlattenContent(Shape[c].system, SystemLimit)) \cap CriticalWords # {}

\* The one identity that the requests of a conversation have.
Identity(c) == [key |-> Visible(c), forced |-> Forced(c)]

IdentityInv ==
    /\ compacted \in [Conversations -> BOOLEAN]
    /\ known = [c \in Conversations |-> known[c]]
    /\ \A c \in Conversations : known[c] \subseteq {Identity(c)}

\* A conversation shows its id or the texts of its first requests.
LEMMA VisibleIs ==
    ASSUME HeadersAgree, NEW c \in Conversations
    PROVE  Visible(c) = IF SessionId(Own(c)) # "" THEN <<SessionId(Own(c))>>
                        ELSE <<Shape[c].alias, Cut(FullText[Shape[c].system], SystemLimit),
                               Cut(FullText[Opening(c)], MessageLimit)>>
<1>1. ExtractHeaders(c, ToSet(Containers)) = Own(c)
  BY ContainersAre, MergedHeaders
<1> QED BY <1>1 DEF Visible

\* session_key.py:98-111: a request has the identity of its conversation, whichever
\* containers it comes with and however long the conversation is.
LEMMA RequestIdentity ==
    ASSUME HeadersAgree, NEW c \in Conversations, NEW present \in Presences,
           NEW n \in 1..MaxMessages
    PROVE  [key    |-> SessionKey(c, n, ExtractHeaders(c, present)),
            forced |-> PathOverride(c, n, ExtractHeaders(c, present))] = Identity(c)
<1>1. ExtractHeaders(c, present) = Own(c)
  BY PresencesAre, MergedHeaders DEF HeadersAgree
<1>2. /\ {SystemLimit, MessageLimit} \subseteq Nat /\ 1 \in 1..MaxMessages
      /\ Shape[c].system \in Contents /\ Opening(c) \in Contents
  <2>1. {SystemLimit, MessageLimit, MaxMessages} \subseteq Nat \ {0}
    BY IntakeAssumption
  <2>2. Shape[c].system \in Contents /\ Shape[c].opening \in Contents
    BY IntakeAssumption
  <2>3. Summary \in Contents
    BY ContentAssumption
  <2> QED BY <2>1, <2>2, <2>3 DEF Opening
<1>3. /\ SystemText(c, n) = Cut(FullText[Shape[c].system], SystemLimit)
      /\ FirstUserMessageText(c, n) = Cut(FullText[Opening(c)], MessageLimit)
      /\ SystemText(c, n) = FlattenContent(Shape[c].system, SystemLimit)
  BY <1>2, TextsOfRequest, FlattenIsTheBeginning
<1>4. SessionKey(c, n, Own(c)) = Visible(c)
  BY <1>3, VisibleIs DEF SessionKey
<1>5. PathOverride(c, n, Own(c)) = Forced(c)
  BY <1>3 DEF PathOverride, Forced
<1> QED BY <1>1, <1>4, <1>5 DEF Identity

\* Whatever a client does, its conversation keeps its identity or begins anew.
LEMMA IdentityStep ==
    ASSUME HeadersAgree, IdentityInv, [Next]_vars
    PROVE  IdentityInv'
<1>1. compacted' \in [Conversations -> BOOLEAN]
  BY CompactedType DEF IdentityInv
<1>2. ASSUME UNCHANGED compacted, NEW c \in Conversations PROVE Identity(c)' = Identity(c)
  BY <1>2 DEF Identity, Visible, Opening
<1>3. ASSUME NEW c \in Conversations, NEW present \in Presences, NEW n \in 1..MaxMessages,
             Route(c, present, n)
      PROVE  IdentityInv'
  <2>1. known' = [known EXCEPT ![c] = @ \cup {Identity(c)}] /\ UNCHANGED compacted
    BY <1>3, RequestIdentity DEF Route
  <2>2. \A d \in Conversations : known'[d] = IF d = c THEN known[d] \cup {Identity(c)} ELSE known[d]
    BY <2>1 DEF IdentityInv
  <2>3. known' = [d \in Conversations |-> known'[d]]
    BY <2>1 DEF IdentityInv
  <2>4. \A d \in Conversations : known'[d] \subseteq {Identity(d)'}
    BY <1>2, <2>1, <2>2 DEF IdentityInv
  <2> QED BY <1>1, <2>3, <2>4 DEF IdentityInv
<1>4. CASE UNCHANGED <<compacted, known>>
  BY <1>1, <1>2, <1>4 DEF IdentityInv
<1>5. ASSUME NEW c \in Conversations, Compact(c) PROVE IdentityInv'
  <2> DEFINE id == SessionId(ExtractHeaders(c, ToSet(Containers)))
  <2>1. /\ compacted' = [compacted EXCEPT ![c] = TRUE]
        /\ known' = [known EXCEPT ![c] = IF id # "" THEN @ ELSE {}]
    BY <1>5 DEF Compact
  <2>2. ASSUME id # "" PROVE Identity(c)' = Identity(c)
    <3>1. Visible(c) = <<id>> /\ Visible(c)' = <<id>>
      BY <2>2 DEF Visible
    <3> HIDE DEF id
    <3> QED BY <3>1 DEF Identity
  <2>3. ASSUME NEW d \in Conversations, d # c PROVE Identity(d)' = Identity(d)
    BY <2>1, <2>3 DEF IdentityInv, Identity, Visible, Opening
  <2> HIDE DEF id
  <2>4. \A d \in Conversations : known'[d] = IF d = c /\ id = "" THEN {} ELSE known[d]
    BY <2>1 DEF IdentityInv
  <2>5. known' = [d \in Conversations |-> known'[d]]
    BY <2>1 DEF IdentityInv
  <2>6. \A d \in Conversations : known'[d] \subseteq {Identity(d)'}
    BY <2>2, <2>3, <2>4 DEF IdentityInv
  <2> QED BY <1>1, <2>5, <2>6 DEF IdentityInv
<1>6. CASE UNCHANGED vars
  BY <1>4, <1>6 DEF vars
<1>7. ASSUME NEW c \in Conversations, NEW present \in Presences, NEW model \in ConcreteModels,
             Override(c, present, model)
      PROVE  IdentityInv'
  BY <1>4, <1>7 DEF Override
<1> QED BY <1>3, <1>5, <1>6, <1>7 DEF Next

\* When containers agree, every request of a conversation is routed under its one identity.
THEOREM IdentityInvariant == ASSUME HeadersAgree PROVE Spec => []IdentityInv
<1>1. Init => IdentityInv
  BY DEF Init, IdentityInv
<1>2. IdentityInv /\ [Next]_vars => IdentityInv'
  BY HeadersAgree, IdentityStep
<1> QED BY <1>1, <1>2, PTL DEF Spec

\* hashing.py:20-21, "stable within a conversation": one key and one answer to whether it is
\* mission-critical, however long the conversation is, for any nesting of its contents and
\* any limits.
THEOREM IdentityIsStableHolds == ASSUME HeadersAgree PROVE Spec => []IdentityIsStable
<1>1. IdentityInv => IdentityIsStable
  <2> SUFFICES ASSUME IdentityInv, NEW c \in Conversations PROVE Cardinality(known[c]) <= 1
    BY DEF IdentityIsStable
  <2> DEFINE one == {Identity(c)}
  <2>1. known[c] \subseteq one
    BY DEF IdentityInv
  <2>2. IsFiniteSet(one) /\ Cardinality(one) = 1
    BY FS_Singleton
  <2> HIDE DEF one
  <2> QED BY <2>1, <2>2, FS_Subset
<1> QED BY <1>1, HeadersAgree, IdentityInvariant, PTL

\* session_key.py:98-111: conversations share a session exactly when they show the same: an
\* id, or the alias and the beginnings of two texts.
THEOREM KeysTellApartHolds == ASSUME HeadersAgree PROVE Spec => []KeysTellApart
<1>1. IdentityInv => KeysTellApart
  <2> SUFFICES ASSUME IdentityInv, NEW c \in Conversations, NEW d \in Conversations,
                      NEW i \in known[c], NEW j \in known[d]
               PROVE  i.key = j.key <=> Visible(c) = Visible(d)
    BY DEF KeysTellApart
  <2>1. i = Identity(c) /\ j = Identity(d)
    BY DEF IdentityInv
  <2>2. i.key = Visible(c) /\ j.key = Visible(d)
    BY <2>1 DEF Identity
  <2> QED BY <2>2
<1> QED BY <1>1, HeadersAgree, IdentityInvariant, PTL
=============================================================================
