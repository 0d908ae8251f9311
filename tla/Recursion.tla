----------------------------- MODULE Recursion -----------------------------
(***************************************************************************)
(* Recursive functions as facts about sets, which need no induction over   *)
(* data: a function that is defined from one place to the next exists,     *)
(* because there is no least place at which it would not.                  *)
(***************************************************************************)
EXTENDS Integers, WellFoundedInduction, TLAPS

\* Induction over an interval, as a fact about sets: what holds at the bottom and goes up
\* by one holds to the top.
LEMMA IntervalInduction ==
    ASSUME NEW a \in Nat, NEW b \in Nat, NEW T,
           a \in T, \A m \in a..b : m \in T /\ m < b => m + 1 \in T
    PROVE  \A m \in a..b : m \in T
<1> SUFFICES ASSUME \E m \in a..b : m \notin T PROVE FALSE
  OBVIOUS
<1> DEFINE Bad == {m \in a..b : m \notin T}
<1>1. Bad \subseteq Nat /\ Bad # {}
  OBVIOUS
<1>2. \E m \in Bad : \A u \in Bad : ~(<<u, m>> \in OpToRel(<, Nat))
  BY <1>1, NatLessThanWellFounded, WFMin
<1>3. PICK m \in Bad : \A u \in Bad : ~(u < m)
  <2>1. \A u, t \in Nat : u < t => <<u, t>> \in OpToRel(<, Nat)
    BY DEF OpToRel
  <2> QED BY <1>1, <1>2, <2>1
<1>4. m \in a..b /\ m # a /\ m - 1 \in a..b /\ m - 1 < b /\ m - 1 + 1 = m
  BY <1>1
<1>5. m - 1 \in T
  BY <1>3, <1>4
<1> QED BY <1>3, <1>4, <1>5

\* f starts at x and follows step from a to b.
Follows(f, a, b, x, step) ==
    f = [i \in a..b |-> IF i = a THEN x ELSE step[i][f[i-1]]]

\* Such a function exists, and its values stay in the set that step stays in.
LEMMA IntervalRecursion ==
    ASSUME NEW a \in Nat, NEW b \in Nat, a <= b, NEW S, NEW x \in S,
           NEW step \in [(a+1)..b -> [S -> S]]
    PROVE  /\ \E f : Follows(f, a, b, x, step)
           /\ \A f : Follows(f, a, b, x, step) => f \in [a..b -> S]
<1> DEFINE T == {m \in a..b : \E f \in [a..m -> S] : Follows(f, a, m, x, step)}
<1>1. a \in T
  <2> DEFINE f == [i \in a..a |-> x]
  <2>1. f \in [a..a -> S] /\ Follows(f, a, a, x, step)
    BY DEF Follows
  <2>2. \E g \in [a..a -> S] : Follows(g, a, a, x, step)
    <3> HIDE DEF f
    <3> QED BY <2>1, Zenon
  <2> QED BY <2>2
<1>2. ASSUME NEW m \in a..b, m \in T, m < b
      PROVE  m + 1 \in T
  <2>1. PICK g \in [a..m -> S] : Follows(g, a, m, x, step)
    BY <1>2
  <2> DEFINE h == [i \in a..(m+1) |-> IF i = m + 1 THEN step[m+1][g[m]] ELSE g[i]]
  <2>2. step[m+1][g[m]] \in S
    BY <2>1, <1>2
  <2>3. h \in [a..(m+1) -> S]
    BY <2>1, <2>2
  <2>4. \A i \in a..(m+1) : h[i] = IF i = a THEN x ELSE step[i][h[i-1]]
    <3> SUFFICES ASSUME NEW i \in a..(m+1)
                 PROVE  h[i] = IF i = a THEN x ELSE step[i][h[i-1]]
      OBVIOUS
    <3>1. CASE i = m + 1
      <4>1. i - 1 = m /\ i # a /\ m \in a..(m+1) /\ m # m + 1
        BY <3>1
      <4> QED BY <3>1, <4>1
    <3>2. CASE i # m + 1
      <4>1. i \in a..m
        BY <3>2
      <4>2. g[i] = IF i = a THEN x ELSE step[i][g[i-1]]
        BY <2>1, <4>1 DEF Follows
      <4>3. h[i] = g[i] /\ (i # a => h[i-1] = g[i-1])
        BY <3>2, <4>1
      <4> QED BY <4>2, <4>3
    <3> QED BY <3>1, <3>2
  <2>5. Follows(h, a, m + 1, x, step)
    BY <2>3, <2>4 DEF Follows
  <2>6. \E f \in [a..(m+1) -> S] : Follows(f, a, m + 1, x, step)
    <3> HIDE DEF h
    <3> QED BY <2>3, <2>5, Zenon
  <2>7. m + 1 \in a..b
    BY <1>2
  <2> QED BY <2>6, <2>7
<1>3. b \in T
  <2> HIDE DEF T
  <2>1. \A m \in a..b : m \in T
    BY <1>1, <1>2, IntervalInduction
  <2> QED BY <2>1
<1>4. ASSUME NEW f, Follows(f, a, b, x, step)
      PROVE  f \in [a..b -> S]
  <2> DEFINE U == {m \in a..b : f[m] \in S}
  <2>1. a \in U
    BY <1>4 DEF Follows
  <2>2. ASSUME NEW m \in a..b, m \in U, m < b
        PROVE  m + 1 \in U
    <3>1. f[m+1] = step[m+1][f[m]]
      BY <1>4, <2>2 DEF Follows
    <3> QED BY <3>1, <2>2
  <2>3. \A m \in a..b : m \in U
    <3> HIDE DEF U
    <3> QED BY <2>1, <2>2, IntervalInduction
  <2> QED BY <2>3, <1>4 DEF Follows
<1> QED BY <1>3, <1>4
=============================================================================
