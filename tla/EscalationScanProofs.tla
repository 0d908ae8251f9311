------------------------ MODULE EscalationScanProofs ------------------------
(***************************************************************************)
(* Proofs about the escalation detector: what its loop computes from the   *)
(* watermark, and what that makes of the record's scan state over any      *)
(* number of requests.                                                     *)
(***************************************************************************)
EXTENDS EscalationScan, Recursion, FiniteSetTheorems, SequenceTheorems,
        WellFoundedInduction, TLAPS

(***************************************************************************)
(* detect's two loops.                                                     *)
(***************************************************************************)

\* f is the streak after each of the flags, counted from consec.
Counts(f, consec, flags) ==
    /\ f \in [0..Len(flags) -> Nat]
    /\ f[0] = consec
    /\ \A j \in 1..Len(flags) : f[j] = AfterResult(f[j-1], flags[j])

\* escalation.py:149-150: the loop over the results of a turn computes that.
LEMMA StreakAfterCounts ==
    ASSUME NEW consec \in Nat, NEW flags \in Seq(BOOLEAN)
    PROVE  \E f : Counts(f, consec, flags) /\ StreakAfter(consec, flags) = f[Len(flags)]
<1> DEFINE n == Len(flags)
           step == [j \in 1..n |-> [s \in Nat |-> AfterResult(s, flags[j])]]
           After(f) == f = [j \in 0..n |-> IF j = 0 THEN consec
                                           ELSE AfterResult(f[j-1], flags[j])]
<1>1. 0 <= n /\ n \in Nat /\ step \in [(0+1)..n -> [Nat -> Nat]]
  BY DEF AfterResult
<1>2. \A j \in 1..n, s \in Nat : step[j][s] = AfterResult(s, flags[j])
  OBVIOUS
<1> HIDE DEF step
<1>3. /\ \E f : Follows(f, 0, n, consec, step)
      /\ \A f : Follows(f, 0, n, consec, step) => f \in [0..n -> Nat]
  BY <1>1, IntervalRecursion
<1>4. \E f : After(f)
  <2>1. PICK f : Follows(f, 0, n, consec, step)
    BY <1>3
  <2>2. f \in [0..n -> Nat]
    BY <1>3, <2>1
  <2>3. ASSUME NEW j \in 0..n
        PROVE  f[j] = IF j = 0 THEN consec ELSE AfterResult(f[j-1], flags[j])
    <3>1. f[j] = IF j = 0 THEN consec ELSE step[j][f[j-1]]
      BY <2>1 DEF Follows
    <3>2. ASSUME j # 0 PROVE j \in 1..n /\ f[j-1] \in Nat
      <4>1. n \in Nat
        BY <1>1
      <4>2. j \in 1..n /\ j - 1 \in 0..n
        BY <4>1, <3>2
      <4> QED BY <4>2, <2>2
    <3> QED BY <1>2, <3>1, <3>2
  <2>4. \A j \in 0..n : f[j] = IF j = 0 THEN consec ELSE AfterResult(f[j-1], flags[j])
    BY <2>3, Zenon
  <2>5. f = [j \in 0..n |-> f[j]]
    BY <2>2
  <2>6. After(f)
    BY <2>4, <2>5, Zenon
  <2> QED BY <2>6, Zenon
<1> DEFINE f == CHOOSE f : After(f)
<1>5. After(f)
  BY <1>4
<1>6. StreakAfter(consec, flags) = f[n]
  BY DEF StreakAfter
<1> HIDE DEF f
<1>7. f \in [0..n -> Nat]
  <2> DEFINE U == {m \in 0..n : f[m] \in Nat}
  <2>1. 0 \in U
    BY <1>1, <1>5
  <2>2. ASSUME NEW m \in 0..n, m \in U, m < n
        PROVE  m + 1 \in U
    BY <1>1, <1>5, <2>2 DEF AfterResult
  <2>3. \A m \in 0..n : m \in U
    <3> HIDE DEF U
    <3> QED BY <1>1, <2>1, <2>2, IntervalInduction
  <2> QED BY <2>3, <1>5
<1>8. Counts(f, consec, flags)
  <2>1. f[0] = consec /\ \A j \in 1..n : f[j] = AfterResult(f[j-1], flags[j])
    BY <1>1, <1>5
  <2> QED BY <2>1, <1>7 DEF Counts
<1> QED BY <1>6, <1>8
\* The streak after some results is a number.
LEMMA StreakAfterType ==
    ASSUME NEW consec \in Nat, NEW flags \in Seq(BOOLEAN)
    PROVE  StreakAfter(consec, flags) \in Nat
<1>1. PICK f : Counts(f, consec, flags) /\ StreakAfter(consec, flags) = f[Len(flags)]
  BY StreakAfterCounts
<1>2. Len(flags) \in 0..Len(flags)
  OBVIOUS
<1> QED BY <1>1, <1>2 DEF Counts

\* A message without results leaves the streak as it was.
LEMMA StreakAfterNothing ==
    ASSUME NEW consec \in Nat
    PROVE  StreakAfter(consec, <<>>) = consec
<1>1. <<>> \in Seq(BOOLEAN) /\ Len(<<>>) = 0
  OBVIOUS
<1>2. PICK f : Counts(f, consec, <<>>) /\ StreakAfter(consec, <<>>) = f[Len(<<>>)]
  BY <1>1, StreakAfterCounts
<1> QED BY <1>1, <1>2 DEF Counts

\* What detect reads of a message.
LEMMA MessageShape ==
    ASSUME NEW msg \in Message
    PROVE  /\ msg.flags \in Seq(BOOLEAN)
           /\ msg.kind # "tool" => msg.flags = <<>>
<1>1. CASE \E flags \in ToolTurns : msg = ToolTurn(flags)
  <2>1. PICK flags \in ToolTurns : msg = ToolTurn(flags)
    BY <1>1
  <2>2. flags \in Seq(BOOLEAN)
    BY ScanAssumption
  <2> QED BY <2>1, <2>2 DEF ToolTurn
<1>2. CASE msg \in {Retry, Text}
  <2>1. <<>> \in Seq(BOOLEAN)
    OBVIOUS
  <2>2. msg.flags = <<>>
    BY <1>2 DEF Retry, Text
  <2> QED BY <2>1, <2>2
<1> QED BY <1>1, <1>2 DEF Message

\* The loop's two variables.
Accumulators == [consec : Nat, signal : Signals]

\* escalation.py:143-164: one iteration counts the results of its message, and a signal it
\* raises is due to a streak of the threshold or to retry text.
LEMMA ScanMessageEffect ==
    ASSUME NEW acc \in Accumulators, NEW msg \in Message, NEW i \in Nat, NEW n \in Nat,
           NEW state \in ScanState
    PROVE  LET out == ScanMessage(acc, msg, i, n, state)
           IN  /\ out \in Accumulators
               /\ out.consec = StreakAfter(acc.consec, msg.flags)
               /\ \/ out.signal = acc.signal
                  \/ out.signal = "tool_failures" /\ out.consec >= Threshold
                  \/ out.signal = "retry_text"
<1>1. acc.consec \in Nat /\ acc.signal \in Signals
  BY DEF Accumulators
<1>2. msg.flags \in Seq(BOOLEAN) /\ (msg.kind # "tool" => msg.flags = <<>>)
  BY MessageShape
<1>3. StreakAfter(acc.consec, msg.flags) \in Nat
  BY <1>1, <1>2, StreakAfterType
<1>4. StreakAfter(acc.consec, <<>>) = acc.consec
  BY <1>1, StreakAfterNothing
<1>5. CASE msg.kind = "tool"
  BY <1>1, <1>3, <1>5 DEF ScanMessage, Accumulators, Signals
<1>6. CASE msg.kind # "tool"
  BY <1>1, <1>2, <1>3, <1>4, <1>6 DEF ScanMessage, Accumulators, Signals
<1> QED BY <1>5, <1>6

\* A call scans from a place in the history, never before its bounded tail.
LEMMA ScanStartBounds ==
    ASSUME NEW mark \in Nat, NEW n \in Nat
    PROVE  /\ TailOf(n) \in 0..n
           /\ ScanStart(mark, n) \in 0..n
           /\ n > 0 => TailOf(n) < n
           /\ n = mark => ScanStart(mark, n) = n
           /\ n >= mark => ScanStart(mark, n) >= mark
BY TailAssumption DEF ScanStart, MaxOf, ResetMark, TailOf

\* The rebased state is a scan state.
LEMMA RebasedType ==
    ASSUME NEW state \in ScanState, NEW n \in Nat
    PROVE  Rebased(state, n) \in ScanState
<1>1. TailOf(n) \in Nat /\ state.msg_count \in Nat
  BY TailAssumption DEF ScanState, TailOf
<1> QED BY <1>1 DEF Rebased, Watermark, ScanState

\* g is the state of detect's loop after each message from the start of the scan.
Scans(g, messages, stored) ==
    LET n == Len(messages)
        start == ScanStart(stored.msg_count, n)
    IN  /\ g \in [start..n -> Accumulators]
        /\ g[start] = [consec |-> Rebased(stored, n).consec_failures, signal |-> "none"]
        /\ \A i \in (start+1)..n :
              g[i] = ScanMessage(g[i-1], messages[i], i, n, Rebased(stored, n))

\* escalation.py:143-164: detect's loop computes that.
LEMMA ScanTailScans ==
    ASSUME NEW messages \in Seq(Message), NEW stored \in ScanState
    PROVE  \E g : Scans(g, messages, stored) /\ ScanTail(messages, stored) = g[Len(messages)]
<1> DEFINE n == Len(messages)
           state == Rebased(stored, n)
           start == ScanStart(stored.msg_count, n)
           first == [consec |-> state.consec_failures, signal |-> "none"]
           step == [i \in (start+1)..n |->
                        [acc \in Accumulators |-> ScanMessage(acc, messages[i], i, n, state)]]
           After(g) == g = [i \in start..n |-> IF i = start THEN first
                               ELSE ScanMessage(g[i-1], messages[i], i, n, state)]
<1>1. n \in Nat /\ start \in Nat /\ start <= n
  BY ScanStartBounds DEF ScanState
<1>2. state \in ScanState
  BY <1>1, RebasedType
<1>3. first \in Accumulators
  BY <1>2 DEF ScanState, Accumulators, Signals
<1>4. ASSUME NEW i \in (start+1)..n, NEW acc \in Accumulators
      PROVE  ScanMessage(acc, messages[i], i, n, state) \in Accumulators
  <2>1. messages[i] \in Message /\ i \in Nat
    BY <1>1
  <2> QED BY <2>1, <1>1, <1>2, ScanMessageEffect
<1>5. ASSUME NEW i \in (start+1)..n, NEW acc \in Accumulators
      PROVE  step[i][acc] = ScanMessage(acc, messages[i], i, n, state)
  OBVIOUS
<1>6. step \in [(start+1)..n -> [Accumulators -> Accumulators]]
  <2> HIDE DEF n, state, start
  <2> QED BY <1>4
<1> HIDE DEF step, first, state, start
<1>7. /\ \E g : Follows(g, start, n, first, step)
      /\ \A g : Follows(g, start, n, first, step) => g \in [start..n -> Accumulators]
  BY <1>1, <1>3, <1>6, IntervalRecursion
<1>8. \E g : After(g)
  <2>1. PICK g : Follows(g, start, n, first, step)
    BY <1>7
  <2>2. g \in [start..n -> Accumulators]
    BY <1>7, <2>1
  <2>3. ASSUME NEW i \in start..n
        PROVE  g[i] = IF i = start THEN first
                      ELSE ScanMessage(g[i-1], messages[i], i, n, state)
    <3>1. g[i] = IF i = start THEN first ELSE step[i][g[i-1]]
      BY <2>1 DEF Follows
    <3>2. ASSUME i # start PROVE i \in (start+1)..n /\ g[i-1] \in Accumulators
      <4>1. i \in (start+1)..n /\ i - 1 \in start..n
        BY <1>1, <3>2
      <4> QED BY <4>1, <2>2
    <3> QED BY <1>5, <3>1, <3>2
  <2>4. \A i \in start..n : g[i] = IF i = start THEN first
                                   ELSE ScanMessage(g[i-1], messages[i], i, n, state)
    BY <2>3, Zenon
  <2>5. g = [i \in start..n |-> g[i]]
    BY <2>2
  <2>6. After(g)
    BY <2>4, <2>5, Zenon
  <2> QED BY <2>6, Zenon
<1> DEFINE g == CHOOSE g : After(g)
<1>9. After(g)
  BY <1>8
<1>10. ScanTail(messages, stored) = g[n]
  BY DEF ScanTail, start, state, first
<1> HIDE DEF g
<1>11. g[start] = first /\ \A i \in (start+1)..n :
          g[i] = ScanMessage(g[i-1], messages[i], i, n, state)
  BY <1>1, <1>9
<1>12. g \in [start..n -> Accumulators]
  <2> DEFINE U == {m \in start..n : g[m] \in Accumulators}
  <2>1. start \in U
    BY <1>1, <1>3, <1>11
  <2>2. ASSUME NEW m \in start..n, m \in U, m < n
        PROVE  m + 1 \in U
    <3>1. m + 1 \in (start+1)..n /\ m + 1 - 1 = m /\ m + 1 \in start..n
      BY <1>1, <2>2
    <3>2. g[m+1] = ScanMessage(g[m], messages[m+1], m + 1, n, state)
      BY <1>11, <3>1
    <3> QED BY <3>1, <3>2, <2>2, <1>4
  <2>3. \A m \in start..n : m \in U
    <3> HIDE DEF U
    <3> QED BY <1>1, <2>1, <2>2, IntervalInduction
  <2> QED BY <2>3, <1>9
<1>13. Scans(g, messages, stored)
  BY <1>11, <1>12 DEF Scans, start, state, first
<1> QED BY <1>10, <1>13
(***************************************************************************)
(* What a request hands to the detector.                                   *)
(***************************************************************************)

\* A function on an interval from 1 is a sequence of that length.
LEMMA IntervalSequence ==
    ASSUME NEW S, NEW n \in Nat, NEW f \in [1..n -> S]
    PROVE  f \in Seq(S) /\ Len(f) = n
<1>1. f \in Seq(S)
  BY SeqDef
<1> QED BY <1>1, LenProperties

\* Two of them, end to end.
LEMMA Concatenation ==
    ASSUME NEW S, NEW f \in Seq(S), NEW g \in Seq(S)
    PROVE  /\ f \o g \in [1..(Len(f) + Len(g)) -> S]
           /\ \A i \in 1..Len(f) : (f \o g)[i] = f[i]
           /\ \A i \in (Len(f) + 1)..(Len(f) + Len(g)) : (f \o g)[i] = g[i - Len(f)]
<1>1. f \o g \in Seq(S) /\ Len(f \o g) = Len(f) + Len(g)
  OBVIOUS
<1>2. f \o g \in [1..(Len(f) + Len(g)) -> S]
  BY <1>1, LenProperties
<1>3. /\ \A i \in 1..Len(f) : (f \o g)[i] = f[i]
      /\ \A i \in (Len(f) + 1)..(Len(f) + Len(g)) : (f \o g)[i] = g[i - Len(f)]
  OBVIOUS
<1> QED BY <1>2, <1>3

\* A history is a sequence of messages.
LEMMA HistoryShape ==
    ASSUME NEW messages \in Histories
    PROVE  /\ messages \in Seq(Message)
           /\ Len(messages) \in Nat /\ Len(messages) <= MaxLength
           /\ messages \in [1..Len(messages) -> Message]
<1>1. PICK n \in 0..MaxLength : messages \in [1..n -> Message]
  BY DEF Histories
<1>2. n \in Nat
  BY ScanAssumption
<1>3. messages \in Seq(Message)
  BY <1>1, <1>2, SeqDef
<1>4. Len(messages) = n
  BY <1>1, <1>2, <1>3, LenProperties
<1> QED BY <1>1, <1>2, <1>3, <1>4

\* And a sequence of messages within the bound is a history.
LEMMA HistoryOfLength ==
    ASSUME NEW n \in Nat, n <= MaxLength, NEW messages \in [1..n -> Message]
    PROVE  messages \in Histories /\ Len(messages) = n
<1>1. messages \in Histories
  BY ScanAssumption DEF Histories
<1>2. messages \in Seq(Message)
  BY SeqDef
<1> QED BY <1>1, <1>2, LenProperties

\* k messages more, behind what was there, and not scanned yet.
Grown(m, k, messages, turn, counts) ==
    /\ messages \o turn \in Histories
    /\ Len(messages \o turn) = m + k
    /\ \A i \in 1..m : (messages \o turn)[i] = messages[i]
    /\ counts \o Zeros(k) \in [1..(m+k) -> Nat]
    /\ \A i \in 1..m : (counts \o Zeros(k))[i] = counts[i]
    /\ \A i \in (m+1)..(m+k) : (counts \o Zeros(k))[i] = 0

\* What a turn adds is behind what was there, unscanned.
LEMMA GrownInputs ==
    ASSUME NEW m \in Nat, NEW k \in Nat, m + k <= MaxLength,
           NEW messages \in [1..m -> Message], NEW turn \in [1..k -> Message],
           NEW counts \in [1..m -> Nat]
    PROVE  Grown(m, k, messages, turn, counts)
<1>1. Zeros(k) \in [1..k -> Nat] /\ \A i \in 1..k : Zeros(k)[i] = 0
  BY DEF Zeros
<1>2. /\ messages \in Seq(Message) /\ Len(messages) = m
      /\ turn \in Seq(Message) /\ Len(turn) = k
  BY IntervalSequence
<1>3. /\ counts \in Seq(Nat) /\ Len(counts) = m
      /\ Zeros(k) \in Seq(Nat) /\ Len(Zeros(k)) = k
  BY <1>1, IntervalSequence
<1> HIDE DEF Zeros
<1>4. /\ messages \o turn \in [1..(m + k) -> Message]
      /\ \A i \in 1..m : (messages \o turn)[i] = messages[i]
  BY <1>2, Concatenation
<1>5. messages \o turn \in Histories /\ Len(messages \o turn) = m + k
  <2>1. m + k \in Nat
    OBVIOUS
  <2> QED BY <1>4, <2>1, HistoryOfLength
<1>6. /\ counts \o Zeros(k) \in [1..(m+k) -> Nat]
      /\ \A i \in 1..m : (counts \o Zeros(k))[i] = counts[i]
      /\ \A i \in (m+1)..(m+k) : (counts \o Zeros(k))[i] = Zeros(k)[i-m]
  <2> DEFINE g == Zeros(k)
  <2>1. g \in Seq(Nat) /\ Len(g) = k
    BY <1>3
  <2> HIDE DEF g
  <2>2. /\ counts \o g \in [1..(Len(counts) + Len(g)) -> Nat]
        /\ \A i \in 1..Len(counts) : (counts \o g)[i] = counts[i]
        /\ \A i \in (Len(counts) + 1)..(Len(counts) + Len(g)) :
              (counts \o g)[i] = g[i - Len(counts)]
    <3>1. counts \in Seq(Nat)
      BY <1>3
    <3> QED BY <2>1, <3>1, Concatenation, Zenon
  <2>3. /\ counts \o g \in [1..(m + k) -> Nat]
        /\ \A i \in 1..m : (counts \o g)[i] = counts[i]
        /\ \A i \in (m+1)..(m+k) : (counts \o g)[i] = g[i-m]
    BY <1>3, <2>1, <2>2
  <2> QED BY <2>3 DEF g
<1>7. \A i \in (m+1)..(m+k) : (counts \o Zeros(k))[i] = 0
  BY <1>1, <1>6
<1> QED BY <1>4, <1>5, <1>6, <1>7 DEF Grown

\* A compacted history is shorter than the one it replaces.
LEMMA CompactedInputs ==
    ASSUME NEW messages \in Histories, NEW keep \in 1..(Len(messages) - 2)
    PROVE  LET kept == SubSeq(messages, Len(messages) - keep + 1, Len(messages))
           IN  /\ <<Text>> \o kept \in Histories
               /\ Len(<<Text>> \o kept) = keep + 1
               /\ keep + 1 < Len(messages)
               /\ Zeros(keep + 1) \in [1..(keep + 1) -> Nat]
               /\ \A i \in 1..(keep + 1) : Zeros(keep + 1)[i] = 0
<1> DEFINE kept == SubSeq(messages, Len(messages) - keep + 1, Len(messages))
<1>1. messages \in Seq(Message) /\ Len(messages) \in Nat /\ Len(messages) <= MaxLength
  BY HistoryShape
<1>2. keep \in Nat /\ keep + 1 < Len(messages) /\ keep + 1 <= MaxLength
  BY <1>1, ScanAssumption
<1>3. kept \in Seq(Message) /\ Len(kept) = keep
  <2>1. \A i \in (Len(messages) - keep + 1)..Len(messages) : messages[i] \in Message
    BY <1>1, <1>2, ElementOfSeq
  <2> QED BY <2>1, <1>1, <1>2, SubSeqProperties
<1>4. Text \in Message
  BY DEF Message
<1>5. <<Text>> \in Seq(Message) /\ Len(<<Text>>) = 1
  BY <1>4
<1> HIDE DEF kept
<1>6. <<Text>> \o kept \in Seq(Message) /\ Len(<<Text>> \o kept) = keep + 1
  BY <1>2, <1>3, <1>5
<1>7. <<Text>> \o kept \in [1..(keep + 1) -> Message]
  BY <1>6, LenProperties
<1>8. <<Text>> \o kept \in Histories
  <2> keep + 1 \in Nat
    BY <1>2
  <2> QED BY <1>2, <1>7, HistoryOfLength, Zenon
<1>9. Zeros(keep + 1) \in [1..(keep + 1) -> Nat]
      /\ \A i \in 1..(keep + 1) : Zeros(keep + 1)[i] = 0
  BY DEF Zeros
<1> QED BY <1>2, <1>6, <1>8, <1>9 DEF kept
(***************************************************************************)
(* detect, seen from outside.                                              *)
(***************************************************************************)

\* The loop ends in one of its states.
LEMMA ScanTailType ==
    ASSUME NEW messages \in Seq(Message), NEW stored \in ScanState
    PROVE  ScanTail(messages, stored) \in Accumulators
<1> DEFINE n == Len(messages)
           start == ScanStart(stored.msg_count, n)
<1>1. PICK g : Scans(g, messages, stored) /\ ScanTail(messages, stored) = g[n]
  BY ScanTailScans
<1>2. n \in start..n
  BY ScanStartBounds DEF ScanState
<1> QED BY <1>1, <1>2 DEF Scans

\* With nothing past the watermark the loop does nothing.
LEMMA ScanTailOfNothing ==
    ASSUME NEW messages \in Seq(Message), NEW stored \in ScanState,
           ScanStart(stored.msg_count, Len(messages)) = Len(messages)
    PROVE  ScanTail(messages, stored) =
               [consec |-> Rebased(stored, Len(messages)).consec_failures, signal |-> "none"]
<1>1. PICK g : Scans(g, messages, stored) /\ ScanTail(messages, stored) = g[Len(messages)]
  BY ScanTailScans
<1> QED BY <1>1 DEF Scans

\* detect returns a signal or none, and a scan state.
LEMMA DetectType ==
    ASSUME NEW messages \in Seq(Message), NEW header \in BOOLEAN, NEW stored \in ScanState
    PROVE  /\ Detect(messages, header, stored).signal \in Signals
           /\ Detect(messages, header, stored).scan \in ScanState
<1>1. Len(messages) \in Nat /\ stored.msg_count \in Nat
  BY DEF ScanState
<1>2. CASE header
  BY <1>1, <1>2 DEF Detect, DetectHeader, MaxOf, ScanState, Signals
<1>3. CASE ~header
  <2>1. ScanTail(messages, stored) \in Accumulators
    BY ScanTailType
  <2>2. Rebased(stored, Len(messages)) \in ScanState
    BY <1>1, RebasedType
  <2> QED BY <1>1, <1>3, <2>1, <2>2 DEF Detect, DetectTail, Accumulators, ScanState
<1> QED BY <1>2, <1>3

\* escalation.py:117-123, 166-170: the watermark the header leaves, and the one the loop leaves.
LEMMA DetectOutcome ==
    ASSUME NEW messages \in Seq(Message), NEW header \in BOOLEAN, NEW stored \in ScanState
    PROVE  LET result == Detect(messages, header, stored)
           IN  [signal  |-> result.signal # "none",
                mark    |-> result.scan.msg_count,
                changed |-> result.scan # stored]
                   \in ScanOutcomes(stored.msg_count, Len(messages), header)
<1> DEFINE n == Len(messages)
           mark == stored.msg_count
           result == Detect(messages, header, stored)
           outcome == [signal  |-> result.signal # "none",
                       mark    |-> result.scan.msg_count,
                       changed |-> result.scan # stored]
<1>1. n \in Nat /\ mark \in Nat
  BY DEF ScanState
<1>2. CASE header
  <2>1. result.signal = "header" /\ result.scan.msg_count = MaxOf(n, mark)
    BY <1>2 DEF Detect, DetectHeader
  <2>2. MaxOf(n, mark) \in Nat
    BY <1>1 DEF MaxOf
  <2>3. result.scan.msg_count # mark => result.scan # stored
    OBVIOUS
  <2> HIDE DEF result
  <2>4. (result.signal # "none") = TRUE
    BY <2>1
  <2>5. (result.scan # stored) \in BOOLEAN
    OBVIOUS
  <2>6. outcome \in [signal : {TRUE}, mark : {MaxOf(n, mark)}, changed : BOOLEAN]
    BY <2>1, <2>4, <2>5
  <2>7. outcome.mark # mark => outcome.changed
    BY <2>3
  <2>8. outcome \in HeaderOutcomes(mark, n)
    <3> HIDE DEF outcome
    <3> QED BY <2>6, <2>7 DEF HeaderOutcomes
  <2>9. ScanOutcomes(mark, n, header) = HeaderOutcomes(mark, n)
    BY <1>2 DEF ScanOutcomes
  <2> QED BY <2>8, <2>9, Zenon DEF result
<1>3. CASE ~header
  <2> DEFINE end == ScanTail(messages, stored)
  <2>1. /\ result.signal = end.signal
        /\ result.scan = [Rebased(stored, n) EXCEPT !.msg_count = n, !.consec_failures = end.consec]
    BY <1>3 DEF Detect, DetectTail
  <2>2. Rebased(stored, n) \in ScanState /\ end \in Accumulators
    BY <1>1, RebasedType, ScanTailType
  <2>3. result.scan.msg_count = n
    BY <2>1, <2>2 DEF ScanState
  <2>4. ScanStart(mark, n) = n => end.signal = "none"
    BY ScanTailOfNothing
  <2>5. ASSUME n = mark PROVE result.scan = stored
    <3>1. Rebased(stored, n) = stored
      BY <2>5, <1>1 DEF Rebased
    <3>2. ScanStart(mark, n) = n
      BY <1>1, <2>5, ScanStartBounds
    <3>3. end.consec = stored.consec_failures
      BY <3>1, <3>2, ScanTailOfNothing
    <3>4. [stored EXCEPT !.msg_count = n, !.consec_failures = end.consec] = stored
      BY <2>5, <3>3 DEF ScanState
    <3> QED BY <2>1, <3>1, <3>4
  <2>6. n # mark => result.scan # stored
    BY <2>3
  <2>7. ScanStart(mark, n) \in 0..n
    BY <1>1, ScanStartBounds
  <2> HIDE DEF result, end
  <2>8. (result.signal # "none") => ScanStart(mark, n) < n
    BY <1>1, <2>1, <2>4, <2>7
  <2>9. (result.scan # stored) = (n # mark)
    BY <2>5, <2>6
  <2>10. outcome \in [signal : BOOLEAN, mark : {n}, changed : {n # mark}]
    BY <2>3, <2>9
  <2>11. outcome.signal => ScanStart(mark, n) < n
    BY <2>8
  <2>12. outcome \in TailOutcomes(mark, n)
    <3> HIDE DEF outcome
    <3> QED BY <2>10, <2>11 DEF TailOutcomes
  <2>13. ScanOutcomes(mark, n, header) = TailOutcomes(mark, n)
    BY <1>3 DEF ScanOutcomes
  <2> QED BY <2>12, <2>13, Zenon DEF result
<1> QED BY <1>2, <1>3
(***************************************************************************)
(* Types.                                                                  *)
(***************************************************************************)

\* What a request of c hands to Handle: its messages, and what is known of them.
Request(c, messages, header, before, counts) ==
    /\ messages \in Histories
    /\ header \in BOOLEAN
    /\ before \in Account
    /\ before.spent <= Len(messages) /\ before.since <= Len(messages)
    /\ counts \in [1..Len(messages) -> Nat]
    /\ Handle(c, messages, header, before, counts)

\* A request whose history continues, or repeats, the last one of c.
Extended(c, messages, header, counts) ==
    /\ Request(c, messages, header, account[c], counts)
    /\ Len(messages) \in Len(history[c])..(Len(history[c]) + MaxTurn)
    /\ \A i \in 1..Len(history[c]) : messages[i] = history[c][i] /\ counts[i] = seen[c][i]
    /\ \A i \in (Len(history[c]) + 1)..Len(messages) : counts[i] = 0

\* A request whose history was compacted.
Compacted(c, messages, header) ==
    /\ \E dropped \in Nat :
          Request(c, messages, header, Carried(account[c], dropped, Len(messages)),
                  Zeros(Len(messages)))
    /\ header \in CompactHeaders
    /\ Len(messages) \in 1..(Len(history[c]) - 1)

\* What is known of one conversation.
LEMMA ConversationTypes ==
    ASSUME TypeOK, NEW c \in Conversations
    PROVE  /\ history[c] \in Histories
           /\ Len(history[c]) \in Nat /\ Len(history[c]) <= MaxLength
           /\ history[c] \in [1..Len(history[c]) -> Message]
           /\ account[c] \in Account
           /\ account[c].since \in 0..Len(history[c])
           /\ account[c].spent \in 0..Len(history[c])
           /\ seen[c] \in [1..Len(history[c]) -> Nat]
<1>1. history[c] \in Histories
  BY DEF TypeOK
<1>2. /\ Len(history[c]) \in Nat /\ Len(history[c]) <= MaxLength
      /\ history[c] \in [1..Len(history[c]) -> Message]
  BY <1>1, HistoryShape
<1>3. seen[c] \in Seq(Nat) /\ Len(seen[c]) = Len(history[c])
  BY DEF TypeOK
<1>4. seen[c] \in [1..Len(history[c]) -> Nat]
  BY <1>3, LenProperties
<1>5. /\ account[c] \in Account
      /\ account[c].since \in 0..Len(history[c])
      /\ account[c].spent \in 0..Len(history[c])
  BY <1>2 DEF TypeOK, Account
<1> QED BY <1>1, <1>2, <1>4, <1>5

\* Growing and sending again extend the history.
LEMMA ExtendingSteps ==
    ASSUME TypeOK, NEW c \in Conversations, Grow(c) \/ Resend(c)
    PROVE  \E messages, header, counts : Extended(c, messages, header, counts)
<1> DEFINE old == history[c]
           m == Len(old)
<1>1. /\ old \in Histories
      /\ m \in Nat /\ m <= MaxLength
      /\ old \in [1..m -> Message]
      /\ account[c] \in Account
      /\ account[c].since \in 0..m /\ account[c].spent \in 0..m
      /\ seen[c] \in [1..m -> Nat]
  BY ConversationTypes
<1>2. CASE Grow(c)
  <2>1. PICK k \in 1..MaxTurn : \E turn \in [1..k -> Message], header \in BOOLEAN :
          /\ m + k <= MaxLength
          /\ Handle(c, old \o turn, header, account[c], seen[c] \o Zeros(k))
    BY <1>2, Zenon DEF Grow
  <2>2. PICK turn \in [1..k -> Message], header \in BOOLEAN :
          /\ m + k <= MaxLength
          /\ Handle(c, old \o turn, header, account[c], seen[c] \o Zeros(k))
    BY <2>1
  <2>3. k \in Nat /\ m + k \in m..(m + MaxTurn)
    BY <1>1, ScanAssumption
  <2>4. /\ old \o turn \in Histories /\ Len(old \o turn) = m + k
        /\ \A i \in 1..m : (old \o turn)[i] = old[i]
        /\ seen[c] \o Zeros(k) \in [1..(m+k) -> Nat]
        /\ \A i \in 1..m : (seen[c] \o Zeros(k))[i] = seen[c][i]
        /\ \A i \in (m+1)..(m+k) : (seen[c] \o Zeros(k))[i] = 0
    <3> HIDE DEF m, old
    <3>1. k \in Nat /\ m \in Nat
      BY <1>1, <2>3
    <3>2. m + k <= MaxLength /\ old \in [1..m -> Message] /\ seen[c] \in [1..m -> Nat]
      BY <1>1, <2>2
    <3>3. Grown(m, k, old, turn, seen[c])
      BY <3>1, <3>2, GrownInputs
    <3> QED BY <3>3 DEF Grown
  <2>5. account[c].since <= m + k /\ account[c].spent <= m + k
    BY <1>1, <2>3
  <2>6. Request(c, old \o turn, header, account[c], seen[c] \o Zeros(k))
    BY <1>1, <2>2, <2>4, <2>5 DEF Request
  <2>7. Extended(c, old \o turn, header, seen[c] \o Zeros(k))
    BY <2>3, <2>4, <2>6 DEF Extended
  <2> QED BY <2>7, Zenon
<1>3. CASE Resend(c)
  <2>1. PICK header \in BOOLEAN : Handle(c, old, header, account[c], seen[c])
    BY <1>3 DEF Resend
  <2>2. Request(c, old, header, account[c], seen[c])
    BY <1>1, <2>1 DEF Request
  <2>3. m \in m..(m + MaxTurn) /\ (m + 1)..m = {}
    BY <1>1, ScanAssumption
  <2>4. Extended(c, old, header, seen[c])
    BY <2>2, <2>3 DEF Extended
  <2> QED BY <2>4, Zenon
<1> QED BY <1>2, <1>3

\* Compacting shortens it.
LEMMA CompactingSteps ==
    ASSUME TypeOK, NEW c \in Conversations, Compact(c)
    PROVE  \E messages, header : Compacted(c, messages, header)
<1> DEFINE old == history[c]
           m == Len(old)
<1>1. old \in Histories /\ m \in Nat
  BY ConversationTypes
<1>2. PICK keep \in 1..(m - 2), header \in CompactHeaders :
        Handle(c, <<Text>> \o SubSeq(old, m - keep + 1, m), header,
               Carried(account[c], m - keep, keep + 1), Zeros(keep + 1))
  BY DEF Compact
<1> DEFINE messages == <<Text>> \o SubSeq(old, m - keep + 1, m)
           before == Carried(account[c], m - keep, keep + 1)
<1>3. /\ messages \in Histories /\ Len(messages) = keep + 1 /\ keep + 1 < m
      /\ Zeros(keep + 1) \in [1..(keep + 1) -> Nat]
  BY <1>1, <1>2, CompactedInputs
<1>4. header \in BOOLEAN /\ keep + 1 \in Nat /\ keep + 1 \in 1..(m - 1) /\ m - keep \in Nat
  BY <1>1, <1>2, <1>3, ScanAssumption
<1>5. before \in Account /\ before.spent <= keep + 1 /\ before.since <= keep + 1
  <2>1. TailOf(keep + 1) \in 0..(keep + 1)
    BY <1>4, ScanStartBounds
  <2>2. account[c].spent \in 0..m
    BY ConversationTypes
  <2>3. before.spent \in Nat /\ before.spent <= keep + 1
    BY <1>1, <1>4, <2>2 DEF Carried
  <2> QED BY <1>4, <2>1, <2>3 DEF Carried, Account
<1> HIDE DEF messages, before
<1>6. Request(c, messages, header, before, Zeros(keep + 1))
  BY <1>2, <1>3, <1>4, <1>5 DEF Request, messages, before
<1>7. Compacted(c, messages, header)
  BY <1>2, <1>3, <1>4, <1>6 DEF Compacted, before
<1> QED BY <1>7, Zenon

\* Every step is a request of one of these kinds.
LEMMA StepIsARequest ==
    ASSUME TypeOK, NEW c \in Conversations, Grow(c) \/ Resend(c) \/ Compact(c)
    PROVE  \E messages, header, before, counts : Request(c, messages, header, before, counts)
<1>1. CASE Grow(c) \/ Resend(c)
  <2>1. PICK messages, header, counts : Extended(c, messages, header, counts)
    BY <1>1, ExtendingSteps
  <2> QED BY <2>1, Zenon DEF Extended
<1>2. CASE Compact(c)
  <2>1. PICK messages, header : Compacted(c, messages, header)
    BY <1>2, CompactingSteps
  <2> QED BY <2>1, Zenon DEF Compacted
<1> QED BY <1>1, <1>2

\* What Handle leaves is well typed.
LEMMA RequestKeepsTypes ==
    ASSUME TypeOK, NEW c \in Conversations, NEW messages, NEW header, NEW before, NEW counts,
           Request(c, messages, header, before, counts)
    PROVE  TypeOK'
<1> DEFINE n == Len(messages)
           result == Detect(messages, header, scan)
           start == IF header THEN n ELSE ScanStart(scan.msg_count, n)
           added == [i \in 1..n |-> counts[i] + (IF i > start THEN 1 ELSE 0)]
<1>1. /\ messages \in Histories /\ header \in BOOLEAN
      /\ before \in Account /\ before.spent <= n /\ before.since <= n
      /\ counts \in [1..n -> Nat]
      /\ Handle(c, messages, header, before, counts)
  BY DEF Request
<1>2. messages \in Seq(Message) /\ n \in Nat
  BY <1>1, HistoryShape
<1>3. scan \in ScanState /\ steps \in 0..MaxSteps /\ MaxSteps \in Nat
  BY ScanAssumption DEF TypeOK
<1>4. result.scan \in ScanState
  BY <1>1, <1>2, <1>3, DetectType
<1>5. start \in Nat
  <2>1. ScanStart(scan.msg_count, n) \in 0..n
    BY <1>2, <1>3, ScanStartBounds DEF ScanState
  <2> QED BY <1>2, <2>1
<1>6. added \in Seq(Nat) /\ Len(added) = n
  <2>1. added \in [1..n -> Nat]
    <3> HIDE DEF start, n
    <3> QED BY <1>1, <1>2, <1>5
  <2> HIDE DEF added
  <2> QED BY <2>1, <1>2, IntervalSequence
<1>7. (history \in [Conversations -> Histories])'
  BY <1>1 DEF Handle, TypeOK
<1>8. scan' \in ScanState
  <2> HIDE DEF result
  <2>1. scan' \in {result.scan, ConsumeScan(result.scan, n)}
    BY <1>1 DEF Handle, result
  <2>2. ConsumeScan(result.scan, n) \in ScanState
    BY <1>2, <1>4 DEF ConsumeScan, Consume, MaxOf, ScanState
  <2> QED BY <1>4, <2>1, <2>2
<1>9. steps' \in 0..MaxSteps
  BY <1>1, <1>3 DEF Handle
<1>10. /\ account' \in [Conversations -> Account]
       /\ account'[c].spent <= n /\ account'[c].since <= n
       /\ \A d \in Conversations : d # c => account'[d] = account[d]
  <2> DEFINE applied == result.signal # "none" /\ steps < MaxSteps
             next == AccountAfter(before, n, header, applied)
  <2>1. account' = [account EXCEPT ![c] = next]
    BY <1>1 DEF Handle
  <2>2. next \in Account /\ next.spent <= n /\ next.since <= n
    <3> HIDE DEF applied
    <3> QED BY <1>1, <1>2 DEF AccountAfter, Account
  <2> HIDE DEF next
  <2> QED BY <2>1, <2>2 DEF TypeOK
<1>11. /\ seen' \in [Conversations -> Seq(Nat)]
       /\ Len(seen'[c]) = n
       /\ \A d \in Conversations : d # c => seen'[d] = seen[d]
  <2>1. seen' = [seen EXCEPT ![c] = added]
    BY <1>1 DEF Handle
  <2> HIDE DEF added
  <2> QED BY <2>1, <1>6 DEF TypeOK
<1>12. /\ history'[c] = messages
       /\ \A d \in Conversations : d # c => history'[d] = history[d]
  BY <1>1 DEF Handle, TypeOK
<1>13. ASSUME NEW d \in Conversations
       PROVE  /\ account'[d].spent <= Len(history'[d])
              /\ account'[d].since <= Len(history'[d])
              /\ Len(seen'[d]) = Len(history'[d])
  <2>1. CASE d = c
    BY <2>1, <1>10, <1>11, <1>12
  <2>2. CASE d # c
    BY <2>2, <1>10, <1>11, <1>12 DEF TypeOK
  <2> QED BY <2>1, <2>2
<1> HIDE DEF n
<1> QED BY <1>7, <1>8, <1>9, <1>10, <1>11, <1>13 DEF TypeOK

\* The histories, the record's scan state, the escalations it has been through and what was
\* scanned stay what they are declared to be, whatever the conversations do.
THEOREM ScanTypeCorrect == Spec => []TypeOK
<1>1. Init => TypeOK
  <2> SUFFICES ASSUME Init PROVE TypeOK
    OBVIOUS
  <2>1. PICK c \in Conversations, n \in 0..MaxTurn : \E first \in [1..n -> Message] :
          /\ history = [d \in Conversations |-> IF d = c THEN first ELSE <<>>]
          /\ scan = Watermark(n)
    BY DEF Init
  <2>2. PICK first \in [1..n -> Message] :
          /\ history = [d \in Conversations |-> IF d = c THEN first ELSE <<>>]
          /\ scan = Watermark(n)
    BY <2>1
  <2>3. n \in Nat /\ n <= MaxLength /\ MaxLength \in Nat
    BY ScanAssumption
  <2>4. first \in Histories
    BY <2>3, HistoryOfLength
  <2>5. <<>> \in Histories
    <3>1. <<>> \in [1..0 -> Message]
      OBVIOUS
    <3>2. 0 \in Nat /\ 0 <= MaxLength
      BY <2>3
    <3> QED BY <3>1, <3>2, HistoryOfLength
  <2>6. history \in [Conversations -> Histories]
    BY <2>2, <2>4, <2>5
  <2>7. ASSUME NEW d \in Conversations
        PROVE  /\ account[d] \in Account
               /\ account[d].since <= Len(history[d]) /\ account[d].spent <= Len(history[d])
               /\ seen[d] \in Seq(Nat) /\ Len(seen[d]) = Len(history[d])
    <3>1. Len(history[d]) \in Nat
      BY <2>6, HistoryShape
    <3>2. account[d] = Unspent(Len(history[d])) /\ seen[d] = Zeros(Len(history[d]))
      BY DEF Init
    <3>3. Zeros(Len(history[d])) \in [1..Len(history[d]) -> Nat]
      BY DEF Zeros
    <3> DEFINE len == Len(history[d])
    <3>4. Zeros(len) \in Seq(Nat) /\ Len(Zeros(len)) = len
      <4> HIDE DEF len
      <4> QED BY <3>1, <3>3, IntervalSequence DEF len
    <3>5. Unspent(len) \in Account /\ Unspent(len).since <= len /\ Unspent(len).spent <= len
      <4> HIDE DEF len
      <4> QED BY <3>1 DEF Unspent, Account, len
    <3> QED BY <3>2, <3>4, <3>5
  <2>8. account \in [Conversations -> Account] /\ seen \in [Conversations -> Seq(Nat)]
    BY <2>7 DEF Init
  <2>9. scan \in ScanState /\ steps \in 0..MaxSteps
    BY <2>2, <2>3, ScanAssumption DEF Watermark, ScanState, Init
  <2>10. \A d \in Conversations :
            /\ account[d].spent <= Len(history[d]) /\ account[d].since <= Len(history[d])
            /\ Len(seen[d]) = Len(history[d])
    BY <2>7
  <2> QED BY <2>6, <2>8, <2>9, <2>10 DEF TypeOK
<1>2. TypeOK /\ [Next]_vars => TypeOK'
  <2> SUFFICES ASSUME TypeOK, [Next]_vars PROVE TypeOK'
    OBVIOUS
  <2>1. CASE Next
    <3>1. PICK c \in Conversations : Grow(c) \/ Resend(c) \/ Compact(c)
      BY <2>1 DEF Next
    <3>2. PICK messages, header, before, counts : Request(c, messages, header, before, counts)
      BY <3>1, StepIsARequest
    <3> QED BY <3>2, RequestKeepsTypes
  <2>2. CASE UNCHANGED vars
    BY <2>2 DEF TypeOK, vars
  <2> QED BY <2>1, <2>2
<1> QED BY <1>1, <1>2, PTL DEF Spec

\* SessionRouter's abstraction of detect is sound: whatever the messages are, what detect
\* returns is among the outcomes the hook's model allows for.
THEOREM ScanOutcomesAreSound == Spec => StaysWithinScanOutcomes
<1> DEFINE result == Detect(history'[request'.conv], request'.header, scan)
           Within == [signal  |-> result.signal # "none",
                      mark    |-> result.scan.msg_count,
                      changed |-> result.scan # scan]
                        \in ScanOutcomes(scan.msg_count, request'.n, request'.header)
<1>1. TypeOK /\ [Next]_vars => [Within]_vars
  <2> SUFFICES ASSUME TypeOK, Next PROVE Within
    OBVIOUS
  <2>1. PICK c \in Conversations : Grow(c) \/ Resend(c) \/ Compact(c)
    BY DEF Next
  <2>2. PICK messages, header, before, counts : Request(c, messages, header, before, counts)
    BY <2>1, StepIsARequest
  <2>3. /\ messages \in Seq(Message) /\ header \in BOOLEAN /\ scan \in ScanState
        /\ Handle(c, messages, header, before, counts)
    BY <2>2, HistoryShape DEF Request, TypeOK
  <2>4. history'[c] = messages
    BY <2>3 DEF Handle, TypeOK
  <2>5. request'.conv = c /\ request'.n = Len(messages) /\ request'.header = header
    BY <2>3 DEF Handle
  <2>6. [signal  |-> Detect(messages, header, scan).signal # "none",
         mark    |-> Detect(messages, header, scan).scan.msg_count,
         changed |-> Detect(messages, header, scan).scan # scan]
           \in ScanOutcomes(scan.msg_count, Len(messages), header)
    BY <2>3, DetectOutcome, Zenon
  <2> QED BY <2>4, <2>5, <2>6
<1> QED BY <1>1, ScanTypeCorrect, PTL DEF Spec, StaysWithinScanOutcomes
(***************************************************************************)
(* The streak of failures at the end of a stretch of a history, which the  *)
(* properties define by counting, against the loop, which keeps it.        *)
(***************************************************************************)

\* The results from which on all of these fail.
Trail(messages, results) ==
    {p \in results : \A q \in results : NotBefore(q, p) => messages[q[1]].flags[q[2]]}

\* One more result at the end continues the trail or ends it.
LEMMA TrailGrows ==
    ASSUME NEW messages, NEW results, IsFiniteSet(results), NEW r,
           \A q \in results : NotBefore(r, q) /\ ~NotBefore(q, r),
           NotBefore(r, r), messages[r[1]].flags[r[2]] \in BOOLEAN
    PROVE  Cardinality(Trail(messages, results \cup {r})) =
               AfterResult(Cardinality(Trail(messages, results)), messages[r[1]].flags[r[2]])
<1>1. Trail(messages, results) \subseteq results /\ r \notin results
  BY DEF Trail
<1>2. IsFiniteSet(Trail(messages, results))
  BY <1>1, FS_Subset
<1>3. CASE messages[r[1]].flags[r[2]]
  <2>1. Trail(messages, results \cup {r}) = Trail(messages, results) \cup {r}
    BY <1>3 DEF Trail
  <2>2. r \notin Trail(messages, results)
    BY <1>1
  <2> QED BY <1>2, <1>3, <2>1, <2>2, FS_AddElement DEF AfterResult
<1>4. CASE ~messages[r[1]].flags[r[2]]
  <2>1. Trail(messages, results \cup {r}) = {}
    BY <1>4 DEF Trail
  <2> QED BY <1>4, <2>1, FS_EmptySet DEF AfterResult
<1> QED BY <1>3, <1>4

ResultsAt(messages, m) == {m} \X DOMAIN messages[m].flags

\* The results of one more message are added to the earlier ones.
LEMMA ResultsGrow ==
    ASSUME NEW messages, NEW from \in Nat, NEW i \in Nat, from <= i
    PROVE  Results(messages, from, i + 1) =
               Results(messages, from, i) \cup ResultsAt(messages, i + 1)
<1>1. (from+1)..(i+1) = ((from+1)..i) \cup {i+1}
  OBVIOUS
<1> QED BY <1>1 DEF Results, ResultsAt

\* They come behind the earlier ones.
LEMMA ResultsAreInPlace ==
    ASSUME NEW messages, NEW from, NEW i, NEW p \in Results(messages, from, i)
    PROVE  p[1] \in (from+1)..i
BY DEF Results

\* Nothing of a history has no results, and no streak.
LEMMA NoResults ==
    ASSUME NEW messages, NEW from \in Nat
    PROVE  Results(messages, from, from) = {} /\ Streak(messages, from, from) = 0
<1>1. (from+1)..from = {}
  OBVIOUS
<1>2. Results(messages, from, from) = {}
  BY <1>1 DEF Results
<1> QED BY <1>2, FS_EmptySet DEF Streak

\* A stretch of a history has finitely many results.
LEMMA ResultsAreFinite ==
    ASSUME NEW messages \in Seq(Message), NEW from \in Nat, NEW to \in Nat,
           from <= to, to <= Len(messages)
    PROVE  IsFiniteSet(Results(messages, from, to))
<1> DEFINE T == {i \in from..to : IsFiniteSet(Results(messages, from, i))}
<1>1. from \in T
  <2>1. IsFiniteSet(Results(messages, from, from))
    BY NoResults, FS_EmptySet
  <2> QED BY <2>1
<1>2. ASSUME NEW i \in from..to, i \in T, i < to
      PROVE  i + 1 \in T
  <2>1. messages[i+1] \in Message
    BY <1>2
  <2>2. messages[i+1].flags \in Seq(BOOLEAN)
    BY <2>1, MessageShape
  <2>3. IsFiniteSet(DOMAIN messages[i+1].flags)
    <3>1. DOMAIN messages[i+1].flags = 1..Len(messages[i+1].flags)
      BY <2>2, LenProperties
    <3>2. Len(messages[i+1].flags) \in Int /\ 1 \in Int
      BY <2>2, LenProperties
    <3> QED BY <3>1, <3>2, FS_Interval
  <2>4. IsFiniteSet({i + 1} \X DOMAIN messages[i+1].flags)
    BY <2>3, FS_Singleton, FS_Product
  <2>5. IsFiniteSet(Results(messages, from, i + 1))
    <3>1. IsFiniteSet(Results(messages, from, i))
      BY <1>2
    <3>2. Results(messages, from, i + 1) =
              Results(messages, from, i) \cup ResultsAt(messages, i + 1)
      <4>1. i \in Nat /\ from <= i
        OBVIOUS
      <4> QED BY <4>1, ResultsGrow
    <3>3. IsFiniteSet(ResultsAt(messages, i + 1))
      BY <2>4 DEF ResultsAt
    <3>4. IsFiniteSet(Results(messages, from, i) \cup ResultsAt(messages, i + 1))
      BY <3>1, <3>3, FS_Union
    <3> QED BY <3>2, <3>4
  <2> QED BY <2>5, <1>2
<1> HIDE DEF T
<1>3. \A i \in from..to : i \in T
  BY <1>1, <1>2, IntervalInduction
<1> QED BY <1>3 DEF T

\* The definition of the properties obeys the recursion of the loop.
LEMMA StreakGrows ==
    ASSUME NEW messages \in Seq(Message), NEW from \in Nat, NEW i \in Nat,
           from <= i, i < Len(messages)
    PROVE  /\ Streak(messages, from, i) \in Nat
           /\ Streak(messages, from, i + 1) =
                  StreakAfter(Streak(messages, from, i), messages[i+1].flags)
<1> DEFINE before == Results(messages, from, i)
           flags == messages[i+1].flags
           upTo(j) == before \cup ({i + 1} \X (1..j))
           start == Streak(messages, from, i)
<1>1. IsFiniteSet(before)
  BY ResultsAreFinite
<1>2. Streak(messages, from, i) = Cardinality(Trail(messages, before))
  BY DEF Streak, Trail
<1>3. start \in Nat
  <2>1. Trail(messages, before) \subseteq before
    BY DEF Trail
  <2> QED BY <1>1, <1>2, <2>1, FS_Subset, FS_CardinalityType
<1>4. flags \in Seq(BOOLEAN) /\ Len(flags) \in Nat /\ DOMAIN flags = 1..Len(flags)
  <2>1. messages[i+1] \in Message
    OBVIOUS
  <2> QED BY <2>1, MessageShape, LenProperties
<1>5. PICK f : Counts(f, start, flags) /\ StreakAfter(start, flags) = f[Len(flags)]
  BY <1>3, <1>4, StreakAfterCounts
<1> DEFINE T == {j \in 0..Len(flags) :
                    /\ IsFiniteSet(upTo(j))
                    /\ Cardinality(Trail(messages, upTo(j))) = f[j]}
<1>6. 0 \in T
  <2>1. upTo(0) = before
    OBVIOUS
  <2>2. f[0] = start
    BY <1>5 DEF Counts
  <2>3. IsFiniteSet(upTo(0)) /\ Cardinality(Trail(messages, upTo(0))) = f[0]
    BY <1>1, <1>2, <2>1, <2>2
  <2> HIDE DEF upTo, flags
  <2> QED BY <1>4, <2>3
<1>7. ASSUME NEW j \in 0..Len(flags), j \in T, j < Len(flags)
      PROVE  j + 1 \in T
  <2> DEFINE r == <<i + 1, j + 1>>
  <2>1. upTo(j + 1) = upTo(j) \cup {r}
    <3>1. 1..(j+1) = (1..j) \cup {j+1}
      BY <1>4
    <3> QED BY <3>1
  <2>2. ASSUME NEW q \in upTo(j)
        PROVE  NotBefore(r, q) /\ ~NotBefore(q, r)
    <3>1. CASE q \in before
      <4>1. q[1] \in (from+1)..i
        BY <3>1, ResultsAreInPlace
      <4> QED BY <4>1 DEF NotBefore
    <3>2. CASE q \in {i + 1} \X (1..j)
      <4>1. q[1] = i + 1 /\ q[2] \in 1..j
        BY <3>2
      <4> QED BY <4>1, <1>4 DEF NotBefore
    <3> QED BY <3>1, <3>2
  <2>3. NotBefore(r, r)
    BY <1>4 DEF NotBefore
  <2>4. messages[r[1]].flags[r[2]] = flags[j+1] /\ flags[j+1] \in BOOLEAN
    BY <1>4, <1>7
  <2>5. f[j+1] = AfterResult(f[j], flags[j+1])
    BY <1>4, <1>5, <1>7 DEF Counts
  <2>6. IsFiniteSet(upTo(j)) /\ Cardinality(Trail(messages, upTo(j))) = f[j]
    BY <1>7
  <2> HIDE DEF upTo, r, flags
  <2>7. Cardinality(Trail(messages, upTo(j) \cup {r})) =
            AfterResult(Cardinality(Trail(messages, upTo(j))), messages[r[1]].flags[r[2]])
    BY <2>2, <2>3, <2>4, <2>6, TrailGrows
  <2>8. IsFiniteSet(upTo(j) \cup {r})
    BY <2>6, FS_AddElement
  <2>9. Cardinality(Trail(messages, upTo(j + 1))) = f[j+1]
    BY <2>1, <2>4, <2>5, <2>6, <2>7
  <2>10. IsFiniteSet(upTo(j + 1))
    BY <2>1, <2>8
  <2>11. j + 1 \in 0..Len(flags)
    BY <1>4, <1>7
  <2> QED BY <2>9, <2>10, <2>11
<1>8. Len(flags) \in T
  <2> HIDE DEF T
  <2>1. \A j \in 0..Len(flags) : j \in T
    BY <1>4, <1>6, <1>7, IntervalInduction
  <2> QED BY <2>1, <1>4
<1>9. upTo(Len(flags)) = Results(messages, from, i + 1)
  <2>1. Results(messages, from, i + 1) =
            Results(messages, from, i) \cup ResultsAt(messages, i + 1)
    <3>1. i \in Nat /\ from <= i
      OBVIOUS
    <3> QED BY <3>1, ResultsGrow
  <2> QED BY <1>4, <2>1 DEF ResultsAt
<1>10. Streak(messages, from, i + 1) = Cardinality(Trail(messages, upTo(Len(flags))))
  BY <1>9 DEF Streak, Trail
<1> QED BY <1>3, <1>5, <1>8, <1>10

\* Histories that agree on a stretch agree on its streak.
LEMMA StreakIsLocal ==
    ASSUME NEW one, NEW other, NEW from \in Nat, NEW to \in Nat,
           \A i \in (from+1)..to : one[i] = other[i]
    PROVE  Streak(one, from, to) = Streak(other, from, to)
<1>1. Results(one, from, to) = Results(other, from, to)
  BY DEF Results
<1>2. \A q \in Results(one, from, to) : one[q[1]] = other[q[1]]
  BY DEF Results
<1>3. Trail(one, Results(one, from, to)) = Trail(other, Results(other, from, to))
  BY <1>1, <1>2 DEF Trail
<1> QED BY <1>3 DEF Streak, Trail
(***************************************************************************)
(* One conversation under its own key.                                     *)
(***************************************************************************)

\* A session key stands for one conversation, as it does with SUBAGENT_ROUTING_ENABLED on.
OneConversation == \E c : Conversations = {c}

\* Nothing of c was scanned twice, and nothing of it at all while the watermark is past
\* its end: only the header on a compacting request puts it there.
ScannedOnceOf(c) ==
    /\ scan.msg_count >= Len(history[c])
    /\ \A i \in 1..Len(history[c]) :
          /\ seen[c][i] <= 1
          /\ scan.msg_count > Len(history[c]) => seen[c][i] = 0

OnceInv == \A c \in Conversations : ScannedOnceOf(c)

\* The watermark a request leaves: the length of its history, or with the header the
\* further of that and the old one.
LEMMA NewMark ==
    ASSUME TypeOK, NEW c \in Conversations, NEW messages, NEW header, NEW before, NEW counts,
           Request(c, messages, header, before, counts)
    PROVE  scan'.msg_count = IF header THEN MaxOf(Len(messages), scan.msg_count)
                             ELSE Len(messages)
<1> DEFINE n == Len(messages)
           result == Detect(messages, header, scan)
<1>1. /\ messages \in Seq(Message) /\ n \in Nat /\ header \in BOOLEAN
      /\ scan \in ScanState /\ scan.msg_count \in Nat
      /\ Handle(c, messages, header, before, counts)
  BY HistoryShape DEF Request, TypeOK, ScanState
<1>2. result.scan.msg_count = IF header THEN MaxOf(n, scan.msg_count) ELSE n
  <2>1. CASE header
    BY <2>1 DEF Detect, DetectHeader
  <2>2. CASE ~header
    <3>1. Rebased(scan, n) \in ScanState
      BY <1>1, RebasedType
    <3> QED BY <2>2, <3>1 DEF Detect, DetectTail, ScanState
  <2> QED BY <2>1, <2>2
<1>3. scan'.msg_count \in {result.scan.msg_count, Consume(result.scan.msg_count, n)}
  BY <1>1 DEF Handle, ConsumeScan
<1>4. Consume(result.scan.msg_count, n) = result.scan.msg_count
  <2> HIDE DEF result
  <2> QED BY <1>1, <1>2 DEF Consume, MaxOf
<1> HIDE DEF result
<1> QED BY <1>2, <1>3, <1>4

\* How often the messages of a request were scanned then.
LEMMA NewCounts ==
    ASSUME TypeOK, NEW c \in Conversations, NEW messages, NEW header, NEW before, NEW counts,
           Request(c, messages, header, before, counts)
    PROVE  /\ history'[c] = messages
           /\ Len(messages) \in Nat
           /\ ScanStart(scan.msg_count, Len(messages)) \in 0..Len(messages)
           /\ \A i \in 1..Len(messages) :
                 /\ counts[i] \in Nat
                 /\ seen'[c][i] = IF ~header /\ i > ScanStart(scan.msg_count, Len(messages))
                                  THEN counts[i] + 1 ELSE counts[i]
<1> DEFINE n == Len(messages)
           start == IF header THEN n ELSE ScanStart(scan.msg_count, n)
           added == [i \in 1..n |-> counts[i] + (IF i > start THEN 1 ELSE 0)]
<1>1. /\ n \in Nat /\ header \in BOOLEAN /\ counts \in [1..n -> Nat]
      /\ scan.msg_count \in Nat
      /\ Handle(c, messages, header, before, counts)
  BY HistoryShape DEF Request, TypeOK, ScanState
<1>2. history'[c] = messages
  BY <1>1 DEF Handle, TypeOK
<1>3. seen'[c] = added
  BY <1>1 DEF Handle, TypeOK
<1>4. ScanStart(scan.msg_count, n) \in 0..n
  BY <1>1, ScanStartBounds
<1>5. ASSUME NEW i \in 1..n
      PROVE  /\ counts[i] \in Nat
             /\ seen'[c][i] = IF ~header /\ i > ScanStart(scan.msg_count, n)
                              THEN counts[i] + 1 ELSE counts[i]
  <2>1. counts[i] \in Nat
    BY <1>1
  <2>2. seen'[c][i] = counts[i] + (IF i > start THEN 1 ELSE 0)
    BY <1>3
  <2>3. CASE header
    <3>1. ~(i > start)
      BY <1>1, <2>3
    <3> QED BY <2>1, <2>2, <2>3, <3>1
  <2>4. CASE ~header
    <3>1. start = ScanStart(scan.msg_count, n)
      BY <2>4
    <3> HIDE DEF start, n
    <3> QED BY <2>1, <2>2, <2>4, <3>1
  <2> QED BY <1>1, <2>3, <2>4
<1> QED BY <1>1, <1>2, <1>4, <1>5
\* A request that continues the history scans only what is new in it.
LEMMA ExtendingScansOnce ==
    ASSUME TypeOK, NEW c \in Conversations, ScannedOnceOf(c),
           NEW messages, NEW header, NEW counts, Extended(c, messages, header, counts)
    PROVE  ScannedOnceOf(c)'
<1> DEFINE n == Len(messages)
           m == Len(history[c])
           mark == scan.msg_count
           start == ScanStart(mark, n)
<1>1. Request(c, messages, header, account[c], counts) /\ header \in BOOLEAN
  BY DEF Extended, Request
<1>2. /\ m \in Nat /\ n \in Nat /\ m <= n /\ mark \in Nat /\ m <= mark
      /\ \A i \in 1..m : /\ seen[c][i] \in Nat /\ seen[c][i] <= 1
                         /\ mark > m => seen[c][i] = 0
  BY ConversationTypes DEF Extended, TypeOK, ScanState, ScannedOnceOf
<1>3. /\ \A i \in 1..m : counts[i] = seen[c][i]
      /\ \A i \in (m+1)..n : counts[i] = 0
  BY DEF Extended
<1>4. scan'.msg_count = IF header THEN MaxOf(n, mark) ELSE n
  BY <1>1, NewMark
<1>5. /\ history'[c] = messages
      /\ start \in 0..n
      /\ \A i \in 1..n : /\ counts[i] \in Nat
                         /\ seen'[c][i] = IF ~header /\ i > start THEN counts[i] + 1
                                          ELSE counts[i]
  BY <1>1, NewCounts
<1>6. mark = m => start >= m
  BY <1>2, ScanStartBounds
<1>7. scan'.msg_count >= n
  BY <1>1, <1>2, <1>4 DEF MaxOf
<1>8. ASSUME NEW i \in 1..n
      PROVE  seen'[c][i] <= 1 /\ (scan'.msg_count > n => seen'[c][i] = 0)
  <2> HIDE DEF start, n, m, mark
  <2>1. counts[i] \in Nat /\ counts[i] <= 1 /\ (counts[i] # 0 => i <= m /\ mark = m)
    <3>1. CASE i <= m
      <4>1. i \in 1..m
        BY <1>2, <3>1
      <4>2. counts[i] = seen[c][i] /\ seen[c][i] <= 1 /\ (mark > m => seen[c][i] = 0)
        BY <1>2, <1>3, <4>1
      <4> QED BY <1>2, <1>5, <3>1, <4>2
    <3>2. CASE i > m
      <4>1. i \in (m+1)..n
        BY <1>2, <3>2
      <4> QED BY <1>3, <4>1
    <3> QED BY <1>2, <3>1, <3>2
  <2>2. seen'[c][i] = IF ~header /\ i > start THEN counts[i] + 1 ELSE counts[i]
    BY <1>5
  <2>3. start \in Nat
    BY <1>2, <1>5
  <2>4. CASE ~header /\ i > start
    <3>1. counts[i] = 0
      BY <1>2, <1>6, <2>1, <2>3, <2>4
    <3>2. scan'.msg_count = n
      BY <1>4, <2>4
    <3> QED BY <1>2, <2>2, <2>4, <3>1, <3>2
  <2>5. CASE header
    <3>1. scan'.msg_count = MaxOf(n, mark)
      BY <1>4, <2>5
    <3>2. seen'[c][i] = counts[i]
      BY <2>2, <2>5
    <3> QED BY <1>2, <2>1, <3>1, <3>2 DEF MaxOf
  <2>6. CASE ~header /\ ~(i > start)
    <3>1. scan'.msg_count = n
      BY <1>4, <2>6
    <3>2. seen'[c][i] = counts[i]
      BY <2>2, <2>6
    <3> QED BY <1>2, <2>1, <3>1, <3>2
  <2> QED BY <1>1, <2>4, <2>5, <2>6
<1> QED BY <1>5, <1>7, <1>8 DEF ScannedOnceOf

\* A compacted history starts over.
LEMMA CompactingScansOnce ==
    ASSUME TypeOK, NEW c \in Conversations,
           NEW messages, NEW header, Compacted(c, messages, header)
    PROVE  ScannedOnceOf(c)'
<1> DEFINE n == Len(messages)
           mark == scan.msg_count
           start == ScanStart(mark, n)
           counts == Zeros(n)
<1>1. PICK dropped \in Nat :
        /\ Request(c, messages, header, Carried(account[c], dropped, n), counts)
        /\ header \in BOOLEAN
  BY DEF Compacted, Request
<1>2. mark \in Nat /\ \A i \in 1..n : counts[i] = 0
  BY DEF TypeOK, ScanState, Zeros
<1>3. scan'.msg_count = IF header THEN MaxOf(n, mark) ELSE n
  BY <1>1, NewMark
<1> HIDE DEF counts
<1>4. /\ history'[c] = messages /\ n \in Nat
      /\ \A i \in 1..n : seen'[c][i] = IF ~header /\ i > start THEN counts[i] + 1
                                       ELSE counts[i]
  BY <1>1, NewCounts
<1>5. scan'.msg_count >= n /\ (~header => scan'.msg_count = n)
  BY <1>1, <1>2, <1>3, <1>4 DEF MaxOf
<1>6. ASSUME NEW i \in 1..n
      PROVE  seen'[c][i] <= 1 /\ (scan'.msg_count > n => seen'[c][i] = 0)
  <2> HIDE DEF start, n
  <2>1. counts[i] = 0
    BY <1>2
  <2>2. CASE header
    BY <1>4, <2>1, <2>2
  <2>3. CASE ~header
    BY <1>4, <1>5, <2>1, <2>3
  <2> QED BY <1>1, <2>2, <2>3
<1> QED BY <1>4, <1>5, <1>6 DEF ScannedOnceOf

\* With one conversation under the key, no message of it is scanned twice: whatever it
\* sends again, compacts or marks with the header, and however long its turns are.
THEOREM ScannedOnceHolds == ASSUME OneConversation PROVE Spec => []ScannedOnce
<1>1. PICK c : Conversations = {c}
  BY DEF OneConversation
<1>2. Init => OnceInv
  <2> SUFFICES ASSUME Init PROVE ScannedOnceOf(c)
    BY <1>1 DEF OnceInv
  <2>1. PICK n \in 0..MaxTurn : \E first \in [1..n -> Message] :
          /\ history = [d \in Conversations |-> IF d = c THEN first ELSE <<>>]
          /\ scan = Watermark(n)
    BY <1>1 DEF Init
  <2>2. PICK first \in [1..n -> Message] :
          /\ history = [d \in Conversations |-> IF d = c THEN first ELSE <<>>]
          /\ scan = Watermark(n)
    BY <2>1
  <2>3. n \in Nat /\ history[c] = first /\ scan.msg_count = n
    BY <1>1, <2>2, ScanAssumption DEF Watermark
  <2>4. Len(history[c]) = n
    BY <2>3, IntervalSequence
  <2>5. \A i \in 1..n : seen[c][i] = 0
    BY <1>1, <2>4 DEF Init, Zeros
  <2> QED BY <2>3, <2>4, <2>5 DEF ScannedOnceOf
<1>3. TypeOK /\ OnceInv /\ [Next]_vars => OnceInv'
  <2> SUFFICES ASSUME TypeOK, ScannedOnceOf(c), [Next]_vars PROVE ScannedOnceOf(c)'
    BY <1>1 DEF OnceInv
  <2>1. CASE Grow(c) \/ Resend(c)
    <3>1. PICK messages, header, counts : Extended(c, messages, header, counts)
      BY <1>1, <2>1, ExtendingSteps
    <3> QED BY <1>1, <3>1, ExtendingScansOnce
  <2>2. CASE Compact(c)
    <3>1. PICK messages, header : Compacted(c, messages, header)
      BY <1>1, <2>2, CompactingSteps
    <3> QED BY <1>1, <3>1, CompactingScansOnce
  <2>3. CASE UNCHANGED vars
    BY <2>3 DEF ScannedOnceOf, vars
  <2> QED BY <1>1, <2>1, <2>2, <2>3 DEF Next
<1>4. TypeOK /\ OnceInv => ScannedOnce
  <2> SUFFICES ASSUME TypeOK, OnceInv, NEW d \in Conversations, NEW i \in DOMAIN seen[d]
               PROVE  seen[d][i] <= 1
    BY DEF ScannedOnce
  <2>1. i \in 1..Len(history[d])
    BY ConversationTypes
  <2> QED BY <2>1 DEF OnceInv, ScannedOnceOf
<1> QED BY <1>2, <1>3, <1>4, ScanTypeCorrect, PTL DEF Spec
\* Where the loop has come to, seen from the properties: the streak from the spent evidence
\* on, and a reason for the signal among the messages it has scanned.
ScannedSoFar(g, messages, spent, start, i) ==
    /\ g[i].consec = Streak(messages, spent, i)
    /\ g[i].signal # "header"
    /\ g[i].signal = "tool_failures" =>
          \E j \in (start+1)..i : Streak(messages, spent, j) >= Threshold

\* escalation.py:143-164: started with the true streak, the loop ends with the true streak,
\* and a signal of failures rests on a streak of the threshold at a message it scanned.
LEMMA ScanFollowsTheStreak ==
    ASSUME NEW messages \in Seq(Message), NEW stored \in ScanState, NEW spent \in Nat,
           spent <= ScanStart(stored.msg_count, Len(messages)),
           Rebased(stored, Len(messages)).consec_failures =
               Streak(messages, spent, ScanStart(stored.msg_count, Len(messages)))
    PROVE  LET end == ScanTail(messages, stored)
               start == ScanStart(stored.msg_count, Len(messages))
           IN  /\ end.consec = Streak(messages, spent, Len(messages))
               /\ end.signal # "header"
               /\ end.signal # "none" => start < Len(messages)
               /\ end.signal = "tool_failures" =>
                     \E j \in (start+1)..Len(messages) : Streak(messages, spent, j) >= Threshold
<1> DEFINE n == Len(messages)
           start == ScanStart(stored.msg_count, n)
           state == Rebased(stored, n)
<1>1. n \in Nat /\ start \in 0..n /\ state \in ScanState
  <2>1. n \in Nat /\ stored.msg_count \in Nat
    BY DEF ScanState
  <2>2. start \in 0..n
    BY <2>1, ScanStartBounds
  <2>3. state \in ScanState
    BY <2>1, RebasedType
  <2> QED BY <2>1, <2>2, <2>3
<1>2. PICK g : Scans(g, messages, stored) /\ ScanTail(messages, stored) = g[n]
  BY ScanTailScans
<1>3. /\ g \in [start..n -> Accumulators]
      /\ g[start] = [consec |-> state.consec_failures, signal |-> "none"]
      /\ \A i \in (start+1)..n : g[i] = ScanMessage(g[i-1], messages[i], i, n, state)
  BY <1>2 DEF Scans
<1> HIDE DEF start, state
<1> DEFINE T == {i \in start..n : ScannedSoFar(g, messages, spent, start, i)}
<1>4. start \in T
  BY <1>1, <1>3 DEF ScannedSoFar, start, state
<1>5. ASSUME NEW i \in start..n, i \in T, i < n
      PROVE  i + 1 \in T
  <2>1. i \in Nat /\ i + 1 \in (start+1)..n /\ i + 1 - 1 = i /\ spent <= i
    BY <1>1, <1>5 DEF start
  <2>2. g[i] \in Accumulators /\ messages[i+1] \in Message
    BY <1>3, <2>1
  <2>3. g[i+1] = ScanMessage(g[i], messages[i+1], i + 1, n, state)
    BY <1>3, <2>1
  <2>4. /\ g[i+1].consec = StreakAfter(g[i].consec, messages[i+1].flags)
        /\ \/ g[i+1].signal = g[i].signal
           \/ g[i+1].signal = "tool_failures" /\ g[i+1].consec >= Threshold
           \/ g[i+1].signal = "retry_text"
    <3>1. i + 1 \in Nat
      BY <2>1
    <3> DEFINE acc == g[i]
               msg == messages[i+1]
               out == ScanMessage(acc, msg, i + 1, n, state)
    <3>2. acc \in Accumulators /\ msg \in Message /\ n \in Nat /\ state \in ScanState
      BY <1>1, <2>2
    <3> HIDE DEF acc, msg, n
    <3>3. /\ out.consec = StreakAfter(acc.consec, msg.flags)
          /\ \/ out.signal = acc.signal
             \/ out.signal = "tool_failures" /\ out.consec >= Threshold
             \/ out.signal = "retry_text"
      BY <3>1, <3>2, ScanMessageEffect
    <3>4. g[i+1] = out
      BY <2>3 DEF acc, msg, n
    <3> HIDE DEF out
    <3> QED BY <3>3, <3>4 DEF acc, msg
  <2>5. ScannedSoFar(g, messages, spent, start, i)
    BY <1>5
  <2>6. g[i+1].consec = Streak(messages, spent, i + 1)
    <3>1. Streak(messages, spent, i + 1) =
              StreakAfter(Streak(messages, spent, i), messages[i+1].flags)
      BY <1>5, <2>1, StreakGrows
    <3> QED BY <2>4, <2>5, <3>1 DEF ScannedSoFar
  <2>7. g[i+1].signal # "header"
    BY <2>4, <2>5 DEF ScannedSoFar
  <2>8. ASSUME g[i+1].signal = "tool_failures"
        PROVE  \E j \in (start+1)..(i+1) : Streak(messages, spent, j) >= Threshold
    <3>1. CASE g[i+1].signal = g[i].signal
      <4>1. PICK j \in (start+1)..i : Streak(messages, spent, j) >= Threshold
        BY <2>5, <2>8, <3>1 DEF ScannedSoFar
      <4>2. j \in (start+1)..(i+1)
        BY <1>1, <2>1, <4>1
      <4> QED BY <4>1, <4>2
    <3>2. CASE g[i+1].consec >= Threshold
      <4>1. i + 1 \in (start+1)..(i+1)
        BY <1>1, <2>1
      <4> QED BY <2>6, <3>2, <4>1
    <3> QED BY <2>4, <2>8, <3>1, <3>2
  <2>9. ScannedSoFar(g, messages, spent, start, i + 1)
    BY <2>6, <2>7, <2>8 DEF ScannedSoFar
  <2>10. i + 1 \in start..n
    BY <1>1, <2>1
  <2> QED BY <2>9, <2>10
<1>6. n \in T
  <2> HIDE DEF T
  <2>1. start \in Nat
    BY <1>1
  <2>2. \A i \in start..n : i \in T
    BY <1>1, <1>4, <1>5, <2>1, IntervalInduction
  <2>3. n \in start..n
    BY <1>1
  <2> QED BY <2>2, <2>3
<1>7. ScannedSoFar(g, messages, spent, start, n)
  BY <1>6
<1>8. start = n => g[n].signal = "none"
  BY <1>3
<1> QED BY <1>1, <1>2, <1>7, <1>8 DEF ScannedSoFar, start

(***************************************************************************)
(* The evidence of one conversation, with turns that fit the tail and no   *)
(* header on a request that compacts.                                      *)
(***************************************************************************)

TurnsFitTheTail == MaxTurn <= MaxTail /\ TRUE \notin CompactHeaders

\* Every earlier message is behind the watermark.
MarkIsTheLength == \A c \in Conversations : scan.msg_count = Len(history[c])

EvidenceInv ==
    /\ MarkIsTheLength
    /\ StreakIsTrue
    /\ NothingIsMissed
    /\ EscalationsAreEarned

\* A request keeps the account of the evidence when the scan starts where the account of
\* the messages it sends ends.
LEMMA HandleKeepsTheAccount ==
    ASSUME TypeOK, NEW c, Conversations = {c},
           NEW messages, NEW header, NEW before, NEW counts,
           Request(c, messages, header, before, counts),
           ~before.compacted => before.since >= before.spent,
           header => scan.msg_count <= Len(messages),
           ~header =>
               LET start == ScanStart(scan.msg_count, Len(messages))
               IN  /\ before.since <= start
                   /\ Rebased(scan, Len(messages)).consec_failures =
                          Streak(messages, before.since, start)
                   /\ \A i \in 1..start : counts[i] = 0 => i <= before.since
    PROVE  EvidenceInv'
<1> DEFINE n == Len(messages)
           from == before.since
           start == ScanStart(scan.msg_count, n)
           result == Detect(messages, header, scan)
           end == ScanTail(messages, scan)
           applied == result.signal # "none" /\ steps < MaxSteps
<1>1. /\ messages \in Seq(Message) /\ n \in Nat /\ header \in BOOLEAN
      /\ from \in 0..n /\ before.spent \in 0..n /\ before.compacted \in BOOLEAN
      /\ c \in Conversations
      /\ scan \in ScanState /\ scan.msg_count \in Nat
      /\ Handle(c, messages, header, before, counts)
  BY HistoryShape DEF Request, TypeOK, ScanState, Account
<1>2. /\ history'[c] = messages
      /\ start \in 0..n
      /\ \A i \in 1..n : /\ counts[i] \in Nat
                         /\ seen'[c][i] = IF ~header /\ i > start THEN counts[i] + 1
                                          ELSE counts[i]
  BY <1>1, NewCounts
<1>3. /\ account'[c].since = IF applied \/ header THEN n ELSE from
      /\ account'[c].spent = IF applied THEN n ELSE before.spent
      /\ account'[c].compacted = (before.compacted /\ ~applied /\ ~header)
  <2> DEFINE next == AccountAfter(before, n, header, applied)
  <2>1. account'[c] = next
    BY <1>1 DEF Handle, TypeOK
  <2>2. /\ next.since = IF applied \/ header THEN n ELSE from
        /\ next.spent = IF applied THEN n ELSE before.spent
        /\ next.compacted = (before.compacted /\ ~applied /\ ~header)
    <3> HIDE DEF applied, n, from
    <3> QED BY DEF AccountAfter, from
  <2> QED BY <2>1, <2>2
<1>4. scan' = IF applied THEN ConsumeScan(result.scan, n) ELSE result.scan
  BY <1>1 DEF Handle
<1>5. request' = [conv |-> c, n |-> n, account |-> before, from |-> scan, header |-> header,
                  signal |-> result.signal, applied |-> applied]
  BY <1>1 DEF Handle
<1>11. ~account'[c].compacted => account'[c].since >= account'[c].spent
  <2> HIDE DEF applied, n, from
  <2> QED BY <1>1, <1>3 DEF n, from
<1>6. Streak(messages, n, n) = 0
  BY <1>1, NoResults
<1>7. DOMAIN seen'[c] = 1..n
  <2>1. TypeOK'
    BY <1>1, RequestKeepsTypes
  <2>2. seen'[c] \in Seq(Nat) /\ Len(seen'[c]) = n
    BY <1>1, <1>2, <2>1 DEF TypeOK
  <2> QED BY <2>2, LenProperties
<1>8. scan'.msg_count = n
  <2>1. scan'.msg_count = IF header THEN MaxOf(n, scan.msg_count) ELSE n
    BY <1>1, NewMark
  <2> QED BY <1>1, <2>1 DEF MaxOf
<1>9. CASE header
  <2>1. result.signal = "header" /\ result.scan.consec_failures = 0
    BY <1>9 DEF Detect, DetectHeader
  <2> HIDE DEF result
  <2>2. scan'.consec_failures = 0
    BY <1>4, <2>1 DEF ConsumeScan
  <2>3. account'[c].since = n
    BY <1>3, <1>9
  <2>4. MarkIsTheLength'
    BY <1>1, <1>2, <1>8 DEF MarkIsTheLength
  <2>5. StreakIsTrue'
    BY <1>2, <1>6, <1>11, <2>2, <2>3 DEF StreakIsTrue
  <2>6. NothingIsMissed'
    <3>1. \A i \in 1..n : i <= account'[c].since
      BY <1>1, <2>3
    <3> QED BY <1>7, <3>1 DEF NothingIsMissed
  <2>7. EscalationsAreEarned'
    BY <1>5, <2>1 DEF EscalationsAreEarned
  <2> QED BY <2>4, <2>5, <2>6, <2>7 DEF EvidenceInv
<1>10. CASE ~header
  <2>1. /\ from <= start
        /\ Rebased(scan, n).consec_failures = Streak(messages, from, start)
        /\ \A i \in 1..start : counts[i] = 0 => i <= from
    BY <1>10
  <2>2. /\ end.consec = Streak(messages, from, n)
        /\ end.signal # "header"
        /\ end.signal # "none" => start < n
        /\ end.signal = "tool_failures" =>
              \E j \in (start+1)..n : Streak(messages, from, j) >= Threshold
    <3>1. from \in Nat
      BY <1>1
    <3> HIDE DEF from
    <3> QED BY <1>1, <2>1, <3>1, ScanFollowsTheStreak
  <2>3. end \in Accumulators /\ Rebased(scan, n) \in ScanState
    BY <1>1, ScanTailType, RebasedType
  <2>4. result.signal = end.signal /\ result.scan.consec_failures = end.consec
    BY <1>10, <2>3 DEF Detect, DetectTail, ScanState
  <2> HIDE DEF result, end, start, from
  <2>5. MarkIsTheLength'
    BY <1>1, <1>2, <1>8 DEF MarkIsTheLength
  <2>6. StreakIsTrue'
    <3>1. CASE applied
      <4>1. scan'.consec_failures = 0 /\ account'[c].since = n
        BY <1>3, <1>4, <3>1 DEF ConsumeScan
      <4> QED BY <1>2, <1>6, <1>11, <4>1 DEF StreakIsTrue
    <3>2. CASE ~applied
      <4>1. scan'.consec_failures = end.consec /\ account'[c].since = from
        BY <1>3, <1>4, <1>10, <2>4, <3>2
      <4> QED BY <1>2, <1>11, <2>2, <4>1 DEF StreakIsTrue
    <3> QED BY <3>1, <3>2
  <2>7. NothingIsMissed'
    <3>1. ASSUME NEW i \in 1..n, seen'[c][i] = 0
          PROVE  i <= account'[c].since
      <4>1. counts[i] = 0 /\ ~(i > start)
        BY <1>2, <1>10, <3>1
      <4>2. i \in 1..start
        BY <1>1, <1>2, <4>1
      <4>3. i <= from
        BY <2>1, <4>1, <4>2
      <4> QED BY <1>1, <1>3, <4>3
    <3> QED BY <1>7, <3>1 DEF NothingIsMissed
  <2>8. EscalationsAreEarned'
    <3> SUFFICES ASSUME applied
                 PROVE  \/ result.signal = "retry_text" /\ n > from
                        \/ /\ result.signal = "tool_failures"
                           /\ \E j \in (from+1)..n : Streak(messages, from, j) >= Threshold
      BY <1>1, <1>2, <1>5 DEF EscalationsAreEarned, EvidenceAfter, from
    <3>1. end.signal \in {"retry_text", "tool_failures"} /\ start < n
      BY <2>2, <2>3, <2>4 DEF Accumulators, Signals
    <3>2. n > from
      BY <1>1, <1>2, <2>1, <3>1
    <3>3. CASE end.signal = "tool_failures"
      <4>1. PICK j \in (start+1)..n : Streak(messages, from, j) >= Threshold
        BY <2>2, <3>3
      <4>2. j \in (from+1)..n
        BY <1>1, <1>2, <2>1, <4>1
      <4> QED BY <2>4, <3>3, <4>1, <4>2
    <3> QED BY <2>4, <3>1, <3>2, <3>3
  <2> QED BY <2>5, <2>6, <2>7, <2>8 DEF EvidenceInv
<1> QED BY <1>1, <1>9, <1>10
\* Requests that continue the history are scanned from its old end, where the record's
\* streak was counted to.
LEMMA ExtendingKeepsTheAccount ==
    ASSUME TurnsFitTheTail, TypeOK, EvidenceInv, NEW c, Conversations = {c},
           NEW messages, NEW header, NEW counts, Extended(c, messages, header, counts)
    PROVE  EvidenceInv'
<1> DEFINE n == Len(messages)
           m == Len(history[c])
           from == account[c].since
           start == ScanStart(scan.msg_count, n)
<1>1. Request(c, messages, header, account[c], counts) /\ c \in Conversations
  BY DEF Extended
<1>2. /\ m \in Nat /\ n \in m..(m + MaxTurn) /\ n \in Nat /\ from \in 0..m
      /\ scan.msg_count = m
  <2>1. m \in Nat /\ n \in m..(m + MaxTurn) /\ from \in 0..m
    BY <1>1, ConversationTypes DEF Extended
  <2>2. scan.msg_count = m
    BY <1>1 DEF EvidenceInv, MarkIsTheLength
  <2> QED BY <2>1, <2>2, ScanAssumption
<1>3. start = m
  <2> HIDE DEF n, m
  <2> QED BY <1>2, ScanAssumption, TailAssumption
          DEF TurnsFitTheTail, ScanStart, MaxOf, ResetMark, TailOf
<1>4. Rebased(scan, n) = scan
  BY <1>2 DEF Rebased
<1>5. scan.consec_failures = Streak(messages, from, m)
  <2>1. scan.consec_failures = Streak(history[c], from, m)
    BY <1>1 DEF EvidenceInv, StreakIsTrue
  <2>2. \A i \in (from+1)..m : messages[i] = history[c][i]
    BY <1>2 DEF Extended
  <2>3. from \in Nat
    BY <1>2
  <2>4. Streak(messages, from, m) = Streak(history[c], from, m)
    <3>1. m \in Nat
      BY <1>2
    <3> HIDE DEF m, n, from, start
    <3> QED BY <2>2, <2>3, <3>1, StreakIsLocal, Zenon
  <2> QED BY <2>1, <2>4
<1>6. ASSUME NEW i \in 1..m, counts[i] = 0
      PROVE  i <= from
  <2>1. seen[c][i] = 0
    BY <1>6 DEF Extended
  <2>2. DOMAIN seen[c] = 1..m
    BY <1>1, ConversationTypes
  <2> QED BY <1>1, <2>1, <2>2 DEF EvidenceInv, NothingIsMissed
<1>7. scan.msg_count <= n /\ from <= start
  BY <1>2, <1>3
<1>8. ~account[c].compacted => account[c].since >= account[c].spent
  BY <1>1 DEF EvidenceInv, StreakIsTrue
<1> HIDE DEF m, start
<1> QED BY <1>1, <1>3, <1>4, <1>5, <1>6, <1>7, <1>8, HandleKeepsTheAccount DEF start

\* A compacted history is scanned from its tail, with a streak that starts anew.
LEMMA CompactingKeepsTheAccount ==
    ASSUME TurnsFitTheTail, TypeOK, EvidenceInv, NEW c, Conversations = {c},
           NEW messages, NEW header, Compacted(c, messages, header)
    PROVE  EvidenceInv'
<1> DEFINE n == Len(messages)
           from == TailOf(n)
           counts == Zeros(n)
           start == ScanStart(scan.msg_count, n)
<1>1. c \in Conversations /\ header \in CompactHeaders
  BY DEF Compacted
<1>9. PICK dropped \in Nat :
        Request(c, messages, header, Carried(account[c], dropped, n), counts)
  BY DEF Compacted
<1> DEFINE before == Carried(account[c], dropped, n)
<1>10. before.since = from /\ before.compacted
  BY DEF Carried
<1>2. n \in Nat /\ n < scan.msg_count /\ from \in 0..n
  <2>1. Len(history[c]) \in Nat /\ n \in 1..(Len(history[c]) - 1)
    BY <1>1, ConversationTypes DEF Compacted
  <2>2. scan.msg_count = Len(history[c])
    BY <1>1 DEF EvidenceInv, MarkIsTheLength
  <2>3. n \in Nat /\ n < scan.msg_count
    BY <2>1, <2>2
  <2> QED BY <2>3, ScanStartBounds
<1>3. ~header
  BY <1>1, <1>9 DEF TurnsFitTheTail, Request
<1>4. start = from
  BY <1>2, TailAssumption DEF ScanStart, ResetMark, MaxOf, TailOf
<1>5. Rebased(scan, n).consec_failures = 0
  BY <1>2 DEF Rebased, Watermark
<1>6. Streak(messages, from, from) = 0
  BY <1>2, NoResults
<1>7. \A i \in 1..start : i <= from
  BY <1>2, <1>4
<1>8. from <= start
  BY <1>2, <1>4
<1>11. Request(c, messages, header, before, counts)
  BY <1>9
<1> HIDE DEF from, counts, start, before
<1> QED BY <1>1, <1>3, <1>4, <1>5, <1>6, <1>7, <1>8, <1>10, <1>11, HandleKeepsTheAccount
        DEF start

\* At its creation the record accounts for the history that created it.
LEMMA AccountStartsRight ==
    ASSUME OneConversation, Init PROVE EvidenceInv
<1>1. PICK c : Conversations = {c}
  BY DEF OneConversation
<1>2. PICK n \in 0..MaxTurn : \E first \in [1..n -> Message] :
        /\ history = [d \in Conversations |-> IF d = c THEN first ELSE <<>>]
        /\ scan = Watermark(n)
  BY <1>1 DEF Init
<1>3. PICK first \in [1..n -> Message] :
        /\ history = [d \in Conversations |-> IF d = c THEN first ELSE <<>>]
        /\ scan = Watermark(n)
  BY <1>2
<1>4. n \in Nat /\ history[c] = first /\ scan.msg_count = n /\ scan.consec_failures = 0
  BY <1>1, <1>3, ScanAssumption DEF Watermark
<1>5. Len(history[c]) = n /\ account[c] = Unspent(n)
  <2>1. Len(history[c]) = n
    BY <1>4, IntervalSequence
  <2> QED BY <1>1, <2>1 DEF Init
<1>6. Streak(history[c], n, n) = 0
  BY <1>4, NoResults
<1>7. \A i \in DOMAIN seen[c] : i <= n
  BY <1>1, <1>4, <1>5 DEF Init, Zeros
<1>8. ~request.applied
  BY DEF Init, NoRequest
<1>9. account[c].since = n /\ account[c].spent = 0
  BY <1>5 DEF Unspent
<1> QED BY <1>1, <1>4, <1>5, <1>6, <1>7, <1>8, <1>9
        DEF EvidenceInv, MarkIsTheLength, StreakIsTrue, NothingIsMissed, EscalationsAreEarned

\* The account of the evidence is never wrong.
THEOREM EvidenceIsAccountedFor ==
    ASSUME OneConversation, TurnsFitTheTail PROVE Spec => []EvidenceInv
<1>1. PICK c : Conversations = {c}
  BY DEF OneConversation
<1>2. Init => EvidenceInv
  BY AccountStartsRight
<1>3. TypeOK /\ EvidenceInv /\ [Next]_vars => EvidenceInv'
  <2> SUFFICES ASSUME TypeOK, EvidenceInv, [Next]_vars PROVE EvidenceInv'
    OBVIOUS
  <2>1. CASE Grow(c) \/ Resend(c)
    <3>1. c \in Conversations
      BY <1>1
    <3>2. PICK messages, header, counts : Extended(c, messages, header, counts)
      BY <2>1, <3>1, ExtendingSteps
    <3> QED BY <1>1, <3>2, ExtendingKeepsTheAccount
  <2>2. CASE Compact(c)
    <3>1. c \in Conversations
      BY <1>1
    <3>2. PICK messages, header : Compacted(c, messages, header)
      BY <2>2, <3>1, CompactingSteps
    <3> QED BY <1>1, <3>2, CompactingKeepsTheAccount
  <2>3. CASE UNCHANGED vars
    BY <2>3 DEF vars, EvidenceInv, MarkIsTheLength, StreakIsTrue, NothingIsMissed,
                EscalationsAreEarned, EvidenceAfter
  <2> QED BY <1>1, <2>1, <2>2, <2>3 DEF Next
<1> QED BY <1>2, <1>3, ScanTypeCorrect, PTL DEF Spec

\* README.md:166-168: an applied escalation rests on the header, or on evidence past the
\* last escalation - unless the client compacted the history since: then on evidence past
\* the tail that was scanned anew, which an escalation may already have been applied for.
THEOREM EscalationsAreEarnedHolds ==
    ASSUME OneConversation, TurnsFitTheTail PROVE Spec => []EscalationsAreEarned
<1>1. EvidenceInv => EscalationsAreEarned
  BY DEF EvidenceInv
<1> QED BY <1>1, EvidenceIsAccountedFor, PTL

\* The counter in the record is the number of failing results at the end of the history,
\* back to the last escalation, or since a compaction back to the tail scanned anew.
THEOREM StreakIsTrueHolds ==
    ASSUME OneConversation, TurnsFitTheTail PROVE Spec => []StreakIsTrue
<1>1. EvidenceInv => StreakIsTrue
  BY DEF EvidenceInv
<1> QED BY <1>1, EvidenceIsAccountedFor, PTL

\* A message was scanned, or its evidence was spent, or it lies before the tail of a
\* compacted history.
THEOREM NothingIsMissedHolds ==
    ASSUME OneConversation, TurnsFitTheTail PROVE Spec => []NothingIsMissed
<1>1. EvidenceInv => NothingIsMissed
  BY DEF EvidenceInv
<1> QED BY <1>1, EvidenceIsAccountedFor, PTL
=============================================================================
