--------------------------- MODULE EscalationScan ---------------------------
(***************************************************************************)
(* The escalation detector (session_router/escalation.py) over the life of *)
(* one session record: detect and consume as functions of a history, and   *)
(* the conversations that feed them, each of which sends its whole history *)
(* with every request.                                                     *)
(*                                                                         *)
(* A message is what detect reads of it: the failure flags of a tool turn, *)
(* or whether a plain user text matches a retry pattern.  The regular      *)
(* expressions and the Anthropic and OpenAI shapes are abstracted to that. *)
(***************************************************************************)
EXTENDS EscalationWatermark, Sequences, FiniteSets

CONSTANTS
    Threshold,        \* escalation.consecutive_tool_failures
    MaxSteps,         \* how many escalations the record has room for
    CompactHeaders,   \* whether a request that compacts may carry the header
    Conversations,    \* the histories that are sent under this record's key
    ToolTurns,        \* the flag sequences a tool turn may carry
    MaxTurn,          \* messages a conversation grows by between two requests
    MaxLength         \* bound on the length of a history

ASSUME ScanAssumption ==
    /\ Threshold \in Nat \ {0}
    /\ MaxSteps \in Nat
    /\ CompactHeaders \subseteq BOOLEAN
    /\ ToolTurns \subseteq Seq(BOOLEAN) \ {<<>>}
    /\ MaxTurn \in Nat \ {0}
    /\ MaxLength \in Nat /\ MaxTurn <= MaxLength

ToolTurn(flags) == [kind |-> "tool", flags |-> flags]
Retry == [kind |-> "retry", flags |-> <<>>]      \* user text that asks again
Text == [kind |-> "text", flags |-> <<>>]        \* anything else

Message == {ToolTurn(flags) : flags \in ToolTurns} \cup {Retry, Text}

ScanState == [msg_count : Nat, consec_failures : Nat, escalated_at : Nat]

Watermark(n) == [msg_count |-> n, consec_failures |-> 0, escalated_at |-> 0]

Signals == {"none", "header", "retry_text", "tool_failures"}

-----------------------------------------------------------------------------
\* Mutant of AfterResult: a success takes one failure back.
AfterResult_Decay(consec, failed) == IF failed THEN consec + 1 ELSE consec - 1

\* Mutant of AfterResult: a success does not end the streak.
AfterResult_NoReset(consec, failed) == IF failed THEN consec + 1 ELSE consec

AfterResult(consec, failed) == IF failed THEN consec + 1 ELSE 0

\* The streak after the results of one turn.
StreakAfter(consec, flags) ==
    LET after[j \in 0..Len(flags)] ==
            IF j = 0 THEN consec ELSE AfterResult(after[j-1], flags[j])
    IN  after[Len(flags)]

\* One iteration of detect's loop, on the message at the 1-based position i of n.
ScanMessage(acc, msg, i, n, scan) ==
    IF msg.kind = "tool"
    THEN LET consec == StreakAfter(acc.consec, msg.flags)
         IN  [consec |-> consec,
              signal |-> IF acc.signal = "none" /\ consec >= Threshold
                         THEN "tool_failures" ELSE acc.signal]
    ELSE IF /\ msg.kind = "retry" /\ i = n /\ i > scan.escalated_at
            /\ acc.signal = "none"
         THEN [acc EXCEPT !.signal = "retry_text"]
         ELSE acc

\* A history that shrank is rescanned from a bounded tail, its counters dropped.
Rebased(scan, n) == IF n < scan.msg_count THEN Watermark(TailOf(n)) ELSE scan

\* detect's loop over the messages past the watermark, on the rebased scan state.
ScanTail(history, stored) ==
    LET n == Len(history)
        scan == Rebased(stored, n)
        start == ScanStart(stored.msg_count, n)
        after[i \in start..n] ==
            IF i = start THEN [consec |-> scan.consec_failures, signal |-> "none"]
            ELSE ScanMessage(after[i-1], history[i], i, n, scan)
    IN  after[n]

\* Mutant of DetectTail: the threshold is checked once, after the loop.
DetectTail_AfterLoop(history, stored) ==
    LET end == ScanTail(history, stored)
    IN  [signal |-> IF end.consec >= Threshold THEN "tool_failures" ELSE end.signal,
         scan   |-> [Rebased(stored, Len(history)) EXCEPT !.msg_count = Len(history),
                                                          !.consec_failures = end.consec]]

\* detect without the header.
DetectTail(history, stored) ==
    LET end == ScanTail(history, stored)
    IN  [signal |-> end.signal,
         scan   |-> [Rebased(stored, Len(history)) EXCEPT !.msg_count = Len(history),
                                                          !.consec_failures = end.consec]]

DetectHeader(n, stored) ==
    LET upTo == MaxOf(n, stored.msg_count)
    IN  [signal |-> "header",
         scan   |-> [msg_count |-> upTo, consec_failures |-> 0, escalated_at |-> upTo]]

Detect(history, header, stored) ==
    IF header THEN DetectHeader(Len(history), stored) ELSE DetectTail(history, stored)

\* Mutant of ConsumeScan: the streak survives the escalation it caused.
ConsumeScan_KeepsStreak(scan, n) ==
    [scan EXCEPT !.msg_count = Consume(@, n), !.escalated_at = MaxOf(@, n)]

ConsumeScan(scan, n) ==
    [msg_count       |-> Consume(scan.msg_count, n),
     consec_failures |-> 0,
     escalated_at    |-> MaxOf(scan.escalated_at, n)]

-----------------------------------------------------------------------------
VARIABLES
    history,          \* conversation -> the messages it has so far
    scan,             \* the scan state in the record
    steps,            \* escalations the record has been through
    account,          \* history variable, conversation -> what became of its evidence
    seen,             \* history variable, conversation -> how often each message was scanned
    request           \* the last request: what detect was given and what it gave

vars == <<history, scan, steps, account, seen, request>>

\* spent: an escalation was applied when the first `spent` messages were there; the messages
\* stay spent when the client compacts the history around them.
\* since: where the record's counter starts from: the last escalation, or the tail that a
\* compaction made detect scan anew.
\* compacted: there was a compaction since the last escalation.
Account == [spent : Nat, since : Nat, compacted : BOOLEAN]

Histories == UNION {[1..n -> Message] : n \in 0..MaxLength}

TypeOK ==
    /\ history \in [Conversations -> Histories]
    /\ scan \in ScanState
    /\ steps \in 0..MaxSteps
    /\ account \in [Conversations -> Account]
    /\ seen \in [Conversations -> Seq(Nat)]
    /\ \A c \in Conversations :
          /\ account[c].spent <= Len(history[c])
          /\ account[c].since <= Len(history[c])
          /\ Len(seen[c]) = Len(history[c])

\* Nothing of a history of length n was escalated for, and none of it counts.
Unspent(n) == [spent |-> 0, since |-> n, compacted |-> FALSE]

NoRequest == [conv |-> "none", n |-> 0, account |-> Unspent(0), from |-> Watermark(0),
              header |-> FALSE, signal |-> "none", applied |-> FALSE]

\* Nothing of a history of length n was scanned yet.
Zeros(n) == [i \in 1..n |-> 0]

\* build_pin_record: the first request of one of the conversations pins the session, with
\* the length of its history as the watermark.
Init ==
    /\ \E c \in Conversations, n \in 0..MaxTurn : \E first \in [1..n -> Message] :
          /\ history = [d \in Conversations |-> IF d = c THEN first ELSE <<>>]
          /\ scan = Watermark(n)
    /\ steps = 0
    /\ account = [c \in Conversations |-> Unspent(Len(history[c]))]
    /\ seen = [c \in Conversations |-> Zeros(Len(history[c]))]
    /\ request = NoRequest

\* What a request of n messages makes of the account of their evidence.
AccountAfter(before, n, header, applied) ==
    [spent     |-> IF applied THEN n ELSE before.spent,
     since     |-> IF applied \/ header THEN n ELSE before.since,
     compacted |-> before.compacted /\ ~applied /\ ~header]

\* _handle_pinned: conversation c sends messages; `before` is the account of their evidence
\* and `counts` says how often each was scanned before.
Handle(c, messages, header, before, counts) ==
    LET n == Len(messages)
        result == Detect(messages, header, scan)
        applied == result.signal # "none" /\ steps < MaxSteps
        start == IF header THEN n ELSE ScanStart(scan.msg_count, n)
    IN
    /\ history' = [history EXCEPT ![c] = messages]
    /\ scan' = IF applied THEN ConsumeScan(result.scan, n) ELSE result.scan
    /\ steps' = IF applied THEN steps + 1 ELSE steps
    /\ account' = [account EXCEPT ![c] = AccountAfter(before, n, header, applied)]
    /\ seen' = [seen EXCEPT ![c] = [i \in 1..n |-> counts[i] + (IF i > start THEN 1 ELSE 0)]]
    /\ request' = [conv |-> c, n |-> n, account |-> before, from |-> scan, header |-> header,
                   signal |-> result.signal, applied |-> applied]

\* The conversation goes on: up to MaxTurn messages more than at its last request.
Grow(c) ==
    \E k \in 1..MaxTurn : \E turn \in [1..k -> Message], header \in BOOLEAN :
        /\ Len(history[c]) + k <= MaxLength
        /\ Handle(c, history[c] \o turn, header, account[c], seen[c] \o Zeros(k))

\* The client sends the same request again.
Resend(c) ==
    /\ history[c] # <<>>
    /\ \E header \in BOOLEAN : Handle(c, history[c], header, account[c], seen[c])

\* Compaction takes the first `dropped` messages away and puts one in their place: what
\* is kept of the spent messages stays spent, and detect starts from the tail of the rest.
Carried(before, dropped, n) ==
    [spent     |-> IF before.spent > dropped THEN before.spent - dropped + 1 ELSE 0,
     since     |-> TailOf(n),
     compacted |-> TRUE]

\* The client replaces the start of the history with a summary.
Compact(c) ==
    \E keep \in 1..(Len(history[c]) - 2), header \in CompactHeaders :
        LET dropped == Len(history[c]) - keep
            kept == SubSeq(history[c], dropped + 1, Len(history[c]))
        IN  Handle(c, <<Text>> \o kept, header, Carried(account[c], dropped, keep + 1),
                   Zeros(keep + 1))

Next == \E c \in Conversations : Grow(c) \/ Resend(c) \/ Compact(c)

Spec == Init /\ [][Next]_vars

-----------------------------------------------------------------------------
(***************************************************************************)
(* Properties.                                                             *)
(***************************************************************************)

\* The tool results of the messages after `from` up to `to`: each is a place, the message
\* and the position in it.
Results(messages, from, to) ==
    UNION {{i} \X DOMAIN messages[i].flags : i \in (from + 1)..to}

NotBefore(q, p) == q[1] > p[1] \/ (q[1] = p[1] /\ q[2] >= p[2])

\* How many of these results fail, counted back from the last one.
Streak(messages, from, to) ==
    LET results == Results(messages, from, to)
    IN  Cardinality({p \in results : \A q \in results :
                        NotBefore(q, p) => messages[q[1]].flags[q[2]]})

\* The evidence of the last request lies past its first `from` messages: a last message of
\* retry text, or that many consecutive failures at the end of some message.
EvidenceAfter(from) ==
    \/ request.signal = "retry_text" /\ request.n > from
    \/ /\ request.signal = "tool_failures"
       /\ \E i \in (from + 1)..request.n :
             Streak(history[request.conv], from, i) >= Threshold

\* README.md:166-168: an applied escalation rests on the header, or on evidence past the
\* last escalation ("so the same evidence never fires twice", escalation.py:113-115).  The
\* code keeps that until the client compacts the history: the evidence then lies past the
\* tail that is scanned anew, and may be evidence an escalation was already applied for.
EscalationsAreEarned ==
    request.applied /\ request.signal # "header" =>
        /\ EvidenceAfter(request.account.since)
        /\ ~request.account.compacted => request.account.since >= request.account.spent

\* The counter in the record is the true streak of failing results at the end of the
\* history, counted from the last escalation (or header), or since a compaction from the
\* tail it left: there the counter may hold results an escalation was applied for, but it
\* holds none of them while the client only adds to the history.
StreakIsTrue ==
    \A c \in Conversations :
        /\ scan.consec_failures = Streak(history[c], account[c].since, Len(history[c]))
        /\ ~account[c].compacted => account[c].since >= account[c].spent

\* escalation.py:4-6: "each message index is regex-scanned at most once over the
\* session's lifetime" - until the client rewrites the history.
ScannedOnce == \A c \in Conversations : \A i \in DOMAIN seen[c] : seen[c][i] <= 1

\* Nothing is missed: with turns no longer than MaxTail, a message was scanned, or the
\* header made it moot, or it lies before the tail of a compacted history.
NothingIsMissed ==
    \A c \in Conversations : \A i \in DOMAIN seen[c] : seen[c][i] = 0 => i <= account[c].since

\* SessionRouter's abstraction of detect: whatever the messages are, the hook sees one of
\* ScanOutcomes, which it can tell from the watermark, the length and the header.
StaysWithinScanOutcomes ==
    [][LET result == Detect(history'[request'.conv], request'.header, scan)
       IN  [signal  |-> result.signal # "none",
            mark    |-> result.scan.msg_count,
            changed |-> result.scan # scan]
             \in ScanOutcomes(scan.msg_count, request'.n, request'.header)]_vars
=============================================================================
