------------------------ MODULE EscalationWatermark ------------------------
(***************************************************************************)
(* What escalation.detect can return to the hook, as a function of the     *)
(* watermark (scan.msg_count), the length of the history and the           *)
(* x-router-escalate header: all the hook's control flow depends on.       *)
(* EscalationScan models detect itself and shows that it stays within      *)
(* these outcomes.                                                         *)
(***************************************************************************)
EXTENDS Naturals

CONSTANT MaxTail      \* escalation.MAX_TAIL

ASSUME TailAssumption == MaxTail \in Nat \ {0}

MaxOf(a, b) == IF a >= b THEN a ELSE b

\* Mutant of TailOf: the window is one message short.
TailOf_OneShort(n) == IF n >= MaxTail THEN n - MaxTail + 1 ELSE 0

TailOf(n) == IF n >= MaxTail THEN n - MaxTail ELSE 0

\* A history shorter than the watermark was compacted or edited: the watermark
\* falls back to a bounded tail of it.
ResetMark(mark, n) == IF n < mark THEN TailOf(n) ELSE mark

\* Mutant of ScanStart: the tail is scanned whatever the watermark says.
ScanStart_NoMark(mark, n) == TailOf(n)

\* First message index (0-based) the call scans.
ScanStart(mark, n) == MaxOf(ResetMark(mark, n), TailOf(n))

\* signal: evidence to escalate; mark: the new watermark; changed: the scan
\* state differs from the stored one, so it is written back.
ScanOutcome == [signal : BOOLEAN, mark : Nat, changed : BOOLEAN]

\* The header always signals; its other counters may or may not change.
HeaderOutcomes(mark, n) ==
    { o \in [signal : {TRUE}, mark : {MaxOf(n, mark)}, changed : BOOLEAN] :
        o.mark # mark => o.changed }

\* Only a message past the watermark can yield a signal.
TailOutcomes(mark, n) ==
    { o \in [signal : BOOLEAN, mark : {n}, changed : {n # mark}] :
        o.signal => ScanStart(mark, n) < n }

ScanOutcomes(mark, n, header) ==
    IF header THEN HeaderOutcomes(mark, n) ELSE TailOutcomes(mark, n)

\* An applied escalation spends the evidence of the whole history.
Consume(mark, n) == MaxOf(mark, n)
=============================================================================
