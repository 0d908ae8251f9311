---------------------------- MODULE DecisionLog ----------------------------
(***************************************************************************)
(* The decision log (session_router/decision_log.py): emit on the hot      *)
(* path, and the background flusher that batches the events into Postgres. *)
(*                                                                         *)
(* Events are numbered in the order they are emitted.  A step is the code  *)
(* between two awaits: emits fall between any two steps of the flusher.    *)
(* The lengths of the batch window and of the backoff are left out: either *)
(* may end at any moment.                                                  *)
(***************************************************************************)
EXTENDS Naturals, Sequences, SequencesExt, FiniteSets

CONSTANTS
    QueueMax,         \* QUEUE_MAX
    BatchMax,         \* BATCH_MAX
    MaxEvents,        \* bound: events emitted
    MaxRewrites,      \* bound: batches that fail after their rows are committed
    Texts,            \* the events that carry a raw first message
    RefusedRows,      \* the events whose decision Postgres refuses, whenever it is asked
    RefusedTexts      \* those whose first message it refuses

ASSUME LogAssumption ==
    /\ QueueMax \in Nat \ {0}
    /\ BatchMax \in Nat \ {0}
    /\ MaxEvents \in Nat
    /\ MaxRewrites \in Nat
    /\ Texts \subseteq 1..MaxEvents
    /\ RefusedRows \subseteq 1..MaxEvents
    /\ RefusedTexts \subseteq Texts

Events == 1..MaxEvents

VARIABLES
    queue,            \* _queue
    batch,            \* the batch the flusher holds
    flusher,          \* where the flusher task is; "none" before the first emit
    dropped,          \* the drop counter
    rows,             \* router_decisions, in insertion order
    messages,         \* router_first_messages: the events whose text was inserted
    up,               \* whether Postgres answers
    emitted,          \* how many events were emitted
    failed,           \* whether a write has failed
    rewrites          \* batches that failed after their rows were committed

vars == <<queue, batch, flusher, dropped, rows, messages, up, emitted, failed, rewrites>>

TypeOK ==
    /\ queue \in Seq(Events) /\ Len(queue) <= QueueMax
    /\ batch \in Seq(Events) /\ Len(batch) <= BatchMax
    /\ flusher \in {"none", "collect", "write", "messages", "backoff", "cancelled"}
    /\ dropped \in Nat
    /\ rows \in Seq(Events)
    /\ messages \subseteq Texts
    /\ up \in BOOLEAN
    /\ emitted \in 0..MaxEvents
    /\ failed \in BOOLEAN
    /\ rewrites \in 0..MaxRewrites

Init ==
    /\ queue = <<>>
    /\ batch = <<>>
    /\ flusher = "none"
    /\ dropped = 0
    /\ rows = <<>>
    /\ messages = {}
    /\ up \in BOOLEAN
    /\ emitted = 0
    /\ failed = FALSE
    /\ rewrites = 0

-----------------------------------------------------------------------------
\* How many of n more events the queue has room for.
Fitting(n) == IF n <= QueueMax - Len(queue) THEN n ELSE QueueMax - Len(queue)

\* put_nowait of each of the events in turn: those that do not fit are counted.
Enqueue(events) ==
    /\ queue' = queue \o SubSeq(events, 1, Fitting(Len(events)))
    /\ dropped' = dropped + Len(events) - Fitting(Len(events))

\* emit: never blocks; the first one starts the flusher.
Emit ==
    /\ emitted < MaxEvents
    /\ emitted' = emitted + 1
    /\ Enqueue(<<emitted + 1>>)
    /\ flusher' = IF flusher = "none" THEN "collect" ELSE flusher
    /\ UNCHANGED <<batch, rows, messages, up, failed, rewrites>>

\* Mutant of Collect: the newest event is taken first.
Collect_Newest ==
    /\ flusher = "collect"
    /\ queue # <<>> /\ Len(batch) < BatchMax
    /\ batch' = Append(batch, Last(queue))
    /\ queue' = Front(queue)
    /\ UNCHANGED <<flusher, dropped, rows, messages, up, emitted, failed, rewrites>>

\* _collect_batch: one more event, while there is room in the batch.
Collect ==
    /\ flusher = "collect"
    /\ queue # <<>> /\ Len(batch) < BatchMax
    /\ batch' = Append(batch, Head(queue))
    /\ queue' = Tail(queue)
    /\ UNCHANGED <<flusher, dropped, rows, messages, up, emitted, failed, rewrites>>

\* Mutant of CloseBatch: the window never closes on a batch that is not full.
CloseBatch_WhenFull ==
    /\ flusher = "collect" /\ Len(batch) = BatchMax
    /\ flusher' = "write"
    /\ UNCHANGED <<queue, batch, dropped, rows, messages, up, emitted, failed, rewrites>>

\* The window closes, or the batch is full; an empty batch keeps waiting.
CloseBatch ==
    /\ flusher = "collect" /\ batch # <<>>
    /\ flusher' = "write"
    /\ UNCHANGED <<queue, batch, dropped, rows, messages, up, emitted, failed, rewrites>>

TextsOf(events) == ToSet(events) \cap Texts

Written ==
    /\ flusher' = "collect"
    /\ batch' = <<>>
    /\ UNCHANGED <<queue, dropped>>

\* Mutant of Requeue: what the queue has no room for goes uncounted.
Requeue_Uncounted ==
    /\ flusher' = "backoff" /\ failed' = TRUE
    /\ batch' = <<>>
    /\ queue' = queue \o SubSeq(batch, 1, Fitting(Len(batch)))
    /\ UNCHANGED dropped

\* Mutant of Requeue: the batch goes back whether it fits or not.
Requeue_Unbounded ==
    /\ flusher' = "backoff" /\ failed' = TRUE
    /\ batch' = <<>>
    /\ queue' = queue \o batch
    /\ UNCHANGED dropped

\* Mutant of Requeue: the batch is requeued and retried as well.
Requeue_KeepsBatch ==
    /\ flusher' = "backoff" /\ failed' = TRUE
    /\ Enqueue(batch)
    /\ UNCHANGED batch

\* The flusher's except branch, up to its sleep: the batch goes back behind what was
\* emitted meanwhile.
Requeue ==
    /\ flusher' = "backoff" /\ failed' = TRUE
    /\ batch' = <<>>
    /\ Enqueue(batch)

\* Whether Postgres takes the decisions, or the texts, of a batch: one value it refuses
\* fails the executemany of all of them.
TakesRows(events) == up /\ ToSet(events) \cap RefusedRows = {}
TakesTexts(events) == up /\ ToSet(events) \cap RefusedTexts = {}

\* _write_batch up to its first commit: no pool, no connection, or the insert fails.
WriteFails ==
    /\ flusher = "write" /\ ~TakesRows(batch)
    /\ Requeue
    /\ UNCHANGED <<rows, messages, up, emitted, rewrites>>

\* Mutant of InsertDecisions: the batch is over before its texts are inserted.
InsertDecisions_Only ==
    /\ flusher = "write" /\ TakesRows(batch)
    /\ rows' = rows \o batch
    /\ Written
    /\ UNCHANGED <<messages, up, emitted, failed, rewrites>>

\* The decisions are inserted, in a transaction of their own.
InsertDecisions ==
    /\ flusher = "write" /\ TakesRows(batch)
    /\ rows' = rows \o batch
    /\ IF TextsOf(batch) = {} THEN Written
       ELSE flusher' = "messages" /\ UNCHANGED <<queue, batch, dropped>>
    /\ UNCHANGED <<messages, up, emitted, failed, rewrites>>

\* The decisions are committed, but the flusher sees a failure: the reply is lost.
ReplyLost ==
    /\ flusher = "write" /\ rewrites < MaxRewrites
    /\ ToSet(batch) \cap RefusedRows = {}
    /\ rows' = rows \o batch
    /\ Requeue
    /\ rewrites' = rewrites + 1
    /\ UNCHANGED <<messages, up, emitted>>

\* Their texts follow; a text that is already there is left alone.
InsertMessages ==
    /\ flusher = "messages" /\ TakesTexts(batch)
    /\ messages' = messages \cup TextsOf(batch)
    /\ Written
    /\ UNCHANGED <<rows, up, emitted, failed, rewrites>>

\* The second insert fails, applied or not, or a text is refused: the whole batch is
\* requeued, committed rows included.
MessagesFail ==
    /\ flusher = "messages" /\ rewrites < MaxRewrites
    /\ messages' \in {messages} \cup
          IF ToSet(batch) \cap RefusedTexts = {} THEN {messages \cup TextsOf(batch)} ELSE {}
    /\ Requeue
    /\ rewrites' = rewrites + 1
    /\ UNCHANGED <<rows, up, emitted>>

\* The sleep is over.
BackOff ==
    /\ flusher = "backoff"
    /\ flusher' = "collect"
    /\ UNCHANGED <<queue, batch, dropped, rows, messages, up, emitted, failed, rewrites>>

\* aclose: the task is cancelled at whatever await it is in, with the batch it holds;
\* the queue stays, and emit goes on filling it.
Close ==
    /\ flusher \notin {"none", "cancelled"}
    /\ flusher' = "cancelled"
    /\ batch' = <<>>
    /\ UNCHANGED <<queue, dropped, rows, messages, up, emitted, failed, rewrites>>

\* Postgres goes away or comes back.
Toggle ==
    /\ up' = ~up
    /\ UNCHANGED <<queue, batch, flusher, dropped, rows, messages, emitted, failed, rewrites>>

FlusherStep ==
    \/ Collect \/ CloseBatch \/ WriteFails \/ InsertDecisions \/ ReplyLost
    \/ InsertMessages \/ MessagesFail \/ BackOff

Next == Emit \/ FlusherStep \/ Close \/ Toggle

Spec == Init /\ [][Next]_vars

\* The task is scheduled whenever it can run: its awaits all have a timeout, or wait for
\* an event.
FairSpec == Spec /\ WF_vars(FlusherStep)
-----------------------------------------------------------------------------
(***************************************************************************)
(* Properties.                                                             *)
(***************************************************************************)
Held == ToSet(queue) \cup ToSet(batch)

\* What may be gone without being counted: the batch a cancelled flusher held.
Allowance == dropped + IF flusher = "cancelled" THEN BatchMax ELSE 0

\* decision_log.py:3-5, "events queue up to the cap, then drop with a counter": whatever
\* fails, an emitted event is in memory, in router_decisions, or counted as dropped; only
\* closing the log may lose more, and no more than a batch.
EveryEventIsAccountedFor ==
    Cardinality((1..emitted) \ (Held \cup ToSet(rows))) <= Allowance

\* decision_log.py:134-137: a raw first message is never stored without its decision,
\* and a stored decision misses its message only if the event is still to be retried or
\* was counted as dropped, or was in the batch of a cancelled flusher.
RowsHaveTheirTexts ==
    /\ messages \subseteq ToSet(rows)
    /\ Cardinality(TextsOf(rows) \ (messages \cup Held)) <= Allowance

\* decision_log.py:84-92: retries are the only source of duplicates: a decision has one
\* row, and one more for each batch that failed after its rows were committed.
RowsRepeatOnlyAfterRewrites ==
    \A e \in Events : Cardinality({i \in DOMAIN rows : rows[i] = e}) <= 1 + rewrites

\* As long as no write has failed, decisions are stored in the order they were made (a
\* session's classification, pin and escalations are read back by insertion time).
FirstTriesAreInOrder ==
    LET line == rows \o (IF flusher = "messages" THEN <<>> ELSE batch) \o queue
    IN  ~failed => \A i, j \in DOMAIN line : i < j => line[i] < line[j]

\* decision_log.py:75-94: once Postgres stays up, and unless the log is closed, all that
\* was emitted leaves memory: no batch waits forever, no backoff is the last.  It takes
\* that no event Postgres refuses stays in memory: such a one comes back with every batch
\* it is in, which is requeued whole.  The failures of a Postgres that is up are finitely
\* many otherwise (MaxRewrites).
QueueDrains ==
    /\ <>[]up /\ [](flusher # "cancelled")
    /\ <>[](Held \cap (RefusedRows \cup RefusedTexts) = {})
    => <>[](queue = <<>> /\ batch = <<>>)

-----------------------------------------------------------------------------
(***************************************************************************)
(* The ledger behind the log: what is in memory, in queue or batch, what   *)
(* has a row, and the drop counter.                                        *)
(***************************************************************************)
Ledger == INSTANCE EventLedger WITH
    accepted <- 1..emitted, pending <- Held, stored <- ToSet(rows), lost <- dropped,
    closed <- flusher = "cancelled"

\* decision_log.py:1-9: however the flusher, the database and the overflowing queue
\* interleave, each step of the log is one of the ledger's: no event leaves memory unless
\* it is stored or counted, and none is counted without leaving.
KeepsTheLedger == Ledger!Spec
=============================================================================
