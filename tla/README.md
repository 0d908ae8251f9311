# lite-router: specification and proofs

lite-router is a LiteLLM pre-call hook. A client asks for the virtual model `lite-auto`; the hook
decides, once per session, which tier of `policies.yaml` the session deserves, pins it in Redis,
and from then on only escalates. This directory holds TLA+ modules of the router's control, TLC
configurations that check them on small instances, and TLAPS proofs of what matters most for every
instance.

Paths below are relative to the repository: `hook.py` and its neighbours are in
`packages/session-router/src/session_router/`, `policies.py` in `packages/router-common/`,
`app.py` in `packages/classifier-svc/`.

## 1. The system

| Part | State | Operations | Correct when |
|---|---|---|---|
| `LiteAutoRouter` (`hook.py`) | none of its own between requests, but the override dedupe table; per request: the record it read, the decision it makes | `async_pre_call_hook` -> `_route` -> `_handle_pinned` or `_handle_first_request`; the catch-all | one classification per session; a pin is for life; tiers only climb, up to the cap; mission-critical sessions never stand below `force_tier`; every request is answered; the log explains every answer |
| `SessionStore` (`session_store.py`) | Redis: one record and one TTL per key | `get_and_refresh` (GETEX, or GET and EXPIRE in a pipeline), `claim_for_classification` (SET NX EX), `write_pin` (SET EX), `update` (SET KEEPTTL) | each command is atomic and every failure is swallowed; a placeholder is short-lived |
| state machine (`state_machine.py`) | pure | `build_pin_record`, `escalate`, `subagent_tier`, `classifying_placeholder` | a record stays on the ladder |
| escalation detector (`escalation.py`) | the scan state inside the record: watermark, failure streak, escalation fence | `detect`, `consume` | an escalation rests on evidence, and on evidence nothing else used; nothing is scanned twice or missed |
| session key (`session_key.py`), overrides, client detection | pure | `derive_session_key`, `extract_agent_ids`, `match_path_override` | a conversation keeps its key and its override; two that differ do not share one |
| policies (`policies.py`) | the validated `policies.yaml` | `default_tier`, `cheapest_tier`, `tier_index`, validation | a request decides under one version of them |
| policies holder (`config.py`) | the policies, the mtime they were loaded under | `PoliciesHolder.get` | a stale copy is noticed, a broken file is never served |
| classifier client | none | `classify`, with a timeout | anything unusable is no verdict |
| classifier service (`app.py`, `backend.py`) | policies, their mtime, readiness | lifespan and warmup, `_watch_policies`, `/reload`, `/classify`, `/healthz` | its policies follow the file; an answer reported with confidence is the model's |
| decision log (`decision_log.py`) | queue, batch in hand, drop counter, pool | `emit`, `_flusher`, `aclose` | an event is stored, held or counted; memory drains once Postgres is back |
| scripts, migrations, deployment | Postgres tables | one-shot programs | not modelled: I/O |

How they interact. The proxy calls the hook once per request, in one asyncio loop per worker, with
several workers. A request gives up control only at an `await`: a Redis command (0.25 s timeout) or
the classifier (1 s). Requests of one session meet in Redis and nowhere else. Decision events go to
a queue in memory, from which a background task writes to Postgres. The hook and classifier-svc
read the same policies file, each on its own.

What is hard here:

* **interleaving**: read, think, write. A request of a pinned session reads the record, scans its
  history and writes the whole record back, whatever happened to it meanwhile. First requests race
  for a claim.
* **failure**: a Redis command may fail, or be applied with its reply lost, and the caller cannot
  tell. A worker may die, or a client hang up, between any two commands.
* **deadlines**: the claim's 30 s and the session's sliding hours run on the same key.
* **sequences**: a client may send a history again, compact it, or send another conversation's
  history under the same key; the watermark must survive it.
* **batches**: Postgres may fail before, between or after the two inserts of a batch.
* **files**: the policies change between the stat and the load, between two reads of one request,
  and between the requests of a session, whose record names a tier of another day.
* **limits**: the queue, the batch, the dedupe table, the text that keys are derived from.

The list of hazards, each at its line with the properties that watch it, is in `PROJECT.json`.

## 2. Modules

```
RouterPolicies   SessionKeys                         EventLedger
      \            /                                      ^ refines
      SessionStore    EscalationWatermark             DecisionLog (MCDecisionLog)
             \          /        \
            SessionRouter        EscalationScan       PolicyReload
             |  |  \ refines     (MCEscalationScan)        |
             |  |   SessionPin                        ReloadingRouter (MCReloadingRouter)
             |  MissionCritical (MCMissionCritical)
   (MCSessionRouter)             OverrideTable  <--  RequestIntake (MCRequestIntake)
```

Theorems are in `SessionRouterProofs` and, on top of it, `EscalationLogProofs` and
`SequentialRouterProofs`; `EscalationScanProofs`; `DecisionLogProofs`; `ReloadingRouterProofs`, with
`PolicyReload`'s; `RequestIntakeProofs`, with `OverrideTable`'s. Each extends the module it is about.
`Recursion` has the lemmas that proofs about recursive functions rest on.

**RouterPolicies** is the validated policies file and the pure transitions of the state machine. A
tier is its position in the ladder (names are unique, so the two are the same while the ladder does
not change); a record keeps state, tier, model, the override mark, whether it was classified, the
number of escalations and the watermark. `Escalated` and `CanEscalate` are the two halves of
`escalate`: what it returns, and whether it returns anything.

**SessionKeys** says which key a request is routed by, and so which requests share a record.

**SessionStore** is Redis: `store` and, for each key, which deadline runs (`ttl`). Each command is
one step with one of three outcomes: applied, not applied, applied with the reply lost. The second
and third are the same to the caller. `HasGetex` and `KeepTtl` say which commands the server knows:
without GETEX, `get_and_refresh` is a GET and an EXPIRE, and anything may come between them.

**EscalationWatermark** is what `detect` can return as a function of the watermark, the length of
the history and the header, and is all that the hook's control depends on. **EscalationScan**
models `detect` itself, message by message, and checks (`StaysWithinScanOutcomes`) that it never
leaves those outcomes; so the router is checked with every history at once.

**SessionRouter** is `_route` for a set of requests, one step per stretch of code between two
awaits:

| Action | Code |
|---|---|
| `Arrive`, `SideChannel` | `hook.py:79-118`: what comes before the first await |
| `Get`, or `PipelineGet` and `PipelineExpire` | `get_and_refresh` and the three-way branch on it, `hook.py:120-133` |
| `HandlePinned`, `WriteBack` | `hook.py:156-184` and the `update` at 186 |
| `Claim`, `ReadParent` (or `PipelineGetParent`, `PipelineExpireParent`), `Classify`, `Pin`, `EmitPinned` | `hook.py:190-273`, cut at its awaits |
| `FailOpen` | the catch-all, `hook.py:59-70` |
| `Crash`, `ClaimLapses`, `SessionLapses`, `Evict` | a task that is cancelled, and Redis dropping keys |

The constant `Environment` names the faults an instance allows, so that each property can be
checked under all the faults it survives, and no others.

**MissionCritical** is `SessionRouter` with a memory. A record says of itself whether it was forced,
which is of no use once another pin has been written over it; the history variable `forced` keeps the
sessions that a path override pinned, until Redis has no pin of theirs any more.

**SessionPin** is the abstract session: unknown, being decided, pinned, climbing, forgotten. It has
none of the router's machinery. `SessionRouter!PinOf` maps a record to it.

**RequestIntake** is what `Arrive` takes as given: how the containers of headers are merged, which
session id counts, how nested contents are flattened up to a limit, which key and which override
follow, and what is housekeeping. A text is a sequence of words and a hash is injective. A content
is a text or a list of blocks, each a content again: `Contents` is the set of them, and `Nesting`
says how deep one goes, as nothing that arrives as JSON contains itself. `Flatten` is
`flatten_content` as a recursive function over that set, and `Gather` its loop over the blocks.
`Route`, `Override` and `Compact` are a call of the virtual model, a call of a concrete one, and a
client that replaces its history by a summary.

**OverrideTable** is the table that keeps override events from repeating, apart from the headers
that say whose call it is: `Call` is `_maybe_log_override` once the session is resolved.
`RequestIntake` extends it and implements its specification (`IntakeUsesTheTable`).

**DecisionLog** is `emit` and the flusher. `Enqueue` is `put_nowait` for each of some events, which
is what `emit` does with one and the failure branch with a batch. The lengths of the batch window
and of the backoff are left out: either may end at any moment. `RefusedRows` and `RefusedTexts` are
the events with a value that one of the two inserts refuses, however often it is tried; a batch with
one of them fails while Postgres is up, and is requeued whole. **EventLedger** is what the log
promises its callers: an event is taken or refused at once, what was taken stays until it is stored,
and what cannot stay is counted.

**PolicyReload** puts the two readers of the policies file side by side, because they differ in one
thing: the hook stats and then loads, classifier-svc loads and then stats. Classifier-svc also
starts, fails to start on a broken file, and warms up before it takes requests.

**ReloadingRouter** routes requests on top of `PolicyReload`. The ladder of each version is a
constant and a record names its tier, so a record may name a tier today's policies do not have.
`Begin` is the one read of the policies at `hook.py:93`; `Ask`, `SvcTakes`, `SvcAnswers`,
`ReadAnswer` and `NoAnswer` are the classification across the two processes, each with the policies
of its own moment; `Anchor` is how `escalate` and `subagent_tier` look up a name that is gone. A
request keeps the record it found at its first read (`found`, `hook.py:120`) and writes with it, so
the record may go in between: it expires, or an edit of the key prefix, which `session_store.py:26`
reads again for each command, leads the write to a key that has none (`Forget`). It
runs one request at a time against a Redis that works: interleavings and faults are
`SessionRouter`'s business.

Definitions named `X_Y` beside a definition `X` are faulty variants of it, used to confirm that the
properties can fail; nothing else refers to them.

## 3. Runs

Runs that hold:

| Run | States | What it shows |
|---|---|---|
| `router_faults` | 1.0 M | With every fault at once, claims that lapse under a working winner and evictions included: `TypeOK`, `LadderDiscipline` (a record is at most `MaxEscalations` above the tier it was pinned at, which is `force_tier` if it is forced, and names that tier's model), `EscalationsAreLogged`. |
| `router_claims` | 1.8 M | Four requests, three at a time, on a Redis without GETEX or KEEPTTL, with lost replies, crashes and hook bugs: `ClaimExclusion`, `CopiesAgree`, `PinnedForLife`, `NoThirdModel` (what test_routing.py asks of twenty racing requests), and `MissionCriticalFloor`: what was force-pinned stays at `force_tier` or above. |
| `router_sequential` | 0.9 M | Four requests of a session one after another, with failing Redis and an idle session: the store implements `SessionPin` (`KeepsThePromise`); `StickyTier`; `ResentHistoryIsSpent`; `AnswersAreLogged`. |
| `router_live` | 105 k | Without faults, with the pipeline: `EveryRequestIsAnswered`, and `ClaimIsPinned` on each of the winner's paths. |
| `escalation_scan` | 253 k | One conversation that grows, is sent again and is compacted: `EscalationsAreEarned`, `StreakIsTrue`, `ScannedOnce`, `NothingIsMissed`, `StaysWithinScanOutcomes`. |
| `log_delivery` | 330 k | A full queue and a database that fails, and that refuses the row of one event and the text of another: `EveryEventIsAccountedFor`, `RowsHaveTheirTexts`, `RowsRepeatOnlyAfterRewrites`, `FirstTriesAreInOrder`, `QueueDrains`, and each step is one of `EventLedger`'s (`KeepsTheLedger`). |
| `reload_routing` | 408 k | Requests while the file is edited, broken and unreadable: `StaleIsNoticed`, `OneVersionDecides`, `ConfidenceIsEarned`; once the edits are over, `HookHotReloads`, `SvcHotReloads`, `SettledCallsFollowTheFile`. |
| `intake` | 51 k | Six conversations of different clients, growing, replayed, compacted: `IdentityIsStable`, `KeysTellApart`, `RepeatsAreSpaced`, `OverridesAreReported`. |

Runs that show the code departing from what the repository says of it:

| Run | Property | What happens |
|---|---|---|
| `router_downgrade` | `StickyTier` | Two requests of a pinned session overlap: one escalates, the other, which read the record before, only moves the watermark, and writes the old tier back (`hook.py:186`). `README.md:164-165`: "No downgrades, ever." |
| `router_orphan` | `PlaceholderIsShortLived` | While the winner is asking the classifier, another request reads the placeholder, and GETEX gives it the session's eight hours (`session_store.py:47`); a winner that dies then leaves it there. `session_store.py:64`: "a short-lived placeholder". |
| `scan_shared` | `ScannedOnce` | With subagent routing off a subagent shares its parent's key: its shorter history resets the watermark and the parent's is scanned again. `escalation.py:4-6`: "at most once over the session's lifetime". |
| `reload_downgrade` | `EscalationsGoUp` | The tier a session is pinned at is renamed or removed; `escalate` takes the default tier for its place (`state_machine.py:87-90`) and moves it one up from there, which may be a lower model than it had. `state_machine.py:5-6`: "No function here can produce a downgrade." |

Four more departures have no run of their own. A housekeeping
request returns before shadow mode is looked at (`hook.py:99-102`), so it goes to the cheapest tier
where `README.md:173-175` says that shadow mode always routes the default model. And an edit that
falls between `load_policies` and `os.stat` (`app.py:53-54`) is never noticed by classifier-svc,
which then keeps the mtime of a file it has not read: `SvcHotReloads` states hot reload
(`README.md:183-184`) for the case that no edit does. The other two bound properties that hold:

* A client compacts its history and keeps the messages that have just caused an escalation: the
  fence is reset with the watermark (`escalation.py:129-133`), and the same messages escalate a second
  time, against `escalation.py:113-115`, "so the same evidence never fires twice".
  `EscalationsAreEarned` and `StreakIsTrue` excuse a compacted history (`account[c].compacted`);
  without the excuse TLC refutes them in three requests.
* A plain winner takes longer than its claim lives, a path override claims and force-pins the session
  meanwhile, and the late pin, an unconditional `SET EX` (`session_store.py:78`), puts it on a lower
  tier, against `policies.yaml:34-35`, "Never eligible for downgrade". It takes a worker that hangs
  for most of 30 s. `MissionCriticalFloor` holds without `"stall"`; with it TLC finds this.

### Bounds

* Router: three tiers with the default in the middle, or at the bottom in `router_faults`, where the
  default lies below `ForceTier`, so that a downgrade to it would show; `force_tier` at the default
  or, in `router_sequential`, at the top; one session with a subagent that sends its id and one that
  does not. A race needs a winner, a loser and one that comes when the claim is gone; a lost update
  needs a reader, a writer in between and the pin before them: three requests, four where the
  question is about several claims. `MaxInFlight` bounds how many of a key overlap. Histories are
  one or two messages long with `MaxTail = 1`, which gives growing, equal and shrinking lengths,
  within and beyond the tail. Requests are symmetric, and symmetry is used only where no liveness is
  checked.
* Detector: histories of up to four messages, two more per request, a tail of two, a threshold of
  two, two escalations: enough for a streak within a turn, across turns, across an escalation and
  across a compaction. Turns are no longer than the tail, and a compacting request carries no
  `x-router-escalate` header (`CompactHeaders`); the hazards list says what happens beyond. `account`
  keeps both how far the evidence is spent, compacted or not, and from where the record's counter
  counts: the two part when a compaction keeps spent messages, and then `EscalationsAreEarned` and
  `StreakIsTrue` speak of the second only.
* Log: five events, a queue and batches of two, two batches committed without the flusher learning
  of it. The fourth event's row and the fifth's text are refused for good. So the queue overflows by
  `emit` and by requeueing, a batch fails at each of its steps, and one that Postgres refuses comes
  back with another neighbour.
* Policies: three versions, the second broken, the third with a tier renamed and a tier's model
  replaced; four tiers as in the repository's file. Two edits suffice for one to fall before and one
  after any read. A session and a subagent of it; a cap of one escalation.
* Intake: six conversations chosen to differ in what the key depends on and in what it must not
  depend on: an id in one or two headers, the API key's alias, text in nested blocks, text beyond
  the limit. Headers come in the endpoint's container, with the proxy's own or without it, and in
  the two one session has different values for one header, so that the order of merging counts.
  Contents nested two deep: a text in a block of a block, where the limit falls within the inner
  list. One to three messages; a dedupe table of two and four logged events, so that it forgets and
  an event repeats.

### Fairness

`SessionRouter!FairSpec` assumes weak fairness of each request's own steps: a coroutine that is not
cancelled runs on, and each of its awaits has a timeout (`config.py:47-48`). Arrivals, faults and
deadlines are never forced. `DecisionLog!FairSpec` assumes it of the flusher task, whose only
untimed await waits for an event; Postgres may come and go, and `QueueDrains` asks only for what
follows once it stays, with two more hypotheses that the code does not provide: from some time on no
event is in memory that Postgres refuses, as its batch would come back for ever
(`decision_log.py:84-94` requeues it whole), and a Postgres that is up fails, other than by
refusing, finitely often (`MaxRewrites`). `ReadersAreFair` (`PolicyReload`) assumes it of both
readers; for the hook this means that requests keep coming, since only a request makes it look, and
for classifier-svc that a warmup succeeds in the end, which its lifespan waits for.
`ReloadingRouter!FairSpec` adds that a request under way ends, as its awaits have timeouts; requests
are never forced to begin.

## 4. Proofs

`SessionRouterProofs` proves, for every ladder, set of requests and sessions, cap, tail, kind of
Redis and set of faults:

1. `TypeCorrect`: `Spec => []TypeOK`. Inductive as it stands; the work is in the lemmas that each
   helper returns a record, a tier, a key.
2. `LadderHolds`. Inductive invariant `RecordsAreOnTheLadder`: every stored record *and every copy a
   request carries* is on the ladder, which a forced one enters at `force_tier`. The copies are needed
   because any of them may be written, however late. Two lemmas say where records come from: a step
   stores a placeholder or a carried copy (`StoredRecords`); a request gets its copy from the store or
   by one of the pure transitions (`CarriedRecords`). Nothing is assumed of the faults.
3. `ClaimExclusionHolds`, `CopiesAgreeHolds`, `PinnedForLifeHolds`. Inductive invariant `ClaimInv`:
   `ClaimExclusion`, `CopiesAgree` (a stale copy descends from the stored pin) and `ClaimDeadlines`
   (only a placeholder has the claim's deadline). None of the three is inductive alone: a late
   write-back could hit the winner's placeholder, a claim's deadline could drop a pin. They assume
   that Redis drops no key early (`"evict"` not in `Environment`) and that winners finish before
   their claims lapse (`"stall"` not in `Environment`): 30 s against a classifier timeout of 1 s and
   Redis timeouts of 0.25 s. Lost replies, failed commands, crashes, hook bugs and idle sessions
   are all allowed.
4. `MissionCriticalHolds`, for `MissionCritical!RememberingSpec` under the same assumptions; without
   the second TLC refutes it. The invariant `ForcedInv` says that the stored record of a
   key remembered as forced still has the mark. As `CopiesAgree` ties every copy to the stored pin,
   what may be written over it has the mark too, and item 2 puts it at `force_tier` or above.

`EscalationLogProofs` proves two things. `EscalationsAreLoggedHolds`, under every fault. Each step
is shown to be `Steady`: no log loses an escalation, and a request's record climbs only in the step
that adds one to the log of its key. With that, `LogInv` is inductive: `EscalationsAreLogged`, and
that a request which has not begun carries a record that has not climbed; without the second part, a
request could begin under a key whose log is shorter than its record's count. And
`NoThirdModelHolds`, while nothing is forgotten (`NothingForgotten`: no `"error"`, `"idle"`,
`"stall"` or `"evict"` in `Environment`); lost replies, crashes and hook bugs are allowed. Its
invariant `ModelInv`, on top of `ClaimInv`, is that of a key whose log has no escalation every
pinned copy names the stored pin's model, every answer is that model or the default, and an
undecided request answers with the default. Each of the four exclusions is needed: with any one of
those faults TLC finds a session that is answered with two models beside the default. After
`"error"` alone, say, a `SET` that the winner believes in was never made, and the next request
decides again.

`SequentialRouterProofs` assumes `OneAfterAnother`: the requests of one *key* do not overlap, and are
finitely many. Sessions, and a subagent beside its parent, still interleave. The lemma it rests on
is `Alone`: while a request is under way no other is under its key, so a copy it carries is what the
store has, or the store has lost it. Then

* `StickyTierHolds` ("No downgrades, ever", of the record in Redis: a request whose GET fails is
  answered with the default all the same) and `ResentHistoryIsSpentHolds`, under every fault.
  `router_downgrade` shows that the first is false as soon as two requests overlap.
* `KeepsThePromiseHolds`: the store implements `SessionPin`, step by step, unless a key is evicted or
  a winner outlives its claim (`"stall"`, `"evict"`).
* `AnswersAreLoggedHolds`, unless a worker dies or fails between writing a pin and emitting its event
  (`NobodyDies`: `"crash"`, `"bug"`). Its invariant follows the model from the event to the stored
  pin to the copies to the answer.

TLC refutes each of the last two when a fault it excludes is allowed.

`EscalationScanProofs` proves what the detector does for every length of history, tail, threshold
and number of escalations.

1. The loop. `StreakAfter` is a recursive function over the messages, as the loop is. What it
   computes for every input is a fact about a number, so it needs no induction over data: that the
   function exists, and that two functions which obey one recursion agree, follow from the least
   place where they would not (`IntervalInduction`, `IntervalRecursion`, both in `Recursion`).
   `StreakGrows` shows that the reference definition, which counts failing results in sets and knows
   nothing of loops, obeys the loop's recursion; so the loop counts what it should
   (`StreakAfterCounts`, `ScanTailScans`). `DetectOutcome` says what `detect` returns in terms of
   those counts.
2. `ScanTypeCorrect`, and `ScanOutcomesAreSound`: `detect` never leaves `ScanOutcomes`, which is what
   lets `SessionRouter` forget the messages. Any number of conversations may share the record.
3. `ScannedOnceHolds`, for one conversation per record (`OneConversation`); `scan_shared` shows it
   false for two.
4. `EscalationsAreEarnedHolds`, `StreakIsTrueHolds`, `NothingIsMissedHolds`, for one conversation
   whose turns are no longer than the tail and which does not compact in a request with the header
   (`TurnsFitTheTail`). Past a compaction the first two promise less: evidence, and a streak, from
   the tail that is scanned anew, spent messages in it included. The three are one inductive
   invariant, `EvidenceInv`, with `MarkIsTheLength`: the watermark is the length of the history last
   sent. Both parts of `TurnsFitTheTail` are needed, as TLC confirms: beyond a gap the streak of
   before it is continued over messages nobody looked at (`escalation.py:134`, in the hazards list).

`DecisionLogProofs` proves every safety property of the log and its refinement of `EventLedger`, for
any queue, batch, number of events and of failures. The inductive invariant `LogInv` adds to
`EveryEventIsAccountedFor` and `RowsHaveTheirTexts` where an event may be: held at most once, in the
queue or in the batch (`HeldOnce`); in a batch only while the flusher has one in hand, and then in the
table if its texts are due (`BatchIsInPlace`); in the table at most once and once more for each batch
committed without the flusher learning of it, the row that is still to come counted
(`CopiesAreBounded`); and, until a write fails, in the order of emission along rows, batch and queue
(`InLine`). `EventsAreAccountedFor` is exact until the log is closed: what is neither stored nor held
was counted. A closed log may in addition have lost the batch that its flusher had in hand, and no
more than that. `LogKeepsTheLedger` maps each step to a step of the ledger or a stutter.

`RequestIntakeProofs` proves what the intake does for every set of conversations, headers, contents,
limits and sizes.

1. The table, for `TableSpec`: `OverridesAreReportedHolds` and `RepeatsAreSpacedHolds`. The
   invariant is that the table is the end of the log (`TableIsTheEnd`) and that no two events within
   its reach are the same (`NearbyEventsDiffer`), from which a stretch of `DedupeMax` events has as
   many pairs. `IntakeUsesTheTable` shows that `Spec` implements `TableSpec`: a session id that is
   not empty is one a client sends, so an `Override` is a `Call` of a pair. `IntakeTypeCorrect` and
   `IntakeLogsOverrides` follow.
2. Flattening. A function over contents that is defined from its values at their blocks exists, and
   what passes from blocks to contents holds of every content, since blocks are nested less deeply
   (`NestedRecursion`, `NestedInduction`). So `Flatten` obeys its recursion (`FlattenUnfolds`), and so
   does `FullText`, the reference definition that knows no limit (`FullTextUnfolds`). The loop over
   the blocks, of which each is cut to what is left of the limit, yields the beginning of all of them
   (`GatherIsCut`): a cut falls into the first of two texts or behind it (`CutBefore`, `CutBehind`).
   Hence `FlattenIsTheBeginning`: what is looked at of a content is the beginning of all its words.
3. Identity: `IdentityIsStableHolds` and `KeysTellApartHolds`. The inductive invariant `IdentityInv`
   says that all requests of a conversation are known under `Identity`, which depends on its shape and
   on whether it was compacted, but on no request. Compaction changes the opening and so the identity
   of a session without an id, and begins it anew. Both theorems assume `HeadersAgree`: the proxy's
   container, `proxy_server_request`, comes with every request, and what another container has it has
   as well, with the same value. That is what `session_key.py:34-36` says of the proxy; the code does
   not enforce it, and TLC finds a conversation with two identities when only `metadata` carries its
   `x-lite-tier`. The run goes beyond the hypothesis: the proxy's container may be missing, and may
   have another value of a header that the endpoint's container decides.

`ReloadingRouterProofs` proves, of `PolicyReload`, `OnlyValidPoliciesAreServed` and
`StaleIsAlwaysNoticed` for any number of versions, from the invariant that the kept mtime is never
newer than what is served, nor that newer than the file (`ReadsInOrder`). Of `ReloadingRouter` it
proves `RoutingTypeCorrect`, `RoutingNoticesStale`, `OneVersionDecidesHolds` and
`ConfidenceIsEarnedHolds` for any versions that validate, any edits and any answers. The invariant
joins the readers' (which a request's steps do not disturb) to `RTypeOK` and to what an answer on
its way is: a name given with confidence is the one the model named. The lemmas below it are that
each choice of a tier, by name, by position or by default, is a tier of the version asked.

Constants have only the assumptions named beside them (`PoliciesAssumption` and so on): what
`PoliciesConfig._validate` enforces, and the types of settings.

Only model-checked: liveness (`EveryRequestIsAnswered`, `ClaimIsPinned`, `QueueDrains`,
`HookHotReloads`, `SvcHotReloads`, `SettledCallsFollowTheFile`), which is outside the prover's reach,
and the four properties that the code violates. Every safety property of a passing run is a theorem,
under the hypotheses named above.

## 5. Not modelled

* Text below the word: regular expressions, header spelling, hashing, prompt building and the JSON
  extraction of the backend. Their outcomes are inputs: a pattern matches a word or does not, the
  backend names a tier or nothing usable.
* `/healthz` only reads. It could answer 503 while the service is not ready, but the service accepts
  no request before its lifespan, which waits for the warmup, is through.
* A record that does not decode reads as a miss, like a failed GET. Unlike one, it stays in Redis;
  the code writes none.
* The intervals of `PoliciesHolder` and of the watcher: a look may come at any moment.
  `RateLimitedLogger` only logs.
* A drop of an override event by a full log: `OverrideTable` takes `emit` to succeed.
* A key prefix that is edited and then edited back, which would bring old records back: a new prefix
  is a record forgotten. A new TTL changes only when records are forgotten.
* Policies that change while several requests interleave: `ReloadingRouter` runs one request at a
  time, `SessionRouter` several under one version.
* `emit` outside an event loop (nothing in the repository does it), which leaves a queue without a
  flusher; the log that is disabled; the pool that a failed write abandons.
* Pricing in `policies.yaml`, which the router does not read; fields of events that nothing branches
  on.
* Scripts, migrations, views and deployment: one-shot programs around SQL and HTTP, and wiring.

## 6. Plan

Done: the router core and its store, on old and new Redis (1), the detector (2), the log and what it
promises (3), the readers of the policies (4), routing while they change (5), the intake and its
table (6), and the proofs of section 4. Next, in this order:

1. **The ladder through the log**: that the tiers named by the events of a key are the tiers its
   record went through, for overlapping requests too.
2. **Long gaps**: turns longer than the tail in `EscalationScan`, with the property that a streak
   over messages nobody scanned does not escalate.
3. **Forgetting**: that a session silent for `ttl_seconds` is forgotten, except for keys recreated
   without a TTL (`"forever"`).
