# Glassbox harness: TLA+ models, model checking and proofs

Glassbox records what a trading agent did (traces, spans, decisions, evidence) into a
local SQLite file and evaluates the recorded decisions afterwards. Its core promises
are about steps that interleave: agent threads that must never wait for the store, a
worker that must account for every event it loses, spans that are completed on another
thread, independent processes that share one database file, commands that read a store
while it grows, and alerts that leave the machine. This directory models those parts of
`src/glassbox` in TLA+, checks small instances with TLC and proves every safety
property of those runs with TLAPS for every value of the constants.

Contents: [inventory](#inventory), [what is modelled](#what-is-modelled),
[runs](#runs-and-what-they-show), [bounds](#bounds), [fairness](#fairness),
[proofs](#proofs), [findings](#findings), [limits](#not-modelled-and-why),
[plan](#plan).

## Inventory

### Components, their state and operations

| Component (source) | State it keeps | Operations | Interacts with |
|---|---|---|---|
| Collector and event buffer (`collector/writer.py`, `collector/buffer.py`) | `_accepting`, bounded `queue.Queue` with `unfinished_tasks`, decision lookup cache (LRU), `_persisted_traces`, `_closed_traces`, `_partial_traces`, `_marked_partial_traces`, loss counters; one lifecycle lock, one daemon worker | `emit`, worker loop `_run`/`_write`, `_record_loss`, `_mark_pending_partials`, `flush`, `shutdown` | called by every SDK scope; calls `Repository.write_event` and `mark_trace_partial` |
| Event persistence (`store/repository.py`, `store/schema.sql`) | SQLite tables of traces, spans, decisions, evidence; foreign keys, append-only triggers | `write_event`, `mark_trace_partial`, reads | collector worker writes; viewer, evaluation and exports read |
| Discord drift alerts (`eval/discord.py`, `eval/_discord_transport.py`, `discord_deliveries`) | one row per attempt: pending, delivered or failed; a partial unique index on pending and on delivered rows | `deliver_drift_alert`, `recover_drift_alerts`, `claim_discord_delivery`, `finalize_discord_delivery`, `recoverable_discord_reports` | run by the `drift` command of `cli.py` in separate processes that share the database |
| SDK scopes (`sdk/tracer.py`, `context.py`, `evidence.py`, `redaction.py`) | per-trace accumulator of spans, context variables, deferred capture | `trace`, `decision`, `record_span`, `record_evidence` | emits to the collector, hands content to the capture executor |
| SDK configuration (`sdk/config.py`) | process-wide configuration, capture executor, fork hook | `init`, `shutdown`, fork reset | owns the collector and the executor |
| Append-only histories (`repository.py`) | overrides (linear per decision), human feedback (idempotency key), outcomes, baselines | `record_override`, `record_feedback`, `record_outcome`, baseline approval | web viewer (one connection per request), CLI |
| Schema migration (`store/database.py`, `store/migrations`) | schema fingerprint of the file | open, probe, migrate transition by transition under `BEGIN IMMEDIATE` | several processes opening one file |
| Blob store (`store/blobs.py`) | content-addressed files | `put` by temporary file and atomic rename | capture executor |
| Drift scheduler (`ops/scheduler.py`, `scheduler_runner.py`) | one managed launchd property list | install, uninstall, run | another writer of the same file name, `launchctl` |
| Live shadow executor (`eval/shadow.py`) | queue of one job, lifetime budget, worker thread on demand | submit, shutdown of a handle | agent process, counterfactual evaluation |
| Counterfactual evaluation (`eval/counterfactual*.py`) | the selected cases of a run, its recorded results | select, disclose, prepare, ask, record | command line, shadow executor, provider |
| Judge (`eval/judge*.py`, `eval/metrics.py`) | selected cases, calibration pairs, recorded results | select, judge one by one, calibrate, record | planners' scores, provider, other judge commands |
| Drift reports and baselines (`eval/drift.py`) | baseline material, recorded runs | create a baseline, report | repository, Discord alerts |
| Outcome reconciliation (`eval/reconciliation.py`) | outcomes, temporary rejects file, rejects file | import line by line, report | other imports, repository |
| Assertions and runner (`eval/assertions.py`, `runner.py`) | none | pure functions over one loaded case | target under test |
| Web viewer (`web/*.py`) | one session and form token per process | queue pages, trace pages, feedback and override forms, export | repository |
| Command line (`cli.py`) | none | dispatch | everything above |

### Hard behaviours, and what makes each component correct

* **Collector.** `emit` leaves the lock between the failed `put` and the record of the
  loss; the worker decides on the status of a closing event before it writes it, and
  updates rows from a snapshot taken under the lock. Correct means: what was accepted is
  settled exactly once and in order; every loss is counted; a trace that lost telemetry
  is stored as partial and never turns complete again; the worker exits only when nothing
  is left; `shutdown` neither hangs nor claims success too early.
* **Discord alerts.** Invocations run concurrently, are killed at any point, lose answers
  and find claims of dead or suspended processes. Correct means: one sender for an alert;
  a settled attempt is final; the attempt history respects the constraints of the table
  (or a write raises); a delivery is recorded only if Discord accepted it; an alert is
  posted twice only when an acceptance was lost or a claim was overdue; the number of
  requests is bounded and every invocation ends.
* **SDK capture.** A span with content is completed on the capture thread, possibly after
  the root span emitted the accumulator; the callback waits for a job of its own thread;
  `shutdown` flushes before it stops admission. Correct means: a span is emitted at most
  once and after its parent, a root takes along what left before it, a successful flush
  covers every scope left before the call, and every call returns.
* **Histories.** Request threads and commands work through connections of their own; an
  override reads its history under the write lock, feedback reads its key before it takes
  it. Correct means: linear per decision and per policy, an answer that is true of the
  store, and readers that agree about the current action.
* **Imports.** An import can be killed between two commits, repeated, and run beside
  another one with the same destination. Correct means: what it reports is what is stored,
  once per source, and the rejects file is the one it wrote.
* **Migration.** Several openers choose a transition before they have the lock. Correct
  means: the schema only moves to the next release, no record is lost, and nobody is
  refused because of the others.
* **Shadow executor.** A worker that ends while a job is admitted, a handle shut down in
  the middle of a submit. Correct means: no job without a worker, none after a drained
  shutdown, a budget that holds, and every submit counted once.
* **Runs over a growing store.** Decisions, outcomes and scores arrive while a command
  works. Correct means: a counterfactual run sends what it disclosed, answers for all of it,
  and is not refused because the store moved on; a judge run reports the calibration the
  history shows; a stored baseline can be read. The code falls short of two of these
  promises: one unfit case refuses a run ([findings](#findings)), and a baseline with an empty
  name or a single value is stored and cannot be read ([limits](#not-modelled-and-why)).
* **Scheduler.** Another writer between the ownership test and the swap. Correct means:
  a foreign file is never lost.
* **Views.** Pages are read by separate connections while decisions arrive, spans arrive
  in any order. Correct means: nothing stored is hidden, and no walk is endless.

`PROJECT.json` lists the components with their status and every hazard at its line.

## What is modelled

| Module | Role |
|---|---|
| `EventChannel.tla` | abstract specification: a bounded lossy FIFO channel in front of one store |
| `Collector.tla` | collector, buffer, worker and the repository transactions it makes |
| `CollectorProperties.tla` | its properties, with the refinement mapping to `EventChannel` |
| `CollectorProofs.tla` | its theorems |
| `MCCollector.tla` | constants of the collector's runs |
| `DiscordDelivery.tla` | concurrent drift invocations and the `discord_deliveries` table |
| `DiscordProperties.tla` | its properties |
| `DiscordProofs.tla` | its theorems |
| `MCDiscord.tla` | its two kinds of instances in one run |
| `SdkCapture.tla` | span scopes, the shared accumulator, the capture executor, flush and shutdown |
| `SdkProperties.tla` | its properties |
| `SdkProofs.tla` | its theorems |
| `MCSdk.tla` | constants of its runs |
| `Ledger.tla` | override, feedback, baseline and drift-run histories under SQLite's write lock |
| `OutcomeImport.tla` | imports of deferred outcomes and the report over them |
| `SchemaMigration.tla` | processes that open and upgrade one file |
| `MCHistories.tla` | these three in one run, with the constants of the imports |
| `HistoriesProofs.tla` | the theorems of these three and of their composition |
| `Ranking.tla` | rows in an order, and the first of them: `ORDER BY`, `sorted`, `LIMIT` |
| `Counterfactual.tla` | counterfactual runs |
| `LiveShadow.tla` | the shadow executor, which extends `Counterfactual` by a second runner |
| `JudgeRuns.tla` | judge runs and their calibration |
| `DriftReport.tla` | baseline material, histograms, CUSUM and verdict |
| `ReadViews.tla` | the decision queue's pages and a trace's span tree |
| `SchedulerPlist.tla` | the scheduler's managed file |
| `MCEvaluation.tla` | these six in one run, with the constants of the drift windows |
| `DataLemmas.tla` | induction over numbers and sets, sums, extremes and ranks, for the next three |
| `ShadowProofs.tla` | the theorems of `Counterfactual` and `LiveShadow` |
| `JudgeProofs.tla` | the theorems of `JudgeRuns` |
| `EvaluationProofs.tla` | the theorems of the scheduler, the views, the drift reports and the composition of all six |

### Collector

One action is one section of code under the lifecycle lock, one queue operation or one
repository transaction, so TLC explores every interleaving the locks allow.

| Model | Code |
|---|---|
| `accepting`, `queue`, `unfinished`, `lru`, `persisted`, `closed`, `partial`, `marked`, the three counters | the attributes of `Collector` and of its `queue.Queue` |
| `call[p]` | where agent thread `p` is inside `emit` |
| `worker` | where `_run`/`_write` is, with its locals `trace_id`, the event to persist and the snapshot it iterates over |
| `row`, `ended`, `decisionRows` | what the store holds: status and end of a trace, the decisions that exist |
| `fate`, `lossAt` | history variables: what became of each event, and when the first loss of a trace was recorded |
| `Refuse`, `Admit`, `Overflow`, `LookupDropped`, `RecordDropped` | `emit` and `_record_loss` on an agent thread |
| `Take`, `Prepare`, `WriteSucceeds`, `WriteFails`, `LookupFailed`, `RecordFailed`, `CloseTrace`, `SnapshotPartials`, `MarkOne`, `MarkFails`, `TaskDone`, `WorkerExits` | one pass of the worker, step by step |
| `ShutdownBegins`, `ShutdownFlushed`, `ShutdownTimesOut`, `ShutdownJoined` | `shutdown`, which may time out and be called again |

An event is an identity with a kind, a trace and, for evidence, the decision it cites.
`ReadyToEmit` restricts the order of emission to what the scopes of `tracer.py`
guarantee: the opening event of a trace comes before everything else of that trace, and
a decision before its evidence. A span or a decision may come after the closing event
(another task may still run), which the model allows. The rate limiting of warnings is
left out. An update of several pending traces may happen in any order; the code iterates
over a set.

### Discord delivery

| Model | Code |
|---|---|
| `verdict[r]`, `deliveries[r]` | `drift_runs.status`, and the rows of `discord_deliveries` of run `r` by `attempt_number` |
| `proc[i]` | an invocation of the `drift` command: where it is, the recovered runs left, the run, the attempt and the retry flag of `deliver_drift_alert` |
| `now` | one clock for claims (`created_at`, the 30 seconds of a claim) |
| `arrived`, `unacknowledged`, `overdue`, `requests` | history variables: accepted requests by attempt, runs with an acceptance nobody learned of, runs whose stale claim was taken from a live sender, requests per invocation |
| `Persist` | the drift run is written before any delivery |
| `Scan` | `recover_drift_alerts` fixes its list from `recoverable_discord_reports` |
| `Skip`, `Claim` | the two answers of `claim_discord_delivery`, a transaction; a granted claim fails a stale row and appends the next attempt |
| `Accepted`, `NotAccepted`, `AnswerArrives`, `AnswerLost` | the request and the retry loop of `deliver_drift_alert`; Discord itself is external |
| `Finalize` | `finalize_discord_delivery`, guarded by the row still being pending; its error is swallowed by the caller |
| `StoreFails`, `Crash`, `Tick` | a repository call raises, a process is killed, time passes |

Abstractions: one agent and one destination; HTTP results collapse to accepted, a final
refusal (`http_4xx`) and a transient error (transport, 429, 5xx), which is exactly what
the retry decision distinguishes; the capped wait belongs to the retry; `finalized_at` is
left out; the clock is monotone. When a parent process is killed, its transport child may
still complete the request, so `Crash` in the middle of a request has both outcomes.
`IsNext` states "the newest of the list" by quantifiers rather than with a maximum, which
keeps the module within reach of the prover.

### SDK capture

| Model | Code |
|---|---|
| `scope[s]` | `SpanScope` of span `s`: not entered, open, inside `__exit__`, or left; its parent, its task and the root whose accumulator it shares |
| `current[t]`, `started`, `leaving[t]` | the context variable `current_span` of a task, the tasks that exist, and the span whose `__exit__` a task is in |
| `completed[r]`, `todo[x]` | the accumulator `completed_descendants` of a root, and what the emission loop on thread `x` has left of it |
| `executor`, `jobs`, `written` | the capture executor, its queue, and the spans whose blob job is over |
| `captured`, `refused`, `invalid` | spans with captured content, spans whose callback the executor refused, spans that redaction or validation rejected |
| `app`, `exiting`, `sink` | the pending call of `flush` or `shutdown`, the end of the interpreter, whether the collector accepts |
| `offered`, `accepted`, `earlier`, `above`, `after`, `flushed` | history variables |
| `Spawn` | a task or thread starts in a copy of its creator's context (external: `asyncio`) |
| `Enter`, `Leave`, `Exit` | `__enter__`; the first half of `__exit__` up to the capture of the content; the rest of it, one of `ExitInline`, `ExitDeferred`, `ExitInvalid` |
| `EmitSpan`, `Offer` | `emit_span`: the append, and one round of the root's loop over the reversed accumulator |
| `RunJob` | the next job of the executor: a blob write, a span's callback, a barrier of `flush` |
| `Call`, `FlushWaits`, `FlushTimesOut`, `Drained`, `CloseExecutor`, `StopCollector` | `flush` and `shutdown`, step by step |
| `InterpreterExits`, `MayCall` | `concurrent.futures` closes its executors before `atexit` handlers run, and the handler of `sdk/config.py` |

`Leave` and `Exit` are separate because the executor may be closed between the two
submissions of one `__exit__`. The append and the loop of `emit_span` are separate because
each `emit` is a call during which other threads run.

Abstractions: one trace and one configuration; the two contents of a span are one blob job,
whose success makes no difference to the span; any span may have content or be rejected;
the collector is reduced to whether it is open, its buffer being the subject of
`Collector.tla`, which implements `EventChannel`. A call of `flush` while another one is
waiting is not modelled, so there is one barrier at a time, apart from those left behind by
a flush that timed out.

### Ledger

One action is one statement or transaction of a connection. The operation lock of a
connection orders nothing here, because every request thread and command has its own
connection; `writer` is SQLite's write lock.

| Model | Code |
|---|---|
| `overrides`, `feedback`, `baselines`, `driftRuns` | the tables, all the fields a form's replay compares as one `value` |
| `Compared` | what Python's `==` sees of a value: a corrected recommendation of `true`, `1` or `1.0` is one to it, so posting another of them under the same key is answered "saved" and the first stays stored |
| `work[t]` | the form a thread answers, where it is, the predecessor it found, and the answer |
| `Post` | the handlers of the two forms (404 for an unknown decision), the drift commands |
| `Lock`, `LockTimesOut`, `Rollback` | `BEGIN IMMEDIATE`, the busy timeout, any failure inside |
| `LookOverride`, `InsertOverride` | `record_override` |
| `LookFeedback`, `InsertFeedback` | `record_feedback`, whose SELECT runs before the transaction of its INSERT |
| `LookBaseline`, `InsertBaseline`, `LookReport`, `LookAnyBaseline`, `InsertRun` | `record_drift_baseline`, `run_live_drift_report` with its two reads, `record_drift_run` |
| `QueueStatus`, `CardStatus`, `HasEffectiveOverride` | the three readers of a decision's current action |

### Outcome import

| Model | Code |
|---|---|
| `outcomes` | the committed rows |
| `tempEntry`, `rejectFile` | whose file the temporary name holds; which file the destination is, and who moved it there |
| `import[i]` | one run of `import_outcomes`: the next line, the counts, the rejected lines |
| `StartImport`, `ReadLine`, `Publish`, `CleanUp` | exclusive creation, one turn of the loop with its commit, `replace`, `unlink` |
| `ImportFails`, `ImportKilled`, `Sweep` | an exception, the death of the process, an operator who removes a file left behind |
| `Verdict`, `DeriveLabel`, `LatestByType`, `LabelOf`, `Metrics` | the checks in their order, the label, the ranking of the query, the report |

### Schema migration

`file` is what is committed, `draft` what the holder of the lock would commit. `Probe` is a
turn of `_initialize_schema`, `ProbeAgain` is `_migration_needed` under the lock; `Create`,
`Copy`, `ForeignKeyCheck`, `Drop` and `Commit` are the statements of a transition, of which
an ordinary one has only the first and the last. Which releases are left by a rebuild and
which transitions check foreign keys are constants, set as in `database.py`. Records are
told apart by what a new schema objects to: a loose timestamp, or a parent that is gone.

### Counterfactual runs and the live shadow executor

`run[Command]` is `glassbox counterfactual run`, `run[Worker]` the run of a shadow job; both
take the steps of `run_counterfactual`: prepare every case, make the provider, ask case by
case, record everything at once. `DecisionStored` and `OutcomeImported` let the store grow
between any two of them. `LiveShadow` adds what happens under the condition lock (`Admit`,
`Take`, `WorkerEnds`, `Finish`, `Shutdown`) and what happens outside of it (`Submit`,
`Configure`, `SourceFound`, the run itself).

| Model | Code |
|---|---|
| `Unfit` | decisions stored with facts that are no finite JSON (an evidence weight of infinity): they cannot be rendered, and the record refuses them |
| `CapturesOf`, `PreparationFailure`, `CaseOf` | `_prepare_case`: the captured input that is not used, attached or unreadable; the failure that follows; the case, which keeps the facts also when they are what failed it |
| `delimited` | whether the prompt artifact has its markers in order; if not, every case is an invalid snapshot |
| `Settled`, `fit` | an answer; one that parses may be unfit for the table (a rationale that begins with NUL is empty to SQLite's `trim`) |
| `Accepts` | `record_counterfactual_run`: validation, serialization of every case, failed ones too, and the table's constraints; one unacceptable case refuses the run |

A prompt is reduced to whether it can be rendered, an answer to whether it can be parsed and
stored.

### Judge runs

`Capped` is the selection of `judge_candidates`, `JudgeOne` one request, `Decide` the pairs
and the verdict, `RecordJudgeRun` the transaction. `KappaBelow` multiplies out both sides of
the weighted kappa's fraction, so it is exact. The order of the query is a relation
(`Precedence`), which `Ranking` turns into a sequence; a relation, unlike a recursive sort,
can be reasoned about by the provers. Runs are ordered by their start (`run_at`);
a clock that is set back between two runs is not modelled.

### Drift reports

Histograms, labels, material and CUSUM are translated over integers: confidences in tenths,
and sums multiplied by twice the count and the deviation of the baseline. The deviation is
represented by the spread of the values: undefined for fewer than two, zero for equal ones,
positive otherwise, as the standard deviation is. `Measurable` is the refusal of negative
trace values by writer and reader. The population stability index uses logarithms; a
histogram signal may have any status, except that equal histograms are below the alert (the
warning threshold may be zero).

`ReadsBack` is what `_material_from_record` checks of a stored baseline: counts and minima,
the shape and order of the histograms, that the versions count the same decisions, that no
label and no version has an empty name (`NoType`, `NoVersion`), and that sum and deviation
are there and not negative. Decision types and agent versions may be empty strings, which
nothing refuses before a report. `Samples` have them, and `MinBaseline` may be one, as in the
code.

### Views

`QueueRows` is the query of a page, in the order of `QueueOrder`, `Turned` what a page shows and the cursor it hands on,
`Walk`, `InvalidIds` and `Rendered` the tree of a trace. Every page is read at its own
moment; decisions and spans arrive in between.

### Scheduler

One action is one system call of `install` or `remove` on the managed name, or one answer of
`launchctl`; `aside[p]` is the temporary or quarantine name of a command. `Intrude` is any
other program, between any two of these steps. A file is its bytes, so two installs of the
same settings write equal files.

## Runs and what they show

| Run | Instance | Shows |
|---|---|---|
| `collector` | 2 threads, 2 traces, 6 events, buffer of 1, failing writes and updates | `Accounting`, `DrainedBeforeExit`, `EarlyLossClosesPartial`, `PartialMeansLoss`, `PartialIsSticky` |
| `collector_live` | 2 threads, 2 traces, 5 events, buffer of 2, failing writes | `ImplementsChannel` (refinement of `EventChannel`, its liveness included), `LossIsEventuallyMarked`, `ShutdownDrains` |
| `collector_race` | as above, buffer of 1, no faults | violation: a drop recorded during the closing write leaves the trace complete |
| `discord` | 2 invocations, claims that go stale, crashes, store failures, lost answers; or 3 invocations that recover each other's alerts, no faults but requests not accepted | `HistoryIsTrue`, `DuplicateNeedsLoss`, `RecoveryIsContained`, `SettledIsFinal`, `OwnerAttemptsFirst`, `InvocationsEnd` |
| `sdk` | 3 spans, 2 tasks, 1 call of flush or shutdown, interpreter exit | `OfferedOnce`, `NothingLeftBehind`, `AncestorsFirst`, `FlushCoversExits` |
| `sdk_live` | 2 spans, 1 task, 2 calls | `CapturedSpansSettle`, `CallsReturn` |
| `sdk_left_behind` | 2 spans, 1 task | violation: a captured child is appended after its root emitted |
| `sdk_stop` | 1 call | violation: shutdown returns and the collector still accepts |
| `histories` | 2 threads over 3 decisions (1 unknown), 2 policies, 2 keys, 3 rows; 3 imports of 7 lines with 2 policies; 3 openers of a file of any of 11 releases or an unknown one | `LinearHistories`, `UsersAreToldTheTruth`, `ArtifactsKeptApart`, `StoredAsReported`, `ReportCountsNewestLabels`, `EveryRecordIsKept`, `OpensEndRight`, `SchemaOnlyAdvances` |
| `evaluation` | see [bounds](#bounds) | `RunsKeepTheirWord`, `ShadowKeepsBooks`, `CalibrationMatchesHistory`, `BaselineReadsBack`, `VerdictShowsWorstShift`, `ViewsShowEverything`, `ForeignFilesSurvive` |
| `import_unlink` | the imports alone | violation: an import's cleanup removes another import's temporary file |
| `counterfactual_unfit` | 2 decisions, one with unfit facts | violation: a case that failed before it was sent keeps the whole run from being recorded |

The components of `histories`, and those of `evaluation`, write to no table or file of each
other. Such a run chooses one of them in its initial state (`part`) and leaves the others
where they are, so it checks each on its own without their product.

`ImplementsChannel` is the strongest statement about the collector: whatever threads,
worker and store do, an observer sees a channel that accepts, drops on a full buffer,
refuses after shutdown, settles accepted events in order and exactly once, and stops only
when it is empty. The mapping puts the event in the worker's hand in front of the queue,
so the channel's room is one more than the buffer.

`EarlyLossClosesPartial` says what the code really guarantees about losses, in contrast
to the documented claim that the run `collector_race` refutes: a loss counts when it is
recorded before the worker prepares the closing event.

`NothingLeftBehind` and `AncestorsFirst` are about the spans that are in order: they left
their scope before the root (or before the span they are compared with), in the same task
or as it happened between tasks, and were not deferred behind a span emitted at once. The
exception is exactly what the run `sdk_left_behind` shows.

`LinearHistories` and `UsersAreToldTheTruth` belong together: the first is what the write
lock protects, the second what users see of it. The queue's query lets a row of any
decision supersede another, the card and the report only one of the same decision; that
they agree is a consequence of the first property, and the theorem shows it.

`OpensEndRight` says more than that an opened file is current: an opener that is refused
met a schema that was never released, or rows the new tables cannot take. A second opener
that finds the file upgraded under the lock starts over instead.

`RunsKeepTheirWord` is about what is sent (`OnlyDisclosedIsSent`) and what is recorded
(`RunsAnswerForAll`): every disclosed decision once, sent or failed, and a record refused for
nothing but facts or an answer that cannot be stored. That such a case costs the others their
record is what `counterfactual_unfit` shows.

`BaselineReadsBack` has three exceptions, an empty label, an empty version and a baseline of
one value: the writer checks less than the reader, see [limits](#not-modelled-and-why).

`StoredAsReported` is about an import that ran to its end, however often it was killed and
repeated before, and beside any others. `ArtifactsKeptApart` has the exception that the run
`import_unlink` shows, and nothing else.

`CalibrationMatchesHistory` compares the pairs a run put together before its results were
stored with what the query gives afterwards, for runs during which no planner and no other
run wrote. `VerdictShowsWorstShift` compares the recursive sums with their definition: the
largest sum over any run of consecutive values.

Every property of a passing run has a mutant in the module (an operator that the comment
before it calls a mutant, next to the definition it replaces) that breaks it: an exit test
that does not look at the buffer, a claim that ignores active claims, a finalization that
rewrites settled rows, and so on. They are used by nothing else.

## Bounds

* Collector runs: two agent threads are the least that can interleave inside `emit`; two
  traces are the least for which a loss in one must not mark the other; capacity one
  makes every second emission overflow and the lookup cache evict; the kinds of events
  cover every branch of `_write`, `_trace_id` and `ReferencesExist`. Threads are
  interchangeable (symmetry, safety runs only). Events are emitted at most once; nothing
  else is bounded.
* `discord` chooses in its initial state (`calm`) between two kinds of behaviours
  (`MCDiscord`). With everything that goes wrong, two invocations (`Few`) suffice for every
  conflict over one claim; with `StaleAfter = 2` and `MaxTime = 3` a claim can be active,
  stale and taken over, and the taker's claim can in turn be active. In a calm behaviour no
  time passes, no answer is lost and nobody is killed, and three invocations with
  `RecoverLimit = 1` and `InspectLimit = 2` make both limits of the query bite and let two
  recoveries meet over one alert. `MaxTime` is the only cap on a counter; requests and
  attempts are bounded by the code.
* SDK runs: three spans are the least with a chain of three, two siblings, and two trees;
  two tasks the least that share an accumulator. `MaxCalls` is the only cap. One call meets
  every state of the scopes; a second one, needed for a flush after a failed shutdown, is
  in the run of the liveness properties, on two spans.
* `histories`: two threads are the least that race for the lock, three rows the least for
  which a head is superseded twice; three values, two of them equal to
  Python; requests are bounded by the rows only (`RowIds`). Three importers cover one that reads, one that cleans up and one that is refused; their files
  have a source repeated under another decision and under another policy, an unknown
  decision, a malformed and a blank line, and recommendations that are equal as numbers and
  different as JSON. Three openers are the least for which the lock passes to one that chose
  its transition two releases ago.
* `evaluation`: three decisions with `MaxCases` 2, one of them without captured input, one
  with unfit facts (`Unfit`) and two not mature; two handles and two callers with three
  submissions for a budget of two (`MaxSubmits`); two judge commands over two decisions with `MinPairs` 2 (`MaxVerdicts`
  and `MaxStarts` bound scores and runs); three samples in each window (`MaxSamples`) of
  five decision types for one label, among them `other` and an empty one, an empty version, a
  trace without a value and a negative one, and a minimum of one;
  four decisions, two of them at the bound of two bands, on pages of one; three spans with
  any parents; two schedule commands with two files of their own and two foreign ones.
  The thresholds of the code (30 pairs, 10 judged cases, 9 labels, a budget of 10, pages of
  25) are constants, so that a small instance meets both sides of them.
* The theorems remove the bounds: they hold for any number of threads, traces, events,
  invocations, spans, tasks and calls, rows, releases and openers, imports and their lines,
  cases, handles and callers, judge commands and scores, samples, bins and labels, pages and
  span trees, schedule commands and foreign files, any capacity, limits, thresholds, budgets
  and lifetimes.

## Fairness

* Collector: weak fairness of the worker (a daemon thread that is always scheduled and
  polls with a timeout), of each thread's return from `emit` (no step of it blocks) and
  of the waiting `shutdown` call, whose waits have deadlines. Nothing makes the agent
  emit, the application shut down, or the store recover. `LossIsEventuallyMarked` is
  checked without failing updates: the code never retries one before the next event.
* Discord: weak fairness of each started invocation's own steps (requests, waits and the
  transport child have deadlines, loops are bounded). Persisting a run, crashes, store
  failures and the clock are not fair.

* SDK: weak fairness of the executor's thread, of the rest of `__exit__` and its loop
  (neither waits for anything but `Collector.emit`, which does not block) and of the steps
  of `flush` and `shutdown` that end a wait when its work is done. A timeout, a call, a
  scope's end and a new task are not fair.

* `histories` and `evaluation` check safety only: people, other programs and providers
  owe nobody a step.

In the first three models `Finished` is a stuttering step of the terminated system, so TLC's
deadlock check stays on in their runs. In `histories`, `evaluation`, `import_unlink`
and `counterfactual_unfit` it is off: there the system may stop once nobody posts a form, starts a
command or arrives.

## Proofs

Every safety invariant and every action property that a passing run checks is a theorem
here, for every value of the constants that satisfies their named assumptions. The theorems
of the collector, Discord and the SDK are about `Spec`; those of a part of `histories` or
`evaluation` are about the part's own specification (`LedgerSpec`, `ImportSpec`,
`SchemaSpec`, `CounterfactualSpec`, `ShadowSpec`, `JudgeSpec`, `DriftSpec`, `ViewSpec`,
`PlistSpec`), and the theorems at the end of `HistoriesProofs` and `EvaluationProofs` carry
them to the composed `Spec` that TLC runs. All are checked by tlapm with SMT, Zenon and LS4.

### Collector (`CollectorProofs.tla`)

Assumptions: `CapacityAssumption` (positive capacity), `FaultAssumption`,
`EventAssumption` (finitely many events, each with a kind and a trace; evidence belongs
to the trace of its decision) and `TraceScopeAssumption` (one opening and one closing
event per trace).

The inductive invariant is `IInv`, in four layers, each proved with the ones before it:

1. `TypeInv`: types, and what the worker and the threads have in hand.
2. `FateInv`: the queue holds exactly the queued events, without repetition; the worker
   holds the one event taken; a thread inside `emit` is the only one dropping its event;
   after shutdown the queue only shrinks. This gives `DrainedBeforeExit`.
3. `OrderInv`: an opening event is settled before anything else of its trace is taken,
   because it is emitted first and the queue is FIFO. Without it an update could meet a
   trace that has no row, and a marked trace would not be partial in the store.
4. `StatusInv`: the sets of the collector agree with the store, the status prepared for a
   closing event knows every loss recorded before, and losses of open traces are
   remembered. This gives `EarlyLossClosesPartial`, `PartialMeansLoss` (its parts are
   `PartialOnlyAfterLoss` and `MarkedRowsArePartial`) and, as an action property,
   `PartialIsSticky`.

`CountInv` adds the counters with the cardinality lemmas of the library and gives
`Accounting`.

`CollectorImplementsChannel` is the safety part of the refinement: `Spec` implies the
initial states and steps of `EventChannel` under the mapping of `ImplementsChannel`. Each
action of the collector is a step of the channel or a stutter, by the layer `FateInv`: what
is `Unsettled` is the worker's event before the queue, so that taking an event changes
nothing an observer sees, and settling it takes the head.

### Discord (`DiscordProofs.tla`)

Assumptions: `LimitAssumption` (natural limits, a positive lifetime of claims) and
`FaultAssumption`.

`IInv` joins the properties with what makes them inductive: `ClaimInv` (an invocation
works on drifted runs only, recovers only attempted ones and holds an attempt that
exists), `FreshInv` (a sender whose run is not overdue holds the latest attempt and
nobody settled it), `AcceptInv` (who knows of an acceptance has it on record) and
`ArrivedInv` (without a loss the one accepted request is recorded as a delivery, or its
sender is about to record it). `OneSender` needs `FreshInv`: a second claim is granted
only when no pending row is active, so the first sender's row, which is the latest, must
be stale, and the taker makes the run overdue. `DuplicateNeedsLoss` needs all of them.
Steps that write no row share one lemma, `MoveKeeps`; claims, finalizations and
acceptances have their own. The two action properties follow from the same invariant.
`HistoryIsTrue` joins `HistoryWellFormed` and `DeliveredWasAccepted`.

`RecoveryIsContained` joins `OneSender` and `BoundedRequests`, which has an invariant of its own, `BudgetInv`: requests made plus two for
each alert left never exceed two per recovered alert, with an allowance for the one in
progress. Its base is `NewestBound`, that a query limited to the newest `L` runs answers
at most `L`, shown with an injection into `0..L-1` and the pigeonhole theorem.

### SDK capture (`SdkProofs.tla`)

Assumption: `ScopeAssumption` (`NoSpan` is no span, the first task exists, the executor's
thread is none of the tasks). Nothing bounds the numbers of spans or tasks.

`IInv` is proved in layers, each from the ones before it (`Inductive`):

1. `TypeOK`, `TreeInv` (parents, roots and `above` form trees whose members exist),
   `StackInv` (the current span of a task and its parents have been entered) and
   `NestingInv` (a scope of a task is left before those that enclose it in that task, and
   `after` records it).
2. `CaptureInv`: nothing is captured without an executor or refused before it is closed,
   and only a span that left its scope can be dropped.
3. `PlaceInv`: a span that left its scope was dropped, appended, or waits in the queue
   (`SettledInv`); queue and accumulator hold each span at most once (`QueueInv`,
   `AccumulatorInv`) and keep the order in which scopes were left, for spans not deferred
   behind others (`QueueOrderInv`, `AccumulatorOrderInv`).
4. `DeliveryInv`: only a root releases its accumulator, once, in reverse; what is in a
   loop has not been offered and what is before it in the accumulator is still to come
   (`ReleaseInv`, `OfferedOnce`, `OrderInv`).
5. `CoverInv`: while a call waits, what it covers is in front of its barrier or done.

`OfferedOnce` is the heart: the accumulator has no duplicates and one root, so the one loop
that empties it offers each member once. `NothingLeftBehind` and `AncestorsFirst` follow
from the two order invariants: a span that left earlier and was not deferred behind the
root is before it in the queue or already in the accumulator when the root appends itself.
`FlushCoversExits` follows from `CoverInv` and the first-in first-out queue.

### Histories (`HistoriesProofs.tla`)

Assumptions: `NoRowIsNoRow` (`NoRow` is no row and no thread), `ValuesAreActions` (a form's
value is none of the two markers of the readers).

`LedgerInv` joins four parts. `Lines`: every history of a table is linear and ids are
unique. `Lawful`: a thread holds the write lock exactly between its lock and its insert on
a locked table. `Found`: a thread about to insert holds the only head of its history. `Told`:
an answer given is true. `LinesGrow` shows that a row behind the predecessor leaves a line;
`OneThreadMoves`, that a step of one thread under the lock disturbs no other thread's part,
since tables only grow, and the locked ones only under the lock. `AnswerMoves` and `GotoMoves`
reduce every action to it. `PredecessorIsOne` makes the "refused" of an override always a
used key. That the readers agree follows because a row supersedes only rows of its own
history (`Superseded`).

### Imports (`HistoriesProofs.tla`)

Assumptions: `NamesAreDistinct` (a file is nobody's, left over, or one importer's),
`OutcomeIdsAreNumbers` (their order breaks ties), `HashNamesPolicy` (equal hashes, equal
policies) and `InputsAreLines`.

`ImportInv` adds three facts to the types and `ArtifactsKeptApart`, which is inductive with
them. Rows are only added: ids are keys, a source has one row of a policy, and every row was
labelled by a rule of some import's policy (`Labelled`). `Honest` says what an import has
counted is true of the lines behind it: what it did not reject is stored as the line says,
and the three counts add up to the entries it has read. `StoredAsReported` is `Honest` of an
import that is done; `HonestStep` shows the case of the import that reads, `OthersAreHonest`
that a row of one import leaves another's lines stored. `ReportCountsNewestLabels` needs
that `Newer` orders the rows of a decision and a policy totally (`NewerOrders`), so that the
two-stage ranking of the query picks the newest row (`LabelIsNewest`).

### Migration (`HistoriesProofs.tla`)

Assumptions: `ReleasesAreNumbers`, `OthersAreOthers`. `SchemaInv` says for every opener who
holds the lock (`Lawful`), that what it read without the lock is no newer than the file and,
once a transition has begun, is what the file is (`Remembers`), what the draft holds of the
file's rows at each step of the transition (`Drafts`), and how an open may end (`Ends`).
`OneOpenerMoves` carries the other openers over a step; a commit moves the file one release
on, which keeps their memories valid. The three properties follow.

### Scheduler (`EvaluationProofs.tla`)

Assumption: `ForeignIsNotOwned`. `PlistInv` adds to the types what a command's private name
holds at each of its steps (`PrivateName`): nothing, the file it wrote, or an entry it has
not looked at. A step may then drop only what it has compared with a file of Glassbox
(`CommandStepKeeps`), and an intruder touches only its own file.

### Counterfactual runs and the shadow executor (`ShadowProofs.tla`)

Assumptions: `SourcesAreNumbers`, `LiveSourcesAreSources`, `BudgetIsNatural`, `NoJobIsNoJob`.

`RunsInv` says for a run in any phase that what it has to do was disclosed, that the captured
inputs it can attach are no more than it disclosed, and that it has one case per decision, each with
a status that fits its failure and no label without an outcome that was stored (`CaseOK`).
Nothing is assumed about `Unfit`: the record is shown to accept every run whose cases can be
stored. The command and the worker take the same steps, so
the lemmas are about one runner, and `RunsKeepTheirWord` is proved of both specifications
(`CommandKeepsItsWord`, `WorkerKeepsItsWord`).

`ShadowInv` adds the executor. `HandleOK` is an equation: the submits of a handle are its
counts plus the callers still in a submit, the queued job and the active one, except that an
active job is already counted when the worker is about to report it finished; `pending` is
the queued and the active job alone. Every action moves one unit between two of these terms.
`ExecutorOK` says a queued job has a worker and the budget is not exceeded.
`ShadowKeepsBooks` follows, because a drained handle has nothing outstanding.

### Judge (`JudgeProofs.tla`)

Assumptions: `JudgedAreNumbers` (decisions are numbered by age, finitely many of them older
than the window), `NoneIsNoCommand`, `BoundsAreNatural`, `ScoresAreScores`.

`CalibrationMatchesHistory` is about a run at its end, so the invariant says what holds on
the way (`Stands`): outcomes are those of the first cases, each decision once; as long as
nobody disturbed the run, no stored result is newer than its start and the human scores it
selected are the current ones; after its decision, its pairs are those of the history without
the decisions it heard, together with its own. `RecordedPairs` then shows that recording makes
the history's pairs the run's: its results are the newest of their decisions, and those of
other decisions keep their newest.

### Views (`EvaluationProofs.tla`)

Assumptions: `FiledAreNumbers`, `ConfidencesAreTenths`, `NoParentIsNoSpan`, `PagesHaveRows`.

*Pages.* `ReaderOK` says that what a reader has seen is in the order of the queue, and that of
the decisions she began with, those she has not seen are below her cursor until the last
page. The predicate of a cursor is exactly "below" (`BeyondIsBelow`), the page is the first
rows of the rest (`PageIs`), so whatever is stored between two pages, nothing is passed over
(`TurnedIs`).

*Trees.* Parent ids come from anywhere. A walk of as many steps as there are spans repeats one
(pigeonhole), so a span that is on no cycle and misses no parent reaches a root in fewer steps
(`WalkEnds`); then as many levels of children below the roots contain every valid span
(`ValidAreReached`), and the others are listed apart.

### Drift reports (`EvaluationProofs.tla`)

Assumptions: `SamplesAreSamples`, `BoundsIncrease` (from 0 to 10 tenths), `MinimumIsPositive`,
`ThresholdsAreOrdered`, `KindsAreNumbers`,
`ValuesAreNumbers`, `SettingsAreNatural`.

Labels are distinct, in the order of count and name, with `other` last, because a ranking
visits each kind once and `other` is not one of those ranked (`KindLabelsAre`, `LabelsDiffer`);
the kinds under the labels, and the bins between increasing bounds, are a partition of the
window, so the counts of each histogram, and of the versions (`VersionCountsAre`), add up to
it. The values are natural numbers (`Measurable`), so their sum and the deviation
of two or more are as well (`TotalOfNaturals`, `DeviationIs`). These are the checks of
`_material_from_record` other than those of names (`MaterialReadsBack`), and its exceptions
are those of `BaselineReadsBack`: an empty name, or one value, which has no deviation.

`VerdictShowsWorstShift` compares two running sums with their definition. The invariant of the
path (`CusumOK`) is that after `k` values the upper sum is the greatest of zero and the rises of
the runs that end at `k`, the lower one the same of the falls, and the peak the greatest of all
runs so far. One more value lengthens every run by it and begins one (`RunsGrow`), which is what
a step of the sum does to the greatest (`TopGrows`, `CusumGoesOn`).

`DriftInv` keeps a report only as long as the window and the baseline it was made of.

### Compositions

`HistoriesAreIndependent` and `EvaluationsAreIndependent` show that a behaviour of a composed
specification is one of each part's; the steps of the command line's counterfactual runs keep
the invariant of the executor as well (`RunnersInvariant`). `HistoriesTypeCorrect`,
`EvaluationTypeCorrect` and `EvaluationKeepsItsPromises` follow from the parts' theorems.

### Data lemmas (`DataLemmas.tla`)

The library's induction theorems take an operator, which the provers here cannot instantiate.
The lemmas take a set instead, of the numbers, or the sets, for which something holds
(`NumbersInduct`, `IntervalInducts`, `SetsInduct`), proved from the well-foundedness of `<`.
A recursive function on an interval is shown to exist step by step (`PathExists`); that the
sum of a function can be taken in any order (`SumsInAnyOrder`) gives the arithmetic of
`SumFunction` which the books of the executor and the histograms need; `RankedIs` says that a
ranking lists every element of a finite set once, in order.

### Only model-checked

The liveness properties (`LossIsEventuallyMarked`, `ShutdownDrains`, `InvocationsEnd`,
`CapturedSpansSettle`, `CallsReturn`, and the fairness that `ImplementsChannel` asks of the
channel), which need ENABLED and fairness; and the five violation runs.

## Findings

Five statements of the documentation and its comments are refuted by the code; each has a run
with a counterexample and is quoted in `PROJECT.json`.

1. `collector_race`: the specification says a loss marks the trace partial unless its
   closing write has committed. The worker reads the partial flag before the write and
   forgets the trace after it, so a loss recorded in between is discarded.
2. `sdk_left_behind`: a comment in `SpanScope.__exit__` says each span appends itself after
   all its descendants. A child with captured content is appended by the capture thread; a
   root without content does not wait for it, emits the accumulator, and the child is lost
   without being counted.
3. `sdk_stop`: the specification says `shutdown` stops acceptance first. The code flushes
   first and leaves the collector open when the flush fails, with the executor closed, so
   that a retry must fail too.
4. `import_unlink`: a comment says the exclusive creation protects other callers' artifacts.
   The cleanup removes the temporary file by name after the name has been given up, and may
   take it from an import that has created it since.
5. `counterfactual_unfit`: the design says that cases persist independently and that a
   malformed snapshot records one failed result. The facts that make a snapshot malformed are
   serialized again for the record, which refuses them and with them the whole run.

## Not modelled, and why

* **No state, or nothing that meets another actor:** pages, exports, prompts, provider
  protocols, parsing of configurations and policies, event models, assertions and the
  runner, the content of the property list, `schedule status`, and the log rotation of the
  scheduler's runner. The session cookie and the form token are constants of a process.
* **Out of reach:** the population stability index and other floating point statistics;
  payload construction and URL checks, which are data.
* **Left out of the SDK model:** the evidence list of a decision scope (used by one task),
  the deferred closing event of a trace, `init` called while spans are open. A wall clock
  that is set back is not modelled anywhere: nothing says what it should do.

Limits of the code that no property states, or that a property names as its exception:

* `collector/writer.py:208`: decisions dropped by a full buffer are remembered too and push
  the decision of a queued evidence event out of the lookup cache. If its write fails, its
  trace stays unmarked; the loss is counted.
* `eval/discord.py:176`: the retry after a lost answer may post the alert twice within one
  attempt, below the unique index. `DuplicateNeedsLoss` has this as its exception.
* `store/repository.py:1099`: a feedback form posted twice at the same time is answered for
  the second time with a conflict, although the docstring promises the original row for an
  exact replay: the key is read before the lock is taken. `UsersAreToldTheTruth` therefore
  excepts refused feedback.
* `eval/judge.py:234`: the judge command selects its cases again after it has disclosed their
  number, so that a recent decision or score stored in between is judged unannounced.
* `eval/drift.py:853` and `:912`: a report refuses a stored baseline with an empty decision
  type among its labels or an empty agent version. Decisions and traces may have them, and
  neither `calculate_baseline`, `create_baseline` nor the repository refuses the baseline, so
  that every report fails until another one supersedes it. The same holds for a baseline of
  one value, which has no deviation, under a policy with a minimum of one
  (`eval/drift.py:251`). These are the three exceptions of `BaselineReadsBack`.
* `store/repository.py:2352`: a policy may set a warning threshold of zero; the results of a
  report under it are refused when they are stored.

## Plan

1. Done: `Collector`, `EventChannel`, `DiscordDelivery`, `SdkCapture`, `Ledger`,
   `OutcomeImport`, `SchemaMigration`, `Counterfactual`, `LiveShadow`, `JudgeRuns`,
   `DriftReport`, `ReadViews`, `SchedulerPlist` with their runs; theorems for every safety
   property the runs check, the safety part of the refinement of `EventChannel`, and the two
   compositions.
2. Left: `SdkCapture` with decision scopes, the deferred closing event of a trace and a second
   `init`, with the parts of `IInv` they need.
3. Left: of the Discord alerts, an abstract specification of one alert (recorded, attempted,
   delivered or given up) that `DiscordDelivery` implements.
