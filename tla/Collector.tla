----------------------------- MODULE Collector -----------------------------
(***************************************************************************)
(* glassbox.collector: agent threads admit telemetry events into a bounded *)
(* FIFO buffer without ever waiting, one daemon worker persists them.      *)
(* Each action is one section of code that runs under the collector's      *)
(* lock, one queue operation, or one repository transaction; what happens  *)
(* between two of them is an interleaving.                                 *)
(***************************************************************************)
EXTENDS Naturals, Sequences, FiniteSets

CONSTANTS
  Emitters,     \* agent threads that call emit
  Traces,       \* trace identifiers
  Events,       \* the events the program may emit, each at most once
  NoTrace,      \* the None that _trace_id returns
  NoEvent,      \* no event in hand
  KindOf,       \* the class of each event
  TraceOf,      \* the trace each event belongs to
  DecisionOf,   \* the decision an evidence event cites
  Capacity,     \* capacity of the buffer and of the decision lookup cache
  Faults        \* the repository calls that may raise

Kinds == {"start", "end", "span", "decision", "evidence"}

ASSUME CapacityAssumption == Capacity \in Nat \ {0}
ASSUME FaultAssumption == Faults \subseteq {"write", "mark"}
ASSUME EventAssumption ==
  /\ IsFiniteSet(Events)
  /\ NoEvent \notin Events
  /\ NoTrace \notin Traces
  /\ KindOf \in [Events -> Kinds]
  /\ TraceOf \in [Events -> Traces]
  /\ DecisionOf \in [Events -> Events]
  /\ \A e \in Events : TraceOf[DecisionOf[e]] = TraceOf[e]

\* _TraceScope emits one opening and one closing event per trace identifier.
ASSUME TraceScopeAssumption ==
  \A e, f \in Events :
    KindOf[e] = KindOf[f] /\ KindOf[e] \in {"start", "end"} /\ TraceOf[e] = TraceOf[f] => e = f

VARIABLES
  accepting,      \* Collector._accepting
  queue,          \* EventBuffer._queue
  unfinished,     \* Queue.unfinished_tasks
  lru,            \* Collector._decision_traces, least recent first
  persisted,      \* Collector._persisted_traces
  closed,         \* Collector._closed_traces
  partial,        \* Collector._partial_traces
  marked,         \* Collector._marked_partial_traces
  droppedEvents,  \* Collector._dropped_events
  droppedByTrace, \* Collector._dropped_by_trace
  failedEvents,   \* Collector._failed_events
  call,           \* per agent thread: where it is inside emit, with which event
  worker,         \* where the worker is, its locals, the snapshot it iterates over
  shutdownPc,     \* where the thread that shuts the collector down is
  row,            \* traces.status per trace, "absent" without a row
  ended,          \* traces whose row has ended_at
  decisionRows,   \* decisions that have a row
  fate,           \* history: what became of each event
  lossAt          \* history: when the first loss of a trace was recorded

storeVars == <<row, ended, decisionRows>>
vars == <<accepting, queue, unfinished, lru, persisted, closed, partial, marked,
          droppedEvents, droppedByTrace, failedEvents, call, worker, shutdownPc,
          storeVars, fate, lossAt>>

\* Who writes what: the state emit leaves alone, and the state the worker does.
notEmits == <<accepting, persisted, closed, marked, failedEvents, worker, shutdownPc, storeVars>>
notWorkers == <<accepting, lru, droppedEvents, droppedByTrace, call, shutdownPc>>

Idle == [at |-> "idle", event |-> NoEvent, trace |-> NoTrace]
Resting == [at |-> "idle", event |-> NoEvent, trace |-> NoTrace,
            partial |-> FALSE, toMark |-> {}]

Calls == [at : {"idle", "lookup", "record"},
          event : Events \cup {NoEvent}, trace : Traces \cup {NoTrace}]
Workers == [at : {"idle", "prepare", "write", "lookup", "record", "close", "snapshot",
                  "mark", "done", "exited"},
            event : Events \cup {NoEvent}, trace : Traces \cup {NoTrace},
            partial : BOOLEAN, toMark : SUBSET Traces]
Fates == {"none", "refused", "dropping", "dropped",
          "queued", "taken", "written", "failing", "failed"}

TypeOK ==
  /\ accepting \in BOOLEAN
  /\ queue \in Seq(Events) /\ Len(queue) <= Capacity
  /\ unfinished \in Nat
  /\ lru \in Seq(Events) /\ Len(lru) <= Capacity
  /\ persisted \subseteq Traces
  /\ closed \subseteq Traces
  /\ partial \subseteq Traces
  /\ marked \subseteq Traces
  /\ droppedEvents \in Nat
  /\ droppedByTrace \in [Traces -> Nat]
  /\ failedEvents \in Nat
  /\ call \in [Emitters -> Calls]
  /\ worker \in Workers
  /\ shutdownPc \in {"none", "flush", "join", "true", "false"}
  /\ row \in [Traces -> {"absent", "ok", "partial"}]
  /\ ended \subseteq Traces
  /\ decisionRows \subseteq Events
  /\ fate \in [Events -> Fates]
  /\ lossAt \in [Traces -> {"none", "early", "racing"}]

Init ==
  /\ accepting = TRUE
  /\ queue = <<>>
  /\ unfinished = 0
  /\ lru = <<>>
  /\ persisted = {} /\ closed = {} /\ partial = {} /\ marked = {}
  /\ droppedEvents = 0
  /\ droppedByTrace = [t \in Traces |-> 0]
  /\ failedEvents = 0
  /\ call = [p \in Emitters |-> Idle]
  /\ worker = Resting
  /\ shutdownPc = "none"
  /\ row = [t \in Traces |-> "absent"]
  /\ ended = {}
  /\ decisionRows = {}
  /\ fate = [e \in Events |-> "none"]
  /\ lossAt = [t \in Traces |-> "none"]

-----------------------------------------------------------------------------
(* Helpers shared by the agent threads and the worker.                     *)

IsTraceEvent(e) == KindOf[e] \in {"start", "end"}

\* put_nowait finds a free slot.
HasRoomOffByOne == Len(queue) <= Capacity  \* mutant: one slot too many
HasRoom == Len(queue) < Capacity

\* _remember_trace: the decision becomes the most recent entry, then popitem
\* of the oldest.  It is never there already: its identifier is fresh.
RememberAll(e) == IF KindOf[e] = "decision" THEN Append(lru, e) ELSE lru  \* mutant: no popitem
Remember(e) ==
  IF KindOf[e] # "decision" THEN lru
  ELSE IF Len(lru) < Capacity THEN Append(lru, e) ELSE Append(Tail(lru), e)

\* _trace_id: an evidence event only carries its decision, whose trace is
\* known while the decision is still in the lookup cache.
TraceId(e) ==
  IF KindOf[e] # "evidence" \/ \E i \in 1..Len(lru) : lru[i] = DecisionOf[e]
  THEN TraceOf[e] ELSE NoTrace

\* _record_loss: the traces known to be partial once t, if known, lost an event.
PartialIfStored(t) == partial \cup ({t} \cap persisted)  \* mutant: skips unstored traces
PartialAfterLoss(t) == IF t = NoTrace \/ t \in closed THEN partial ELSE partial \cup {t}

\* _record_loss, last section.  The history tells a loss recorded while the
\* closing write of t was already under way.
NoteLoss(t) ==
  /\ partial' = PartialAfterLoss(t)
  /\ lossAt' = IF t = NoTrace \/ t \in ended \/ lossAt[t] # "none" THEN lossAt
               ELSE [lossAt EXCEPT ![t] =
                       IF /\ worker.at = "write"
                          /\ KindOf[worker.event] = "end" /\ TraceOf[worker.event] = t
                       THEN "racing" ELSE "early"]

\* _partial_event: is e persisted with its status replaced by partial?
ShownUnlessMarked(e) ==  \* mutant: trusts an earlier update of the row
  IsTraceEvent(e) /\ TraceOf[e] \in partial \ marked
ShownPartial(e) == IsTraceEvent(e) /\ TraceOf[e] \in partial

\* _mark_pending_partials: the traces to update.
AllPersisted == persisted \ (closed \cup marked)    \* mutant: not only the partial ones
PendingPartials == (partial \cap persisted) \ (closed \cup marked)

\* Foreign keys: spans and decisions need the row of their trace, evidence the
\* row of its decision.  (A span whose parent span was lost fails as well; the
\* "write" fault stands for that.)
ReferencesExist(e) ==
  /\ KindOf[e] \in {"span", "decision"} => row[TraceOf[e]] # "absent"
  /\ KindOf[e] = "evidence" => DecisionOf[e] \in decisionRows

\* The SDK emits the opening event of a trace before anything else of that
\* trace and a decision before its evidence, each call after the other one
\* returned; everything else is up to the agent's threads and tasks.
ReadyToEmit(e) ==
  LET Returned(d) == fate[d] \notin {"none", "dropping"} IN
  /\ fate[e] = "none"
  /\ \A s \in Events \ {e} : KindOf[s] = "start" /\ TraceOf[s] = TraceOf[e] => Returned(s)
  /\ KindOf[e] = "evidence" => Returned(DecisionOf[e])

-----------------------------------------------------------------------------
(* Agent threads: Collector.emit                                           *)

\* After shutdown: return False under the lock.
Refuse(p, e) ==
  /\ call[p].at = "idle" /\ ReadyToEmit(e)
  /\ ~accepting
  /\ fate' = [fate EXCEPT ![e] = "refused"]
  /\ UNCHANGED <<notEmits, queue, unfinished, lru, partial, droppedEvents, droppedByTrace,
                 call, lossAt>>

\* With room: remember the trace and enqueue under one lock.
Admit(p, e) ==
  /\ call[p].at = "idle" /\ ReadyToEmit(e)
  /\ accepting
  /\ HasRoom
  /\ lru' = Remember(e)
  /\ queue' = Append(queue, e)
  /\ unfinished' = unfinished + 1
  /\ fate' = [fate EXCEPT ![e] = "queued"]
  /\ UNCHANGED <<notEmits, partial, droppedEvents, droppedByTrace, call, lossAt>>

\* On a full buffer put_nowait fails; the lock is released before the loss is
\* recorded.  Only the trace of an evidence event takes a lookup.
Overflow(p, e) ==
  /\ call[p].at = "idle" /\ ReadyToEmit(e)
  /\ accepting
  /\ ~HasRoom
  /\ lru' = Remember(e)
  /\ call' = [call EXCEPT ![p] = IF KindOf[e] = "evidence"
                                 THEN [at |-> "lookup", event |-> e, trace |-> NoTrace]
                                 ELSE [at |-> "record", event |-> e, trace |-> TraceOf[e]]]
  /\ fate' = [fate EXCEPT ![e] = "dropping"]
  /\ UNCHANGED <<notEmits, queue, unfinished, partial, droppedEvents, droppedByTrace, lossAt>>

LookupDropped(p) ==
  /\ call[p].at = "lookup"
  /\ call' = [call EXCEPT ![p] = [at |-> "record", event |-> @.event, trace |-> TraceId(@.event)]]
  /\ UNCHANGED <<notEmits, queue, unfinished, lru, partial, droppedEvents, droppedByTrace,
                 fate, lossAt>>

\* The loss is counted and noted, and emit returns False.
RecordDropped(p) ==
  /\ call[p].at = "record"
  /\ droppedEvents' = droppedEvents + 1
  /\ droppedByTrace' = [t \in Traces |-> droppedByTrace[t] + IF t = call[p].trace THEN 1 ELSE 0]
  /\ NoteLoss(call[p].trace)
  /\ fate' = [fate EXCEPT ![call[p].event] = "dropped"]
  /\ call' = [call EXCEPT ![p] = Idle]
  /\ UNCHANGED <<notEmits, queue, unfinished, lru>>

-----------------------------------------------------------------------------
(* The worker: Collector._run and Collector._write                         *)

Take ==
  /\ worker.at = "idle"
  /\ queue # <<>>
  /\ worker' = [worker EXCEPT !.at = "prepare", !.event = Head(queue)]
  /\ queue' = Tail(queue)
  /\ fate' = [fate EXCEPT ![Head(queue)] = "taken"]
  /\ UNCHANGED <<notWorkers, unfinished, persisted, closed, partial, marked, failedEvents,
                 storeVars, lossAt>>

\* _trace_id and _partial_event: no event makes both of them take the lock.
Prepare ==
  /\ worker.at = "prepare"
  /\ worker' = [worker EXCEPT
       !.at = "write",
       !.trace = TraceId(worker.event),
       !.partial = ShownPartial(worker.event)]
  /\ UNCHANGED <<notWorkers, queue, unfinished, persisted, closed, partial, marked,
                 failedEvents, storeVars, fate, lossAt>>

\* Where _write goes on after a successful write.
MarkAfterTraceOnly(e) ==  \* mutant: partial traces are updated after trace events only
  IF IsTraceEvent(e) THEN "close" ELSE "done"
AfterWrite(e) ==
  IF IsTraceEvent(e) THEN "close" ELSE IF worker.trace # NoTrace THEN "snapshot" ELSE "done"

\* _write_trace inserts the row of the trace or updates it, status included.
RowAfterWrite(e) ==
  IF IsTraceEvent(e)
  THEN [row EXCEPT ![TraceOf[e]] = IF worker.partial THEN "partial" ELSE "ok"]
  ELSE row

\* Repository.write_event commits.
WriteSucceeds ==
  LET e == worker.event IN
  /\ worker.at = "write"
  /\ ReferencesExist(e)
  /\ row' = RowAfterWrite(e)
  /\ ended' = ended \cup {t \in Traces : KindOf[e] = "end" /\ t = TraceOf[e]}
  /\ decisionRows' = decisionRows \cup {d \in {e} : KindOf[d] = "decision"}
  /\ worker' = [worker EXCEPT !.at = AfterWrite(e)]
  /\ fate' = [fate EXCEPT ![e] = "written"]
  /\ UNCHANGED <<notWorkers, queue, unfinished, persisted, closed, partial, marked,
                 failedEvents, lossAt>>

\* Repository.write_event raises, because of a missing reference or a fault;
\* its transaction is rolled back.
WriteFails ==
  /\ worker.at = "write"
  /\ ~ReferencesExist(worker.event) \/ "write" \in Faults
  /\ worker' = [worker EXCEPT
       !.at = IF KindOf[worker.event] = "evidence" THEN "lookup" ELSE "record"]
  /\ fate' = [fate EXCEPT ![worker.event] = "failing"]
  /\ UNCHANGED <<notWorkers, queue, unfinished, persisted, closed, partial, marked,
                 failedEvents, storeVars, lossAt>>

LookupFailed ==
  /\ worker.at = "lookup"
  /\ worker' = [worker EXCEPT !.at = "record", !.trace = TraceId(worker.event)]
  /\ UNCHANGED <<notWorkers, queue, unfinished, persisted, closed, partial, marked,
                 failedEvents, storeVars, fate, lossAt>>

RecordFailed ==
  /\ worker.at = "record"
  /\ failedEvents' = failedEvents + 1
  /\ NoteLoss(worker.trace)
  /\ fate' = [fate EXCEPT ![worker.event] = "failed"]
  /\ worker' = [worker EXCEPT !.at = "snapshot"]
  /\ UNCHANGED <<notWorkers, queue, unfinished, persisted, closed, marked, storeVars>>

\* The bookkeeping of a written trace event, in a lock section of its own.
CloseTrace ==
  LET t == TraceOf[worker.event]
      gone == IF KindOf[worker.event] = "end" THEN {t} ELSE {}
  IN
  /\ worker.at = "close"
  /\ persisted' = persisted \cup {t}
  /\ closed' = closed \cup gone
  /\ partial' = partial \ gone
  /\ marked' = marked \ gone
  /\ worker' = [worker EXCEPT !.at = "snapshot"]
  /\ UNCHANGED <<notWorkers, queue, unfinished, failedEvents, storeVars, fate, lossAt>>

\* _mark_pending_partials: the snapshot under the lock ...
SnapshotPartials ==
  /\ worker.at = "snapshot"
  /\ worker' = [worker EXCEPT !.at = "mark", !.toMark = PendingPartials]
  /\ UNCHANGED <<notWorkers, queue, unfinished, persisted, closed, partial, marked,
                 failedEvents, storeVars, fate, lossAt>>

\* ... and one iteration: the row is updated, then the trace is remembered.
MarkOne(t) ==
  /\ worker.at = "mark" /\ t \in worker.toMark
  /\ row' = [row EXCEPT ![t] = IF @ = "absent" THEN "absent" ELSE "partial"]
  /\ marked' = marked \cup {t}
  /\ worker' = [worker EXCEPT !.toMark = @ \ {t}]
  /\ UNCHANGED <<notWorkers, queue, unfinished, persisted, closed, partial, failedEvents,
                 ended, decisionRows, fate, lossAt>>

\* mark_trace_partial raises: warn and go on with the next trace.
MarkFails(t) ==
  /\ worker.at = "mark" /\ t \in worker.toMark
  /\ "mark" \in Faults
  /\ worker' = [worker EXCEPT !.toMark = @ \ {t}]
  /\ UNCHANGED <<notWorkers, queue, unfinished, persisted, closed, partial, marked,
                 failedEvents, storeVars, fate, lossAt>>

\* Queue.task_done.
TasksUnlessFailed ==  \* mutant: not in a finally block
  IF fate[worker.event] = "failed" THEN unfinished ELSE unfinished - 1
TasksLeft == unfinished - 1

TaskDone ==
  /\ worker.at = "done" \/ (worker.at = "mark" /\ worker.toMark = {})
  /\ unfinished' = TasksLeft
  /\ worker' = Resting
  /\ UNCHANGED <<notWorkers, queue, persisted, closed, partial, marked, failedEvents,
                 storeVars, fate, lossAt>>

\* The poll timed out and, under the lock, admission is over and the buffer
\* still empty.
ExitWhenClosed == ~accepting                     \* mutant: does not look at the buffer
ExitWithBacklog == ~accepting /\ queue # <<>>    \* mutant: inverted emptiness test
MayExit == ~accepting /\ queue = <<>>

WorkerExits ==
  /\ worker.at = "idle"
  /\ MayExit
  /\ worker' = [worker EXCEPT !.at = "exited"]
  /\ UNCHANGED <<notWorkers, queue, unfinished, persisted, closed, partial, marked,
                 failedEvents, storeVars, fate, lossAt>>

-----------------------------------------------------------------------------
(* Collector.shutdown; a call that timed out may be repeated.              *)

notShutdowns == <<queue, unfinished, lru, persisted, closed, partial, marked, droppedEvents,
                  droppedByTrace, failedEvents, call, worker, storeVars, fate, lossAt>>

ShutdownBegins ==
  /\ shutdownPc \in {"none", "false"}
  /\ accepting' = FALSE
  /\ shutdownPc' = "flush"
  /\ UNCHANGED notShutdowns

ShutdownFlushed ==
  /\ shutdownPc = "flush"
  /\ unfinished = 0
  /\ shutdownPc' = "join"
  /\ UNCHANGED <<notShutdowns, accepting>>

ShutdownTimesOut ==
  /\ \/ shutdownPc = "flush" /\ unfinished # 0
     \/ shutdownPc = "join" /\ worker.at # "exited"
  /\ shutdownPc' = "false"
  /\ UNCHANGED <<notShutdowns, accepting>>

ShutdownJoined ==
  /\ shutdownPc = "join"
  /\ worker.at = "exited"
  /\ shutdownPc' = "true"
  /\ UNCHANGED <<notShutdowns, accepting>>

-----------------------------------------------------------------------------

Return(p) == LookupDropped(p) \/ RecordDropped(p)

Emit(p) ==
  \/ \E e \in Events : Refuse(p, e) \/ Admit(p, e) \/ Overflow(p, e)
  \/ Return(p)

Worker ==
  \/ Take \/ Prepare \/ WriteSucceeds \/ WriteFails
  \/ LookupFailed \/ RecordFailed \/ CloseTrace \/ SnapshotPartials
  \/ \E t \in Traces : MarkOne(t) \/ MarkFails(t)
  \/ TaskDone \/ WorkerExits

AwaitShutdown == ShutdownFlushed \/ ShutdownTimesOut \/ ShutdownJoined

\* Every event was emitted and the collector is shut down.
Finished ==
  /\ shutdownPc = "true"
  /\ \A e \in Events : fate[e] \notin {"none", "dropping"}
  /\ UNCHANGED vars

Next == (\E p \in Emitters : Emit(p)) \/ Worker \/ ShutdownBegins \/ AwaitShutdown \/ Finished

\* The worker runs as long as it has something to do and a thread inside emit
\* or shutdown returns from it.  Nothing makes the agent emit, and nothing
\* makes the application shut the collector down.
Fairness ==
  /\ WF_vars(Worker)
  /\ \A p \in Emitters : WF_vars(Return(p))
  /\ WF_vars(AwaitShutdown)

Spec == Init /\ [][Next]_vars /\ Fairness

=============================================================================
