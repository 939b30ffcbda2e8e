----------------------------- MODULE SdkCapture -----------------------------
(***************************************************************************)
(* glassbox.sdk: span scopes, content capture on one background thread,    *)
(* and flush/shutdown.  A span is emitted when its scope exits: appended   *)
(* to the accumulator its root span shares with all its descendants, which *)
(* the root then offers to the collector in reverse.  When the span has    *)
(* content to capture, that happens on the capture executor, after its     *)
(* blob was written; otherwise at once, on the thread that leaves the      *)
(* scope.  One trace is active throughout.  The collector is the channel   *)
(* of EventChannel.tla: what matters here is whether it is still open.     *)
(***************************************************************************)
EXTENDS Naturals, Sequences

CONSTANTS
  Spans,      \* span scopes the program may enter
  Tasks,      \* asyncio tasks and threads that run in a copied context
  Main,       \* the task that exists at the start
  Executor,   \* the single thread of the capture executor
  NoSpan,     \* no current span, no parent
  MaxCalls    \* bound: calls of flush and shutdown

ASSUME ScopeAssumption ==
  /\ NoSpan \notin Spans
  /\ Main \in Tasks
  /\ Executor \notin Tasks
  /\ MaxCalls \in Nat

VARIABLES
  scope,      \* per span: where its scope is, its parent, accumulator and task
  current,    \* per task: the context variable current_span
  leaving,    \* per task: the span whose __exit__ it is in
  started,    \* the tasks that exist
  captured,   \* spans whose content was handed to the executor
  refused,    \* spans whose callback the executor refused
  invalid,    \* spans that redaction or validation rejected
  completed,  \* per root span: SpanState.completed_descendants
  todo,       \* per thread: what the emission loop of a root has left
  executor,   \* capture_executor: absent, open, or closed to submissions
  jobs,       \* its queue
  written,    \* spans whose blob job is over
  sink,       \* does the collector accept events?
  app,        \* the application's call of flush or shutdown
  exiting,    \* is the interpreter shutting down?
  offered,    \* history: spans passed to Collector.emit
  accepted,   \* history: those it did not refuse
  earlier,    \* history: per span, what was offered before it
  above,      \* history: per span, the spans that enclose it
  after,      \* history: per span, the spans that left their scope before it
  flushed     \* history: spans a successful flush vouches for

scopeVars == <<scope, current, leaving, started, above, after>>
captureVars == <<captured, refused, invalid, completed, executor, jobs, written>>
offerVars == <<todo, sink, offered, accepted, earlier>>
appVars == <<app, exiting, flushed>>
vars == <<scopeVars, captureVars, offerVars, appVars>>

Threads == Tasks \cup {Executor}
Job(do, s) == [do |-> do, span |-> s]
Barrier == Job("barrier", NoSpan)

Exited == {s \in Spans : scope[s].at = "exited"}
IsRoot(s) == scope[s].parent = NoSpan
In(s, q) == \E i \in 1..Len(q) : q[i] = s
Appended(s) == In(s, completed[scope[s].root])

Scopes == [at : {"new", "open", "leaving", "exited"},
           parent : Spans \cup {NoSpan}, root : Spans, task : Tasks]
Jobs == [do : {"put", "emit"}, span : Spans] \cup {Barrier}
Calls == [call : {"none", "flush", "shutdown"},
          at : {"idle", "barrier", "drain", "close", "stop"},
          covers : SUBSET Spans, result : BOOLEAN, calls : 0..MaxCalls]

TypeOK ==
  /\ scope \in [Spans -> Scopes]
  /\ current \in [Tasks -> Spans \cup {NoSpan}]
  /\ leaving \in [Tasks -> Spans \cup {NoSpan}]
  /\ started \subseteq Tasks
  /\ captured \subseteq Spans
  /\ refused \subseteq captured
  /\ invalid \subseteq Spans
  /\ completed \in [Spans -> Seq(Spans)]
  /\ todo \in [Threads -> Seq(Spans)]
  /\ executor \in {"absent", "open", "closed"}
  /\ jobs \in Seq(Jobs)
  /\ written \subseteq Spans
  /\ sink \in BOOLEAN
  /\ app \in Calls
  /\ exiting \in BOOLEAN
  /\ offered \subseteq Spans
  /\ accepted \subseteq offered
  /\ earlier \in [Spans -> SUBSET Spans]
  /\ above \in [Spans -> SUBSET Spans]
  /\ after \in [Spans -> SUBSET Spans]
  /\ flushed \subseteq Spans

\* init(): a capture executor exists only with a blob store.
Init ==
  /\ scope = [s \in Spans |-> [at |-> "new", parent |-> NoSpan, root |-> s, task |-> Main]]
  /\ current = [t \in Tasks |-> NoSpan]
  /\ leaving = [t \in Tasks |-> NoSpan]
  /\ started = {Main}
  /\ captured = {} /\ refused = {} /\ invalid = {}
  /\ completed = [s \in Spans |-> <<>>]
  /\ todo = [x \in Threads |-> <<>>]
  /\ executor \in {"absent", "open"}
  /\ jobs = <<>>
  /\ written = {}
  /\ sink = TRUE
  /\ app = [call |-> "none", at |-> "idle", covers |-> {}, result |-> TRUE, calls |-> 0]
  /\ exiting = FALSE
  /\ offered = {} /\ accepted = {}
  /\ earlier = [s \in Spans |-> {}]
  /\ above = [s \in Spans |-> {}]
  /\ after = [s \in Spans |-> {}]
  /\ flushed = {}

-----------------------------------------------------------------------------
(* Scopes, on the tasks of the program.                                    *)

Runs(t) == t \in started /\ leaving[t] = NoSpan /\ todo[t] = <<>>

\* A new task or thread starts in a copy of its creator's context.
Spawn(t, u) ==
  /\ Runs(t)
  /\ u \in Tasks \ started
  /\ started' = started \cup {u}
  /\ current' = [current EXCEPT ![u] = current[t]]
  /\ UNCHANGED <<scope, leaving, above, after, captureVars, offerVars, appVars>>

\* The parent is the current span, whose accumulator the new span shares.
Enter(t, s) ==
  LET p == current[t]
  IN /\ Runs(t)
     /\ scope[s].at = "new"
     /\ scope' = [scope EXCEPT ![s] =
                    [at |-> "open", parent |-> p, task |-> t,
                     root |-> IF p = NoSpan THEN s ELSE scope[p].root]]
     /\ above' = [above EXCEPT ![s] = IF p = NoSpan THEN {} ELSE above[p] \cup {p}]
     /\ current' = [current EXCEPT ![t] = s]
     /\ UNCHANGED <<leaving, started, after, captureVars, offerVars, appVars>>

\* __exit__ restores the context and hands the content, if there is any and the
\* executor takes it, to the executor.
Leave(t, s) ==
  /\ Runs(t)
  /\ current[t] = s /\ scope[s].at = "open" /\ scope[s].task = t
  /\ scope' = [scope EXCEPT ![s].at = "leaving"]
  /\ current' = [current EXCEPT ![t] = scope[s].parent]
  /\ leaving' = [leaving EXCEPT ![t] = s]
  /\ \/ UNCHANGED <<captured, jobs>>
     \/ /\ executor = "open"
        /\ captured' = captured \cup {s}
        /\ jobs' = Append(jobs, Job("put", s))
  /\ UNCHANGED <<started, above, after, refused, invalid, completed, executor, written,
                 offerVars, appVars>>

\* mutant: range(len - 1, 0, -1) misses the oldest entry.
ReversedOffByOne(q) == [i \in 1..Len(q) - 1 |-> q[Len(q) + 1 - i]]

\* mutant: the accumulator in the order it was filled.
NotReversed(q) == q

Reversed(q) == [i \in 1..Len(q) |-> q[Len(q) + 1 - i]]

\* mutant: every span, not only a root, emits the accumulator.
EmitWithEachSpan(x, s) ==
  LET r == scope[s].root
  IN /\ completed' = [completed EXCEPT ![r] = Append(@, s)]
     /\ todo' = [todo EXCEPT ![x] = Reversed(completed'[r])]

\* emit_span on thread x: append, and for a root start to emit the accumulator.
EmitSpan(x, s) ==
  LET r == scope[s].root
  IN /\ completed' = [completed EXCEPT ![r] = Append(@, s)]
     /\ todo' = IF IsRoot(s) THEN [todo EXCEPT ![x] = Reversed(completed'[r])] ELSE todo

\* The rest of __exit__ of a span without captured content: emit_span at once.
ExitInline(t, s) ==
  /\ leaving[t] = s /\ s \notin captured
  /\ EmitSpan(t, s)
  /\ UNCHANGED <<refused, invalid, jobs>>

\* __exit__ swallows what a redaction hook or the validation of the event raises.
ExitInvalid(t, s) ==
  /\ leaving[t] = s /\ s \notin captured
  /\ invalid' = invalid \cup {s}
  /\ UNCHANGED <<refused, jobs, completed, todo>>

\* mutant: defers every span, whether or not it has captured content.
DeferEverySpan(t, s) ==
  /\ leaving[t] = s
  /\ IF executor = "open"
     THEN jobs' = Append(jobs, Job("emit", s)) /\ UNCHANGED refused
     ELSE refused' = refused \cup {s} /\ UNCHANGED jobs
  /\ UNCHANGED <<invalid, completed, todo>>

\* With captured content: defer_capture, which drops the span with a warning
\* when the executor was closed in the meantime.
ExitDeferred(t, s) ==
  /\ leaving[t] = s /\ s \in captured
  /\ IF executor = "open"
     THEN jobs' = Append(jobs, Job("emit", s)) /\ UNCHANGED refused
     ELSE refused' = refused \cup {s} /\ UNCHANGED jobs
  /\ UNCHANGED <<invalid, completed, todo>>

Exit(t, s) ==
  /\ ExitInline(t, s) \/ ExitInvalid(t, s) \/ ExitDeferred(t, s)
  /\ scope' = [scope EXCEPT ![s].at = "exited"]
  /\ leaving' = [leaving EXCEPT ![t] = NoSpan]
  /\ after' = [after EXCEPT ![s] = Exited]
  /\ UNCHANGED <<current, started, above, captured, executor, written,
                 sink, offered, accepted, earlier, appVars>>

\* One round of the loop over reversed(completed_descendants).
Offer(x) ==
  /\ todo[x] # <<>>
  /\ LET s == Head(todo[x])
     IN /\ offered' = offered \cup {s}
        /\ accepted' = IF sink THEN accepted \cup {s} ELSE accepted
        /\ earlier' = [earlier EXCEPT ![s] = offered]
  /\ todo' = [todo EXCEPT ![x] = Tail(@)]
  /\ UNCHANGED <<scopeVars, captureVars, sink, appVars>>

-----------------------------------------------------------------------------
(* The capture executor: one thread, first in first out.                   *)

\* mutant: the callback waits for every blob, also for those queued behind it.
AfterAllBlobs(job) == job.do = "emit" => captured \subseteq written

\* The callback waits for the blob job of its span, on this same thread.
MayRun(job) == job.do = "emit" => job.span \in written

RunJob ==
  /\ jobs # <<>> /\ todo[Executor] = <<>>
  /\ MayRun(Head(jobs))
  /\ jobs' = Tail(jobs)
  /\ LET job == Head(jobs)
     IN \/ /\ job.do = "put"
           /\ written' = written \cup {job.span}
           /\ UNCHANGED <<invalid, completed, todo>>
        \/ /\ job.do = "emit"
           /\ EmitSpan(Executor, job.span)
           /\ UNCHANGED <<invalid, written>>
        \/ /\ job.do = "emit"
           /\ invalid' = invalid \cup {job.span}
           /\ UNCHANGED <<completed, todo, written>>
        \/ /\ job.do = "barrier"
           /\ UNCHANGED <<invalid, completed, todo, written>>
  /\ UNCHANGED <<scopeVars, captured, refused, executor, sink, offered, accepted, earlier, appVars>>

-----------------------------------------------------------------------------
(* flush, shutdown and the end of the interpreter.                         *)

\* Spans whose __exit__ has returned on the thread that left them.
Returned == {s \in Exited : todo[scope[s].task] = <<>>}

Returns(result) == [app EXCEPT !.at = "idle", !.result = result]
FlushEnds(ok) ==
  /\ app' = IF app.call = "flush" THEN Returns(ok) ELSE [app EXCEPT !.at = "close", !.result = ok]
  /\ flushed' = IF ok /\ sink THEN flushed \cup app.covers ELSE flushed

\* flush submits a job of its own to wait behind the queued ones; a closed
\* executor refuses it, which counts as a failed flush.
Call(call) ==
  /\ app.at = "idle" /\ app.calls < MaxCalls
  /\ app' = [call |-> call, covers |-> Returned, calls |-> app.calls + 1,
             at |-> CASE executor = "absent" -> "drain"
                      [] executor = "open"   -> "barrier"
                      [] executor = "closed" -> IF call = "flush" THEN "idle" ELSE "close",
             result |-> executor # "closed"]
  /\ jobs' = IF executor = "open" THEN Append(jobs, Barrier) ELSE jobs
  /\ UNCHANGED <<scopeVars, captured, refused, invalid, completed, executor, written, offerVars, exiting, flushed>>

\* mutant: flush does not wait for the capture thread.
BarrierIgnored == app.at = "barrier"

\* Only the caller submits barriers, so its own is over when none is queued.
BarrierPassed == app.at = "barrier" /\ ~In(Barrier, jobs)

FlushWaits ==
  /\ BarrierPassed
  /\ app' = [app EXCEPT !.at = "drain"]
  /\ UNCHANGED <<scopeVars, captureVars, offerVars, exiting, flushed>>

FlushTimesOut ==
  /\ app.at = "barrier"
  /\ FlushEnds(FALSE)
  /\ UNCHANGED <<scopeVars, captureVars, offerVars, exiting>>

\* Collector.flush, which may time out.
Drained(ok) ==
  /\ app.at = "drain"
  /\ FlushEnds(ok)
  /\ UNCHANGED <<scopeVars, captureVars, offerVars, exiting>>

\* shutdown closes the executor in any case, the collector only after a
\* successful flush.
CloseExecutor ==
  /\ app.at = "close"
  /\ executor' = IF executor = "open" THEN "closed" ELSE executor
  /\ app' = IF app.result THEN [app EXCEPT !.at = "stop"] ELSE Returns(FALSE)
  /\ UNCHANGED <<scopeVars, captured, refused, invalid, completed, jobs, written, offerVars, exiting, flushed>>

\* Collector.shutdown stops admission first and may then time out.
StopCollector(ok) ==
  /\ app.at = "stop"
  /\ sink' = FALSE
  /\ app' = Returns(ok)
  /\ UNCHANGED <<scopeVars, captureVars, todo, offered, accepted, earlier, exiting, flushed>>

\* At interpreter exit the executor takes no more work, before any handler
\* registered with atexit runs; queued jobs are still run.
InterpreterExits ==
  /\ ~exiting /\ app.at = "idle"
  /\ exiting' = TRUE
  /\ executor' = IF executor = "open" THEN "closed" ELSE executor
  /\ UNCHANGED <<scopeVars, captured, refused, invalid, completed, jobs, written, offerVars, app, flushed>>

\* From then on only the handler calls shutdown, when the executor is done.
MayCall(call) == exiting => call = "shutdown" /\ jobs = <<>> /\ todo[Executor] = <<>>

-----------------------------------------------------------------------------

AppReturns ==
  \/ FlushWaits
  \/ \E ok \in BOOLEAN : Drained(ok)
  \/ CloseExecutor
  \/ \E ok \in BOOLEAN : StopCollector(ok)

Finished ==
  /\ \A s \in Spans : scope[s].at \in {"new", "exited"}
  /\ jobs = <<>> /\ \A x \in Threads : todo[x] = <<>>
  /\ app.at = "idle"
  /\ UNCHANGED vars

Next ==
  \/ \E t \in Tasks : \/ \E u \in Tasks : Spawn(t, u)
                      \/ \E s \in Spans : Enter(t, s) \/ Leave(t, s) \/ Exit(t, s)
  \/ \E x \in Threads : Offer(x)
  \/ RunJob
  \/ \E call \in {"flush", "shutdown"} : MayCall(call) /\ Call(call)
  \/ FlushTimesOut
  \/ AppReturns
  \/ InterpreterExits
  \/ Finished

\* The executor's thread always runs; a thread inside __exit__ is never made to
\* wait; each wait of flush and shutdown ends with the work it waits for.
Fairness ==
  /\ WF_vars(RunJob)
  /\ \A x \in Threads : WF_vars(Offer(x))
  /\ \A t \in Tasks : WF_vars(\E s \in Spans : Exit(t, s))
  /\ WF_vars(AppReturns)

Spec == Init /\ [][Next]_vars /\ Fairness

=============================================================================
