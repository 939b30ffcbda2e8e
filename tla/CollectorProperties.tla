------------------------ MODULE CollectorProperties ------------------------
(***************************************************************************)
(* What the collector must guarantee, stated over Collector.tla.           *)
(***************************************************************************)
EXTENDS Collector

\* The event the worker holds and has not settled yet, followed by the queue.
Unsettled ==
  (IF worker.at \in {"prepare", "write"} THEN <<worker.event>> ELSE <<>>) \o queue

Outcome(e) ==
  IF fate[e] \in {"dropping", "dropped"} THEN "dropped"
  ELSE IF fate[e] \in {"failing", "failed"} THEN "failed"
  ELSE IF fate[e] \in {"queued", "taken"} THEN "pending" ELSE fate[e]

Channel == INSTANCE EventChannel WITH
  Room    <- Capacity + 1,
  open    <- accepting,
  pending <- Unsettled,
  outcome <- [e \in Events |-> Outcome(e)],
  stopped <- worker.at = "exited"

\* The collector implements the bounded lossy FIFO channel: what emit accepted
\* is settled exactly once and in order, whatever the store does (writer.py
\* Collector.emit, _run, _write).
ImplementsChannel == Channel!Spec

\* The part of it without fairness.
ChannelSafety == Channel!Init /\ [][Channel!Next]_(Channel!channelVars)

\* No event is lost without a trace in the counters: the two loss counters are
\* the events lost, drops are charged to their trace, and Queue.unfinished_tasks
\* is what the worker still owes a flush (writer.py _record_loss, buffer.py
\* task_done).
WithFate(f) == {e \in Events : fate[e] = f}
Accounting ==
  /\ droppedEvents = Cardinality(WithFate("dropped"))
  /\ failedEvents = Cardinality(WithFate("failed"))
  /\ unfinished = Len(queue) + IF worker.at \in {"idle", "exited"} THEN 0 ELSE 1
  /\ \A t \in Traces :
       droppedByTrace[t] >= Cardinality({e \in WithFate("dropped") :
                                           TraceOf[e] = t /\ KindOf[e] # "evidence"})

\* An exited worker leaves nothing behind, and shutdown reports success only
\* when every accepted event was settled (writer.py _run's exit test against
\* emit's admission, both under the lifecycle lock).
DrainedBeforeExit ==
  /\ worker.at = "exited" =>
       /\ ~accepting
       /\ queue = <<>>
       /\ \A e \in Events : fate[e] \notin {"queued", "taken", "failing"}
  /\ shutdownPc = "true" => worker.at = "exited"

\* A trace whose loss was recorded before the worker prepared its closing write
\* is closed as partial, never as a complete record (writer.py _partial_event,
\* repository.py _write_trace, which overwrites the status).
EarlyLossClosesPartial ==
  \A t \in ended : lossAt[t] = "early" => row[t] = "partial"

\* A trace is shown as partial only if it did lose telemetry (writer.py
\* _mark_pending_partials).
PartialOnlyAfterLoss ==
  \A t \in Traces : row[t] = "partial" => lossAt[t] # "none"

\* What the collector remembers as marked is marked in the store, so that no
\* update it skips is one it owes (writer.py _mark_pending_partials).
MarkedRowsArePartial ==
  \A t \in marked : row[t] = "partial"

\* Both at once: what the store shows as partial, and what the collector skips
\* because it is, is so for a loss of that trace.
PartialMeansLoss == PartialOnlyAfterLoss /\ MarkedRowsArePartial

\* A trace once stored as partial never turns into a complete one again, even
\* though its closing write overwrites the status (repository.py _write_trace).
PartialIsSticky ==
  [][\A t \in Traces : row[t] = "partial" => row'[t] = "partial"]_vars

\* A loss noted for an open, stored trace reaches the store as soon as the
\* worker handles another event whose trace it knows, unless updates fail
\* (writer.py _write calls _mark_pending_partials after each of them).
LossIsEventuallyMarked ==
  \A t \in Traces :
    (/\ t \in partial \cap persisted
     /\ \E i \in 1..Len(queue) : KindOf[queue[i]] # "evidence")
    ~> (row[t] = "partial" \/ t \in closed)

\* After shutdown stopped admission the worker drains the queue and exits, and
\* the shutdown call returns (writer.py shutdown, _run).
ShutdownDrains ==
  /\ shutdownPc = "flush" ~> shutdownPc \in {"true", "false"}
  /\ ~accepting ~> worker.at = "exited"

-----------------------------------------------------------------------------
(* A claim of the documentation that the code does not meet.               *)

\* docs/spec: on a full queue the collector "marks the trace partial unless the
\* trace's closing write has already committed".
LossBeforeCloseMarksPartial ==
  \A t \in ended \cap closed : lossAt[t] # "none" => row[t] = "partial"

=============================================================================
