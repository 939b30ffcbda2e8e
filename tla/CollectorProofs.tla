-------------------------- MODULE CollectorProofs --------------------------
(***************************************************************************)
(* Theorems about the collector for every set of threads, traces and       *)
(* events, every capacity and every repository fault.                      *)
(***************************************************************************)
EXTENDS CollectorProperties, FiniteSetTheorems, TLAPS

Busy == worker.at \notin {"idle", "exited"}

\* A thread that is inside emit, and a worker that handles an event, hold one;
\* the worker owes one completion for it and one per queued event.
InHand ==
  /\ \A p \in Emitters : call[p].at # "idle" => call[p].event \in Events
  /\ Busy => worker.event \in Events
  /\ unfinished = Len(queue) + IF Busy THEN 1 ELSE 0

TypeInv == TypeOK /\ InHand

LEMMA NoteLossType ==
  ASSUME TypeOK, NEW t \in Traces \cup {NoTrace}, NoteLoss(t)
  PROVE  /\ partial' \subseteq Traces
         /\ lossAt' \in [Traces -> {"none", "early", "racing"}]
BY EventAssumption DEF TypeOK, NoteLoss, PartialAfterLoss

LEMMA RememberType ==
  ASSUME TypeOK, NEW e \in Events
  PROVE  Remember(e) \in Seq(Events) /\ Len(Remember(e)) <= Capacity
<1>1. CASE KindOf[e] # "decision" BY <1>1 DEF TypeOK, Remember
<1>2. CASE KindOf[e] = "decision" /\ Len(lru) < Capacity
  BY <1>2, CapacityAssumption DEF TypeOK, Remember
<1>3. CASE KindOf[e] = "decision" /\ ~(Len(lru) < Capacity)
  <2>1. lru # <<>> BY <1>3, CapacityAssumption DEF TypeOK
  <2>2. Tail(lru) \in Seq(Events) /\ Len(Tail(lru)) = Len(lru) - 1 BY <2>1 DEF TypeOK
  <2>3. Remember(e) = Append(Tail(lru), e) BY <1>3 DEF Remember
  <2> QED BY <2>1, <2>2, <2>3, CapacityAssumption DEF TypeOK
<1> QED BY <1>1, <1>2, <1>3

LEMMA TraceIdType ==
  ASSUME NEW e \in Events
  PROVE  TraceId(e) \in Traces \cup {NoTrace}
BY EventAssumption DEF TraceId

LEMMA TypeInvInit == Init => TypeInv
BY CapacityAssumption
   DEF Init, TypeInv, TypeOK, InHand, Busy, Idle, Resting, Calls, Workers, Fates

LEMMA TypeInvStep == TypeInv /\ [Next]_vars => TypeInv'
<1> SUFFICES ASSUME TypeInv, [Next]_vars PROVE TypeInv'
  OBVIOUS
<1> USE EventAssumption, CapacityAssumption DEF TypeInv, TypeOK, InHand, Busy, storeVars
<1>1. ASSUME NEW p \in Emitters, NEW e \in Events, Refuse(p, e) PROVE TypeInv'
  BY <1>1 DEF Refuse, notEmits, Fates
<1>2. ASSUME NEW p \in Emitters, NEW e \in Events, Admit(p, e) PROVE TypeInv'
  <2>1. queue' \in Seq(Events) /\ Len(queue') = Len(queue) + 1 /\ Len(queue') <= Capacity
    BY <1>2 DEF Admit, HasRoom
  <2>2. lru' \in Seq(Events) /\ Len(lru') <= Capacity
    BY <1>2, RememberType DEF Admit
  <2>3. fate' \in [Events -> Fates]
    BY <1>2 DEF Admit, Fates
  <2> QED BY <1>2, <2>1, <2>2, <2>3 DEF Admit, notEmits
<1>3. ASSUME NEW p \in Emitters, NEW e \in Events, Overflow(p, e) PROVE TypeInv'
  <2>1. lru' \in Seq(Events) /\ Len(lru') <= Capacity
    BY <1>3, RememberType DEF Overflow
  <2>2. call' \in [Emitters -> Calls] /\ \A q \in Emitters : call'[q].at # "idle" => call'[q].event \in Events
    BY <1>3 DEF Overflow, Calls
  <2>3. fate' \in [Events -> Fates]
    BY <1>3 DEF Overflow, Fates
  <2> QED BY <1>3, <2>1, <2>2, <2>3 DEF Overflow, notEmits
<1>4. ASSUME NEW p \in Emitters, LookupDropped(p) PROVE TypeInv'
  <2>1. call[p].event \in Events /\ TraceId(call[p].event) \in Traces \cup {NoTrace}
    BY <1>4, TraceIdType DEF LookupDropped
  <2>2. call' \in [Emitters -> Calls] /\ \A q \in Emitters : call'[q].at # "idle" => call'[q].event \in Events
    BY <1>4, <2>1 DEF LookupDropped, Calls
  <2> QED BY <1>4, <2>2 DEF LookupDropped, notEmits
<1>5. ASSUME NEW p \in Emitters, RecordDropped(p) PROVE TypeInv'
  <2>1. call[p].trace \in Traces \cup {NoTrace}
    BY <1>5 DEF RecordDropped, Calls
  <2>2. partial' \subseteq Traces /\ lossAt' \in [Traces -> {"none", "early", "racing"}]
    BY <1>5, <2>1, NoteLossType DEF RecordDropped
  <2>3. call' \in [Emitters -> Calls] /\ \A q \in Emitters : call'[q].at # "idle" => call'[q].event \in Events
    BY <1>5 DEF RecordDropped, Idle, Calls
  <2>4. fate' \in [Events -> Fates]
    BY <1>5 DEF RecordDropped, Fates
  <2> QED BY <1>5, <2>2, <2>3, <2>4 DEF RecordDropped, notEmits
<1>6. CASE Take
  <2>1. Head(queue) \in Events /\ Tail(queue) \in Seq(Events)
        /\ Len(Tail(queue)) = Len(queue) - 1
    BY <1>6 DEF Take
  <2>2. worker' \in Workers /\ worker'.event \in Events /\ worker'.at = "prepare"
    BY <1>6, <2>1 DEF Take, Workers
  <2>3. fate' \in [Events -> Fates]
    BY <1>6, <2>1 DEF Take, Fates
  <2> QED BY <1>6, <2>1, <2>2, <2>3 DEF Take, notWorkers
<1>7. CASE Prepare
  <2>1. worker' \in Workers /\ worker'.event = worker.event /\ worker'.at = "write"
    BY <1>7, TraceIdType DEF Prepare, ShownPartial, IsTraceEvent, Workers
  <2> QED BY <1>7, <2>1 DEF Prepare, notWorkers
<1>8. CASE WriteSucceeds
  <2>1. worker' \in Workers /\ worker'.event = worker.event
        /\ worker'.at \in {"close", "snapshot", "done"}
    BY <1>8 DEF WriteSucceeds, AfterWrite, Workers
  <2>2. fate' \in [Events -> Fates]
    BY <1>8 DEF WriteSucceeds, Fates
  <2>3. row' \in [Traces -> {"absent", "ok", "partial"}]
    BY <1>8 DEF WriteSucceeds, RowAfterWrite
  <2> QED BY <1>8, <2>1, <2>2, <2>3 DEF WriteSucceeds, notWorkers
<1>9. CASE WriteFails
  <2>1. worker' \in Workers /\ worker'.event = worker.event
        /\ worker'.at \in {"lookup", "record"}
    BY <1>9 DEF WriteFails, Workers
  <2>2. fate' \in [Events -> Fates]
    BY <1>9 DEF WriteFails, Fates
  <2> QED BY <1>9, <2>1, <2>2 DEF WriteFails, notWorkers
<1>10. CASE LookupFailed
  <2>1. worker' \in Workers /\ worker'.event = worker.event /\ worker'.at = "record"
    BY <1>10, TraceIdType DEF LookupFailed, Workers
  <2> QED BY <1>10, <2>1 DEF LookupFailed, notWorkers
<1>11. CASE RecordFailed
  <2>1. partial' \subseteq Traces /\ lossAt' \in [Traces -> {"none", "early", "racing"}]
    BY <1>11, NoteLossType DEF RecordFailed, Workers
  <2>2. worker' \in Workers /\ worker'.event = worker.event /\ worker'.at = "snapshot"
    BY <1>11 DEF RecordFailed, Workers
  <2>3. fate' \in [Events -> Fates]
    BY <1>11 DEF RecordFailed, Fates
  <2> QED BY <1>11, <2>1, <2>2, <2>3 DEF RecordFailed, notWorkers
<1>12. CASE CloseTrace
  <2>1. TraceOf[worker.event] \in Traces
    BY <1>12 DEF CloseTrace
  <2>2. persisted' \subseteq Traces /\ closed' \subseteq Traces /\ partial' \subseteq Traces
        /\ marked' \subseteq Traces
    BY <1>12, <2>1 DEF CloseTrace
  <2>3. worker' \in Workers /\ worker'.event = worker.event /\ worker'.at = "snapshot"
    BY <1>12 DEF CloseTrace, Workers
  <2> QED BY <1>12, <2>2, <2>3 DEF CloseTrace, notWorkers
<1>13. CASE SnapshotPartials
  <2>1. worker' \in Workers /\ worker'.event = worker.event /\ worker'.at = "mark"
    BY <1>13 DEF SnapshotPartials, Workers, PendingPartials
  <2> QED BY <1>13, <2>1 DEF SnapshotPartials, notWorkers
<1>14. ASSUME NEW t \in Traces, MarkOne(t) PROVE TypeInv'
  <2>1. worker' \in Workers /\ worker'.event = worker.event /\ worker'.at = "mark"
    BY <1>14 DEF MarkOne, Workers
  <2> QED BY <1>14, <2>1 DEF MarkOne, notWorkers
<1>15. ASSUME NEW t \in Traces, MarkFails(t) PROVE TypeInv'
  <2>1. worker' \in Workers /\ worker'.event = worker.event /\ worker'.at = "mark"
    BY <1>15 DEF MarkFails, Workers
  <2> QED BY <1>15, <2>1 DEF MarkFails, notWorkers
<1>16. CASE TaskDone
  BY <1>16 DEF TaskDone, notWorkers, TasksLeft, Resting, Workers
<1>17. CASE WorkerExits
  <2>1. worker' \in Workers /\ worker'.at = "exited"
    BY <1>17 DEF WorkerExits, Workers
  <2> QED BY <1>17, <2>1 DEF WorkerExits, notWorkers
<1>18. CASE ShutdownBegins \/ AwaitShutdown
  BY <1>18 DEF ShutdownBegins, AwaitShutdown, ShutdownFlushed, ShutdownTimesOut,
               ShutdownJoined, notShutdowns
<1>19. CASE UNCHANGED vars
  BY <1>19 DEF vars
<1> QED
  BY <1>1, <1>2, <1>3, <1>4, <1>5, <1>6, <1>7, <1>8, <1>9, <1>10, <1>11, <1>12, <1>13,
     <1>14, <1>15, <1>16, <1>17, <1>18, <1>19
     DEF Next, Emit, Return, Worker, Finished

\* Every variable of the collector keeps its type: the buffer and the lookup
\* cache in particular never outgrow the capacity (buffer.py, writer.py).
THEOREM TypeCorrect == Spec => []TypeOK
<1>1. TypeInv => TypeOK BY DEF TypeInv
<1> QED BY <1>1, TypeInvInit, TypeInvStep, PTL DEF Spec

-----------------------------------------------------------------------------
(* Where every event is.                                                   *)

\* The queue holds each queued event once.
QueueInv ==
  /\ \A e \in Events : fate[e] = "queued" <=> \E i \in 1..Len(queue) : queue[i] = e
  /\ \A i, j \in 1..Len(queue) : queue[i] = queue[j] => i = j

\* The worker holds the event taken last, until it is written or failed.
HandInv ==
  /\ \A e \in Events : fate[e] = "taken" <=> worker.at \in {"prepare", "write"} /\ worker.event = e
  /\ \A e \in Events : fate[e] = "failing" <=> worker.at \in {"lookup", "record"} /\ worker.event = e
  /\ worker.at = "close" => IsTraceEvent(worker.event) /\ fate[worker.event] = "written"

\* A thread inside emit is the only one that is dropping its event.
CallInv ==
  /\ \A p \in Emitters : call[p].at # "idle" => fate[call[p].event] = "dropping"
  /\ \A p, q \in Emitters :
        call[p].at # "idle" /\ call[q].at # "idle" /\ call[p].event = call[q].event => p = q

\* Once admission is over the queue only shrinks, and it is empty at the exit.
ExitInv ==
  /\ worker.at = "exited" => ~accepting /\ queue = <<>>
  /\ shutdownPc = "none" \/ ~accepting
  /\ shutdownPc = "true" => worker.at = "exited"

FateInv == QueueInv /\ HandInv /\ CallInv /\ ExitInv

LEMMA QueueAppended ==
  ASSUME TypeInv, NEW e \in Events, queue' = Append(queue, e)
  PROVE  /\ Len(queue') = Len(queue) + 1
         /\ queue'[Len(queue) + 1] = e
         /\ \A i \in 1..Len(queue) : queue'[i] = queue[i]
BY DEF TypeInv, TypeOK

LEMMA QueueShortened ==
  ASSUME TypeInv, queue # <<>>, queue' = Tail(queue)
  PROVE  /\ Head(queue) = queue[1] /\ Head(queue) \in Events
         /\ Len(queue) \in Nat \ {0} /\ Len(queue') = Len(queue) - 1
         /\ \A i \in 1..Len(queue') : queue'[i] = queue[i + 1]
BY DEF TypeInv, TypeOK

LEMMA TakenWasQueued ==
  ASSUME TypeInv, QueueInv, Take
  PROVE  Head(queue) \in Events /\ fate[Head(queue)] = "queued"
BY QueueShortened DEF Take, QueueInv

LEMMA FateInvInit == Init => FateInv
BY DEF Init, FateInv, QueueInv, HandInv, CallInv, ExitInv, Idle, Resting

LEMMA QueueInvStep == TypeInv /\ FateInv /\ [Next]_vars => QueueInv'
<1> SUFFICES ASSUME TypeInv, FateInv, [Next]_vars PROVE QueueInv'
  OBVIOUS
<1> QueueInv /\ queue \in Seq(Events) /\ fate \in [Events -> Fates]
  BY DEF FateInv, TypeInv, TypeOK
<1>1. ASSUME NEW p \in Emitters, NEW e \in Events, Admit(p, e) PROVE QueueInv'
  <2>1. /\ Len(queue') = Len(queue) + 1
        /\ queue'[Len(queue) + 1] = e
        /\ \A i \in 1..Len(queue) : queue'[i] = queue[i]
    BY <1>1, QueueAppended DEF Admit
  <2>2. fate[e] = "none" /\ fate' = [fate EXCEPT ![e] = "queued"]
    BY <1>1 DEF Admit, ReadyToEmit
  <2>3. \A i \in 1..Len(queue) : queue[i] # e /\ queue[i] \in Events
    BY <2>2 DEF QueueInv
  <2>4. \A i, j \in 1..Len(queue') : queue'[i] = queue'[j] => i = j
    BY <2>1, <2>3 DEF QueueInv
  <2>5. ASSUME NEW f \in Events
        PROVE  fate'[f] = "queued" <=> \E i \in 1..Len(queue') : queue'[i] = f
    <3>1. CASE f = e
      BY <3>1, <2>1, <2>2
    <3>2. CASE f # e
      BY <3>2, <2>1, <2>2 DEF QueueInv
    <3> QED BY <3>1, <3>2
  <2> QED BY <2>4, <2>5 DEF QueueInv
<1>2. CASE Take
  <2>1. /\ Head(queue) = queue[1] /\ Head(queue) \in Events
        /\ Len(queue) \in Nat \ {0} /\ Len(queue') = Len(queue) - 1
        /\ \A i \in 1..Len(queue') : queue'[i] = queue[i + 1]
    BY <1>2, QueueShortened DEF Take
  <2>2. fate' = [fate EXCEPT ![queue[1]] = "taken"]
    BY <1>2, <2>1 DEF Take
  <2>3. \A i, j \in 1..Len(queue') : queue'[i] = queue'[j] => i = j
    BY <2>1 DEF QueueInv
  <2>4. ASSUME NEW f \in Events
        PROVE  fate'[f] = "queued" <=> \E i \in 1..Len(queue') : queue'[i] = f
    <3>1. CASE f = queue[1]
      BY <3>1, <2>1, <2>2 DEF QueueInv
    <3>2. CASE f # queue[1]
      <4>1. fate'[f] = "queued" <=> \E i \in 1..Len(queue) : queue[i] = f
        BY <3>2, <2>1, <2>2 DEF QueueInv
      <4>2. ASSUME NEW i \in 1..Len(queue), queue[i] = f
            PROVE  i - 1 \in 1..Len(queue') /\ queue'[i - 1] = f
        BY <4>2, <3>2, <2>1
      <4>3. ASSUME NEW i \in 1..Len(queue'), queue'[i] = f
            PROVE  i + 1 \in 1..Len(queue) /\ queue[i + 1] = f
        BY <4>3, <2>1
      <4> QED BY <4>1, <4>2, <4>3
    <3> QED BY <3>1, <3>2
  <2> QED BY <2>3, <2>4 DEF QueueInv
<1>3. ASSUME queue' = queue, NEW e \in Events, NEW f \in Fates \ {"queued"},
             fate[e] # "queued", fate' = [fate EXCEPT ![e] = f]
      PROVE  QueueInv'
  BY <1>3 DEF QueueInv
<1>4. ASSUME queue' = queue, fate' = fate PROVE QueueInv'
  BY <1>4 DEF QueueInv
<1>5. ASSUME NEW p \in Emitters, NEW e \in Events, Refuse(p, e) \/ Overflow(p, e)
      PROVE  QueueInv'
  BY <1>5, <1>3 DEF Refuse, Overflow, ReadyToEmit, Fates
<1>6. ASSUME NEW p \in Emitters, RecordDropped(p) PROVE QueueInv'
  <2>1. call[p].event \in Events /\ fate[call[p].event] = "dropping"
    BY <1>6 DEF RecordDropped, TypeInv, InHand, FateInv, CallInv
  <2> QED BY <1>6, <2>1, <1>3 DEF RecordDropped, Fates
<1>7. CASE WriteSucceeds \/ WriteFails \/ RecordFailed
  <2>1. worker.event \in Events /\ fate[worker.event] \in {"taken", "failing"}
    BY <1>7 DEF WriteSucceeds, WriteFails, RecordFailed, TypeInv, InHand, Busy, FateInv, HandInv
  <2> QED BY <1>7, <2>1, <1>3 DEF WriteSucceeds, WriteFails, RecordFailed, Fates
<1> QED
  BY <1>1, <1>2, <1>4, <1>5, <1>6, <1>7
     DEF Next, Emit, Return, Worker, Finished, AwaitShutdown, LookupDropped, Prepare,
         LookupFailed, CloseTrace, SnapshotPartials, MarkOne, MarkFails, TaskDone, WorkerExits,
         ShutdownBegins, ShutdownFlushed, ShutdownTimesOut, ShutdownJoined, notShutdowns, vars

LEMMA HandInvStep == TypeInv /\ FateInv /\ [Next]_vars => HandInv'
<1> SUFFICES ASSUME TypeInv, FateInv, [Next]_vars PROVE HandInv'
  OBVIOUS
<1> HandInv /\ worker \in Workers /\ fate \in [Events -> Fates] /\ (Busy => worker.event \in Events)
  BY DEF FateInv, TypeInv, TypeOK, InHand
<1>1. CASE Take
  <2> DEFINE e == Head(queue)
  <2>1. e \in Events /\ fate[e] = "queued"
    BY <1>1, TakenWasQueued DEF FateInv
  <2>2. worker'.at = "prepare" /\ worker'.event = e
    BY <1>1 DEF Take, Workers
  <2>3. worker.at = "idle" /\ fate' = [fate EXCEPT ![e] = "taken"]
    BY <1>1 DEF Take
  <2> QED BY <2>1, <2>2, <2>3 DEF HandInv
<1>2. CASE Prepare
  <2>1. worker.at = "prepare" /\ worker'.at = "write" /\ worker'.event = worker.event /\ fate' = fate
    BY <1>2 DEF Prepare, Workers
  <2> QED BY <2>1 DEF HandInv
<1>3. CASE WriteSucceeds
  <2>1. /\ worker.at = "write" /\ worker'.at \in {"close", "snapshot", "done"}
        /\ worker'.at = "close" => IsTraceEvent(worker.event)
        /\ worker'.event = worker.event
        /\ fate' = [fate EXCEPT ![worker.event] = "written"]
    BY <1>3 DEF WriteSucceeds, AfterWrite, Workers
  <2>2. worker.event \in Events BY <2>1 DEF Busy
  <2> QED BY <2>1, <2>2 DEF HandInv, IsTraceEvent
<1>4. CASE WriteFails
  <2>1. /\ worker.at = "write" /\ worker'.at \in {"lookup", "record"}
        /\ worker'.event = worker.event
        /\ fate' = [fate EXCEPT ![worker.event] = "failing"]
    BY <1>4 DEF WriteFails, Workers
  <2>2. worker.event \in Events BY <2>1 DEF Busy
  <2> QED BY <2>1, <2>2 DEF HandInv
<1>5. CASE LookupFailed
  <2>1. worker.at = "lookup" /\ worker'.at = "record" /\ worker'.event = worker.event /\ fate' = fate
    BY <1>5 DEF LookupFailed, Workers
  <2> QED BY <2>1 DEF HandInv
<1>6. CASE RecordFailed
  <2>1. /\ worker.at = "record" /\ worker'.at = "snapshot" /\ worker'.event = worker.event
        /\ fate' = [fate EXCEPT ![worker.event] = "failed"]
    BY <1>6 DEF RecordFailed, Workers
  <2>2. worker.event \in Events BY <2>1 DEF Busy
  <2> QED BY <2>1, <2>2 DEF HandInv
<1>7. ASSUME fate' = fate, worker'.at \in {"idle", "exited", "snapshot", "mark", "done"},
             worker.at \in {"idle", "close", "snapshot", "mark", "done"}
      PROVE  HandInv'
  BY <1>7 DEF HandInv
<1>8. CASE CloseTrace \/ SnapshotPartials
           \/ (\E t \in Traces : MarkOne(t) \/ MarkFails(t)) \/ TaskDone \/ WorkerExits
  <2>1. CASE CloseTrace \/ SnapshotPartials \/ TaskDone \/ WorkerExits
    <3>1. CloseTrace => worker.at = "close" /\ worker'.at = "snapshot" /\ fate' = fate
      BY DEF CloseTrace, Workers
    <3>2. SnapshotPartials => worker.at = "snapshot" /\ worker'.at = "mark" /\ fate' = fate
      BY DEF SnapshotPartials, Workers
    <3>3. TaskDone => worker.at \in {"done", "mark"} /\ worker'.at = "idle" /\ fate' = fate
      BY DEF TaskDone, Resting
    <3>4. WorkerExits => worker.at = "idle" /\ worker'.at = "exited" /\ fate' = fate
      BY DEF WorkerExits, Workers
    <3> QED BY <2>1, <3>1, <3>2, <3>3, <3>4, <1>7
  <2>2. ASSUME NEW t \in Traces, MarkOne(t) \/ MarkFails(t) PROVE HandInv'
    <3>1. worker.at = "mark" /\ worker'.at = "mark" /\ fate' = fate
      BY <2>2 DEF MarkOne, MarkFails, Workers
    <3> QED BY <3>1, <1>7
  <2> QED BY <1>8, <2>1, <2>2
<1>9. ASSUME worker' = worker, fate' = fate PROVE HandInv'
  BY <1>9 DEF HandInv, IsTraceEvent
<1>10. ASSUME worker' = worker, NEW e \in Events, NEW f \in {"refused", "queued", "dropping", "dropped"},
              fate[e] \in {"none", "dropping"}, fate' = [fate EXCEPT ![e] = f]
       PROVE  HandInv'
  <2>1. worker.at \in {"prepare", "write", "lookup", "record", "close"} => worker.event # e
    BY <1>10 DEF HandInv, Busy
  <2>2. worker.at = "close" => worker.event \in Events
    BY DEF Busy
  <2> QED BY <1>10, <2>1, <2>2 DEF HandInv, IsTraceEvent
<1>11. ASSUME NEW p \in Emitters, NEW e \in Events, Refuse(p, e) \/ Admit(p, e) \/ Overflow(p, e)
       PROVE  HandInv'
  BY <1>11, <1>10 DEF Refuse, Admit, Overflow, ReadyToEmit, notEmits
<1>12. ASSUME NEW p \in Emitters, RecordDropped(p) PROVE HandInv'
  <2>1. call[p].event \in Events /\ fate[call[p].event] = "dropping"
    BY <1>12 DEF RecordDropped, TypeInv, InHand, FateInv, CallInv
  <2> QED BY <1>12, <2>1, <1>10 DEF RecordDropped, notEmits
<1> QED
  BY <1>1, <1>2, <1>3, <1>4, <1>5, <1>6, <1>8, <1>9, <1>11, <1>12
     DEF Next, Emit, Return, Worker, Finished, AwaitShutdown, LookupDropped, notEmits,
         ShutdownBegins, ShutdownFlushed, ShutdownTimesOut, ShutdownJoined, notShutdowns, vars

LEMMA CallInvStep == TypeInv /\ FateInv /\ [Next]_vars => CallInv'
<1> SUFFICES ASSUME TypeInv, FateInv, [Next]_vars PROVE CallInv'
  OBVIOUS
<1> /\ CallInv /\ call \in [Emitters -> Calls] /\ fate \in [Events -> Fates]
    /\ \A q \in Emitters : call[q].at # "idle" => call[q].event \in Events
  BY DEF FateInv, TypeInv, TypeOK, InHand
<1>1. ASSUME NEW p \in Emitters, NEW e \in Events, Overflow(p, e) PROVE CallInv'
  <2>1. \A q \in Emitters : call[q].at # "idle" => call[q].event # e
    BY <1>1 DEF Overflow, ReadyToEmit, CallInv
  <2>2. /\ call'[p].at # "idle" /\ call'[p].event = e /\ fate'[e] = "dropping"
        /\ \A q \in Emitters \ {p} : call'[q] = call[q]
        /\ \A f \in Events \ {e} : fate'[f] = fate[f]
    BY <1>1 DEF Overflow
  <2> QED BY <2>1, <2>2 DEF CallInv
<1>2. ASSUME NEW p \in Emitters, LookupDropped(p) PROVE CallInv'
  <2>1. /\ call[p].at # "idle" /\ call'[p].event = call[p].event
        /\ \A q \in Emitters \ {p} : call'[q] = call[q]
        /\ fate' = fate
    BY <1>2 DEF LookupDropped
  <2> QED BY <2>1 DEF CallInv
<1>3. ASSUME NEW p \in Emitters, RecordDropped(p) PROVE CallInv'
  <2> DEFINE e == call[p].event
  <2>1. /\ call[p].at # "idle" /\ e \in Events
        /\ call'[p].at = "idle"
        /\ \A q \in Emitters \ {p} : call'[q] = call[q]
        /\ \A f \in Events \ {e} : fate'[f] = fate[f]
    BY <1>3 DEF RecordDropped, Idle
  <2>2. \A q \in Emitters \ {p} : call[q].at # "idle" => call[q].event # e
    BY <2>1 DEF CallInv
  <2> QED BY <2>1, <2>2 DEF CallInv
<1>4. ASSUME call' = call, NEW e \in Events, NEW f \in Fates, fate[e] # "dropping",
             fate' = [fate EXCEPT ![e] = f]
      PROVE  CallInv'
  BY <1>4 DEF CallInv
<1>5. ASSUME call' = call, fate' = fate PROVE CallInv'
  BY <1>5 DEF CallInv
<1>6. ASSUME NEW p \in Emitters, NEW e \in Events, Refuse(p, e) \/ Admit(p, e) PROVE CallInv'
  BY <1>6, <1>4 DEF Refuse, Admit, ReadyToEmit, Fates
<1>7. CASE Take
  <2>1. Head(queue) \in Events /\ fate[Head(queue)] = "queued"
    BY <1>7, TakenWasQueued DEF FateInv
  <2> QED BY <1>7, <2>1, <1>4 DEF Take, notWorkers, Fates
<1>8. CASE WriteSucceeds \/ WriteFails \/ RecordFailed
  <2>1. worker.event \in Events /\ fate[worker.event] \in {"taken", "failing"}
    BY <1>8 DEF WriteSucceeds, WriteFails, RecordFailed, TypeInv, InHand, Busy, FateInv, HandInv
  <2> QED BY <1>8, <2>1, <1>4 DEF WriteSucceeds, WriteFails, RecordFailed, notWorkers, Fates
<1> QED
  BY <1>1, <1>2, <1>3, <1>5, <1>6, <1>7, <1>8
     DEF Next, Emit, Return, Worker, Finished, AwaitShutdown, Prepare, notWorkers,
         LookupFailed, CloseTrace, SnapshotPartials, MarkOne, MarkFails, TaskDone, WorkerExits,
         ShutdownBegins, ShutdownFlushed, ShutdownTimesOut, ShutdownJoined, notShutdowns, vars

LEMMA ExitInvStep == TypeInv /\ FateInv /\ [Next]_vars => ExitInv'
<1> SUFFICES ASSUME TypeInv, FateInv, [Next]_vars PROVE ExitInv'
  OBVIOUS
<1> ExitInv /\ worker \in Workers
  BY DEF FateInv, TypeInv, TypeOK
<1>1. ASSUME NEW p \in Emitters, Emit(p) PROVE ExitInv'
  BY <1>1 DEF ExitInv, Emit, Return, Refuse, Admit, Overflow, LookupDropped, RecordDropped, notEmits
<1>2. CASE WorkerExits
  BY <1>2 DEF ExitInv, WorkerExits, MayExit, notWorkers
<1>3. ASSUME worker.at # "exited", worker'.at # "exited", accepting' = accepting,
             shutdownPc' = shutdownPc
      PROVE  ExitInv'
  BY <1>3 DEF ExitInv
<1>4. CASE Take \/ Prepare \/ WriteSucceeds \/ WriteFails \/ LookupFailed \/ RecordFailed
  BY <1>4, <1>3 DEF Take, Prepare, WriteSucceeds, AfterWrite, WriteFails, LookupFailed,
                    RecordFailed, notWorkers, Workers
<1>5. CASE CloseTrace \/ SnapshotPartials
           \/ (\E t \in Traces : MarkOne(t) \/ MarkFails(t)) \/ TaskDone
  <2>1. CASE CloseTrace \/ SnapshotPartials \/ TaskDone
    <3>1. CloseTrace => worker.at = "close" /\ worker'.at = "snapshot"
      BY DEF CloseTrace, Workers
    <3>2. SnapshotPartials => worker.at = "snapshot" /\ worker'.at = "mark"
      BY DEF SnapshotPartials, Workers
    <3>3. TaskDone => worker.at \in {"done", "mark"} /\ worker'.at = "idle"
      BY DEF TaskDone, Resting
    <3>4. accepting' = accepting /\ shutdownPc' = shutdownPc
      BY <2>1 DEF CloseTrace, SnapshotPartials, TaskDone, notWorkers
    <3> QED BY <2>1, <3>1, <3>2, <3>3, <3>4, <1>3
  <2>2. ASSUME NEW t \in Traces, MarkOne(t) \/ MarkFails(t) PROVE ExitInv'
    <3>1. worker.at = "mark" /\ worker'.at = "mark"
      BY <2>2 DEF MarkOne, MarkFails, Workers
    <3> QED BY <2>2, <3>1, <1>3 DEF MarkOne, MarkFails, notWorkers
  <2> QED BY <1>5, <2>1, <2>2
<1>6. CASE ShutdownBegins \/ AwaitShutdown
  BY <1>6 DEF ExitInv, ShutdownBegins, AwaitShutdown, ShutdownFlushed, ShutdownTimesOut,
              ShutdownJoined, notShutdowns
<1>7. CASE UNCHANGED vars
  BY <1>7 DEF ExitInv, vars
<1> QED BY <1>1, <1>2, <1>4, <1>5, <1>6, <1>7 DEF Next, Worker, Finished

LEMMA FateInvStep == TypeInv /\ FateInv /\ [Next]_vars => FateInv'
BY QueueInvStep, HandInvStep, CallInvStep, ExitInvStep DEF FateInv

LEMMA DrainedFromInv == TypeInv /\ FateInv => DrainedBeforeExit
<1> SUFFICES ASSUME TypeInv, FateInv PROVE DrainedBeforeExit
  OBVIOUS
<1>1. ASSUME worker.at = "exited", NEW e \in Events
      PROVE  fate[e] \notin {"queued", "taken", "failing"}
  <2>1. queue = <<>> BY <1>1 DEF FateInv, ExitInv
  <2>2. fate[e] # "queued" BY <2>1 DEF FateInv, QueueInv
  <2> QED BY <1>1, <2>2 DEF FateInv, HandInv
<1> QED BY <1>1 DEF DrainedBeforeExit, FateInv, ExitInv

\* Whatever the number of threads, the capacity and the faults: when the worker
\* has exited every accepted event is settled, and shutdown returns True only
\* after that exit (writer.py _run, shutdown).
THEOREM DrainedBeforeExitHolds == Spec => []DrainedBeforeExit
BY TypeInvInit, TypeInvStep, FateInvInit, FateInvStep, DrainedFromInv, PTL DEF Spec

\* A written event stays written.
LEMMA WrittenStays ==
  ASSUME TypeInv, FateInv, [Next]_vars, NEW e \in Events, fate[e] = "written"
  PROVE  fate'[e] = "written"
<1> fate \in [Events -> Fates]
  BY DEF TypeInv, TypeOK
<1>1. ASSUME NEW f \in Events, fate[f] # "written", NEW g \in Fates,
             fate' = [fate EXCEPT ![f] = g]
      PROVE  fate'[e] = "written"
  BY <1>1
<1>2. ASSUME NEW p \in Emitters, NEW f \in Events, Refuse(p, f) \/ Admit(p, f) \/ Overflow(p, f)
      PROVE  fate'[e] = "written"
  BY <1>2, <1>1 DEF Refuse, Admit, Overflow, ReadyToEmit, Fates
<1>3. ASSUME NEW p \in Emitters, RecordDropped(p) PROVE fate'[e] = "written"
  <2>1. call[p].event \in Events /\ fate[call[p].event] = "dropping"
    BY <1>3 DEF RecordDropped, TypeInv, InHand, FateInv, CallInv
  <2> QED BY <1>3, <2>1, <1>1 DEF RecordDropped, Fates
<1>4. CASE Take
  <2>1. Head(queue) \in Events /\ fate[Head(queue)] = "queued"
    BY <1>4, TakenWasQueued DEF FateInv
  <2> QED BY <1>4, <2>1, <1>1 DEF Take, Fates
<1>5. CASE WriteSucceeds \/ WriteFails \/ RecordFailed
  <2>1. worker.event \in Events /\ fate[worker.event] \in {"taken", "failing"}
    BY <1>5 DEF WriteSucceeds, WriteFails, RecordFailed, TypeInv, InHand, Busy, FateInv, HandInv
  <2> QED BY <1>5, <2>1, <1>1 DEF WriteSucceeds, WriteFails, RecordFailed, Fates
<1> QED
  BY <1>2, <1>3, <1>4, <1>5
     DEF Next, Emit, Return, Worker, Finished, AwaitShutdown, LookupDropped, Prepare,
         LookupFailed, CloseTrace, SnapshotPartials, MarkOne, MarkFails, TaskDone, WorkerExits,
         ShutdownBegins, ShutdownFlushed, ShutdownTimesOut, ShutdownJoined, notShutdowns, vars

-----------------------------------------------------------------------------
(* In which order the events of a trace are written.                       *)

\* The closing event e of a trace is emitted after its opening event s was, and
\* the queue keeps that order.
Ordered(s, e) ==
  /\ fate[s] \in {"none", "dropping"} => fate[e] = "none"
  /\ fate[s] \in {"queued", "taken"} =>
       fate[e] \in {"none", "refused", "dropping", "dropped", "queued"}
  /\ \A i, j \in 1..Len(queue) : queue[i] = s /\ queue[j] = e => i < j

Brackets(s, e) == KindOf[s] = "start" /\ KindOf[e] = "end" /\ TraceOf[s] = TraceOf[e]

OrderInv == \A s, e \in Events : Brackets(s, e) => Ordered(s, e)

LEMMA OrderInvInit == Init => OrderInv
BY DEF Init, OrderInv, Ordered

LEMMA OrderInvStep == TypeInv /\ FateInv /\ OrderInv /\ [Next]_vars => OrderInv'
<1> SUFFICES ASSUME TypeInv, FateInv, OrderInv, [Next]_vars,
                    NEW s \in Events, NEW e \in Events, Brackets(s, e)
             PROVE  Ordered(s, e)'
  BY DEF OrderInv, Brackets
<1> /\ Ordered(s, e) /\ s # e
    /\ queue \in Seq(Events) /\ fate \in [Events -> Fates]
  BY DEF OrderInv, Brackets, TypeInv, TypeOK
<1>1. ASSUME ReadyToEmit(e) PROVE fate[s] \notin {"none", "dropping"} /\ fate[e] = "none"
  BY <1>1 DEF ReadyToEmit, Brackets
<1>2. ASSUME NEW p \in Emitters, NEW x \in Events, Admit(p, x) PROVE Ordered(s, e)'
  <2>1. /\ Len(queue') = Len(queue) + 1
        /\ queue'[Len(queue) + 1] = x
        /\ \A i \in 1..Len(queue) : queue'[i] = queue[i]
    BY <1>2, QueueAppended DEF Admit
  <2>2. fate[x] = "none" /\ fate' = [fate EXCEPT ![x] = "queued"] /\ ReadyToEmit(x)
    BY <1>2 DEF Admit, ReadyToEmit
  <2>3. CASE x = s
    <3>1. \A i \in 1..Len(queue') : queue'[i] # e
      BY <2>1, <2>2, <2>3 DEF Ordered, FateInv, QueueInv
    <3> QED BY <3>1, <2>2, <2>3 DEF Ordered
  <2>4. CASE x = e
    <3>1. \A i \in 1..Len(queue) : queue[i] # e
      BY <2>2, <2>4 DEF FateInv, QueueInv
    <3>2. \A i, j \in 1..Len(queue') : queue'[i] = s /\ queue'[j] = e => i < j
      BY <3>1, <2>1, <2>4
    <3> QED BY <3>2, <2>2, <2>4, <1>1 DEF Ordered
  <2>5. CASE x # s /\ x # e
    BY <2>1, <2>2, <2>5 DEF Ordered
  <2> QED BY <2>3, <2>4, <2>5
<1>3. CASE Take
  <2>1. /\ Head(queue) = queue[1] /\ Head(queue) \in Events
        /\ Len(queue) \in Nat \ {0} /\ Len(queue') = Len(queue) - 1
        /\ \A i \in 1..Len(queue') : queue'[i] = queue[i + 1]
    BY <1>3, QueueShortened DEF Take
  <2>2. fate' = [fate EXCEPT ![queue[1]] = "taken"] /\ worker.at = "idle"
    BY <1>3, <2>1 DEF Take
  <2>3. fate[s] # "taken"
    BY <2>2 DEF FateInv, HandInv
  <2>4. queue[1] = e => fate[s] # "queued"
    <3> SUFFICES ASSUME queue[1] = e, fate[s] = "queued" PROVE FALSE
      OBVIOUS
    <3>1. PICK i \in 1..Len(queue) : queue[i] = s
      BY DEF FateInv, QueueInv
    <3> QED BY <3>1, <2>1 DEF Ordered
  <2>5. \A i, j \in 1..Len(queue') : queue'[i] = s /\ queue'[j] = e => i < j
    <3> SUFFICES ASSUME NEW i \in 1..Len(queue'), NEW j \in 1..Len(queue'),
                        queue'[i] = s, queue'[j] = e
                 PROVE  i < j
      OBVIOUS
    <3>1. i + 1 \in 1..Len(queue) /\ j + 1 \in 1..Len(queue) /\ queue[i + 1] = s /\ queue[j + 1] = e
      BY <2>1
    <3> QED BY <3>1 DEF Ordered
  <2>6. fate[queue[1]] = "queued"
    BY <2>1 DEF FateInv, QueueInv
  <2>7. CASE queue[1] = s
    BY <2>1, <2>2, <2>5, <2>6, <2>7 DEF Ordered
  <2>8. CASE queue[1] = e
    BY <2>1, <2>2, <2>3, <2>4, <2>5, <2>6, <2>8 DEF Ordered
  <2>9. CASE queue[1] # s /\ queue[1] # e
    BY <2>1, <2>2, <2>5, <2>9 DEF Ordered
  <2> QED BY <2>7, <2>8, <2>9
<1>4. ASSUME queue' = queue, NEW x \in Events, NEW f \in {"refused", "dropping"},
             ReadyToEmit(x), fate' = [fate EXCEPT ![x] = f]
      PROVE  Ordered(s, e)'
  BY <1>4, <1>1 DEF Ordered, ReadyToEmit
<1>5. ASSUME queue' = queue, NEW x \in Events, fate[x] \in {"dropping", "taken", "failing"},
             NEW f \in {"dropped", "written", "failing", "failed"},
             fate[x] = "dropping" => f = "dropped",
             fate' = [fate EXCEPT ![x] = f]
      PROVE  Ordered(s, e)'
  BY <1>5 DEF Ordered
<1>6. ASSUME queue' = queue, fate' = fate PROVE Ordered(s, e)'
  BY <1>6 DEF Ordered
<1>7. ASSUME NEW p \in Emitters, NEW x \in Events, Refuse(p, x) \/ Overflow(p, x)
      PROVE  Ordered(s, e)'
  BY <1>7, <1>4 DEF Refuse, Overflow
<1>8. ASSUME NEW p \in Emitters, RecordDropped(p) PROVE Ordered(s, e)'
  <2>1. call[p].event \in Events /\ fate[call[p].event] = "dropping"
    BY <1>8 DEF RecordDropped, TypeInv, InHand, FateInv, CallInv
  <2> QED BY <1>8, <2>1, <1>5 DEF RecordDropped
<1>9. CASE WriteSucceeds \/ WriteFails \/ RecordFailed
  <2>1. worker.event \in Events /\ fate[worker.event] \in {"taken", "failing"}
    BY <1>9 DEF WriteSucceeds, WriteFails, RecordFailed, TypeInv, InHand, Busy, FateInv, HandInv
  <2> QED BY <1>9, <2>1, <1>5 DEF WriteSucceeds, WriteFails, RecordFailed
<1> QED
  BY <1>2, <1>3, <1>6, <1>7, <1>8, <1>9
     DEF Next, Emit, Return, Worker, Finished, AwaitShutdown, LookupDropped, Prepare, notEmits,
         LookupFailed, CloseTrace, SnapshotPartials, MarkOne, MarkFails, TaskDone, WorkerExits,
         ShutdownBegins, ShutdownFlushed, ShutdownTimesOut, ShutdownJoined, notShutdowns, vars

-----------------------------------------------------------------------------
(* What memory and store know about lost telemetry.                        *)

Closing(t) == KindOf[worker.event] = "end" /\ TraceOf[worker.event] = t

\* The worker's bookkeeping follows the store, one lock section behind.
StoreInv ==
  /\ \A t \in persisted : row[t] # "absent"
  /\ worker.at = "close" =>
       /\ row[TraceOf[worker.event]] # "absent"
       /\ KindOf[worker.event] = "end" => TraceOf[worker.event] \in ended
  /\ closed \subseteq ended
  /\ \A t \in ended :
       \E e \in Events : KindOf[e] = "end" /\ TraceOf[e] = t /\ fate[e] = "written"
  /\ \A t \in ended \ closed : worker.at = "close" /\ Closing(t)

\* Updates are made for open, stored, partial traces only.
MarkInv ==
  /\ partial \cap closed = {}
  /\ marked \subseteq partial
  /\ \A t \in marked : row[t] = "partial"
  /\ worker.toMark \subseteq (partial \cap persisted) \ ended
  /\ worker.toMark # {} => worker.at = "mark"

\* The status prepared for a trace event knows every loss but a racing one, and
\* never takes a partial status back.
ShownInv ==
  worker.at = "write" =>
    /\ worker.partial => IsTraceEvent(worker.event) /\ TraceOf[worker.event] \in partial
    /\ IsTraceEvent(worker.event) /\ row[TraceOf[worker.event]] = "partial" => worker.partial
    /\ \A t \in Traces : Closing(t) /\ lossAt[t] = "early" => worker.partial

\* Until a trace closes its losses are remembered; afterwards they are stored.
LossInv ==
  /\ \A t \in Traces : row[t] = "partial" => lossAt[t] # "none"
  /\ \A t \in Traces \ ended : row[t] = "partial" \/ lossAt[t] = "early" => t \in partial
  /\ \A t \in Traces \ ended : t \in partial => lossAt[t] # "none"
  /\ \A t \in ended : lossAt[t] = "early" => row[t] = "partial"

StatusInv == StoreInv /\ MarkInv /\ ShownInv /\ LossInv

IInv == TypeInv /\ FateInv /\ OrderInv /\ StatusInv

LEMMA StatusInvInit == Init => StatusInv
BY DEF Init, StatusInv, StoreInv, MarkInv, ShownInv, LossInv, Resting

\* A trace whose opening or closing event is in the worker's hand is not ended:
\* a trace has one closing event, and it comes after the opening one.
LEMMA HandledTraceIsOpen ==
  ASSUME IInv, worker.at \in {"prepare", "write"}, IsTraceEvent(worker.event)
  PROVE  TraceOf[worker.event] \in Traces \ ended
<1> DEFINE e == worker.event
<1>1. e \in Events /\ fate[e] = "taken"
  BY DEF IInv, TypeInv, InHand, Busy, FateInv, HandInv
<1>2. SUFFICES ASSUME TraceOf[e] \in ended PROVE FALSE
  BY <1>1, EventAssumption
<1>3. PICK f \in Events : KindOf[f] = "end" /\ TraceOf[f] = TraceOf[e] /\ fate[f] = "written"
  BY <1>2 DEF IInv, StatusInv, StoreInv
<1>4. CASE KindOf[e] = "end"
  BY <1>1, <1>3, <1>4, TraceScopeAssumption
<1>5. CASE KindOf[e] = "start"
  <2>1. Ordered(e, f) BY <1>1, <1>3, <1>5 DEF IInv, OrderInv, Brackets
  <2> QED BY <1>1, <1>3, <2>1 DEF Ordered
<1> QED BY <1>4, <1>5 DEF IsTraceEvent

\* Recording a loss, by an agent thread or by the worker itself.
LEMMA NoteLossKeeps ==
  ASSUME IInv, NEW t \in Traces \cup {NoTrace}, NoteLoss(t)
  PROVE  /\ partial \subseteq partial' /\ partial' \cap closed = {}
         /\ \A u \in Traces : lossAt[u] # "none" => lossAt'[u] = lossAt[u]
         /\ \A u \in ended : lossAt'[u] = lossAt[u]
         /\ \A u \in Traces \ ended : lossAt'[u] = "early" => u \in partial'
         /\ \A u \in Traces \ ended : u \in partial' => lossAt'[u] # "none"
         /\ \A u \in Traces : worker.at = "write" /\ Closing(u) /\ lossAt'[u] = "early"
                                => lossAt[u] = "early"
<1> /\ partial \cap closed = {} /\ closed \subseteq ended
    /\ lossAt \in [Traces -> {"none", "early", "racing"}] /\ LossInv
  BY DEF IInv, TypeInv, TypeOK, StatusInv, MarkInv, StoreInv
<1>1. CASE t = NoTrace
  BY <1>1 DEF NoteLoss, PartialAfterLoss, LossInv
<1>2. CASE t \in Traces /\ t \in closed
  BY <1>2, EventAssumption DEF NoteLoss, PartialAfterLoss, LossInv
<1>3. CASE t \in Traces /\ t \notin closed
  <2>1. partial' = partial \cup {t}
    BY <1>3, EventAssumption DEF NoteLoss, PartialAfterLoss
  <2>2. CASE t \in ended \/ lossAt[t] # "none"
    <3>1. lossAt' = lossAt
      BY <2>2, <1>3, EventAssumption DEF NoteLoss
    <3> QED BY <2>1, <2>2, <3>1, <1>3 DEF LossInv
  <2>3. CASE t \notin ended /\ lossAt[t] = "none"
    <3>1. /\ lossAt'[t] \in {"early", "racing"}
          /\ worker.at = "write" /\ Closing(t) => lossAt'[t] = "racing"
          /\ \A u \in Traces \ {t} : lossAt'[u] = lossAt[u]
      BY <2>3, <1>3, EventAssumption DEF NoteLoss, Closing
    <3>2. \A u \in Traces : worker.at = "write" /\ Closing(u) /\ lossAt'[u] = "early"
                              => lossAt[u] = "early"
      BY <3>1
    <3>3. \A u \in ended : lossAt'[u] = lossAt[u]
      BY <2>3, <3>1 DEF IInv, TypeInv, TypeOK
    <3>4. \A u \in Traces \ ended : lossAt'[u] = "early" => u \in partial'
      BY <2>1, <3>1 DEF LossInv
    <3>5. \A u \in Traces \ ended : u \in partial' => lossAt'[u] # "none"
      BY <2>1, <3>1 DEF LossInv
    <3> QED BY <2>1, <2>3, <3>1, <3>2, <3>3, <3>4, <3>5, <1>3
  <2> QED BY <2>2, <2>3
<1> QED BY <1>1, <1>2, <1>3

\* Steps that touch neither the store nor the worker's bookkeeping, taken while
\* the worker is not between a write and its bookkeeping.
LEMMA WorkerMoves ==
  ASSUME IInv, [Next]_vars,
         UNCHANGED <<persisted, closed, partial, marked, row, ended, lossAt>>,
         worker.at # "close", worker'.at \notin {"write", "close"},
         worker'.toMark \subseteq (partial \cap persisted) \ ended,
         worker'.toMark # {} => worker'.at = "mark"
  PROVE  StatusInv'
<1> StoreInv /\ MarkInv /\ LossInv /\ TypeInv /\ FateInv
  BY DEF IInv, StatusInv
<1>1. \A e \in Events : fate[e] = "written" => fate'[e] = "written"
  BY WrittenStays
<1>2. StoreInv' BY <1>1 DEF StoreInv
<1>3. MarkInv' BY DEF MarkInv
<1>4. ShownInv' BY DEF ShownInv
<1>5. LossInv' BY DEF LossInv
<1> QED BY <1>2, <1>3, <1>4, <1>5 DEF StatusInv

\* Steps of the agent threads and of the shutdown that record no loss.
LEMMA OthersMove ==
  ASSUME IInv, [Next]_vars,
         UNCHANGED <<persisted, closed, partial, marked, row, ended, lossAt, worker>>
  PROVE  StatusInv'
<1> StoreInv /\ MarkInv /\ LossInv /\ ShownInv /\ TypeInv /\ FateInv
  BY DEF IInv, StatusInv
<1>1. \A e \in Events : fate[e] = "written" => fate'[e] = "written"
  BY WrittenStays
<1>2. StoreInv' BY <1>1 DEF StoreInv, Closing
<1>3. MarkInv' BY DEF MarkInv
<1>4. ShownInv' BY DEF ShownInv, Closing, IsTraceEvent
<1>5. LossInv' BY DEF LossInv
<1> QED BY <1>2, <1>3, <1>4, <1>5 DEF StatusInv

LEMMA StatusInvRecordDropped ==
  ASSUME IInv, [Next]_vars, NEW p \in Emitters, RecordDropped(p)
  PROVE  StatusInv'
<1> StoreInv /\ MarkInv /\ LossInv /\ ShownInv /\ TypeInv /\ FateInv
  BY DEF IInv, StatusInv
<1>1. call[p].trace \in Traces \cup {NoTrace} /\ NoteLoss(call[p].trace)
  BY DEF RecordDropped, TypeInv, TypeOK, Calls
<1>2. UNCHANGED <<persisted, closed, marked, row, ended, worker>>
  BY DEF RecordDropped, notEmits, storeVars
<1>3. \A e \in Events : fate[e] = "written" => fate'[e] = "written"
  BY WrittenStays
<1>4. StoreInv' BY <1>2, <1>3 DEF StoreInv, Closing
<1>5. MarkInv' BY <1>1, <1>2, NoteLossKeeps DEF MarkInv
<1>6. ShownInv' BY <1>1, <1>2, NoteLossKeeps DEF ShownInv, Closing, IsTraceEvent
<1>7. LossInv'
  <2>1. \A t \in Traces : row'[t] = "partial" => lossAt'[t] # "none"
    BY <1>1, <1>2, NoteLossKeeps DEF LossInv
  <2>2. \A t \in Traces \ ended' : row'[t] = "partial" \/ lossAt'[t] = "early" => t \in partial'
    BY <1>1, <1>2, NoteLossKeeps DEF LossInv
  <2>3. \A t \in Traces \ ended' : t \in partial' => lossAt'[t] # "none"
    BY <1>1, <1>2, NoteLossKeeps DEF LossInv
  <2>4. \A t \in ended' : lossAt'[t] = "early" => row'[t] = "partial"
    BY <1>1, <1>2, NoteLossKeeps DEF LossInv
  <2> QED BY <2>1, <2>2, <2>3, <2>4 DEF LossInv
<1> QED BY <1>4, <1>5, <1>6, <1>7 DEF StatusInv

LEMMA StatusInvRecordFailed ==
  ASSUME IInv, [Next]_vars, RecordFailed
  PROVE  StatusInv'
<1> StoreInv /\ MarkInv /\ LossInv /\ ShownInv /\ TypeInv /\ FateInv
  BY DEF IInv, StatusInv
<1>1. worker.trace \in Traces \cup {NoTrace} /\ NoteLoss(worker.trace)
  BY DEF RecordFailed, TypeInv, TypeOK, Workers
<1>2. UNCHANGED <<persisted, closed, marked, row, ended>>
  BY DEF RecordFailed, notEmits, storeVars
<1>3. worker.at = "record" /\ worker'.at = "snapshot" /\ worker'.toMark = worker.toMark
  BY DEF RecordFailed, TypeInv, TypeOK, Workers
<1>4. \A e \in Events : fate[e] = "written" => fate'[e] = "written"
  BY WrittenStays
<1>5. StoreInv' BY <1>2, <1>3, <1>4 DEF StoreInv
<1>6. MarkInv' BY <1>1, <1>2, <1>3, NoteLossKeeps DEF MarkInv
<1>7. ShownInv' BY <1>3 DEF ShownInv
<1>8. LossInv'
  <2>1. \A t \in Traces : row'[t] = "partial" => lossAt'[t] # "none"
    BY <1>1, <1>2, NoteLossKeeps DEF LossInv
  <2>2. \A t \in Traces \ ended' : row'[t] = "partial" \/ lossAt'[t] = "early" => t \in partial'
    BY <1>1, <1>2, NoteLossKeeps DEF LossInv
  <2>3. \A t \in Traces \ ended' : t \in partial' => lossAt'[t] # "none"
    BY <1>1, <1>2, NoteLossKeeps DEF LossInv
  <2>4. \A t \in ended' : lossAt'[t] = "early" => row'[t] = "partial"
    BY <1>1, <1>2, NoteLossKeeps DEF LossInv
  <2> QED BY <2>1, <2>2, <2>3, <2>4 DEF LossInv
<1> QED BY <1>5, <1>6, <1>7, <1>8 DEF StatusInv

LEMMA StatusInvPrepare ==
  ASSUME IInv, [Next]_vars, Prepare
  PROVE  StatusInv'
<1> StoreInv /\ MarkInv /\ LossInv /\ ShownInv /\ TypeInv /\ FateInv
  BY DEF IInv, StatusInv
<1>1. UNCHANGED <<persisted, closed, partial, marked, row, ended, lossAt, fate>>
  BY DEF Prepare, storeVars
<1>2. /\ worker.at = "prepare" /\ worker'.at = "write"
      /\ worker'.event = worker.event /\ worker'.toMark = worker.toMark
      /\ worker'.partial = ShownPartial(worker.event)
  BY DEF Prepare, TypeInv, TypeOK, Workers
<1>3. IsTraceEvent(worker.event) => TraceOf[worker.event] \in Traces \ ended
  BY <1>2, HandledTraceIsOpen
<1>4. StoreInv' BY <1>1, <1>2 DEF StoreInv
<1>5. MarkInv' BY <1>1, <1>2 DEF MarkInv
<1>6. ShownInv'
  <2>1. worker'.partial => IsTraceEvent(worker.event) /\ TraceOf[worker.event] \in partial
    BY <1>2 DEF ShownPartial
  <2>2. IsTraceEvent(worker.event) /\ row[TraceOf[worker.event]] = "partial" => worker'.partial
    BY <1>2, <1>3 DEF ShownPartial, LossInv
  <2>3. \A t \in Traces : Closing(t) /\ lossAt[t] = "early" => worker'.partial
    BY <1>2, <1>3 DEF ShownPartial, LossInv, Closing, IsTraceEvent
  <2> QED BY <1>1, <1>2, <2>1, <2>2, <2>3 DEF ShownInv, Closing, IsTraceEvent
<1>7. LossInv' BY <1>1 DEF LossInv
<1> QED BY <1>4, <1>5, <1>6, <1>7 DEF StatusInv

\* A write that commits, and the status it leaves behind.
LEMMA WriteKeepsPartial ==
  ASSUME IInv, WriteSucceeds
  PROVE  \A t \in Traces :
           /\ row[t] = "partial" => row'[t] = "partial"
           /\ row[t] # "absent" => row'[t] # "absent"
           /\ row'[t] = "partial" /\ row[t] # "partial" => t \in partial \ ended
<1> DEFINE e == worker.event
<1>1. worker.at = "write" /\ e \in Events /\ TraceOf[e] \in Traces /\ row \in [Traces -> {"absent", "ok", "partial"}]
  BY EventAssumption DEF WriteSucceeds, IInv, TypeInv, TypeOK, InHand, Busy
<1>2. CASE IsTraceEvent(e)
  <2>1. row' = [row EXCEPT ![TraceOf[e]] = IF worker.partial THEN "partial" ELSE "ok"]
    BY <1>2 DEF WriteSucceeds, RowAfterWrite
  <2>2. TraceOf[e] \notin ended
    BY <1>1, <1>2, HandledTraceIsOpen
  <2>3. row[TraceOf[e]] = "partial" => worker.partial
    BY <1>1, <1>2 DEF IInv, StatusInv, ShownInv
  <2>4. worker.partial => TraceOf[e] \in partial
    BY <1>1, <1>2 DEF IInv, StatusInv, ShownInv
  <2> QED BY <1>1, <2>1, <2>2, <2>3, <2>4
<1>3. CASE ~IsTraceEvent(e)
  BY <1>3 DEF WriteSucceeds, RowAfterWrite
<1> QED BY <1>2, <1>3

LEMMA StatusInvWrite ==
  ASSUME IInv, [Next]_vars, WriteSucceeds
  PROVE  StatusInv'
<1> StoreInv /\ MarkInv /\ LossInv /\ ShownInv /\ TypeInv /\ FateInv
  BY DEF IInv, StatusInv
<1> DEFINE e == worker.event
<1>1. UNCHANGED <<persisted, closed, partial, marked, lossAt>>
  BY DEF WriteSucceeds, storeVars
<1>2. /\ worker.at = "write" /\ worker'.at \in {"close", "snapshot", "done"}
      /\ worker'.at = "close" <=> IsTraceEvent(e)
      /\ worker'.event = e /\ worker'.toMark = worker.toMark
  BY DEF WriteSucceeds, AfterWrite, TypeInv, TypeOK, Workers
<1>3. e \in Events /\ TraceOf[e] \in Traces /\ fate[e] = "taken"
  BY <1>2, EventAssumption DEF TypeInv, InHand, Busy, FateInv, HandInv
<1>4. fate' = [fate EXCEPT ![e] = "written"] /\ fate \in [Events -> Fates]
  BY DEF WriteSucceeds, TypeInv, TypeOK
<1>5. ended' = ended \cup {t \in Traces : KindOf[e] = "end" /\ t = TraceOf[e]}
  BY DEF WriteSucceeds
<1>6. \A t \in Traces :
        /\ row[t] = "partial" => row'[t] = "partial"
        /\ row[t] # "absent" => row'[t] # "absent"
        /\ row'[t] = "partial" /\ row[t] # "partial" => t \in partial \ ended
  BY WriteKeepsPartial
<1>7. worker.toMark = {}
  BY <1>2 DEF MarkInv
<1>8. ended = closed /\ partial \subseteq Traces /\ ended \subseteq Traces
  <2>1. partial \subseteq Traces /\ ended \subseteq Traces
    BY DEF TypeInv, TypeOK
  <2>2. closed \subseteq ended /\ \A t \in ended \ closed : worker.at = "close"
    BY DEF StoreInv
  <2> QED BY <1>2, <2>1, <2>2
<1>9. StoreInv'
  <2>1. \A t \in persisted' : row'[t] # "absent"
    BY <1>1, <1>6 DEF StoreInv, TypeInv, TypeOK
  <2>2. worker'.at = "close" => row'[TraceOf[e]] # "absent"
    <3> SUFFICES ASSUME IsTraceEvent(e) PROVE row'[TraceOf[e]] # "absent"
      BY <1>2
    <3>1. row' = [row EXCEPT ![TraceOf[e]] = IF worker.partial THEN "partial" ELSE "ok"]
      BY DEF WriteSucceeds, RowAfterWrite
    <3> QED BY <3>1, <1>3 DEF TypeInv, TypeOK
  <2>3. KindOf[e] = "end" => TraceOf[e] \in ended'
    BY <1>3, <1>5
  <2>4. \A t \in ended' : \E f \in Events : KindOf[f] = "end" /\ TraceOf[f] = t /\ fate'[f] = "written"
    BY <1>3, <1>4, <1>5 DEF StoreInv
  <2>5. \A t \in ended' \ closed' : worker'.at = "close" /\ KindOf[e] = "end" /\ TraceOf[e] = t
    BY <1>1, <1>2, <1>5, <1>8 DEF IsTraceEvent
  <2> QED BY <1>1, <1>2, <1>5, <1>8, <2>1, <2>2, <2>3, <2>4, <2>5 DEF StoreInv, Closing
<1>10. MarkInv'
  BY <1>1, <1>2, <1>6, <1>7 DEF MarkInv, TypeInv, TypeOK
<1>11. ShownInv'
  BY <1>2 DEF ShownInv
<1>12. LossInv'
  <2>1. \A t \in Traces : row'[t] = "partial" => lossAt'[t] # "none"
    BY <1>1, <1>6 DEF LossInv
  <2>2. \A t \in Traces \ ended' : row'[t] = "partial" \/ lossAt'[t] = "early" => t \in partial'
    BY <1>1, <1>5, <1>6 DEF LossInv
  <2>3. \A t \in Traces \ ended' : t \in partial' => lossAt'[t] # "none"
    BY <1>1, <1>5 DEF LossInv
  <2>4. ASSUME NEW t \in ended', lossAt'[t] = "early" PROVE row'[t] = "partial"
    <3>1. CASE t \in ended
      BY <3>1, <2>4, <1>1, <1>6, <1>8 DEF LossInv
    <3>2. CASE t \notin ended
      <4>1. KindOf[e] = "end" /\ t = TraceOf[e]
        BY <3>2, <2>4, <1>5
      <4>2. worker.partial
        BY <4>1, <2>4, <1>1, <1>2, <1>3 DEF ShownInv, Closing
      <4>3. row' = [row EXCEPT ![t] = "partial"]
        BY <4>1, <4>2 DEF WriteSucceeds, RowAfterWrite, IsTraceEvent
      <4> QED BY <4>1, <4>3, <1>3 DEF TypeInv, TypeOK
    <3> QED BY <3>1, <3>2
  <2> QED BY <2>1, <2>2, <2>3, <2>4 DEF LossInv
<1> QED BY <1>9, <1>10, <1>11, <1>12 DEF StatusInv

LEMMA StatusInvCloseTrace ==
  ASSUME IInv, [Next]_vars, CloseTrace
  PROVE  StatusInv'
<1> StoreInv /\ MarkInv /\ LossInv /\ ShownInv /\ TypeInv /\ FateInv
  BY DEF IInv, StatusInv
<1> DEFINE e == worker.event
<1> DEFINE t == TraceOf[e]
<1>1. /\ worker.at = "close" /\ worker'.at = "snapshot" /\ worker'.toMark = worker.toMark
      /\ UNCHANGED <<row, ended, lossAt, fate>>
  BY DEF CloseTrace, storeVars, TypeInv, TypeOK, Workers
<1>2. worker.toMark = {} BY <1>1 DEF MarkInv
<1>3. /\ row[t] # "absent" /\ t \in Traces
      /\ persisted' = persisted \cup {t}
      /\ persisted \subseteq Traces /\ ended \subseteq Traces
  BY <1>1, EventAssumption DEF CloseTrace, StoreInv, TypeInv, TypeOK, InHand, Busy
<1>4. CASE KindOf[e] = "end"
  <2>1. closed' = closed \cup {t} /\ partial' = partial \ {t} /\ marked' = marked \ {t} /\ t \in ended
    BY <1>1, <1>4 DEF CloseTrace, StoreInv
  <2>2. ended \subseteq closed'
    BY <2>1, <1>1 DEF StoreInv, Closing
  <2>3. StoreInv' BY <1>1, <1>3, <2>1, <2>2 DEF StoreInv
  <2>4. MarkInv' BY <1>1, <1>2, <2>1 DEF MarkInv
  <2>5. LossInv' BY <1>1, <2>1 DEF LossInv
  <2>6. ShownInv' BY <1>1 DEF ShownInv
  <2> QED BY <2>3, <2>4, <2>5, <2>6 DEF StatusInv
<1>5. CASE KindOf[e] # "end"
  <2>1. UNCHANGED <<closed, partial, marked>>
    BY <1>5 DEF CloseTrace
  <2>2. ended \subseteq closed
    BY <1>5 DEF StoreInv, Closing
  <2>3. StoreInv' BY <1>1, <1>3, <2>1, <2>2 DEF StoreInv
  <2>4. MarkInv' BY <1>1, <1>2, <2>1 DEF MarkInv
  <2>5. LossInv' BY <1>1, <2>1 DEF LossInv
  <2>6. ShownInv' BY <1>1 DEF ShownInv
  <2> QED BY <2>3, <2>4, <2>5, <2>6 DEF StatusInv
<1> QED BY <1>4, <1>5

LEMMA StatusInvMarkOne ==
  ASSUME IInv, [Next]_vars, NEW t \in Traces, MarkOne(t)
  PROVE  StatusInv'
<1> StoreInv /\ MarkInv /\ LossInv /\ ShownInv /\ TypeInv /\ FateInv
  BY DEF IInv, StatusInv
<1>1. /\ worker.at = "mark" /\ worker'.at = "mark" /\ worker'.toMark = worker.toMark \ {t}
      /\ UNCHANGED <<persisted, closed, partial, ended, lossAt, fate>>
      /\ marked' = marked \cup {t}
  BY DEF MarkOne, storeVars, TypeInv, TypeOK, Workers
<1>2. t \in (partial \cap persisted) \ ended
  BY DEF MarkOne, MarkInv
<1>3. row'[t] = "partial" /\ \A u \in Traces \ {t} : row'[u] = row[u]
  BY <1>2 DEF MarkOne, StoreInv, TypeInv, TypeOK
<1>4. StoreInv' BY <1>1, <1>3 DEF StoreInv, TypeInv, TypeOK
<1>5. MarkInv' BY <1>1, <1>2, <1>3 DEF MarkInv, TypeInv, TypeOK
<1>6. ShownInv' BY <1>1 DEF ShownInv
<1>7. LossInv'
  <2>1. lossAt[t] # "none" BY <1>2 DEF LossInv
  <2> QED BY <1>1, <1>2, <1>3, <2>1 DEF LossInv, TypeInv, TypeOK
<1> QED BY <1>4, <1>5, <1>6, <1>7 DEF StatusInv

LEMMA StatusInvStep == IInv /\ [Next]_vars => StatusInv'
<1> SUFFICES ASSUME IInv, [Next]_vars PROVE StatusInv'
  OBVIOUS
<1> worker \in Workers /\ MarkInv /\ StoreInv
  BY DEF IInv, TypeInv, TypeOK, StatusInv
<1>1. CASE \E p \in Emitters, e \in Events : Refuse(p, e) \/ Admit(p, e) \/ Overflow(p, e)
  BY <1>1, OthersMove DEF Refuse, Admit, Overflow, notEmits, storeVars
<1>2. CASE \E p \in Emitters : LookupDropped(p)
  BY <1>2, OthersMove DEF LookupDropped, notEmits, storeVars
<1>3. CASE ShutdownBegins \/ AwaitShutdown \/ UNCHANGED vars
  BY <1>3, OthersMove DEF ShutdownBegins, AwaitShutdown, ShutdownFlushed, ShutdownTimesOut,
                          ShutdownJoined, notShutdowns, storeVars, vars
<1>4. CASE Take
  <2>1. worker.at = "idle" /\ worker'.at = "prepare" /\ worker'.toMark = worker.toMark
    BY <1>4 DEF Take, Workers
  <2> QED BY <1>4, <2>1, WorkerMoves DEF Take, storeVars, MarkInv
<1>5. CASE WriteFails
  <2>1. worker.at = "write" /\ worker'.at \in {"lookup", "record"} /\ worker'.toMark = worker.toMark
    BY <1>5 DEF WriteFails, Workers
  <2> QED BY <1>5, <2>1, WorkerMoves DEF WriteFails, storeVars, MarkInv
<1>6. CASE LookupFailed
  <2>1. worker.at = "lookup" /\ worker'.at = "record" /\ worker'.toMark = worker.toMark
    BY <1>6 DEF LookupFailed, Workers
  <2> QED BY <1>6, <2>1, WorkerMoves DEF LookupFailed, storeVars, MarkInv
<1>7. CASE SnapshotPartials
  <2>1. worker.at = "snapshot" /\ worker'.at = "mark" /\ worker'.toMark = PendingPartials
    BY <1>7 DEF SnapshotPartials, Workers
  <2>2. PendingPartials \subseteq (partial \cap persisted) \ ended
    BY <2>1 DEF PendingPartials, StoreInv
  <2> QED BY <1>7, <2>1, <2>2, WorkerMoves DEF SnapshotPartials, storeVars
<1>8. ASSUME NEW t \in Traces, MarkFails(t) PROVE StatusInv'
  <2>1. worker.at = "mark" /\ worker'.at = "mark" /\ worker'.toMark = worker.toMark \ {t}
    BY <1>8 DEF MarkFails, Workers
  <2> QED BY <1>8, <2>1, WorkerMoves DEF MarkFails, storeVars, MarkInv
<1>9. CASE TaskDone
  <2>1. worker.at \in {"done", "mark"} /\ worker'.at = "idle" /\ worker'.toMark = {}
    BY <1>9 DEF TaskDone, Resting
  <2> QED BY <1>9, <2>1, WorkerMoves DEF TaskDone, storeVars
<1>10. CASE WorkerExits
  <2>1. worker.at = "idle" /\ worker'.at = "exited" /\ worker'.toMark = worker.toMark
    BY <1>10 DEF WorkerExits, Workers
  <2> QED BY <1>10, <2>1, WorkerMoves DEF WorkerExits, storeVars, MarkInv
<1> QED
  BY <1>1, <1>2, <1>3, <1>4, <1>5, <1>6, <1>7, <1>8, <1>9, <1>10,
     StatusInvRecordDropped, StatusInvRecordFailed, StatusInvPrepare, StatusInvWrite,
     StatusInvCloseTrace, StatusInvMarkOne
     DEF Next, Emit, Return, Worker, Finished

LEMMA IInvInit == Init => IInv
BY TypeInvInit, FateInvInit, OrderInvInit, StatusInvInit DEF IInv

LEMMA IInvStep == IInv /\ [Next]_vars => IInv'
BY TypeInvStep, FateInvStep, OrderInvStep, StatusInvStep DEF IInv

LEMMA IInvHolds == Spec => []IInv
BY IInvInit, IInvStep, PTL DEF Spec

\* However many threads drop events and whatever the store refuses: a loss that
\* was recorded before the closing write was under way is in the stored status
\* (writer.py _record_loss, _partial_event, _write).
THEOREM EarlyLossClosesPartialHolds == Spec => []EarlyLossClosesPartial
<1>1. IInv => EarlyLossClosesPartial
  BY DEF IInv, StatusInv, LossInv, EarlyLossClosesPartial
<1> QED BY <1>1, IInvHolds, PTL

\* No trace is ever stored as partial without a recorded loss of its own
\* (writer.py _mark_pending_partials, _partial_event).
THEOREM PartialOnlyAfterLossHolds == Spec => []PartialOnlyAfterLoss
<1>1. IInv => PartialOnlyAfterLoss
  BY DEF IInv, StatusInv, LossInv, PartialOnlyAfterLoss
<1> QED BY <1>1, IInvHolds, PTL

\* The updates that _mark_pending_partials skips because they were made before
\* are in the store, whichever of them failed.
THEOREM MarkedRowsArePartialHolds == Spec => []MarkedRowsArePartial
<1>1. IInv => MarkedRowsArePartial
  BY DEF IInv, StatusInv, MarkInv, MarkedRowsArePartial
<1> QED BY <1>1, IInvHolds, PTL

\* What the store shows as partial has lost something, and what the collector
\* remembers as marked is shown as partial (writer.py _mark_pending_partials).
THEOREM PartialMeansLossHolds == Spec => []PartialMeansLoss
BY PartialOnlyAfterLossHolds, MarkedRowsArePartialHolds, PTL DEF PartialMeansLoss

\* No write and no update ever turns a partial trace into a complete one, even
\* though write_event overwrites the status (repository.py _write_trace).
THEOREM PartialIsStickyHolds == Spec => PartialIsSticky
<1>1. IInv /\ [Next]_vars => [\A t \in Traces : row[t] = "partial" => row'[t] = "partial"]_vars
  <2> SUFFICES ASSUME IInv, Next, NEW t \in Traces, row[t] = "partial"
               PROVE  row'[t] = "partial" \/ UNCHANGED vars
    OBVIOUS
  <2>1. CASE WriteSucceeds
    BY <2>1, WriteKeepsPartial
  <2>2. ASSUME NEW u \in Traces, MarkOne(u) PROVE row'[t] = "partial"
    BY <2>2 DEF MarkOne, IInv, TypeInv, TypeOK
  <2>3. CASE row' = row
    BY <2>3
  <2> QED
    BY <2>1, <2>2, <2>3
       DEF Next, Emit, Return, Worker, Finished, AwaitShutdown, storeVars, notEmits,
           Refuse, Admit, Overflow, LookupDropped, RecordDropped, Take, Prepare, WriteFails,
           LookupFailed, RecordFailed, CloseTrace, SnapshotPartials, MarkFails, TaskDone,
           WorkerExits, ShutdownBegins, ShutdownFlushed, ShutdownTimesOut, ShutdownJoined,
           notShutdowns
<1> QED BY <1>1, IInvHolds, PTL DEF Spec, PartialIsSticky

-----------------------------------------------------------------------------
(* The loss counters.                                                      *)

DroppedOf(t) == {e \in WithFate("dropped") : TraceOf[e] = t /\ KindOf[e] # "evidence"}

\* A drop is charged to the trace of its event, unless only a lookup tells it.
ChargeInv ==
  \A p \in Emitters :
    /\ call[p].at = "lookup" => KindOf[call[p].event] = "evidence"
    /\ call[p].at = "record" /\ KindOf[call[p].event] # "evidence"
         => call[p].trace = TraceOf[call[p].event]

CountInv == ChargeInv /\ Accounting

LEMMA CountInvInit == Init => CountInv
<1> SUFFICES ASSUME Init PROVE CountInv
  OBVIOUS
<1>1. ChargeInv BY DEF Init, ChargeInv, Idle
<1>2. WithFate("dropped") = {} /\ WithFate("failed") = {}
  BY DEF Init, WithFate
<1>3. \A t \in Traces : DroppedOf(t) = {}
  BY <1>2 DEF DroppedOf
<1>4. Cardinality({}) = 0
  BY FS_EmptySet
<1>5. Accounting
  <2>1. unfinished = Len(queue) + IF worker.at \in {"idle", "exited"} THEN 0 ELSE 1
    BY DEF Init, Resting
  <2>2. ASSUME NEW t \in Traces PROVE droppedByTrace[t] >= Cardinality(DroppedOf(t))
    <3>1. DroppedOf(t) = {} /\ droppedByTrace[t] = 0 BY <1>3 DEF Init
    <3>2. Cardinality(DroppedOf(t)) = 0 BY <3>1, <1>4
    <3> QED BY <3>1, <3>2
  <2>3. droppedEvents = Cardinality(WithFate("dropped")) /\ failedEvents = Cardinality(WithFate("failed"))
    BY <1>2, <1>4 DEF Init
  <2> QED BY <2>1, <2>2, <2>3 DEF Accounting, DroppedOf
<1> QED BY <1>1, <1>5 DEF CountInv

LEMMA FatesAreFinite ==
  /\ \A f \in Fates : IsFiniteSet(WithFate(f)) /\ Cardinality(WithFate(f)) \in Nat
  /\ \A t \in Traces : IsFiniteSet(DroppedOf(t)) /\ Cardinality(DroppedOf(t)) \in Nat
<1>1. ASSUME NEW S \in SUBSET Events PROVE IsFiniteSet(S) /\ Cardinality(S) \in Nat
  BY EventAssumption, FS_Subset, FS_CardinalityType
<1>2. \A f \in Fates : WithFate(f) \in SUBSET Events BY DEF WithFate
<1>3. \A t \in Traces : DroppedOf(t) \in SUBSET Events BY DEF WithFate, DroppedOf
<1> QED BY <1>1, <1>2, <1>3

\* Dropping one more event adds it to the events lost, and to those of its trace.
LEMMA DropCounts ==
  ASSUME fate \in [Events -> Fates], NEW e \in Events, fate[e] = "dropping",
         fate' = [fate EXCEPT ![e] = "dropped"]
  PROVE  /\ Cardinality(WithFate("dropped")') = Cardinality(WithFate("dropped")) + 1
         /\ WithFate("failed")' = WithFate("failed")
         /\ \A t \in Traces : DroppedOf(t)' = DroppedOf(t) \/
              /\ t = TraceOf[e] /\ KindOf[e] # "evidence"
              /\ Cardinality(DroppedOf(t)') = Cardinality(DroppedOf(t)) + 1
<1>1. WithFate("dropped")' = WithFate("dropped") \cup {e} /\ e \notin WithFate("dropped")
  BY DEF WithFate
<1>2. WithFate("failed")' = WithFate("failed")
  BY DEF WithFate
<1>3. Cardinality(WithFate("dropped")') = Cardinality(WithFate("dropped")) + 1
  BY <1>1, FatesAreFinite, FS_AddElement DEF Fates
<1>4. ASSUME NEW t \in Traces
      PROVE  DroppedOf(t)' = DroppedOf(t) \/
               /\ t = TraceOf[e] /\ KindOf[e] # "evidence"
               /\ Cardinality(DroppedOf(t)') = Cardinality(DroppedOf(t)) + 1
  <2>1. CASE t = TraceOf[e] /\ KindOf[e] # "evidence"
    <3>1. DroppedOf(t)' = DroppedOf(t) \cup {e} /\ e \notin DroppedOf(t)
      BY <1>1, <2>1 DEF DroppedOf
    <3>2. IsFiniteSet(DroppedOf(t)) BY FatesAreFinite
    <3>3. Cardinality(DroppedOf(t) \cup {e}) = Cardinality(DroppedOf(t)) + 1
      BY <3>1, <3>2, FS_AddElement
    <3> QED BY <2>1, <3>1, <3>3
  <2>2. CASE ~(t = TraceOf[e] /\ KindOf[e] # "evidence")
    BY <1>1, <2>2 DEF DroppedOf
  <2> QED BY <2>1, <2>2
<1> QED BY <1>2, <1>3, <1>4

LEMMA CountInvStep == IInv /\ CountInv /\ [Next]_vars => CountInv'
<1> SUFFICES ASSUME IInv, CountInv, [Next]_vars PROVE CountInv'
  OBVIOUS
<1> /\ TypeInv /\ FateInv /\ ChargeInv /\ Accounting /\ TypeInv'
    /\ fate \in [Events -> Fates] /\ worker \in Workers /\ call \in [Emitters -> Calls]
    /\ droppedEvents \in Nat /\ failedEvents \in Nat /\ droppedByTrace \in [Traces -> Nat]
    /\ \A f \in Fates : Cardinality(WithFate(f)) \in Nat
    /\ \A t \in Traces : Cardinality(DroppedOf(t)) \in Nat
  BY IInvStep, FatesAreFinite DEF IInv, CountInv, TypeInv, TypeOK
<1> DEFINE Lost == /\ droppedEvents = Cardinality(WithFate("dropped"))
                   /\ failedEvents = Cardinality(WithFate("failed"))
                   /\ \A t \in Traces : droppedByTrace[t] >= Cardinality(DroppedOf(t))
<1>1. Lost /\ (Lost' => Accounting')
  BY DEF Accounting, DroppedOf, TypeInv, InHand, Busy
<1> HIDE DEF Lost
<1>2. CASE \E p \in Emitters : RecordDropped(p)
  <2>1. PICK p \in Emitters : RecordDropped(p) BY <1>2
  <2> DEFINE e == call[p].event
  <2>2. e \in Events /\ fate[e] = "dropping" /\ call[p].at = "record"
    BY <2>1 DEF RecordDropped, TypeInv, InHand, FateInv, CallInv
  <2>3. /\ fate' = [fate EXCEPT ![e] = "dropped"] /\ droppedEvents' = droppedEvents + 1
        /\ droppedByTrace' = [t \in Traces |-> droppedByTrace[t] + IF t = call[p].trace THEN 1 ELSE 0]
        /\ failedEvents' = failedEvents
    BY <2>1 DEF RecordDropped, notEmits
  <2>4. /\ Cardinality(WithFate("dropped")') = Cardinality(WithFate("dropped")) + 1
        /\ WithFate("failed")' = WithFate("failed")
        /\ \A t \in Traces : DroppedOf(t)' = DroppedOf(t) \/
             /\ t = TraceOf[e] /\ KindOf[e] # "evidence"
             /\ Cardinality(DroppedOf(t)') = Cardinality(DroppedOf(t)) + 1
    BY <2>2, <2>3, DropCounts
  <2>5. KindOf[e] # "evidence" => call[p].trace = TraceOf[e]
    BY <2>2 DEF ChargeInv
  <2>6. \A t \in Traces : droppedByTrace'[t] >= Cardinality(DroppedOf(t)')
    BY <2>3, <2>4, <2>5, <1>1 DEF Lost
  <2>7. Lost' BY <2>3, <2>4, <2>6, <1>1 DEF Lost
  <2>8. ChargeInv' BY <2>1 DEF RecordDropped, Idle, ChargeInv
  <2> QED BY <2>7, <2>8, <1>1 DEF CountInv
<1>3. CASE RecordFailed
  <2> DEFINE e == worker.event
  <2>1. e \in Events /\ fate[e] = "failing"
    BY <1>3 DEF RecordFailed, TypeInv, InHand, Busy, FateInv, HandInv
  <2>2. /\ fate' = [fate EXCEPT ![e] = "failed"] /\ failedEvents' = failedEvents + 1
        /\ UNCHANGED <<droppedEvents, droppedByTrace, call>>
    BY <1>3 DEF RecordFailed, notWorkers
  <2>3. /\ WithFate("failed")' = WithFate("failed") \cup {e} /\ e \notin WithFate("failed")
        /\ WithFate("dropped")' = WithFate("dropped")
    BY <2>1, <2>2 DEF WithFate
  <2>4. Cardinality(WithFate("failed")') = Cardinality(WithFate("failed")) + 1
    BY <2>3, FatesAreFinite, FS_AddElement DEF Fates
  <2>5. Lost' BY <2>2, <2>3, <2>4, <1>1 DEF Lost, DroppedOf
  <2>6. ChargeInv' BY <2>2 DEF ChargeInv
  <2> QED BY <2>5, <2>6, <1>1 DEF CountInv
<1>4. ASSUME UNCHANGED <<droppedEvents, droppedByTrace, failedEvents>>, ChargeInv',
             WithFate("dropped")' = WithFate("dropped"), WithFate("failed")' = WithFate("failed")
      PROVE  CountInv'
  BY <1>4, <1>1 DEF Lost, DroppedOf, CountInv
<1>5. ASSUME fate' = fate, UNCHANGED <<droppedEvents, droppedByTrace, failedEvents>>, ChargeInv'
      PROVE  CountInv'
  BY <1>5, <1>4 DEF WithFate
<1>6. ASSUME NEW e \in Events, NEW f, f \notin {"dropped", "failed"},
             fate[e] \notin {"dropped", "failed"}, fate' = [fate EXCEPT ![e] = f],
             UNCHANGED <<droppedEvents, droppedByTrace, failedEvents>>, ChargeInv'
      PROVE  CountInv'
  BY <1>6, <1>4 DEF WithFate
<1>7. call' = call => ChargeInv'
  BY DEF ChargeInv
<1>8. ASSUME NEW p \in Emitters, NEW e \in Events, Refuse(p, e) \/ Admit(p, e) PROVE CountInv'
  BY <1>8, <1>6, <1>7 DEF Refuse, Admit, ReadyToEmit, notEmits, Fates
<1>9. ASSUME NEW p \in Emitters, NEW e \in Events, Overflow(p, e) PROVE CountInv'
  <2>1. ChargeInv' BY <1>9 DEF Overflow, ChargeInv
  <2> QED BY <1>9, <2>1, <1>6 DEF Overflow, ReadyToEmit, notEmits, Fates
<1>10. ASSUME NEW p \in Emitters, LookupDropped(p) PROVE CountInv'
  <2>1. ChargeInv' BY <1>10 DEF LookupDropped, ChargeInv
  <2> QED BY <1>10, <2>1, <1>5 DEF LookupDropped, notEmits
<1>11. CASE Take
  <2>1. Head(queue) \in Events /\ fate[Head(queue)] = "queued"
    BY <1>11, TakenWasQueued DEF FateInv
  <2>2. /\ fate' = [fate EXCEPT ![Head(queue)] = "taken"]
        /\ UNCHANGED <<droppedEvents, droppedByTrace, failedEvents, call>>
    BY <1>11 DEF Take, notWorkers
  <2>3. ChargeInv' BY <2>2, <1>7
  <2>4. \A e \in Events : fate[e] = "queued" /\ fate' = [fate EXCEPT ![e] = "taken"] => CountInv'
    BY <2>2, <2>3, <1>6
  <2> QED BY <2>1, <2>2, <2>4
<1>12. CASE WriteSucceeds \/ WriteFails
  <2>1. worker.event \in Events /\ fate[worker.event] = "taken"
    BY <1>12 DEF WriteSucceeds, WriteFails, TypeInv, InHand, Busy, FateInv, HandInv
  <2> QED BY <1>12, <2>1, <1>6, <1>7 DEF WriteSucceeds, WriteFails, notWorkers, Fates
<1> QED
  BY <1>2, <1>3, <1>5, <1>7, <1>8, <1>9, <1>10, <1>11, <1>12
     DEF Next, Emit, Return, Worker, Finished, AwaitShutdown, Prepare, notWorkers,
         LookupFailed, CloseTrace, SnapshotPartials, MarkOne, MarkFails, TaskDone, WorkerExits,
         ShutdownBegins, ShutdownFlushed, ShutdownTimesOut, ShutdownJoined, notShutdowns, vars

\* The counters that snapshot() reports, and the completions a flush waits for,
\* are exact whatever threads and worker do (writer.py _record_loss, snapshot;
\* buffer.py task_done).
THEOREM AccountingHolds == Spec => []Accounting
<1>1. CountInv => Accounting BY DEF CountInv
<1> QED BY <1>1, IInvInit, IInvStep, CountInvInit, CountInvStep, PTL DEF Spec


-----------------------------------------------------------------------------
(* The collector implements the channel.  A step of the channel is the      *)
(* admission, drop or refusal of an event, its settlement by the worker,    *)
(* the beginning of the first shutdown, or the exit; all others stutter.    *)

LEMMA UnsettledIs ==
  ASSUME TypeInv
  PROVE  /\ worker.at \notin {"prepare", "write"} => Unsettled = queue
         /\ worker.at \in {"prepare", "write"} =>
              /\ Unsettled = <<worker.event>> \o queue
              /\ Unsettled # <<>>
              /\ Head(Unsettled) = worker.event
              /\ Tail(Unsettled) = queue
              /\ Len(Unsettled) = Len(queue) + 1
<1>1. queue \in Seq(Events) /\ <<>> \o queue = queue
  BY DEF TypeInv, TypeOK
<1>2. ASSUME worker.at \in {"prepare", "write"}
      PROVE  <<worker.event>> \in Seq(Events)
  BY <1>2 DEF TypeInv, InHand, Busy
<1> QED BY <1>1, <1>2 DEF Unsettled

LEMMA InitImplements == Init => Channel!Init
<1> SUFFICES ASSUME Init PROVE Channel!Init
  OBVIOUS
<1>1. Unsettled = <<>>
  BY DEF Init, Resting, Unsettled
<1>2. [e \in Events |-> Outcome(e)] = [e \in Events |-> "none"]
  BY DEF Init, Outcome
<1> QED BY <1>1, <1>2 DEF Init, Resting, Channel!Init

LEMMA StepImplements == TypeInv /\ FateInv /\ [Next]_vars => [Channel!Next]_(Channel!channelVars)
<1> SUFFICES ASSUME TypeInv, FateInv, [Next]_vars
             PROVE  Channel!Next \/ UNCHANGED Channel!channelVars
  OBVIOUS
<1> DEFINE out == [e \in Events |-> Outcome(e)]
           quiet == UNCHANGED <<accepting, Unsettled, out>> /\ (worker'.at = "exited") = (worker.at = "exited")
<1> TypeInv' 
  BY TypeInvStep
<1> USE DEF TypeInv
<1>0. quiet => UNCHANGED Channel!channelVars
  BY DEF Channel!channelVars
<1>a. ASSUME NEW e \in Events, NEW o, Outcome(e)' = o, \A f \in Events \ {e} : fate'[f] = fate[f]
      PROVE  out' = [out EXCEPT ![e] = o]
  BY <1>a DEF Outcome
<1>b. ASSUME \A f \in Events : Outcome(f)' = Outcome(f)
      PROVE  out' = out
  BY <1>b
<1>1. ASSUME NEW p \in Emitters, NEW e \in Events, Refuse(p, e) PROVE Channel!Refuse(e)
  <2>1. Outcome(e) = "none" /\ Outcome(e)' = "refused" /\ \A f \in Events \ {e} : fate'[f] = fate[f]
    BY <1>1 DEF Refuse, ReadyToEmit, Outcome, TypeOK
  <2>2. out' = [out EXCEPT ![e] = "refused"]
    BY <2>1, <1>a
  <2>3. UNCHANGED <<accepting, Unsettled, worker>>
    BY <1>1 DEF Refuse, notEmits, Unsettled
  <2> QED BY <1>1, <2>1, <2>2, <2>3 DEF Refuse, Channel!Refuse
<1>2. ASSUME NEW p \in Emitters, NEW e \in Events, Admit(p, e) PROVE Channel!Accept(e)
  <2>1. Outcome(e) = "none" /\ Outcome(e)' = "pending" /\ \A f \in Events \ {e} : fate'[f] = fate[f]
    BY <1>2 DEF Admit, ReadyToEmit, Outcome, TypeOK
  <2>2. out' = [out EXCEPT ![e] = "pending"]
    BY <2>1, <1>a
  <2>3. UNCHANGED <<accepting, worker>> /\ queue' = Append(queue, e) /\ Len(queue) < Capacity
    BY <1>2 DEF Admit, notEmits, HasRoom
  <2>4. Unsettled' = Append(Unsettled, e)
    BY <2>3 DEF Unsettled, TypeOK, InHand, Busy
  <2>5. Len(Unsettled) < Capacity + 1
    BY <2>3, UnsettledIs, CapacityAssumption DEF TypeOK
  <2> QED BY <1>2, <2>1, <2>2, <2>3, <2>4, <2>5 DEF Admit, Channel!Accept
<1>3. ASSUME NEW p \in Emitters, NEW e \in Events, Overflow(p, e) PROVE Channel!Drop(e)
  <2>1. Outcome(e) = "none" /\ Outcome(e)' = "dropped" /\ \A f \in Events \ {e} : fate'[f] = fate[f]
    BY <1>3 DEF Overflow, ReadyToEmit, Outcome, TypeOK
  <2>2. out' = [out EXCEPT ![e] = "dropped"]
    BY <2>1, <1>a
  <2>3. UNCHANGED <<accepting, Unsettled, worker>>
    BY <1>3 DEF Overflow, notEmits, Unsettled
  <2>4. Len(Unsettled) >= Capacity
    BY <1>3, UnsettledIs, CapacityAssumption DEF Overflow, HasRoom, TypeOK
  <2> QED BY <1>3, <2>1, <2>2, <2>3, <2>4, CapacityAssumption DEF Overflow, Channel!Drop
<1>4. ASSUME NEW p \in Emitters, Return(p) PROVE quiet
  <2>1. UNCHANGED <<accepting, queue, worker>>
    BY <1>4 DEF Return, LookupDropped, RecordDropped, notEmits
  <2>2. \A f \in Events : Outcome(f)' = Outcome(f)
    <3>1. CASE LookupDropped(p)
      BY <3>1 DEF LookupDropped, Outcome
    <3>2. CASE RecordDropped(p)
      <4>1. fate[call[p].event] = "dropping" /\ fate' = [fate EXCEPT ![call[p].event] = "dropped"]
        BY <3>2 DEF RecordDropped, FateInv, CallInv
      <4> QED BY <4>1 DEF Outcome, TypeOK
    <3> QED BY <1>4, <3>1, <3>2 DEF Return
  <2> QED BY <2>1, <2>2, <1>b DEF Unsettled
<1>5. CASE Take
  <2>1. Head(queue) \in Events /\ fate[Head(queue)] = "queued"
    BY <1>5, TakenWasQueued DEF FateInv
  <2>2. \A f \in Events : Outcome(f)' = Outcome(f)
    BY <1>5, <2>1 DEF Take, Outcome, TypeOK
  <2>3. worker.at = "idle" /\ worker'.at = "prepare" /\ worker'.event = Head(queue) /\ queue' = Tail(queue)
    BY <1>5 DEF Take, TypeOK, Workers
  <2>4. Unsettled = queue /\ Unsettled' = <<Head(queue)>> \o Tail(queue)
    BY <2>3, UnsettledIs DEF Unsettled
  <2>5. queue = <<Head(queue)>> \o Tail(queue)
    BY <1>5 DEF Take, TypeOK
  <2> QED BY <1>5, <2>2, <2>3, <2>4, <2>5, <1>0, <1>b DEF Take, notWorkers
<1>6. CASE WriteSucceeds \/ WriteFails
  <2>0. worker.at = "write" /\ worker.event \in Events
    BY <1>6 DEF WriteSucceeds, WriteFails, InHand, Busy
  <2> PICK e \in Events : e = worker.event
    BY <2>0
  <2> DEFINE o == IF fate'[e] = "written" THEN "written" ELSE "failed"
  <2>1. worker.at = "write"
    BY <2>0
  <2>2. /\ worker'.at \notin {"prepare", "write", "exited"}
        /\ queue' = queue /\ accepting' = accepting
    BY <1>6 DEF WriteSucceeds, WriteFails, AfterWrite, notWorkers, TypeOK, Workers
  <2>3. /\ fate'[e] \in {"written", "failing"}
        /\ \A f \in Events \ {e} : fate'[f] = fate[f]
    BY <1>6, <2>1 DEF WriteSucceeds, WriteFails, TypeOK
  <2>4. Outcome(e)' = o
    BY <2>3 DEF Outcome
  <2>5. out' = [out EXCEPT ![e] = o]
    BY <2>1, <2>3, <2>4, <1>a
  <2>6. Unsettled # <<>> /\ Head(Unsettled) = e /\ Tail(Unsettled) = queue /\ Unsettled' = queue'
    BY <2>1, <2>2, UnsettledIs DEF Unsettled, TypeOK
  <2>7. Channel!Settle
    BY <2>1, <2>2, <2>5, <2>6 DEF Channel!Settle
  <2> QED BY <2>7 DEF Channel!Next
<1>7. CASE RecordFailed
  <2>1. worker.event \in Events /\ fate[worker.event] = "failing" /\ fate' = [fate EXCEPT ![worker.event] = "failed"]
    BY <1>7 DEF RecordFailed, InHand, Busy, FateInv, HandInv
  <2>2. \A f \in Events : Outcome(f)' = Outcome(f)
    BY <2>1 DEF Outcome, TypeOK
  <2>3. UNCHANGED <<accepting, queue>> /\ worker.at = "record" /\ worker'.at = "snapshot"
    BY <1>7 DEF RecordFailed, notWorkers, TypeOK, Workers
  <2> QED BY <2>2, <2>3, <1>b, <1>0 DEF Unsettled
<1>8. CASE \/ Prepare \/ LookupFailed \/ CloseTrace \/ SnapshotPartials \/ TaskDone
           \/ \E t \in Traces : MarkOne(t) \/ MarkFails(t)
  <2>1. UNCHANGED <<accepting, queue, fate>>
    BY <1>8 DEF Prepare, LookupFailed, CloseTrace, SnapshotPartials, TaskDone, MarkOne, MarkFails,
                notWorkers
  <2>2. \A f \in Events : Outcome(f)' = Outcome(f)
    BY <2>1 DEF Outcome
  <2>3. /\ worker.at # "exited" /\ worker'.at # "exited"
        /\ worker'.at \in {"prepare", "write"} <=> worker.at \in {"prepare", "write"}
        /\ worker.at \in {"prepare", "write"} => worker'.event = worker.event
    <3>1. worker \in Workers
      BY DEF TypeOK
    <3>2. CASE Prepare
      BY <3>1, <3>2 DEF Prepare, Workers
    <3>3. CASE LookupFailed \/ CloseTrace \/ SnapshotPartials
      BY <3>1, <3>3 DEF LookupFailed, CloseTrace, SnapshotPartials, Workers
    <3>4. CASE TaskDone
      BY <3>4 DEF TaskDone, Resting
    <3>5. ASSUME NEW t \in Traces, MarkOne(t) \/ MarkFails(t)
          PROVE  worker.at = "mark" /\ worker'.at = "mark"
      BY <3>1, <3>5 DEF MarkOne, MarkFails, Workers
    <3> QED BY <1>8, <3>2, <3>3, <3>4, <3>5
  <2> QED BY <2>1, <2>2, <2>3, <1>b, <1>0 DEF Unsettled
<1>9. CASE WorkerExits
  <2>1. UNCHANGED <<accepting, queue, fate>> /\ worker.at = "idle" /\ worker'.at = "exited"
        /\ ~accepting /\ queue = <<>>
    BY <1>9 DEF WorkerExits, MayExit, notWorkers, TypeOK, Workers
  <2>2. out' = out
    BY <2>1 DEF Outcome
  <2>3. Unsettled = <<>> /\ Unsettled' = <<>>
    BY <2>1, UnsettledIs DEF Unsettled
  <2>4. Channel!Stop
    BY <2>1, <2>2, <2>3 DEF Channel!Stop
  <2> QED BY <2>4 DEF Channel!Next
<1>10. CASE ShutdownBegins
  <2>1. UNCHANGED <<queue, fate, worker>> /\ accepting' = FALSE
    BY <1>10 DEF ShutdownBegins, notShutdowns
  <2>2. out' = out /\ Unsettled' = Unsettled
    BY <2>1 DEF Outcome, Unsettled
  <2>3. CASE accepting
    BY <2>1, <2>2, <2>3 DEF Channel!Close, Channel!Next
  <2>4. CASE ~accepting
    BY <2>1, <2>2, <2>4, <1>0 DEF TypeOK
  <2> QED BY <2>3, <2>4
<1>11. CASE AwaitShutdown \/ Finished \/ UNCHANGED vars
  <2>1. UNCHANGED <<accepting, queue, fate, worker>>
    BY <1>11 DEF AwaitShutdown, ShutdownFlushed, ShutdownTimesOut, ShutdownJoined, notShutdowns,
                 Finished, vars
  <2>2. out' = out /\ Unsettled' = Unsettled
    BY <2>1 DEF Outcome, Unsettled
  <2> QED BY <2>1, <2>2, <1>0
<1> QED
  BY <1>0, <1>1, <1>2, <1>3, <1>4, <1>5, <1>6, <1>7, <1>8, <1>9, <1>10, <1>11
     DEF Next, Emit, Worker, Channel!Next

\* Whatever threads, worker and store do, an observer of the collector sees the
\* bounded lossy first-in first-out channel of EventChannel.tla, and nothing else
\* (writer.py Collector.emit, _run, _write, shutdown).
THEOREM CollectorImplementsChannel == Spec => ChannelSafety
<1>1. IInv => TypeInv /\ FateInv
  BY DEF IInv
<1>2. IInv /\ [Next]_vars => [Channel!Next]_(Channel!channelVars)
  BY <1>1, StepImplements
<1> QED BY <1>2, InitImplements, IInvHolds, PTL DEF Spec, ChannelSafety
=============================================================================
