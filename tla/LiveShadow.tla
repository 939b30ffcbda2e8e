----------------------------- MODULE LiveShadow -----------------------------
(***************************************************************************)
(* The live shadow executor.  An application submits a decision through a  *)
(* handle; a background worker waits for it to be stored, runs it alone as *)
(* in Counterfactual.tla, and counts how that ended.  The worker, a queue  *)
(* of one and a lifetime budget are shared by the handles of a process,    *)
(* under one condition lock; each action is what one thread does under it, *)
(* or between two uses of it.                                              *)
(***************************************************************************)
EXTENDS Counterfactual, Functions

CONSTANTS
  Handles,      \* live shadow executors
  Callers,      \* application threads that submit
  LiveSources,  \* the decisions they submit
  MaxSubmits,   \* bound on the submissions of one behaviour
  Budget,       \* jobs ever accepted by a process (10)
  NoJob         \* nothing queued, or nothing being executed

ASSUME LiveSourcesAreSources == LiveSources \subseteq Sources
ASSUME BudgetIsNatural == Budget \in Nat
ASSUME NoJobIsNoJob == NoJob \notin [owner : Handles, on : Sources]

VARIABLES
  handle,       \* handle[h] = [closed, pending, counts, submits, shutdown]
  caller,       \* caller[t] = [at, job]
  queue,        \* the job waiting, or NoJob
  active,       \* the job being executed, or NoJob
  working,      \* where the worker thread is, "none" without one
  accepted      \* jobs admitted so far

shadowVars == <<counterfactualVars, handle, caller, queue, active, working, accepted>>

Jobs == [owner : Handles, on : Sources]
Diagnostics == {"disabled", "configuration_unavailable", "egress_not_authorized", "queue_full",
  "lifetime_cap", "source_decision_unavailable", "provider_timeout", "provider_failure",
  "parse_failure", "storage_failure", "completed"}

ShadowInit ==
  /\ CounterfactualInit
  /\ handle = [h \in Handles |->
       [closed |-> FALSE, pending |-> 0, counts |-> [d \in Diagnostics |-> 0],
        submits |-> 0, shutdown |-> "no"]]
  /\ caller = [t \in Callers |-> [at |-> "idle", job |-> NoJob]]
  /\ queue = NoJob /\ active = NoJob /\ working = "none" /\ accepted = 0

SourceStored(d) ==
  DecisionStored(d) /\ UNCHANGED <<handle, caller, queue, active, working, accepted>>

-----------------------------------------------------------------------------
(* submit, admit, the worker and shutdown.                                 *)

Counted(h, key) == [h EXCEPT !.counts[key] = @ + 1]
Submits == [h \in Handles |-> handle[h].submits]

\* submit looks at the handle and the switch before it reads its configuration.
Submit(t, h, d, enabled) ==
  /\ caller[t].at = "idle"
  /\ SumFunction(Submits) < MaxSubmits
  /\ LET asked == [handle[h] EXCEPT !.submits = @ + 1] IN
     IF handle[h].closed \/ ~enabled
       THEN handle' = [handle EXCEPT ![h] = Counted(asked, "disabled")] /\ UNCHANGED caller
       ELSE /\ handle' = [handle EXCEPT ![h] = asked]
            /\ caller' = [caller EXCEPT ![t] = [at |-> "configure", job |-> [owner |-> h, on |-> d]]]
  /\ UNCHANGED <<counterfactualVars, queue, active, working, accepted>>

Configure(t, result) ==
  /\ caller[t].at = "configure"
  /\ IF result = "ready"
       THEN caller' = [caller EXCEPT ![t].at = "admit"] /\ UNCHANGED handle
       ELSE /\ caller' = [caller EXCEPT ![t] = [at |-> "idle", job |-> NoJob]]
            /\ handle' = [handle EXCEPT ![caller[t].job.owner] = Counted(@, result)]
  /\ UNCHANGED <<counterfactualVars, queue, active, working, accepted>>

\* admit does not look at the handle again (the mutant of Refusal).
RefusalUnlessClosed(h) ==
  IF accepted >= Budget THEN "lifetime_cap"
  ELSE IF queue # NoJob THEN "queue_full" ELSE "none"

\* Why a job is turned away, looked up under the lock.
Refusal(h) ==
  IF handle[h].closed THEN "disabled"
  ELSE IF accepted >= Budget THEN "lifetime_cap"
  ELSE IF queue # NoJob THEN "queue_full" ELSE "none"

\* A job is admitted and a worker started if there is none; when the thread
\* does not start, the job is taken back and submit counts the exception.
Admit(t, starts) ==
  /\ caller[t].at = "admit"
  /\ LET h == caller[t].job.owner IN
     IF Refusal(h) # "none"
       THEN /\ handle' = [handle EXCEPT ![h] = Counted(@, Refusal(h))]
            /\ UNCHANGED <<queue, working, accepted>>
       ELSE IF working = "none" /\ ~starts
       THEN /\ handle' = [handle EXCEPT ![h] = Counted(@, "configuration_unavailable")]
            /\ UNCHANGED <<queue, working, accepted>>
       ELSE /\ handle' = [handle EXCEPT ![h].pending = @ + 1]
            /\ queue' = caller[t].job
            /\ accepted' = accepted + 1
            /\ working' = IF working = "none" THEN "take" ELSE working
  /\ caller' = [caller EXCEPT ![t] = [at |-> "idle", job |-> NoJob]]
  /\ UNCHANGED <<counterfactualVars, active>>

\* The worker takes the job, or ends and says so under the same lock.
Take ==
  /\ working = "take"
  /\ queue # NoJob
  /\ active' = queue
  /\ queue' = NoJob
  /\ working' = "source"
  /\ UNCHANGED <<counterfactualVars, handle, caller, accepted>>

WorkerEnds ==
  /\ working = "take"
  /\ queue = NoJob
  /\ working' = "none"
  /\ UNCHANGED <<counterfactualVars, handle, caller, queue, active, accepted>>

CountActive(key) == handle' = [handle EXCEPT ![active.owner] = Counted(@, key)]

\* _wait_for_source finds the decision before its deadline and runs it.
SourceFound(delimited) ==
  /\ working = "source"
  /\ active.on \in decided
  /\ run' = [run EXCEPT ![Worker] =
       [NoRun EXCEPT !.at = "prepared", !.todo = {active.on}, !.disclosed = {active.on},
          !.blobs = TRUE, !.delimited = delimited, !.inputs = 1]]
  /\ working' = "run"
  /\ UNCHANGED <<decided, reconciled, archive, handle, caller, queue, active, accepted>>

\* The deadline passes, also just as the decision is found; or the store fails.
SourceMissing(key) ==
  /\ working = "source"
  /\ key \in {"source_decision_unavailable", "storage_failure"}
  /\ CountActive(key)
  /\ working' = "finish"
  /\ UNCHANGED <<counterfactualVars, caller, queue, active, accepted>>

\* The one result of the run, as a diagnostic.
DiagnosisOf(failure) ==
  CASE failure = "none" -> "completed"
    [] failure = "provider_timeout" -> "provider_timeout"
    [] failure \in {"provider_failure", "provider_unavailable"} -> "provider_failure"
    [] OTHER -> "parse_failure"

ShadowRecords ==
  /\ working = "run" /\ run[Worker].at = "record"
  /\ IF Accepts(run[Worker].cases)
       THEN /\ archive' = archive \cup {Archived(Worker)}
            /\ \E c \in run[Worker].cases : CountActive(DiagnosisOf(c.failure))
       ELSE CountActive("storage_failure") /\ UNCHANGED archive
  /\ run' = [run EXCEPT ![Worker] = NoRun]
  /\ working' = "finish"
  /\ UNCHANGED <<decided, reconciled, caller, queue, active, accepted>>

ShadowFails ==
  /\ working = "run" /\ run[Worker].at \in {"prepared", "record"}
  /\ CountActive("storage_failure")
  /\ run' = [run EXCEPT ![Worker] = NoRun]
  /\ working' = "finish"
  /\ UNCHANGED <<decided, reconciled, archive, caller, queue, active, accepted>>

\* The finally block: the waiters of shutdown are woken.
Finish ==
  /\ working = "finish"
  /\ handle' = [handle EXCEPT ![active.owner].pending = @ - 1]
  /\ active' = NoJob
  /\ working' = "take"
  /\ UNCHANGED <<counterfactualVars, caller, queue, accepted>>

Shutdown(h) ==
  /\ handle[h].shutdown = "no"
  /\ handle' = [handle EXCEPT ![h].closed = TRUE, ![h].shutdown = "waiting"]
  /\ UNCHANGED <<counterfactualVars, caller, queue, active, working, accepted>>

ShutdownReturns(h) ==
  /\ handle[h].shutdown = "waiting"
  /\ handle[h].pending = 0
  /\ handle' = [handle EXCEPT ![h].shutdown = "drained"]
  /\ UNCHANGED <<counterfactualVars, caller, queue, active, working, accepted>>

ShutdownTimesOut(h) ==
  /\ handle[h].shutdown = "waiting"
  /\ handle[h].pending > 0
  /\ handle' = [handle EXCEPT ![h].shutdown = "timed out"]
  /\ UNCHANGED <<counterfactualVars, caller, queue, active, working, accepted>>

-----------------------------------------------------------------------------
WorkerNext ==
  \/ Take \/ WorkerEnds \/ Finish
  \/ \E delimited \in BOOLEAN : SourceFound(delimited)
  \/ \E key \in Diagnostics : SourceMissing(key)
  \/ ShadowRecords \/ ShadowFails
  \/ RunNext(Worker) /\ UNCHANGED <<handle, caller, queue, active, working, accepted>>

ShadowNext ==
  \/ \E d \in LiveSources : SourceStored(d)
  \/ WorkerNext
  \/ \E t \in Callers, h \in Handles, d \in LiveSources, enabled \in BOOLEAN : Submit(t, h, d, enabled)
  \/ \E t \in Callers :
       \/ \E result \in {"ready", "configuration_unavailable", "egress_not_authorized"} :
            Configure(t, result)
       \/ \E starts \in BOOLEAN : Admit(t, starts)
  \/ \E h \in Handles : Shutdown(h) \/ ShutdownReturns(h) \/ ShutdownTimesOut(h)

ShadowSpec == ShadowInit /\ [][ShadowNext]_shadowVars

-----------------------------------------------------------------------------
ShadowTypeOK ==
  /\ CounterfactualTypeOK
  /\ DOMAIN handle = Handles
  /\ \A h \in Handles : handle[h].closed \in BOOLEAN /\ handle[h].pending \in Nat
  /\ \A t \in Callers : caller[t].job \in Jobs \cup {NoJob}
  /\ {queue, active} \subseteq Jobs \cup {NoJob}
  /\ working \in {"none", "take", "source", "run", "finish"}
  /\ accepted \in Nat

JobsOf(h) == {j \in {<<"queued", queue>>, <<"active", active>>} : j[2] # NoJob /\ j[2].owner = h}

\* A handle whose shutdown drained has no job left, queued or running, although a
\* submit looked at it before it was closed.
NothingAfterShutdown ==
  \A h \in Handles : handle[h].shutdown = "drained" => JobsOf(h) = {}

\* The books of the executor: no job without a worker, a handle waits for its own
\* jobs only, the budget is never exceeded, and every submit is counted once.
ShadowBooksBalance ==
  /\ queue # NoJob => working # "none"
  /\ accepted <= Budget
  /\ \A h \in Handles :
       /\ handle[h].pending = Cardinality(JobsOf(h))
       /\ handle[h].submits =
            SumFunction(handle[h].counts)
              + Cardinality({t \in Callers : caller[t].at # "idle" /\ caller[t].job.owner = h})
              + handle[h].pending
              - IF working = "finish" /\ active.owner = h THEN 1 ELSE 0

\* Both at once.
ShadowKeepsBooks == ShadowBooksBalance /\ NothingAfterShutdown
=============================================================================
