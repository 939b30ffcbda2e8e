-------------------------- MODULE DiscordDelivery --------------------------
(***************************************************************************)
(* glassbox.eval.discord with the discord_deliveries table: every          *)
(* invocation of the drift monitor is a process of its own that persists   *)
(* one drift run and, when drift was detected, retries the recoverable     *)
(* alerts of earlier runs and then sends its own.  Processes share only    *)
(* the database; a claim in it reserves a delivery before the request.     *)
(* Each action is one repository transaction or one half of a request.     *)
(* One agent, one destination; timestamps come from one monotone clock.    *)
(***************************************************************************)
EXTENDS Naturals, Sequences, FiniteSets

CONSTANTS
  NumInvocations,  \* invocations of the monitor, of this and of earlier days
  InspectLimit,    \* recent runs a recovery looks at (100)
  RecoverLimit,    \* alerts a recovery retries (3)
  StaleAfter,      \* lifetime of a claim (30 seconds)
  MaxTime,         \* bound of the clock
  Faults           \* what may go wrong besides Discord's answers

ASSUME LimitAssumption ==
  /\ NumInvocations \in Nat /\ InspectLimit \in Nat /\ RecoverLimit \in Nat
  /\ StaleAfter \in Nat \ {0}
  /\ MaxTime \in Nat
ASSUME FaultAssumption == Faults \subseteq {"crash", "store"}

\* Invocation i persists drift run i; runs are numbered in the order of as_of,
\* which need not be the order in which concurrent invocations persist them.
Invocations == 1..NumInvocations

VARIABLES
  now,             \* the clock
  verdict,         \* drift_runs.status per run, "absent" without a row
  deliveries,      \* the discord_deliveries rows of each run, by attempt_number
  proc,            \* per invocation: where it is, with its locals
  arrived,         \* history: the attempts whose request Discord accepted, per run
  unacknowledged,  \* history: runs with an accepted request nobody learned about
  overdue,         \* history: runs whose stale claim was taken from a live sender
  requests         \* history: requests made by each invocation

historyVars == <<arrived, unacknowledged, overdue, requests>>
vars == <<now, verdict, deliveries, proc, historyVars>>

\* error_category: http_4xx is final, transient stands for transport_error,
\* http_429 and http_5xx, which are retried alike.
Errors == {"stale_claim", "transient", "http_4xx"}
Attempts == [status : {"pending", "delivered", "failed"},
             error : Errors \cup {"none"},
             createdAt : 0..MaxTime]
Sending == {"post", "answer", "finalize"}
Procs == [at : {"absent", "scan", "claim", "done"} \cup Sending,
          todo : SUBSET Invocations,       \* recovered runs left, this one included
          run : 0..NumInvocations,         \* the run whose alert it sends, 0 if none
          number : Nat,
          retried : BOOLEAN,
          error : Errors \cup {"none"}]

\* An invocation between two deliveries.
At(pc, runs) ==
  [at |-> pc, todo |-> runs, run |-> 0, number |-> 0, retried |-> FALSE, error |-> "none"]

TypeOK ==
  /\ now \in 0..MaxTime
  /\ verdict \in [Invocations -> {"absent", "quiet", "drift_detected"}]
  /\ deliveries \in [Invocations -> Seq(Attempts)]
  /\ proc \in [Invocations -> Procs]
  /\ \A i \in Invocations : proc[i].at \in Sending => proc[i].run # 0 /\ proc[i].number > 0
  /\ arrived \in [Invocations -> Seq(Nat)]
  /\ unacknowledged \subseteq Invocations
  /\ overdue \subseteq Invocations
  /\ requests \in [Invocations -> Nat]

Init ==
  /\ now = 0
  /\ verdict = [r \in Invocations |-> "absent"]
  /\ deliveries = [r \in Invocations |-> <<>>]
  /\ proc = [i \in Invocations |-> At("absent", {})]
  /\ arrived = [r \in Invocations |-> <<>>]
  /\ unacknowledged = {}
  /\ overdue = {}
  /\ requests = [i \in Invocations |-> 0]

-----------------------------------------------------------------------------
(* What the queries of the repository answer.                              *)

\* A pending row is an active claim while it is younger than its lifetime.
Active(attempt) == attempt.status = "pending" /\ now - attempt.createdAt < StaleAfter

\* A claim is refused for a delivered run and while another claim is active.
ActiveClaim(r) == \E n \in 1..Len(deliveries[r]) : Active(deliveries[r][n])
Delivered(r) == \E n \in 1..Len(deliveries[r]) : deliveries[r][n].status = "delivered"
OnlyDelivered(r) == Delivered(r)                          \* mutant: ignores active claims
OnlyActive(r) == ActiveClaim(r)                           \* mutant: ignores deliveries
Suppressed(r) == Delivered(r) \/ ActiveClaim(r)

\* The limit newest runs of S.
NewestOf(S, limit) == {r \in S : Cardinality({q \in S : q > r}) < limit}

\* recoverable_discord_reports, asked by invocation i: of the recent runs those
\* with drift whose latest attempt neither succeeded nor is still active.
WithoutAttempts(i) ==  \* mutant: also takes the alerts nobody ever attempted
  LET Others == {r \in Invocations \ {i} : verdict[r] # "absent"} IN
  NewestOf({r \in NewestOf(Others, InspectLimit) :
              verdict[r] = "drift_detected" /\ ~Suppressed(r)}, RecoverLimit)
Recoverable(i) ==
  LET Others == {r \in Invocations \ {i} : verdict[r] # "absent"}
      Latest(r) == deliveries[r][Len(deliveries[r])]
  IN
  NewestOf({r \in NewestOf(Others, InspectLimit) :
              /\ verdict[r] = "drift_detected"
              /\ deliveries[r] # <<>>
              /\ Latest(r).status # "delivered"
              /\ ~Active(Latest(r))},
           RecoverLimit)

-----------------------------------------------------------------------------
(* The locals of an invocation.                                            *)

\* Recovered runs come first, newest first, its own run comes last.
IsNext(i, r) ==
  IF proc[i].todo = {} THEN r = i
  ELSE r \in proc[i].todo /\ \A q \in proc[i].todo : r >= q

\* On to what follows run r.
After(i, r) ==
  IF proc[i].todo = {} THEN At("done", {}) ELSE At("claim", proc[i].todo \ {r})

\* After a request without success: one retry, but none of a refused payload.
\* The wait before it belongs to the request.
Retries(p, error) == error # "http_4xx" /\ ~p.retried

AfterError(p, error) ==
  IF Retries(p, error) THEN [p EXCEPT !.at = "post", !.retried = TRUE]
  ELSE [p EXCEPT !.at = "finalize", !.error = error]

RequestsAfter(i, error) ==
  IF Retries(proc[i], error) THEN [requests EXCEPT ![i] = @ + 1] ELSE requests

\* Does a claim of r now take a stale one from an invocation still at work on it?
Overtakes(r) ==
  /\ ~ActiveClaim(r)
  /\ \E j \in Invocations :
       proc[j].at \in Sending /\ proc[j].run = r /\ proc[j].number = Len(deliveries[r])

-----------------------------------------------------------------------------
(* The actions of invocation i.                                            *)

\* The drift run is durable before any delivery.
Persist(i) ==
  /\ proc[i].at = "absent"
  /\ \E v \in {"quiet", "drift_detected"} :
       /\ verdict' = [verdict EXCEPT ![i] = v]
       /\ proc' = [proc EXCEPT ![i] = At(IF v = "quiet" THEN "done" ELSE "scan", {})]
  /\ UNCHANGED <<now, deliveries, historyVars>>

\* recover_drift_alerts fixes its list of runs once.
Scan(i) ==
  /\ proc[i].at = "scan"
  /\ proc' = [proc EXCEPT ![i] = At("claim", Recoverable(i))]
  /\ UNCHANGED <<now, verdict, deliveries, historyVars>>

\* claim_discord_delivery answers already_delivered or in_progress.
Skip(i, r) ==
  /\ proc[i].at = "claim" /\ IsNext(i, r)
  /\ Suppressed(r)
  /\ proc' = [proc EXCEPT ![i] = After(i, r)]
  /\ UNCHANGED <<now, verdict, deliveries, historyVars>>

\* claim_discord_delivery fails a stale claim and inserts the next attempt, in
\* one transaction; the first request goes out.
ExpireNothing(r) == deliveries[r]                         \* mutant: keeps the stale claim
ExpireStale(r) ==
  [n \in 1..Len(deliveries[r]) |->
     IF deliveries[r][n].status = "pending"
     THEN [deliveries[r][n] EXCEPT !.status = "failed", !.error = "stale_claim"]
     ELSE deliveries[r][n]]

Claim(i, r) ==
  /\ proc[i].at = "claim" /\ IsNext(i, r)
  /\ ~Suppressed(r)
  /\ deliveries' = [deliveries EXCEPT ![r] =
       Append(ExpireStale(r), [status |-> "pending", error |-> "none", createdAt |-> now])]
  /\ proc' = [proc EXCEPT ![i].at = "post", ![i].run = r, ![i].number = Len(deliveries[r]) + 1]
  /\ overdue' = IF Overtakes(r) THEN overdue \cup {r} ELSE overdue
  /\ requests' = [requests EXCEPT ![i] = @ + 1]
  /\ UNCHANGED <<now, verdict, arrived, unacknowledged>>

\* Discord accepts the request and posts the message; the answer is on its way.
Accepted(i) ==
  /\ proc[i].at = "post"
  /\ proc' = [proc EXCEPT ![i].at = "answer"]
  /\ arrived' = [arrived EXCEPT ![proc[i].run] = Append(@, proc[i].number)]
  /\ UNCHANGED <<now, verdict, deliveries, unacknowledged, overdue, requests>>

\* Discord answers with an error status, or the request never gets there.
NotAccepted(i) ==
  /\ proc[i].at = "post"
  /\ \E error \in Errors \ {"stale_claim"} :
       /\ proc' = [proc EXCEPT ![i] = AfterError(@, error)]
       /\ requests' = RequestsAfter(i, error)
  /\ UNCHANGED <<now, verdict, deliveries, arrived, unacknowledged, overdue>>

AnswerArrives(i) ==
  /\ proc[i].at = "answer"
  /\ proc' = [proc EXCEPT ![i].at = "finalize", ![i].error = "none"]
  /\ UNCHANGED <<now, verdict, deliveries, historyVars>>

\* The deadline passes, or the connection breaks, before the answer is read; a
\* gateway may also answer for Discord.
AnswerLost(i) ==
  /\ proc[i].at = "answer"
  /\ proc' = [proc EXCEPT ![i] = AfterError(@, "transient")]
  /\ requests' = RequestsAfter(i, "transient")
  /\ unacknowledged' = unacknowledged \cup {proc[i].run}
  /\ UNCHANGED <<now, verdict, deliveries, arrived, overdue>>

\* finalize_discord_delivery settles the attempt while it is still pending; for
\* one that another invocation declared stale it raises, and the caller goes on.
AnyAttempt(attempt) == TRUE                               \* mutant: rewrites settled attempts
Finalizable(attempt) == attempt.status = "pending"

ErrorAsStatus(p) ==                                       \* mutant: writes the category
  IF p.error = "none" THEN "delivered" ELSE p.error
FinalStatus(p) == IF p.error = "none" THEN "delivered" ELSE "failed"

FinalizeAgain(i) ==  \* mutant: repeats a refused finalization
  LET r == proc[i].run
      n == proc[i].number
  IN
  /\ proc[i].at = "finalize"
  /\ Finalizable(deliveries[r][n])
  /\ deliveries' = [deliveries EXCEPT ![r][n].status = FinalStatus(proc[i]),
                                     ![r][n].error = proc[i].error]
  /\ proc' = [proc EXCEPT ![i] = After(i, r)]
  /\ UNCHANGED <<now, verdict, historyVars>>

Finalize(i) ==
  LET r == proc[i].run
      n == proc[i].number
  IN
  /\ proc[i].at = "finalize"
  /\ deliveries' = IF Finalizable(deliveries[r][n])
                   THEN [deliveries EXCEPT ![r][n].status = FinalStatus(proc[i]),
                                           ![r][n].error = proc[i].error]
                   ELSE deliveries
  /\ proc' = [proc EXCEPT ![i] = After(i, r)]
  /\ UNCHANGED <<now, verdict, historyVars>>

\* The request was accepted and its sender gives up before it says so.
Forgets(i) == proc[i].at = "answer" \/ (proc[i].at = "finalize" /\ proc[i].error = "none")
WithForgotten(i) ==
  IF Forgets(i) THEN unacknowledged \cup {proc[i].run} ELSE unacknowledged

\* A repository call raises, for instance on a locked database.  A recovered
\* alert is skipped, a failed query ends the invocation's deliveries.
StoreFails(i) ==
  /\ "store" \in Faults
  /\ \/ /\ proc[i].at = "scan"
        /\ proc' = [proc EXCEPT ![i] = At("done", {})]
     \/ \E r \in Invocations :
          /\ \/ proc[i].at = "claim" /\ IsNext(i, r)
             \/ proc[i].at = "finalize" /\ r = proc[i].run
          /\ proc' = [proc EXCEPT ![i] = After(i, r)]
  /\ unacknowledged' = WithForgotten(i)
  /\ UNCHANGED <<now, verdict, deliveries, arrived, overdue, requests>>

\* The process is killed; a request it has sent may still be accepted.
Crash(i) ==
  /\ "crash" \in Faults
  /\ proc[i].at \in {"scan", "claim"} \cup Sending
  /\ proc' = [proc EXCEPT ![i] = At("done", {})]
  /\ \/ /\ unacknowledged' = WithForgotten(i)
        /\ UNCHANGED arrived
     \/ /\ proc[i].at = "post"
        /\ arrived' = [arrived EXCEPT ![proc[i].run] = Append(@, proc[i].number)]
        /\ unacknowledged' = unacknowledged \cup {proc[i].run}
  /\ UNCHANGED <<now, verdict, deliveries, overdue, requests>>

\* Time passes, also while a process is suspended in the middle of a delivery.
Tick ==
  /\ now < MaxTime
  /\ now' = now + 1
  /\ UNCHANGED <<verdict, deliveries, proc, historyVars>>

-----------------------------------------------------------------------------

Continue(i) ==
  \/ Scan(i)
  \/ \E r \in Invocations : Skip(i, r) \/ Claim(i, r)
  \/ Accepted(i) \/ NotAccepted(i) \/ AnswerArrives(i) \/ AnswerLost(i)
  \/ Finalize(i)

\* Every invocation is over.
Finished ==
  /\ \A i \in Invocations : proc[i].at = "done"
  /\ UNCHANGED vars

Next ==
  \/ \E i \in Invocations : Persist(i) \/ Continue(i) \/ StoreFails(i) \/ Crash(i)
  \/ Tick
  \/ Finished

\* A process that runs goes on: its requests and waits have deadlines.
Fairness == \A i \in Invocations : WF_vars(Continue(i))

Spec == Init /\ [][Next]_vars /\ Fairness

=============================================================================
