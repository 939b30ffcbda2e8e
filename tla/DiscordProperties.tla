------------------------- MODULE DiscordProperties -------------------------
(***************************************************************************)
(* What the delivery of drift alerts must guarantee, stated over           *)
(* DiscordDelivery.tla.                                                    *)
(***************************************************************************)
EXTENDS DiscordDelivery

\* The history of an alert is a sequence of failures with at most one attempt
\* after them that is pending or succeeded, so no claim or finalization runs
\* into the unique indexes and triggers of the table (repository.py
\* claim_discord_delivery, schema.sql discord_deliveries).
HistoryWellFormed ==
  \A r \in Invocations : \A n \in 1..Len(deliveries[r]) :
    LET attempt == deliveries[r][n] IN
    /\ verdict[r] = "drift_detected"
    /\ n < Len(deliveries[r]) => attempt.status = "failed"
    /\ attempt.status = "failed" <=> attempt.error # "none"

\* Attempts are never removed and a settled one never changes, whoever answers
\* late (repository.py finalize_discord_delivery).
SettledIsFinal ==
  [][\A r \in Invocations :
       /\ Len(deliveries[r]) <= Len(deliveries'[r])
       /\ \A n \in 1..Len(deliveries[r]) :
            /\ deliveries'[r][n].createdAt = deliveries[r][n].createdAt
            /\ deliveries[r][n].status # "pending" => deliveries'[r][n] = deliveries[r][n]]_vars

\* A delivery is recorded only if Discord accepted a request of that very
\* attempt (discord.py deliver_drift_alert).
DeliveredWasAccepted ==
  \A r \in Invocations : \A n \in 1..Len(deliveries[r]) :
    deliveries[r][n].status = "delivered" =>
      \E k \in 1..Len(arrived[r]) : arrived[r][k] = n

\* Both at once: the history can be written, and is true of what Discord took.
HistoryIsTrue == HistoryWellFormed /\ DeliveredWasAccepted

\* The same alert is worked on by one process at a time, unless a claim outlived
\* its lifetime in a process still running (repository.py
\* claim_discord_delivery, against concurrent invocations).
OneSender ==
  \A i, j \in Invocations :
    i # j /\ {proc[i].at, proc[j].at} \subseteq Sending /\ proc[i].run = proc[j].run =>
      proc[i].run \in overdue

\* Discord shows an alert twice only when an accepted request went unnoticed or a
\* claim was overdue (discord.py deliver_drift_alert and recover_drift_alerts,
\* repository.py claim_discord_delivery).
DuplicateNeedsLoss ==
  \A r \in Invocations : Len(arrived[r]) > 1 => r \in unacknowledged \cup overdue

\* An invocation makes at most two requests for each alert it may deliver, those
\* it recovers and its own (README: up to 8 requests for a limit of 3).
BoundedRequests ==
  \A i \in Invocations : requests[i] <= 2 * (RecoverLimit + 1)

\* Both at once: however many invocations recover, an alert has one sender and
\* an invocation its budget.
RecoveryIsContained == OneSender /\ BoundedRequests

\* A recovery never sends an alert nobody attempted before, so a configuration
\* that starts to work does not replay old reports (repository.py
\* recoverable_discord_reports).
OwnerAttemptsFirst ==
  [][\A r \in Invocations :
       deliveries[r] = <<>> /\ deliveries'[r] # <<>> => proc[r].at = "claim"]_vars

\* An invocation ends whatever Discord answers (discord.py deliver_drift_alert's
\* bounded loop, recover_drift_alerts' fixed list).
InvocationsEnd ==
  \A i \in Invocations : proc[i].at = "scan" ~> proc[i].at = "done"

=============================================================================
