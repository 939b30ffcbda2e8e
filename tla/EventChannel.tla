---------------------------- MODULE EventChannel ----------------------------
(***************************************************************************)
(* What the collector promises the code that emits telemetry: a bounded    *)
(* lossy first-in first-out channel in front of one store.  An emitted     *)
(* event is refused once the channel is closed, dropped when there is no   *)
(* room, or accepted; accepted events are settled in acceptance order,     *)
(* each exactly once, as stored or as failed; the channel stops only when  *)
(* it is closed and nothing accepted is left unsettled.                    *)
(*                                                                         *)
(* Collector.tla is shown to implement this specification.                 *)
(***************************************************************************)
EXTENDS Naturals, Sequences

CONSTANTS Events,    \* the events the program may emit
          Room       \* how many accepted events may be unsettled at once

VARIABLES open,      \* does the channel accept events?
          pending,   \* accepted and not yet settled, oldest first
          outcome,   \* none, refused, dropped, pending, written or failed
          stopped    \* has the channel terminated?

channelVars == <<open, pending, outcome, stopped>>

Init ==
  /\ open = TRUE
  /\ pending = <<>>
  /\ outcome = [e \in Events |-> "none"]
  /\ stopped = FALSE

Accept(e) ==
  /\ open
  /\ outcome[e] = "none"
  /\ Len(pending) < Room
  /\ pending' = Append(pending, e)
  /\ outcome' = [outcome EXCEPT ![e] = "pending"]
  /\ UNCHANGED <<open, stopped>>

\* An event is dropped only when every slot is taken; the slot of the event
\* being settled at the moment does not count.
Drop(e) ==
  /\ open
  /\ outcome[e] = "none"
  /\ Len(pending) >= Room - 1
  /\ outcome' = [outcome EXCEPT ![e] = "dropped"]
  /\ UNCHANGED <<open, pending, stopped>>

Refuse(e) ==
  /\ ~open
  /\ outcome[e] = "none"
  /\ outcome' = [outcome EXCEPT ![e] = "refused"]
  /\ UNCHANGED <<open, pending, stopped>>

Settle ==
  /\ pending # <<>>
  /\ \E o \in {"written", "failed"} :
        outcome' = [outcome EXCEPT ![Head(pending)] = o]
  /\ pending' = Tail(pending)
  /\ UNCHANGED <<open, stopped>>

Close ==
  /\ open
  /\ open' = FALSE
  /\ UNCHANGED <<pending, outcome, stopped>>

Stop ==
  /\ ~open
  /\ pending = <<>>
  /\ ~stopped
  /\ stopped' = TRUE
  /\ UNCHANGED <<open, pending, outcome>>

Next ==
  \/ \E e \in Events : Accept(e) \/ Drop(e) \/ Refuse(e)
  \/ Settle
  \/ Close
  \/ Stop

Spec ==
  /\ Init
  /\ [][Next]_channelVars
  /\ WF_channelVars(Settle)
  /\ WF_channelVars(Stop)

=============================================================================
