--------------------------- MODULE DiscordProofs ---------------------------
(***************************************************************************)
(* Theorems about the delivery of drift alerts for any number of           *)
(* concurrent invocations, any limits and every fault.                     *)
(***************************************************************************)
EXTENDS DiscordProperties, FiniteSetTheorems, SequenceTheorems, TLAPS

LEMMA RunsAreFinite ==
  /\ Invocations \subseteq Nat
  /\ IsFiniteSet(Invocations)
BY LimitAssumption, FS_Interval DEF Invocations

\* Expiring a stale claim changes no attempt but the pending one.
LEMMA ExpireStaleKeeps ==
  ASSUME TypeOK, NEW r \in Invocations
  PROVE  /\ ExpireStale(r) \in Seq(Attempts)
         /\ Len(ExpireStale(r)) = Len(deliveries[r])
         /\ \A n \in 1..Len(deliveries[r]) :
              /\ ExpireStale(r)[n].createdAt = deliveries[r][n].createdAt
              /\ ExpireStale(r)[n] =
                   IF deliveries[r][n].status = "pending"
                   THEN [deliveries[r][n] EXCEPT !.status = "failed", !.error = "stale_claim"]
                   ELSE deliveries[r][n]
<1> DEFINE s == deliveries[r]
           Expired(a) == IF a.status = "pending"
                         THEN [a EXCEPT !.status = "failed", !.error = "stale_claim"]
                         ELSE a
<1>1. s \in Seq(Attempts)
  BY DEF TypeOK
<1>2. Len(s) \in Nat /\ \A n \in 1..Len(s) : s[n] \in Attempts
  BY <1>1
<1>3. \A a \in Attempts : Expired(a) \in Attempts /\ Expired(a).createdAt = a.createdAt
  BY DEF Attempts, Errors
<1>4. ExpireStale(r) = [n \in 1..Len(s) |-> Expired(s[n])]
  BY DEF ExpireStale
<1> HIDE DEF Expired
<1>5. ExpireStale(r) \in [1..Len(s) -> Attempts]
  BY <1>2, <1>3, <1>4
<1>6. ExpireStale(r) \in Seq(Attempts) /\ Len(ExpireStale(r)) = Len(s)
  BY <1>2, <1>5, SeqDef
<1>7. \A n \in 1..Len(s) : ExpireStale(r)[n] = Expired(s[n])
  BY <1>4
<1> QED BY <1>2, <1>3, <1>6, <1>7 DEF Expired

\* Rewriting an attempt of a history keeps its shape.
LEMMA RewriteKeeps ==
  ASSUME NEW S, NEW s \in Seq(S), NEW n, NEW a, n \in 1..Len(s) => a \in S
  PROVE  /\ [s EXCEPT ![n] = a] \in Seq(S)
         /\ Len([s EXCEPT ![n] = a]) = Len(s)
<1> DEFINE t == [s EXCEPT ![n] = a]
<1>1. t \in [1..Len(s) -> S]
  <2>1. s \in [1..Len(s) -> S]
    OBVIOUS
  <2> QED BY <2>1
<1>2. Len(s) \in Nat
  OBVIOUS
<1> HIDE DEF t
<1>3. t \in Seq(S)
  BY <1>1, <1>2, SeqDef
<1>4. Len(t) = Len(s)
  BY <1>1, <1>2, <1>3
<1> QED BY <1>3, <1>4 DEF t

-----------------------------------------------------------------------------
(* Types.                                                                  *)

LEMMA AtType ==
  ASSUME NEW pc \in {"absent", "scan", "claim", "done"}, NEW runs \in SUBSET Invocations
  PROVE  At(pc, runs) \in Procs
BY LimitAssumption DEF At, Procs

LEMMA AfterType ==
  ASSUME TypeOK, NEW i \in Invocations, NEW r
  PROVE  After(i, r) \in Procs /\ After(i, r).at \notin Sending
BY AtType DEF After, TypeOK, Procs, At, Sending

LEMMA AfterErrorType ==
  ASSUME NEW p \in Procs, NEW error \in Errors
  PROVE  /\ AfterError(p, error) \in Procs
         /\ AfterError(p, error).run = p.run /\ AfterError(p, error).number = p.number
         /\ AfterError(p, error).todo = p.todo
BY DEF AfterError, Procs, Sending

ProcType ==
  /\ proc \in [Invocations -> Procs]
  /\ \A i \in Invocations : proc[i].at \in Sending => proc[i].run # 0 /\ proc[i].number > 0

\* A step of one invocation keeps the type of all of them.
LEMMA ProcUpdate ==
  ASSUME TypeOK, NEW i \in Invocations, NEW p \in Procs,
         p.at \in Sending => p.run # 0 /\ p.number > 0,
         proc' = [proc EXCEPT ![i] = p]
  PROVE  ProcType'
BY DEF TypeOK, ProcType

LEMMA SendingType ==
  ASSUME TypeOK, NEW i \in Invocations, proc[i].at \in Sending
  PROVE  /\ proc[i].run \in Invocations
         /\ proc[i].number \in Nat /\ proc[i].number > 0
         /\ proc[i].error \in Errors \cup {"none"}
         /\ proc[i].retried \in BOOLEAN
BY LimitAssumption DEF TypeOK, Procs, Invocations

LEMMA ForgottenType ==
  ASSUME TypeOK, NEW i \in Invocations
  PROVE  WithForgotten(i) \subseteq Invocations
<1>1. CASE Forgets(i)
  <2>1. proc[i].run \in Invocations
    BY <1>1, SendingType DEF Forgets, Sending
  <2> QED BY <2>1 DEF WithForgotten, TypeOK
<1>2. CASE ~Forgets(i)
  BY <1>2 DEF WithForgotten, TypeOK
<1> QED BY <1>1, <1>2

LEMMA TypeInit == Init => TypeOK
BY LimitAssumption, AtType DEF Init, TypeOK, At, Sending

LEMMA TypeStep == TypeOK /\ [Next]_vars => TypeOK'
<1> SUFFICES ASSUME TypeOK, [Next]_vars PROVE TypeOK'
  OBVIOUS
<1>1. ASSUME NEW i \in Invocations, Persist(i) PROVE TypeOK'
  <2>1. PICK v \in {"quiet", "drift_detected"} :
          /\ verdict' = [verdict EXCEPT ![i] = v]
          /\ proc' = [proc EXCEPT ![i] = At(IF v = "quiet" THEN "done" ELSE "scan", {})]
    BY <1>1 DEF Persist
  <2> DEFINE pc == IF v = "quiet" THEN "done" ELSE "scan"
  <2>4. At(pc, {}) \in Procs /\ At(pc, {}).at \notin Sending
    BY AtType DEF At, Sending
  <2>2. ProcType'
    BY <2>1, <2>4, ProcUpdate
  <2>3. verdict' \in [Invocations -> {"absent", "quiet", "drift_detected"}]
    BY <2>1 DEF TypeOK
  <2> QED BY <1>1, <2>2, <2>3 DEF TypeOK, Persist, historyVars, ProcType
<1>2. ASSUME NEW i \in Invocations, Scan(i) PROVE TypeOK'
  <2>1. At("claim", Recoverable(i)) \in Procs
    BY AtType DEF Recoverable, NewestOf
  <2>2. ProcType'
    BY <1>2, <2>1, ProcUpdate DEF Scan, At, Sending
  <2> QED BY <1>2, <2>2 DEF TypeOK, Scan, historyVars, ProcType
<1>3. ASSUME NEW i \in Invocations, NEW r \in Invocations, Skip(i, r) PROVE TypeOK'
  <2>1. ProcType'
    BY <1>3, AfterType, ProcUpdate DEF Skip
  <2> QED BY <1>3, <2>1 DEF TypeOK, Skip, historyVars, ProcType
<1>4. ASSUME NEW i \in Invocations, NEW r \in Invocations, Claim(i, r) PROVE TypeOK'
  <2>1. [status |-> "pending", error |-> "none", createdAt |-> now] \in Attempts
    BY DEF TypeOK, Attempts
  <2>8. ExpireStale(r) \in Seq(Attempts)
    BY ExpireStaleKeeps
  <2> DEFINE h == Append(ExpireStale(r),
                         [status |-> "pending", error |-> "none", createdAt |-> now])
  <2>9. h \in Seq(Attempts)
    BY <2>1, <2>8
  <2>10. deliveries' = [deliveries EXCEPT ![r] = h]
    BY <1>4 DEF Claim
  <2>2. deliveries' \in [Invocations -> Seq(Attempts)]
    <3> HIDE DEF h
    <3> QED BY <2>9, <2>10 DEF TypeOK
  <2>3. Len(deliveries[r]) + 1 \in Nat /\ Len(deliveries[r]) + 1 > 0
    BY DEF TypeOK
  <2> DEFINE m == Len(deliveries[r]) + 1
             p == [proc[i] EXCEPT !.at = "post", !.run = r, !.number = m]
  <2>4. p \in Procs /\ p.run # 0 /\ p.number > 0
    <3>1. proc[i] \in Procs
      BY DEF TypeOK
    <3>2. r \in 0..NumInvocations /\ r # 0
      BY LimitAssumption DEF Invocations
    <3>3. m \in Nat /\ m > 0
      BY <2>3
    <3> HIDE DEF m
    <3> QED BY <3>1, <3>2, <3>3 DEF Procs, Sending
  <2>5. proc' = [proc EXCEPT ![i] = p]
    BY <1>4 DEF Claim, TypeOK
  <2>6. ProcType'
    BY <2>4, <2>5, ProcUpdate
  <2>7. overdue' \subseteq Invocations /\ requests' \in [Invocations -> Nat]
    BY <1>4 DEF Claim, TypeOK
  <2> QED BY <1>4, <2>2, <2>6, <2>7 DEF Claim, TypeOK, ProcType
<1>5. ASSUME NEW i \in Invocations, Accepted(i) PROVE TypeOK'
  <2>1. proc[i].run \in Invocations /\ proc[i].number \in Nat
    BY <1>5, SendingType DEF Accepted, Sending
  <2> DEFINE p == [proc[i] EXCEPT !.at = "answer"]
  <2>2. p \in Procs /\ p.run # 0 /\ p.number > 0
    BY <1>5 DEF Accepted, TypeOK, Procs, Sending
  <2>3. ProcType'
    BY <1>5, <2>2, ProcUpdate DEF Accepted, TypeOK
  <2>4. arrived' \in [Invocations -> Seq(Nat)]
    BY <1>5, <2>1 DEF Accepted, TypeOK
  <2> QED BY <1>5, <2>3, <2>4 DEF Accepted, TypeOK, ProcType
<1>6. ASSUME NEW i \in Invocations, NEW error \in Errors,
             proc[i].at \in Sending,
             proc' = [proc EXCEPT ![i] = AfterError(@, error)],
             requests' = RequestsAfter(i, error)
      PROVE  ProcType' /\ requests' \in [Invocations -> Nat]
  <2>1. AfterError(proc[i], error) \in Procs
        /\ AfterError(proc[i], error).run # 0 /\ AfterError(proc[i], error).number > 0
    <3>1. proc[i] \in Procs /\ proc[i].run # 0 /\ proc[i].number > 0
      BY <1>6 DEF TypeOK
    <3> QED BY <3>1, AfterErrorType
  <2>2. ProcType'
    BY <1>6, <2>1, ProcUpdate
  <2>3. requests' \in [Invocations -> Nat]
    BY <1>6 DEF TypeOK, RequestsAfter
  <2> QED BY <2>2, <2>3
<1>7. ASSUME NEW i \in Invocations, NotAccepted(i) PROVE TypeOK'
  <2>1. PICK error \in Errors : proc' = [proc EXCEPT ![i] = AfterError(@, error)]
                                /\ requests' = RequestsAfter(i, error)
    BY <1>7 DEF NotAccepted, Errors
  <2>2. ProcType' /\ requests' \in [Invocations -> Nat]
    BY <1>6, <1>7, <2>1 DEF NotAccepted, Sending
  <2> QED BY <1>7, <2>2 DEF NotAccepted, TypeOK, ProcType
<1>8. ASSUME NEW i \in Invocations, AnswerArrives(i) PROVE TypeOK'
  <2> DEFINE p == [proc[i] EXCEPT !.at = "finalize", !.error = "none"]
  <2>1. p \in Procs /\ p.run # 0 /\ p.number > 0
    BY <1>8 DEF AnswerArrives, TypeOK, Procs, Sending
  <2>2. proc' = [proc EXCEPT ![i] = p]
    BY <1>8 DEF AnswerArrives, TypeOK
  <2>3. ProcType'
    BY <2>1, <2>2, ProcUpdate
  <2> QED BY <1>8, <2>3 DEF AnswerArrives, TypeOK, historyVars, ProcType
<1>9. ASSUME NEW i \in Invocations, AnswerLost(i) PROVE TypeOK'
  <2>1. "transient" \in Errors BY DEF Errors
  <2>2. proc[i].run \in Invocations
    BY <1>9, SendingType DEF AnswerLost, Sending
  <2>3. ProcType' /\ requests' \in [Invocations -> Nat]
    BY <1>6, <1>9, <2>1 DEF AnswerLost, Sending
  <2> QED BY <1>9, <2>2, <2>3 DEF AnswerLost, TypeOK, ProcType
<1>10. ASSUME NEW i \in Invocations, Finalize(i) PROVE TypeOK'
  <2> DEFINE r == proc[i].run
             n == proc[i].number
             a == [deliveries[r][n] EXCEPT !.status = FinalStatus(proc[i]), !.error = proc[i].error]
  <2>1. r \in Invocations /\ proc[i].error \in Errors \cup {"none"}
    BY <1>10, SendingType DEF Finalize, Sending
  <2>3. deliveries[r] \in Seq(Attempts)
    BY <2>1 DEF TypeOK
  <2>4. [deliveries[r] EXCEPT ![n] = a] \in Seq(Attempts)
    <3>1. ASSUME n \in 1..Len(deliveries[r]) PROVE a \in Attempts
      <4>1. deliveries[r][n] \in Attempts
        BY <2>3, <3>1
      <4> QED BY <2>1, <4>1 DEF Attempts, FinalStatus
    <3> HIDE DEF a
    <3> QED BY <2>3, <3>1, RewriteKeeps
  <2>5. \/ deliveries' = [deliveries EXCEPT ![r] = [deliveries[r] EXCEPT ![n] = a]]
        \/ deliveries' = deliveries
    <3>1. deliveries \in [Invocations -> Seq(Attempts)]
      BY DEF TypeOK
    <3>2. CASE deliveries' = [deliveries EXCEPT ![r][n].status = FinalStatus(proc[i]),
                                               ![r][n].error = proc[i].error]
      BY <2>1, <3>1, <3>2
    <3>3. CASE deliveries' = deliveries
      BY <3>3
    <3> QED BY <1>10, <3>2, <3>3 DEF Finalize
  <2>6. deliveries' \in [Invocations -> Seq(Attempts)]
    BY <2>4, <2>5 DEF TypeOK
  <2>7. ProcType'
    BY <1>10, AfterType, ProcUpdate DEF Finalize
  <2> QED BY <1>10, <2>6, <2>7 DEF Finalize, TypeOK, historyVars, ProcType
<1>11. ASSUME NEW i \in Invocations, StoreFails(i) PROVE TypeOK'
  <2>1. PICK p \in Procs : proc' = [proc EXCEPT ![i] = p] /\ p.at \notin Sending
    BY <1>11, AfterType, AtType DEF StoreFails, At, Sending
  <2>2. ProcType'
    BY <2>1, ProcUpdate
  <2> QED BY <1>11, <2>2, ForgottenType DEF StoreFails, TypeOK, ProcType
<1>12. ASSUME NEW i \in Invocations, Crash(i) PROVE TypeOK'
  <2>1. At("done", {}) \in Procs /\ At("done", {}).at \notin Sending
    BY AtType DEF At, Sending
  <2>2. ProcType'
    BY <1>12, <2>1, ProcUpdate DEF Crash
  <2>3. CASE unacknowledged' = WithForgotten(i) /\ UNCHANGED arrived
    BY <1>12, <2>2, <2>3, ForgottenType DEF Crash, TypeOK, ProcType
  <2>4. CASE /\ proc[i].at = "post"
             /\ arrived' = [arrived EXCEPT ![proc[i].run] = Append(@, proc[i].number)]
             /\ unacknowledged' = unacknowledged \cup {proc[i].run}
    <3>1. proc[i].run \in Invocations /\ proc[i].number \in Nat
      BY <2>4, SendingType DEF Sending
    <3>2. arrived' \in [Invocations -> Seq(Nat)] /\ unacknowledged' \subseteq Invocations
      BY <2>4, <3>1 DEF TypeOK
    <3> QED BY <1>12, <2>2, <3>2 DEF Crash, TypeOK, ProcType
  <2> QED BY <1>12, <2>3, <2>4 DEF Crash
<1>13. ASSUME Tick PROVE TypeOK'
  BY <1>13, LimitAssumption DEF Tick, TypeOK, historyVars
<1>14. ASSUME UNCHANGED vars PROVE TypeOK'
  BY <1>14 DEF vars, historyVars, TypeOK
<1> QED BY <1>1, <1>2, <1>3, <1>4, <1>5, <1>7, <1>8, <1>9, <1>10, <1>11, <1>12, <1>13, <1>14
        DEF Next, Continue, Finished

\* Every reachable state is well typed, and an invocation in the middle of a
\* delivery knows its run and its attempt (discord.py deliver_drift_alert).
THEOREM TypeCorrect == Spec => []TypeOK
BY TypeInit, TypeStep, PTL DEF Spec

-----------------------------------------------------------------------------
(* The inductive invariant.                                                *)

\* An invocation that works on alerts has its own drift run on disk, recovers
\* only alerts that were attempted before, and holds an attempt that exists.
ClaimInv ==
  \A i \in Invocations :
    /\ proc[i].at = "absent" => verdict[i] = "absent"
    /\ proc[i].at \in {"scan", "claim"} \cup Sending => verdict[i] = "drift_detected"
    /\ proc[i].at \in {"claim"} \cup Sending =>
         \A r \in proc[i].todo : verdict[r] = "drift_detected" /\ deliveries[r] # <<>>
    /\ proc[i].at \in Sending => proc[i].number \in 1..Len(deliveries[proc[i].run])

\* While no claim of its run was overdue a sender holds the latest attempt, and
\* nobody settled it.
FreshInv ==
  \A i \in Invocations :
    proc[i].at \in Sending /\ proc[i].run \notin overdue =>
      /\ proc[i].number = Len(deliveries[proc[i].run])
      /\ deliveries[proc[i].run][proc[i].number].status = "pending"

\* Who knows of an accepted request has the proof of it among those accepted.
AcceptInv ==
  \A i \in Invocations :
    Forgets(i) => \E k \in 1..Len(arrived[proc[i].run]) :
                    arrived[proc[i].run][k] = proc[i].number

\* Without a loss the one accepted request is recorded as a delivery or about to be.
ArrivedInv ==
  \A r \in Invocations \ (unacknowledged \cup overdue) :
    /\ Len(arrived[r]) <= 1
    /\ arrived[r] # <<>> =>
         Delivered(r) \/ \E i \in Invocations : Forgets(i) /\ proc[i].run = r

IInv ==
  /\ TypeOK
  /\ ClaimInv
  /\ HistoryWellFormed
  /\ FreshInv
  /\ OneSender
  /\ AcceptInv
  /\ DeliveredWasAccepted
  /\ ArrivedInv

\* What a step of invocation i that writes no row may do: it continues as p.
Knows(p) == p.at = "answer" \/ (p.at = "finalize" /\ p.error = "none")

Moves(i, p) ==
  /\ proc' = [proc EXCEPT ![i] = p]
  /\ UNCHANGED <<verdict, deliveries, arrived, overdue>>
  /\ unacknowledged \subseteq unacknowledged'
  /\ p.at # "absent"
  /\ p.at \in {"scan", "claim"} \cup Sending => verdict[i] = "drift_detected"
  /\ p.at \in {"claim"} \cup Sending =>
       \A r \in p.todo : verdict[r] = "drift_detected" /\ deliveries[r] # <<>>
  /\ p.at \in Sending =>
       proc[i].at \in Sending /\ p.run = proc[i].run /\ p.number = proc[i].number
  /\ Knows(p) => Forgets(i)
  /\ Forgets(i) => Knows(p) \/ proc[i].run \in unacknowledged' \cup overdue

LEMMA MoveKeeps ==
  ASSUME IInv, TypeOK', NEW i \in Invocations, NEW p \in Procs, Moves(i, p)
  PROVE  IInv'
<1>1. \A j \in Invocations : proc'[j] = IF j = i THEN p ELSE proc[j]
  BY DEF Moves, IInv, TypeOK
<1>2. verdict' = verdict /\ deliveries' = deliveries /\ arrived' = arrived /\ overdue' = overdue
  BY DEF Moves
<1>3. \A j \in Invocations : proc'[j].at \in Sending =>
        /\ proc[j].at \in Sending
        /\ proc'[j].run = proc[j].run /\ proc'[j].number = proc[j].number
  BY <1>1 DEF Moves
<1>4. \A j \in Invocations : Forgets(j)' => Forgets(j) /\ proc'[j].at \in Sending
  BY <1>1 DEF Moves, Forgets, Knows, Sending
<1>5. ClaimInv'
  BY <1>1, <1>2, <1>3 DEF Moves, IInv, ClaimInv
<1>6. HistoryWellFormed'
  BY <1>2 DEF IInv, HistoryWellFormed
<1>7. FreshInv'
  BY <1>2, <1>3 DEF IInv, FreshInv
<1>8. OneSender'
  BY <1>2, <1>3 DEF IInv, OneSender
<1>9. AcceptInv'
  BY <1>2, <1>3, <1>4 DEF IInv, AcceptInv
<1>10. DeliveredWasAccepted'
  BY <1>2 DEF IInv, DeliveredWasAccepted
<1>11. ArrivedInv'
  <2> SUFFICES ASSUME NEW r \in Invocations \ (unacknowledged' \cup overdue')
               PROVE  /\ Len(arrived'[r]) <= 1
                      /\ arrived'[r] # <<>> =>
                           \/ Delivered(r)'
                           \/ \E j \in Invocations : Forgets(j)' /\ proc'[j].run = r
    BY DEF ArrivedInv
  <2>1. r \in Invocations \ (unacknowledged \cup overdue)
    BY <1>2 DEF Moves
  <2>2. Delivered(r) => Delivered(r)'
    BY <1>2 DEF Delivered
  <2>3. ASSUME NEW j \in Invocations, Forgets(j), proc[j].run = r
        PROVE  Forgets(j)' /\ proc'[j].run = r
    <3>1. CASE j = i
      <4>1. Knows(p)
        BY <1>2, <2>3, <3>1 DEF Moves
      <4>2. p.at \in Sending
        BY <4>1 DEF Knows, Sending
      <4> QED BY <1>1, <2>3, <3>1, <4>1, <4>2 DEF Moves, Knows, Forgets
    <3>2. CASE j # i
      BY <1>1, <2>3, <3>2 DEF Forgets
    <3> QED BY <3>1, <3>2
  <2> QED BY <1>2, <2>1, <2>2, <2>3 DEF IInv, ArrivedInv
<1> QED BY <1>5, <1>6, <1>7, <1>8, <1>9, <1>10, <1>11 DEF IInv

-----------------------------------------------------------------------------
(* Steps that only move an invocation.                                     *)

LEMMA AfterFacts ==
  ASSUME IInv, NEW i \in Invocations, NEW r
  PROVE  /\ After(i, r) \in Procs
         /\ After(i, r).at \in {"claim", "done"}
         /\ After(i, r).todo \subseteq proc[i].todo
         /\ ~Knows(After(i, r))
<1>1. After(i, r) \in Procs
  BY AfterType DEF IInv
<1> QED BY <1>1 DEF After, At, Knows

\* An invocation may leave a delivery, or a place between two, for what follows.
LEMMA LeaveMoves ==
  ASSUME IInv, NEW i \in Invocations, NEW r,
         proc[i].at \in {"claim"} \cup Sending,
         proc' = [proc EXCEPT ![i] = After(i, r)],
         UNCHANGED <<verdict, deliveries, arrived, overdue>>,
         unacknowledged \subseteq unacknowledged',
         Forgets(i) => proc[i].run \in unacknowledged' \cup overdue
  PROVE  Moves(i, After(i, r))
<1>1. After(i, r).at \in {"claim", "done"} /\ After(i, r).todo \subseteq proc[i].todo
      /\ ~Knows(After(i, r))
  BY AfterFacts
<1>2. verdict[i] = "drift_detected"
      /\ \A q \in proc[i].todo : verdict[q] = "drift_detected" /\ deliveries[q] # <<>>
  BY DEF IInv, ClaimInv
<1>4. After(i, r).at \notin Sending /\ After(i, r).at # "absent"
  BY <1>1 DEF Sending
<1> HIDE DEF After
<1> QED BY <1>1, <1>2, <1>4 DEF Moves

\* It may as well end.
LEMMA EndMoves ==
  ASSUME NEW i \in Invocations,
         proc' = [proc EXCEPT ![i] = At("done", {})],
         UNCHANGED <<verdict, deliveries, arrived, overdue>>,
         unacknowledged' = WithForgotten(i)
  PROVE  Moves(i, At("done", {}))
BY DEF Moves, At, Knows, Sending, WithForgotten

\* After a failed request it retries or finalizes the failure.
LEMMA ErrorMoves ==
  ASSUME IInv, NEW i \in Invocations, NEW error \in Errors,
         proc[i].at \in {"post", "answer"},
         proc' = [proc EXCEPT ![i] = AfterError(@, error)],
         UNCHANGED <<verdict, deliveries, arrived, overdue>>,
         unacknowledged \subseteq unacknowledged',
         proc[i].at = "answer" => proc[i].run \in unacknowledged'
  PROVE  AfterError(proc[i], error) \in Procs /\ Moves(i, AfterError(proc[i], error))
<1> DEFINE p == AfterError(proc[i], error)
<1>1. proc[i] \in Procs
  BY DEF IInv, TypeOK
<1>2. /\ p \in Procs
      /\ p.run = proc[i].run /\ p.number = proc[i].number /\ p.todo = proc[i].todo
  BY <1>1, AfterErrorType
<1>3. p.at \in {"post", "finalize"} /\ ~Knows(p)
  BY <1>1 DEF AfterError, Procs, Errors, Knows
<1>4. proc[i].at \in Sending
  BY DEF Sending
<1>5. /\ verdict[i] = "drift_detected"
      /\ \A r \in proc[i].todo : verdict[r] = "drift_detected" /\ deliveries[r] # <<>>
  BY <1>4 DEF IInv, ClaimInv
<1>6. Forgets(i) => proc[i].run \in unacknowledged'
  BY DEF Forgets
<1>7. proc' = [proc EXCEPT ![i] = p]
  OBVIOUS
<1> HIDE DEF p
<1>8. Moves(i, p)
  BY <1>2, <1>3, <1>4, <1>5, <1>6, <1>7 DEF Moves
<1> QED BY <1>2, <1>8 DEF p

LEMMA ScanStep ==
  ASSUME IInv, TypeOK', NEW i \in Invocations, Scan(i)
  PROVE  IInv'
<1> DEFINE p == At("claim", Recoverable(i))
<1>1. Recoverable(i) \subseteq Invocations
      /\ \A r \in Recoverable(i) : verdict[r] = "drift_detected" /\ deliveries[r] # <<>>
  BY DEF Recoverable, NewestOf
<1>2. p \in Procs
  BY <1>1, AtType
<1>3. verdict[i] = "drift_detected"
  BY DEF Scan, IInv, ClaimInv
<1>4. p.at = "claim" /\ p.todo = Recoverable(i)
  BY DEF At
<1>5. proc' = [proc EXCEPT ![i] = p] /\ ~Forgets(i)
  BY DEF Scan, Forgets
<1>6. UNCHANGED <<verdict, deliveries, arrived, overdue, unacknowledged>>
  BY DEF Scan, historyVars
<1> HIDE DEF p
<1>7. Moves(i, p)
  BY <1>1, <1>3, <1>4, <1>5, <1>6 DEF Moves, Knows, Sending
<1> QED BY <1>2, <1>7, MoveKeeps

LEMMA SkipStep ==
  ASSUME IInv, TypeOK', NEW i \in Invocations, NEW r \in Invocations, Skip(i, r)
  PROVE  IInv'
<1>1. unacknowledged' = unacknowledged /\ ~Forgets(i)
  BY DEF Skip, Forgets, historyVars
<1>2. Moves(i, After(i, r))
  BY <1>1, LeaveMoves DEF Skip, historyVars
<1> QED BY <1>2, AfterFacts, MoveKeeps

LEMMA NotAcceptedStep ==
  ASSUME IInv, TypeOK', NEW i \in Invocations, NotAccepted(i)
  PROVE  IInv'
<1>1. PICK error \in Errors : proc' = [proc EXCEPT ![i] = AfterError(@, error)]
  BY DEF NotAccepted, Errors
<1>2. AfterError(proc[i], error) \in Procs /\ Moves(i, AfterError(proc[i], error))
  BY <1>1, ErrorMoves DEF NotAccepted
<1> QED BY <1>2, MoveKeeps

LEMMA AnswerLostStep ==
  ASSUME IInv, TypeOK', NEW i \in Invocations, AnswerLost(i)
  PROVE  IInv'
<1>1. "transient" \in Errors
  BY DEF Errors
<1>2. AfterError(proc[i], "transient") \in Procs /\ Moves(i, AfterError(proc[i], "transient"))
  BY <1>1, ErrorMoves DEF AnswerLost
<1> QED BY <1>2, MoveKeeps

LEMMA AnswerArrivesStep ==
  ASSUME IInv, TypeOK', NEW i \in Invocations, AnswerArrives(i)
  PROVE  IInv'
<1> DEFINE p == [proc[i] EXCEPT !.at = "finalize", !.error = "none"]
<1>1. proc[i] \in Procs /\ proc[i].at = "answer"
  BY DEF IInv, TypeOK, AnswerArrives
<1>2. /\ p \in Procs /\ p.at = "finalize" /\ p.error = "none"
      /\ p.run = proc[i].run /\ p.number = proc[i].number /\ p.todo = proc[i].todo
  BY <1>1 DEF Procs, Sending
<1>3. proc' = [proc EXCEPT ![i] = p]
  BY DEF AnswerArrives, IInv, TypeOK
<1>4. Forgets(i) /\ proc[i].at \in Sending
  BY <1>1 DEF Forgets, Sending
<1>5. verdict[i] = "drift_detected"
      /\ \A r \in proc[i].todo : verdict[r] = "drift_detected" /\ deliveries[r] # <<>>
  BY <1>4 DEF IInv, ClaimInv
<1>6. UNCHANGED <<verdict, deliveries, arrived, overdue, unacknowledged>>
  BY DEF AnswerArrives, historyVars
<1> HIDE DEF p
<1>7. Moves(i, p)
  BY <1>2, <1>3, <1>4, <1>5, <1>6 DEF Moves, Knows
<1> QED BY <1>2, <1>7, MoveKeeps

LEMMA StoreFailsStep ==
  ASSUME IInv, TypeOK', NEW i \in Invocations, StoreFails(i)
  PROVE  IInv'
<1>1. UNCHANGED <<verdict, deliveries, arrived, overdue>> /\ unacknowledged' = WithForgotten(i)
  BY DEF StoreFails
<1>2. CASE proc' = [proc EXCEPT ![i] = At("done", {})]
  <2>1. At("done", {}) \in Procs
    BY AtType
  <2> QED BY <1>1, <1>2, <2>1, EndMoves, MoveKeeps
<1>3. CASE proc[i].at \in {"claim", "finalize"}
           /\ \E r \in Invocations : proc' = [proc EXCEPT ![i] = After(i, r)]
  <2>1. PICK r \in Invocations : proc' = [proc EXCEPT ![i] = After(i, r)]
    BY <1>3
  <2>2. Moves(i, After(i, r))
    BY <1>1, <1>3, <2>1, LeaveMoves DEF Sending, WithForgotten
  <2> QED BY <2>2, AfterFacts, MoveKeeps
<1> QED BY <1>2, <1>3 DEF StoreFails

-----------------------------------------------------------------------------
(* Steps that write a row or have a request accepted.                      *)

LEMMA PersistStep ==
  ASSUME IInv, TypeOK', NEW i \in Invocations, Persist(i)
  PROVE  IInv'
<1>1. PICK v \in {"quiet", "drift_detected"} :
        /\ verdict' = [verdict EXCEPT ![i] = v]
        /\ proc' = [proc EXCEPT ![i] = At(IF v = "quiet" THEN "done" ELSE "scan", {})]
  BY DEF Persist
<1>2. deliveries' = deliveries /\ arrived' = arrived /\ overdue' = overdue
      /\ unacknowledged' = unacknowledged
  BY DEF Persist, historyVars
<1>3. \A j \in Invocations : j # i => proc'[j] = proc[j] /\ verdict'[j] = verdict[j]
  BY <1>1 DEF IInv, TypeOK
<1>4. /\ proc[i].at = "absent" /\ verdict[i] = "absent"
      /\ verdict'[i] = v
      /\ proc'[i].at = IF v = "quiet" THEN "done" ELSE "scan"
  BY <1>1 DEF Persist, IInv, ClaimInv, TypeOK, At
<1>5. deliveries[i] = <<>>
  <2>1. deliveries[i] \in Seq(Attempts)
    BY DEF IInv, TypeOK
  <2>2. 1 \notin 1..Len(deliveries[i])
    BY <1>4 DEF IInv, HistoryWellFormed
  <2> QED BY <2>1, <2>2
<1>6. \A j \in Invocations : proc'[j].at \in Sending => j # i
  BY <1>4 DEF Sending
<1>7. \A j \in Invocations : Forgets(j)' <=> Forgets(j)
  BY <1>3, <1>4 DEF Forgets
<1>8. ClaimInv'
  <2> SUFFICES ASSUME NEW j \in Invocations
               PROVE  /\ proc'[j].at = "absent" => verdict'[j] = "absent"
                      /\ proc'[j].at \in {"scan", "claim"} \cup Sending =>
                           verdict'[j] = "drift_detected"
                      /\ proc'[j].at \in {"claim"} \cup Sending =>
                           \A r \in proc'[j].todo :
                             verdict'[r] = "drift_detected" /\ deliveries'[r] # <<>>
                      /\ proc'[j].at \in Sending =>
                           proc'[j].number \in 1..Len(deliveries'[proc'[j].run])
    BY DEF ClaimInv
  <2>1. CASE j = i
    BY <1>4, <2>1 DEF Sending
  <2>2. CASE j # i
    <3>1. \A r \in proc[j].todo : r \in Invocations
      BY DEF IInv, TypeOK, Procs
    <3> QED BY <1>2, <1>3, <1>4, <2>2, <3>1 DEF IInv, ClaimInv
  <2> QED BY <2>1, <2>2
<1>9. HistoryWellFormed'
  BY <1>2, <1>3, <1>5 DEF IInv, HistoryWellFormed
<1>10. FreshInv' /\ OneSender'
  <2>1. FreshInv'
    BY <1>2, <1>3, <1>6 DEF IInv, FreshInv
  <2>2. OneSender'
    BY <1>2, <1>3, <1>6 DEF IInv, OneSender
  <2> QED BY <2>1, <2>2
<1>11. AcceptInv'
  <2>1. \A j \in Invocations : Forgets(j) => j # i
    BY <1>4 DEF Forgets
  <2> QED BY <1>2, <1>3, <1>7, <2>1 DEF IInv, AcceptInv
<1>12. DeliveredWasAccepted'
  BY <1>2 DEF IInv, DeliveredWasAccepted
<1>13. ArrivedInv'
  <2>1. \A j \in Invocations : Forgets(j) => j # i
    BY <1>4 DEF Forgets
  <2>2. \A r \in Invocations : Delivered(r)' <=> Delivered(r)
    BY <1>2 DEF Delivered
  <2> QED BY <1>2, <1>3, <1>7, <2>1, <2>2 DEF IInv, ArrivedInv
<1> QED BY <1>8, <1>9, <1>10, <1>11, <1>12, <1>13 DEF IInv

\* While its claim is not overdue, the run of a sender has no delivery.
LEMMA FreshIsUndelivered ==
  ASSUME IInv, NEW i \in Invocations, proc[i].at \in Sending, proc[i].run \notin overdue
  PROVE  /\ proc[i].run \in Invocations
         /\ ~Delivered(proc[i].run)
<1> DEFINE r == proc[i].run
<1>1. r \in Invocations
  BY SendingType DEF IInv
<1>2. deliveries[r][Len(deliveries[r])].status = "pending"
  BY DEF IInv, FreshInv
<1>3. Len(deliveries[r]) \in Nat
  BY <1>1 DEF IInv, TypeOK
<1>4. \A n \in 1..Len(deliveries[r]) : n < Len(deliveries[r]) => deliveries[r][n].status = "failed"
  BY <1>1 DEF IInv, HistoryWellFormed
<1> HIDE DEF r
<1>5. ~Delivered(r)
  BY <1>2, <1>3, <1>4 DEF Delivered
<1> QED BY <1>1, <1>5 DEF r

\* A request accepted for an invocation about to learn of it, or to be killed.
Arrives(i) ==
  /\ proc[i].at = "post"
  /\ arrived' = [arrived EXCEPT ![proc[i].run] = Append(@, proc[i].number)]
  /\ UNCHANGED <<verdict, deliveries, overdue>>

LEMMA ArrivesKeeps ==
  ASSUME IInv, NEW i \in Invocations, Arrives(i)
  PROVE  \A r \in Invocations :
           /\ Len(arrived[r]) <= Len(arrived'[r])
           /\ \A k \in 1..Len(arrived[r]) : arrived'[r][k] = arrived[r][k]
           /\ r # proc[i].run => arrived'[r] = arrived[r]
           /\ r = proc[i].run =>
                /\ Len(arrived'[r]) = Len(arrived[r]) + 1
                /\ arrived'[r][Len(arrived[r]) + 1] = proc[i].number
<1> TAKE r \in Invocations
<1>1. arrived[r] \in Seq(Nat) /\ proc[i].number \in Nat
  BY SendingType DEF IInv, TypeOK, Arrives, Sending
<1>2. CASE r = proc[i].run
  <2>1. arrived'[r] = Append(arrived[r], proc[i].number)
    BY <1>2 DEF Arrives, IInv, TypeOK
  <2> QED BY <1>1, <1>2, <2>1
<1>3. CASE r # proc[i].run
  <2>1. arrived'[r] = arrived[r]
    BY <1>3 DEF Arrives, IInv, TypeOK
  <2> QED BY <1>1, <1>3, <2>1
<1> QED BY <1>2, <1>3

\* Accepted requests only add to the evidence for deliveries.
LEMMA ArrivesAccepted ==
  ASSUME IInv, NEW i \in Invocations, Arrives(i)
  PROVE  /\ DeliveredWasAccepted'
         /\ \A j \in Invocations : Forgets(j) =>
              \E k \in 1..Len(arrived'[proc[j].run]) :
                arrived'[proc[j].run][k] = proc[j].number
<1>1. \A r \in Invocations : \A n :
        (\E k \in 1..Len(arrived[r]) : arrived[r][k] = n) =>
          \E k \in 1..Len(arrived'[r]) : arrived'[r][k] = n
  <2> TAKE r \in Invocations
  <2> TAKE n
  <2> HAVE \E k \in 1..Len(arrived[r]) : arrived[r][k] = n
  <2>1. PICK k \in 1..Len(arrived[r]) : arrived[r][k] = n
    OBVIOUS
  <2>2. Len(arrived[r]) \in Nat
    BY DEF IInv, TypeOK
  <2>3. Len(arrived'[r]) \in Nat /\ Len(arrived[r]) <= Len(arrived'[r])
    BY <2>2, ArrivesKeeps
  <2>4. k \in 1..Len(arrived'[r]) /\ arrived'[r][k] = n
    BY <2>1, <2>2, <2>3, ArrivesKeeps
  <2> QED BY <2>4
<1>2. DeliveredWasAccepted'
  BY <1>1 DEF IInv, DeliveredWasAccepted, Arrives
<1>3. \A j \in Invocations : Forgets(j) => proc[j].run \in Invocations
  BY SendingType DEF IInv, Forgets, Sending
<1>4. \A j \in Invocations : Forgets(j) =>
        \E k \in 1..Len(arrived'[proc[j].run]) : arrived'[proc[j].run][k] = proc[j].number
  <2> SUFFICES ASSUME NEW j \in Invocations, Forgets(j)
               PROVE  \E k \in 1..Len(arrived'[proc[j].run]) :
                        arrived'[proc[j].run][k] = proc[j].number
    OBVIOUS
  <2>1. \E k \in 1..Len(arrived[proc[j].run]) : arrived[proc[j].run][k] = proc[j].number
    BY DEF IInv, AcceptInv
  <2>2. proc[j].run \in Invocations
    BY <1>3
  <2> QED BY <1>1, <2>1, <2>2
<1> QED BY <1>2, <1>4

LEMMA AcceptedStep ==
  ASSUME IInv, TypeOK', NEW i \in Invocations, Accepted(i)
  PROVE  IInv'
<1> DEFINE q == proc[i].run
<1>1. /\ proc[i].at = "post" /\ proc[i].at \in Sending
      /\ verdict' = verdict /\ deliveries' = deliveries /\ overdue' = overdue
      /\ unacknowledged' = unacknowledged
      /\ Arrives(i)
  BY DEF Accepted, Arrives, Sending
<1>2. \A j \in Invocations :
        /\ j # i => proc'[j] = proc[j]
        /\ j = i => proc'[j].at = "answer"
        /\ proc'[j].run = proc[j].run /\ proc'[j].number = proc[j].number
        /\ proc'[j].todo = proc[j].todo
  <2> DEFINE p == [proc[i] EXCEPT !.at = "answer"]
  <2>1. proc[i] \in Procs /\ proc' = [proc EXCEPT ![i] = p]
    BY DEF Accepted, IInv, TypeOK
  <2>2. p.at = "answer" /\ p.run = proc[i].run /\ p.number = proc[i].number
        /\ p.todo = proc[i].todo
    BY <2>1 DEF Procs
  <2>3. proc \in [Invocations -> Procs]
    BY DEF IInv, TypeOK
  <2> HIDE DEF p
  <2> QED BY <2>1, <2>2, <2>3
<1>3. \A j \in Invocations :
        /\ proc'[j].at \in Sending <=> proc[j].at \in Sending
        /\ proc'[j].at = "absent" => proc[j].at = "absent"
        /\ proc'[j].at = "claim" => proc[j].at = "claim"
        /\ proc'[j].at = "scan" => proc[j].at = "scan"
        /\ Forgets(j)' <=> Forgets(j) \/ j = i
  BY <1>1, <1>2 DEF Sending, Forgets
<1>4. q \in Invocations
  BY <1>1, SendingType DEF IInv
<1>5. ClaimInv' /\ HistoryWellFormed'
  <2>1. ClaimInv'
    BY <1>1, <1>2, <1>3 DEF IInv, ClaimInv
  <2>2. HistoryWellFormed'
    BY <1>1 DEF IInv, HistoryWellFormed
  <2> QED BY <2>1, <2>2
<1>6. FreshInv'
  BY <1>1, <1>2, <1>3 DEF IInv, FreshInv
<1>7. OneSender'
  BY <1>1, <1>2, <1>3 DEF IInv, OneSender
<1>8. AcceptInv'
  <2>3. Len(arrived[q]) \in Nat
    BY <1>4 DEF IInv, TypeOK
  <2>1. Len(arrived'[q]) = Len(arrived[q]) + 1
        /\ arrived'[q][Len(arrived[q]) + 1] = proc[i].number
    BY <1>1, <1>4, ArrivesKeeps
  <2>2. \E k \in 1..Len(arrived'[q]) : arrived'[q][k] = proc[i].number
    BY <2>1, <2>3
  <2> QED BY <1>1, <1>2, <1>3, <2>2, ArrivesAccepted DEF AcceptInv
<1>9. DeliveredWasAccepted'
  BY <1>1, ArrivesAccepted
<1>10. ArrivedInv'
  <2> SUFFICES ASSUME NEW r \in Invocations \ (unacknowledged' \cup overdue')
               PROVE  /\ Len(arrived'[r]) <= 1
                      /\ arrived'[r] # <<>> =>
                           \/ Delivered(r)'
                           \/ \E j \in Invocations : Forgets(j)' /\ proc'[j].run = r
    BY DEF ArrivedInv
  <2>1. CASE r = q
    <3>1. Forgets(i)' /\ proc'[i].run = r
      BY <1>2, <1>3, <2>1
    <3>2. arrived[r] = <<>>
      <4>1. ~Delivered(r)
        BY <1>1, <2>1, FreshIsUndelivered
      <4>2. \A j \in Invocations : ~(Forgets(j) /\ proc[j].run = r)
        <5> SUFFICES ASSUME NEW j \in Invocations, Forgets(j), proc[j].run = r PROVE FALSE
          OBVIOUS
        <5>1. j # i /\ proc[j].at \in Sending
          BY <1>1 DEF Forgets, Sending
        <5> QED BY <1>1, <2>1, <5>1 DEF IInv, OneSender
      <4> QED BY <1>1, <4>1, <4>2 DEF IInv, ArrivedInv
    <3>3. Len(arrived'[r]) = Len(arrived[r]) + 1 /\ Len(arrived[r]) = 0
      BY <1>1, <2>1, <3>2, ArrivesKeeps
    <3> QED BY <3>1, <3>3
  <2>2. CASE r # q
    <3>1. arrived'[r] = arrived[r]
      BY <1>1, <2>2, ArrivesKeeps
    <3>2. Delivered(r)' <=> Delivered(r)
      BY <1>1 DEF Delivered
    <3> QED BY <1>1, <1>2, <1>3, <3>1, <3>2 DEF IInv, ArrivedInv
  <2> QED BY <2>1, <2>2
<1> QED BY <1>5, <1>6, <1>7, <1>8, <1>9, <1>10 DEF IInv

LEMMA CrashStep ==
  ASSUME IInv, TypeOK', NEW i \in Invocations, Crash(i)
  PROVE  IInv'
<1>1. CASE unacknowledged' = WithForgotten(i) /\ UNCHANGED arrived
  <2>1. Moves(i, At("done", {}))
    BY <1>1, EndMoves DEF Crash
  <2> QED BY <2>1, AtType, MoveKeeps
<1>2. CASE Arrives(i) /\ unacknowledged' = unacknowledged \cup {proc[i].run}
  <2>1. /\ verdict' = verdict /\ deliveries' = deliveries /\ overdue' = overdue
    BY <1>2 DEF Arrives
  <2>2. \A j \in Invocations :
          /\ j # i => proc'[j] = proc[j]
          /\ j = i => proc'[j].at = "done"
    BY DEF Crash, IInv, TypeOK, At
  <2>3. \A j \in Invocations : Forgets(j)' <=> Forgets(j)
    BY <1>2, <2>2 DEF Forgets, Arrives
  <2>4. \A j \in Invocations :
          proc'[j].at \in {"absent", "scan", "claim"} \cup Sending => j # i
    BY <2>2 DEF Sending
  <2>5. ClaimInv'
    BY <2>1, <2>2, <2>4 DEF IInv, ClaimInv
  <2>6. HistoryWellFormed'
    BY <2>1 DEF IInv, HistoryWellFormed
  <2>7. FreshInv'
    BY <2>1, <2>2, <2>4 DEF IInv, FreshInv
  <2>8. OneSender'
    BY <2>1, <2>2, <2>4 DEF IInv, OneSender
  <2>9. \A j \in Invocations : Forgets(j) => j # i
    BY <1>2 DEF Forgets, Arrives
  <2>10. AcceptInv' /\ DeliveredWasAccepted'
    BY <1>2, <2>2, <2>3, <2>9, ArrivesAccepted DEF AcceptInv
  <2>11. ArrivedInv'
    <3> SUFFICES ASSUME NEW r \in Invocations \ (unacknowledged' \cup overdue')
                 PROVE  /\ Len(arrived'[r]) <= 1
                        /\ arrived'[r] # <<>> =>
                             \/ Delivered(r)'
                             \/ \E j \in Invocations : Forgets(j)' /\ proc'[j].run = r
      BY DEF ArrivedInv
    <3>1. r \in Invocations \ (unacknowledged \cup overdue) /\ r # proc[i].run
      BY <1>2, <2>1
    <3>2. arrived'[r] = arrived[r]
      BY <1>2, <3>1, ArrivesKeeps
    <3>3. Delivered(r)' <=> Delivered(r)
      BY <2>1 DEF Delivered
    <3> QED BY <2>2, <2>3, <2>9, <3>1, <3>2, <3>3 DEF IInv, ArrivedInv
  <2> QED BY <2>5, <2>6, <2>7, <2>8, <2>10, <2>11 DEF IInv
<1> QED BY <1>1, <1>2 DEF Crash, Arrives

\* Finalization settles the latest attempt, or finds it settled.
Settles(i) ==
  LET r == proc[i].run
      n == proc[i].number
  IN
  /\ r \in Invocations /\ n \in 1..Len(deliveries[r])
  /\ deliveries[r][n].status = "pending"
  /\ \A q \in Invocations :
       /\ Len(deliveries'[q]) = Len(deliveries[q])
       /\ deliveries'[q] # <<>> <=> deliveries[q] # <<>>
       /\ \A m \in 1..Len(deliveries[q]) :
            q # r \/ m # n => deliveries'[q][m] = deliveries[q][m]
  /\ deliveries'[r][n].status = FinalStatus(proc[i])
  /\ deliveries'[r][n].error = proc[i].error
  /\ deliveries'[r][n].createdAt = deliveries[r][n].createdAt

LEMMA FinalizeSettles ==
  ASSUME IInv, TypeOK', NEW i \in Invocations, Finalize(i)
  PROVE  Settles(i) \/ (deliveries' = deliveries
                        /\ deliveries[proc[i].run][proc[i].number].status # "pending")
<1> DEFINE r == proc[i].run
           n == proc[i].number
           a == [deliveries[r][n] EXCEPT !.status = FinalStatus(proc[i]), !.error = proc[i].error]
<1>1. r \in Invocations /\ n \in 1..Len(deliveries[r])
  BY SendingType DEF Finalize, Sending, IInv, ClaimInv
<1>2. \A q \in Invocations : deliveries[q] \in Seq(Attempts) /\ deliveries'[q] \in Seq(Attempts)
  BY DEF IInv, TypeOK
<1>3. deliveries \in [Invocations -> Seq(Attempts)]
  BY DEF IInv, TypeOK
<1>4. CASE deliveries[r][n].status = "pending"
  <2>1. deliveries' = [deliveries EXCEPT ![r] = [deliveries[r] EXCEPT ![n] = a]]
    <3>1. deliveries' = [deliveries EXCEPT ![r][n].status = FinalStatus(proc[i]),
                                           ![r][n].error = proc[i].error]
      BY <1>4 DEF Finalize, Finalizable
    <3> QED BY <1>1, <1>3, <3>1
  <2>2. a.status = FinalStatus(proc[i]) /\ a.error = proc[i].error
        /\ a.createdAt = deliveries[r][n].createdAt
    <3>1. deliveries[r][n] \in Attempts
      BY <1>1, <1>2
    <3> QED BY <3>1 DEF Attempts
  <2> HIDE DEF a
  <2>3. deliveries'[r] = [deliveries[r] EXCEPT ![n] = a]
    BY <1>1, <1>3, <2>1
  <2>4. \A q \in Invocations : q # r => deliveries'[q] = deliveries[q]
    BY <1>3, <2>1
  <2>5. deliveries'[r][n] = a
        /\ \A m \in 1..Len(deliveries[r]) : m # n => deliveries'[r][m] = deliveries[r][m]
    BY <1>1, <1>2, <2>3
  <2>7. Len(deliveries'[r]) = Len(deliveries[r])
    <3> DEFINE S == Attempts \cup {a}
    <3>1. deliveries[r] \in Seq(S) /\ (n \in 1..Len(deliveries[r]) => a \in S)
      BY <1>1, <1>2
    <3> HIDE DEF S
    <3> QED BY <2>3, <3>1, RewriteKeeps
  <2>8. \A q \in Invocations : Len(deliveries'[q]) = Len(deliveries[q])
    BY <2>4, <2>7
  <2>9. \A q \in Invocations : deliveries'[q] # <<>> <=> deliveries[q] # <<>>
    <3>1. \A h \in Seq(Attempts) : h # <<>> <=> Len(h) # 0
      OBVIOUS
    <3> QED BY <1>2, <2>8, <3>1
  <2> QED BY <1>1, <1>4, <2>2, <2>4, <2>5, <2>8, <2>9 DEF Settles
<1>5. CASE deliveries[r][n].status # "pending"
  BY <1>5 DEF Finalize, Finalizable
<1> QED BY <1>4, <1>5

LEMMA FinalizeStep ==
  ASSUME IInv, TypeOK', NEW i \in Invocations, Finalize(i)
  PROVE  IInv'
<1> DEFINE r == proc[i].run
           n == proc[i].number
<1>1. /\ proc[i].at = "finalize" /\ proc[i].at \in Sending
      /\ proc' = [proc EXCEPT ![i] = After(i, r)]
      /\ verdict' = verdict /\ arrived' = arrived /\ overdue' = overdue
      /\ unacknowledged' = unacknowledged
  BY DEF Finalize, historyVars, Sending
<1>2. CASE deliveries' = deliveries /\ deliveries[r][n].status # "pending"
  <2>1. r \in overdue
    BY <1>1, <1>2 DEF IInv, FreshInv
  <2>2. Moves(i, After(i, r))
    BY <1>1, <1>2, <2>1, LeaveMoves
  <2> QED BY <2>2, AfterFacts, MoveKeeps
<1>3. CASE Settles(i)
  <2>1. /\ \A j \in Invocations : j # i => proc'[j] = proc[j]
        /\ proc'[i].at \in {"claim", "done"} /\ proc'[i].todo \subseteq proc[i].todo
        /\ ~Knows(proc'[i])
    BY <1>1, AfterFacts DEF IInv, TypeOK
  <2>2. \A j \in Invocations :
          /\ proc'[j].at \in Sending => j # i
          /\ Forgets(j)' => j # i /\ Forgets(j)
    BY <2>1 DEF Sending, Forgets, Knows
  <2>3. \A j \in Invocations : proc[j].at \in Sending => proc[j].run \in Invocations
    BY SendingType DEF IInv
  <2>4. \A q \in Invocations : Len(deliveries[q]) \in Nat
    BY DEF IInv, TypeOK
  <2>5. \A j \in Invocations : \A q \in proc[j].todo : q \in Invocations
    BY DEF IInv, TypeOK, Procs
  <2>6. ClaimInv'
    <3> SUFFICES ASSUME NEW j \in Invocations
                 PROVE  /\ proc'[j].at = "absent" => verdict'[j] = "absent"
                        /\ proc'[j].at \in {"scan", "claim"} \cup Sending =>
                             verdict'[j] = "drift_detected"
                        /\ proc'[j].at \in {"claim"} \cup Sending =>
                             \A q \in proc'[j].todo :
                               verdict'[q] = "drift_detected" /\ deliveries'[q] # <<>>
                        /\ proc'[j].at \in Sending =>
                             proc'[j].number \in 1..Len(deliveries'[proc'[j].run])
      BY DEF ClaimInv
    <3>1. CASE j = i
      <4>1. proc'[i].at # "absent" /\ proc'[i].at \notin Sending
        BY <2>1 DEF Sending
      <4>2. verdict[i] = "drift_detected"
            /\ \A q \in proc[i].todo : verdict[q] = "drift_detected" /\ deliveries[q] # <<>>
        BY <1>1 DEF IInv, ClaimInv
      <4> QED BY <1>1, <1>3, <2>1, <2>5, <3>1, <4>1, <4>2 DEF Settles
    <3>2. CASE j # i
      <4>1. proc'[j] = proc[j]
        BY <2>1, <3>2
      <4>2. proc[j].at \in {"claim"} \cup Sending =>
              \A q \in proc[j].todo : verdict[q] = "drift_detected" /\ deliveries'[q] # <<>>
        BY <1>3, <2>5 DEF IInv, ClaimInv, Settles
      <4>3. proc[j].at \in Sending => proc[j].number \in 1..Len(deliveries'[proc[j].run])
        BY <1>3, <2>3 DEF IInv, ClaimInv, Settles
      <4> QED BY <1>1, <4>1, <4>2, <4>3 DEF IInv, ClaimInv
    <3> QED BY <3>1, <3>2
  <2>7. n = Len(deliveries[r])
    BY <1>3, <2>4 DEF IInv, HistoryWellFormed, Settles
  <2>8. HistoryWellFormed'
    <3> SUFFICES ASSUME NEW q \in Invocations, NEW m \in 1..Len(deliveries'[q])
                 PROVE  /\ verdict'[q] = "drift_detected"
                        /\ m < Len(deliveries'[q]) => deliveries'[q][m].status = "failed"
                        /\ deliveries'[q][m].status = "failed" <=> deliveries'[q][m].error # "none"
      BY DEF HistoryWellFormed
    <3>1. m \in 1..Len(deliveries[q]) /\ Len(deliveries'[q]) = Len(deliveries[q])
      BY <1>3 DEF Settles
    <3>2. CASE q = r /\ m = n
      BY <1>1, <1>3, <2>4, <2>7, <3>1, <3>2 DEF IInv, HistoryWellFormed, Settles, FinalStatus
    <3>3. CASE q # r \/ m # n
      BY <1>1, <1>3, <3>1, <3>3 DEF IInv, HistoryWellFormed, Settles
    <3> QED BY <3>2, <3>3
  <2>9. FreshInv'
    <3> SUFFICES ASSUME NEW j \in Invocations, proc'[j].at \in Sending, proc'[j].run \notin overdue'
                 PROVE  /\ proc'[j].number = Len(deliveries'[proc'[j].run])
                        /\ deliveries'[proc'[j].run][proc'[j].number].status = "pending"
      BY DEF FreshInv
    <3>1. j # i /\ proc'[j] = proc[j] /\ proc[j].run \in Invocations
      BY <2>1, <2>2, <2>3
    <3>2. proc[j].run # r
      BY <1>1, <3>1 DEF IInv, OneSender
    <3>3. proc[j].number = Len(deliveries[proc[j].run])
          /\ deliveries[proc[j].run][proc[j].number].status = "pending"
          /\ proc[j].number \in 1..Len(deliveries[proc[j].run])
      BY <1>1, <3>1 DEF IInv, FreshInv, ClaimInv
    <3> QED BY <1>3, <3>1, <3>2, <3>3 DEF Settles
  <2>10. OneSender'
    BY <1>1, <2>1, <2>2 DEF IInv, OneSender
  <2>11. AcceptInv'
    BY <1>1, <2>1, <2>2 DEF IInv, AcceptInv
  <2>12. DeliveredWasAccepted'
    <3> SUFFICES ASSUME NEW q \in Invocations, NEW m \in 1..Len(deliveries'[q]),
                        deliveries'[q][m].status = "delivered"
                 PROVE  \E k \in 1..Len(arrived'[q]) : arrived'[q][k] = m
      BY DEF DeliveredWasAccepted
    <3>1. m \in 1..Len(deliveries[q])
      BY <1>3 DEF Settles
    <3>2. CASE q = r /\ m = n
      <4>1. Forgets(i)
        BY <1>1, <1>3, <3>2 DEF Settles, FinalStatus, Forgets
      <4> QED BY <1>1, <3>2, <4>1 DEF IInv, AcceptInv
    <3>3. CASE q # r \/ m # n
      BY <1>1, <1>3, <3>1, <3>3 DEF IInv, DeliveredWasAccepted, Settles
    <3> QED BY <3>2, <3>3
  <2>13. ArrivedInv'
    <3> SUFFICES ASSUME NEW q \in Invocations \ (unacknowledged \cup overdue), arrived[q] # <<>>
                 PROVE  \/ Delivered(q)'
                        \/ \E j \in Invocations : Forgets(j)' /\ proc'[j].run = q
      BY <1>1 DEF ArrivedInv, IInv
    <3>1. CASE Delivered(q)
      <4>1. PICK m \in 1..Len(deliveries[q]) : deliveries[q][m].status = "delivered"
        BY <3>1 DEF Delivered
      <4>2. deliveries'[q][m].status = "delivered" /\ m \in 1..Len(deliveries'[q])
        BY <1>3, <4>1 DEF Settles
      <4> QED BY <4>2 DEF Delivered
    <3>2. CASE Forgets(i) /\ r = q
      <4>1. deliveries'[q][n].status = "delivered" /\ n \in 1..Len(deliveries'[q])
        BY <1>1, <1>3, <3>2 DEF Settles, FinalStatus, Forgets
      <4> QED BY <4>1 DEF Delivered
    <3>3. ASSUME NEW j \in Invocations, j # i, Forgets(j), proc[j].run = q
          PROVE  Forgets(j)' /\ proc'[j].run = q
      BY <2>1, <3>3 DEF Forgets
    <3> QED BY <3>1, <3>2, <3>3 DEF IInv, ArrivedInv
  <2> QED BY <2>6, <2>8, <2>9, <2>10, <2>11, <2>12, <2>13 DEF IInv
<1> QED BY <1>2, <1>3, FinalizeSettles

\* A claim fails what is left pending and appends the attempt of invocation i.
Claims(i, r) ==
  LET L == Len(deliveries[r]) IN
  /\ L \in Nat
  /\ \A q \in Invocations : q # r => deliveries'[q] = deliveries[q]
  /\ Len(deliveries'[r]) = L + 1 /\ deliveries'[r] # <<>>
  /\ \A m \in 1..L :
       /\ deliveries'[r][m].createdAt = deliveries[r][m].createdAt
       /\ deliveries[r][m].status = "pending" =>
            deliveries'[r][m].status = "failed" /\ deliveries'[r][m].error = "stale_claim"
       /\ deliveries[r][m].status # "pending" => deliveries'[r][m] = deliveries[r][m]
  /\ deliveries'[r][L + 1].status = "pending" /\ deliveries'[r][L + 1].error = "none"
  /\ \A j \in Invocations : j # i => proc'[j] = proc[j]
  /\ proc'[i].at = "post" /\ proc'[i].run = r /\ proc'[i].number = L + 1
  /\ proc'[i].todo = proc[i].todo

LEMMA ClaimClaims ==
  ASSUME IInv, NEW i \in Invocations, NEW r \in Invocations, Claim(i, r)
  PROVE  Claims(i, r)
<1> DEFINE L == Len(deliveries[r])
           e == ExpireStale(r)
           a == [status |-> "pending", error |-> "none", createdAt |-> now]
           p == [proc[i] EXCEPT !.at = "post", !.run = r, !.number = L + 1]
<1>1. TypeOK /\ deliveries[r] \in Seq(Attempts) /\ L \in Nat
  BY DEF IInv, TypeOK
<1>2. /\ e \in Seq(Attempts) /\ Len(e) = L
      /\ \A m \in 1..L :
           /\ e[m].createdAt = deliveries[r][m].createdAt
           /\ e[m] = IF deliveries[r][m].status = "pending"
                     THEN [deliveries[r][m] EXCEPT !.status = "failed", !.error = "stale_claim"]
                     ELSE deliveries[r][m]
  BY <1>1, ExpireStaleKeeps
<1>3. \A m \in 1..L :
        /\ deliveries[r][m].status = "pending" =>
             e[m].status = "failed" /\ e[m].error = "stale_claim"
        /\ deliveries[r][m].status # "pending" => e[m] = deliveries[r][m]
  <2> TAKE m \in 1..L
  <2>1. deliveries[r][m] \in Attempts
    BY <1>1
  <2> HIDE DEF e
  <2> QED BY <1>2, <2>1 DEF Attempts
<1>4. a \in Attempts /\ a.status = "pending" /\ a.error = "none"
  BY <1>1 DEF TypeOK, Attempts
<1>5. deliveries' = [deliveries EXCEPT ![r] = Append(e, a)]
  BY DEF Claim
<1>6. proc[i] \in Procs /\ proc' = [proc EXCEPT ![i] = p]
  <2>1. proc' = [proc EXCEPT ![i].at = "post", ![i].run = r, ![i].number = L + 1]
    BY DEF Claim
  <2>2. proc \in [Invocations -> Procs]
    BY <1>1 DEF TypeOK
  <2> QED BY <2>1, <2>2
<1>7. p.at = "post" /\ p.run = r /\ p.number = L + 1 /\ p.todo = proc[i].todo
  BY <1>6 DEF Procs
<1> HIDE DEF a, e, p
<1>8. deliveries'[r] = Append(e, a) /\ \A q \in Invocations : q # r => deliveries'[q] = deliveries[q]
  BY <1>1, <1>5 DEF TypeOK
<1>9. /\ Len(deliveries'[r]) = L + 1 /\ deliveries'[r][L + 1] = a
      /\ \A m \in 1..L : deliveries'[r][m] = e[m]
  <2>1. e \in Seq(Attempts) /\ Len(e) = L /\ L \in Nat /\ a \in Attempts
    BY <1>1, <1>2, <1>4
  <2> HIDE DEF L
  <2> QED BY <1>8, <2>1
<1>10. deliveries'[r] # <<>>
  BY <1>1, <1>9
<1>11. proc'[i] = p /\ \A j \in Invocations : j # i => proc'[j] = proc[j]
  BY <1>1, <1>6 DEF TypeOK
<1>12. \A m \in 1..L :
         /\ deliveries'[r][m].createdAt = deliveries[r][m].createdAt
         /\ deliveries[r][m].status = "pending" =>
              deliveries'[r][m].status = "failed" /\ deliveries'[r][m].error = "stale_claim"
         /\ deliveries[r][m].status # "pending" => deliveries'[r][m] = deliveries[r][m]
  BY <1>2, <1>3, <1>9
<1>13. L \in Nat
  BY <1>1
<1> HIDE DEF L
<1>14. /\ deliveries'[r][L + 1].status = "pending" /\ deliveries'[r][L + 1].error = "none"
       /\ proc'[i].at = "post" /\ proc'[i].run = r /\ proc'[i].number = L + 1
       /\ proc'[i].todo = proc[i].todo
       /\ Len(deliveries'[r]) = L + 1
  BY <1>4, <1>7, <1>9, <1>11
<1> QED BY <1>8, <1>10, <1>11, <1>12, <1>13, <1>14 DEF Claims, L

LEMMA ClaimStep ==
  ASSUME IInv, TypeOK', NEW i \in Invocations, NEW r \in Invocations, Claim(i, r)
  PROVE  IInv'
<1> DEFINE L == Len(deliveries[r])
<1>1. /\ proc[i].at = "claim" /\ proc[i].at \notin Sending /\ ~Forgets(i)
      /\ verdict' = verdict /\ arrived' = arrived /\ unacknowledged' = unacknowledged
      /\ overdue' = IF Overtakes(r) THEN overdue \cup {r} ELSE overdue
      /\ ~Delivered(r) /\ ~ActiveClaim(r)
      /\ r = i \/ r \in proc[i].todo
  BY DEF Claim, IsNext, Suppressed, Sending, Forgets
<1>2. Claims(i, r)
  BY ClaimClaims
<1>3. verdict[r] = "drift_detected" /\ verdict[i] = "drift_detected"
  BY <1>1 DEF IInv, ClaimInv
<1>4. overdue \subseteq overdue'
  BY <1>1
<1>5. ASSUME r \notin overdue', NEW j \in Invocations, proc[j].at \in Sending, proc[j].run = r
      PROVE  FALSE
  <2>1. proc[j].number = Len(deliveries[r])
    BY <1>4, <1>5 DEF IInv, FreshInv
  <2>2. Overtakes(r)
    BY <1>1, <1>5, <2>1 DEF Overtakes
  <2> QED BY <1>1, <1>5, <2>2
<1>6. \A j \in Invocations :
        /\ proc'[j].at \in Sending => j = i \/ (proc[j].at \in Sending /\ proc'[j] = proc[j])
        /\ Forgets(j)' => j # i /\ Forgets(j)
        /\ Forgets(j) => j # i /\ Forgets(j)'
        /\ proc[j].at \in Sending => proc[j].run \in Invocations
  BY <1>1, <1>2, SendingType DEF Claims, Forgets, IInv
<1>7. \A j \in Invocations : \A q \in proc[j].todo : q \in Invocations
  BY DEF IInv, TypeOK, Procs
<1>8. \A q \in Invocations :
        /\ Len(deliveries[q]) \in Nat
        /\ Len(deliveries[q]) <= Len(deliveries'[q])
        /\ deliveries[q] # <<>> => deliveries'[q] # <<>>
  <2> TAKE q \in Invocations
  <2>1. Len(deliveries[q]) \in Nat
    BY DEF IInv, TypeOK
  <2>2. CASE q = r
    BY <1>2, <2>1, <2>2 DEF Claims
  <2>3. CASE q # r
    BY <1>2, <2>1, <2>3 DEF Claims
  <2> QED BY <2>1, <2>2, <2>3
<1>9. ClaimInv'
  <2> SUFFICES ASSUME NEW j \in Invocations
               PROVE  /\ proc'[j].at = "absent" => verdict'[j] = "absent"
                      /\ proc'[j].at \in {"scan", "claim"} \cup Sending =>
                           verdict'[j] = "drift_detected"
                      /\ proc'[j].at \in {"claim"} \cup Sending =>
                           \A q \in proc'[j].todo :
                             verdict'[q] = "drift_detected" /\ deliveries'[q] # <<>>
                      /\ proc'[j].at \in Sending =>
                           proc'[j].number \in 1..Len(deliveries'[proc'[j].run])
    BY DEF ClaimInv
  <2>1. CASE j = i
    <3>1. \A q \in proc[i].todo : verdict[q] = "drift_detected" /\ deliveries'[q] # <<>>
      BY <1>1, <1>7, <1>8 DEF IInv, ClaimInv
    <3>2. L + 1 \in 1..(L + 1)
      BY <1>2 DEF Claims
    <3> QED BY <1>1, <1>2, <1>3, <2>1, <3>1, <3>2 DEF Claims
  <2>2. CASE j # i
    <3>1. proc'[j] = proc[j]
      BY <1>2, <2>2 DEF Claims
    <3>2. proc[j].at \in {"claim"} \cup Sending =>
            \A q \in proc[j].todo : verdict[q] = "drift_detected" /\ deliveries'[q] # <<>>
      BY <1>7, <1>8 DEF IInv, ClaimInv
    <3>3. proc[j].at \in Sending => proc[j].number \in 1..Len(deliveries'[proc[j].run])
      <4> SUFFICES ASSUME proc[j].at \in Sending
                   PROVE  proc[j].number \in 1..Len(deliveries'[proc[j].run])
        OBVIOUS
      <4>1. proc[j].run \in Invocations /\ proc[j].number \in 1..Len(deliveries[proc[j].run])
        BY <1>6 DEF IInv, ClaimInv
      <4>2. Len(deliveries'[proc[j].run]) \in Nat
        BY <4>1 DEF TypeOK
      <4> QED BY <1>8, <4>1, <4>2
    <3> QED BY <1>1, <3>1, <3>2, <3>3 DEF IInv, ClaimInv
  <2> QED BY <2>1, <2>2
<1>10. HistoryWellFormed'
  <2> SUFFICES ASSUME NEW q \in Invocations, NEW m \in 1..Len(deliveries'[q])
               PROVE  /\ verdict'[q] = "drift_detected"
                      /\ m < Len(deliveries'[q]) => deliveries'[q][m].status = "failed"
                      /\ deliveries'[q][m].status = "failed" <=> deliveries'[q][m].error # "none"
    BY DEF HistoryWellFormed
  <2>1. CASE q # r
    BY <1>1, <1>2, <2>1 DEF Claims, IInv, HistoryWellFormed
  <2>2. CASE q = r /\ m = L + 1
    BY <1>1, <1>2, <1>3, <2>2 DEF Claims
  <2>3. CASE q = r /\ m \in 1..L
    <3>1. deliveries[r] \in Seq(Attempts)
      BY DEF IInv, TypeOK
    <3>2. deliveries[r][m].status \in {"pending", "failed"}
      <4>1. deliveries[r][m] \in Attempts
        BY <2>3, <3>1
      <4> QED BY <1>1, <2>3, <4>1 DEF Attempts, Delivered
    <3>3. deliveries[r][m].status = "failed" => deliveries[r][m].error # "none"
      BY <2>3 DEF IInv, HistoryWellFormed
    <3>4. deliveries'[r][m].status = "failed" /\ deliveries'[r][m].error # "none"
      BY <1>2, <2>3, <3>2, <3>3 DEF Claims
    <3> QED BY <1>1, <1>3, <2>3, <3>4
  <2> QED BY <1>2, <2>1, <2>2, <2>3 DEF Claims
<1>11. FreshInv'
  <2> SUFFICES ASSUME NEW j \in Invocations, proc'[j].at \in Sending, proc'[j].run \notin overdue'
               PROVE  /\ proc'[j].number = Len(deliveries'[proc'[j].run])
                      /\ deliveries'[proc'[j].run][proc'[j].number].status = "pending"
    BY DEF FreshInv
  <2>1. CASE j = i
    BY <1>2, <2>1 DEF Claims
  <2>2. CASE j # i
    <3>1. proc[j].at \in Sending /\ proc'[j] = proc[j] /\ proc[j].run \in Invocations
      BY <1>6, <2>2
    <3>2. proc[j].run # r
      BY <1>5, <3>1
    <3> QED BY <1>2, <1>4, <3>1, <3>2 DEF Claims, IInv, FreshInv
  <2> QED BY <2>1, <2>2
<1>12. OneSender'
  <2> SUFFICES ASSUME NEW j \in Invocations, NEW k \in Invocations, j # k,
                      proc'[j].at \in Sending, proc'[k].at \in Sending,
                      proc'[j].run = proc'[k].run, proc'[j].run \notin overdue'
               PROVE  FALSE
    BY DEF OneSender
  <2>1. CASE j # i /\ k # i
    BY <1>4, <1>6, <2>1 DEF IInv, OneSender
  <2>2. CASE j = i \/ k = i
    <3>1. PICK x \in Invocations : x # i /\ proc'[x].at \in Sending /\ proc'[x].run = r
                                  /\ r \notin overdue'
      BY <1>2, <2>2 DEF Claims
    <3> QED BY <1>5, <1>6, <3>1
  <2> QED BY <2>1, <2>2
<1>13. AcceptInv'
  BY <1>1, <1>2, <1>6 DEF IInv, AcceptInv, Claims
<1>14. DeliveredWasAccepted'
  <2> SUFFICES ASSUME NEW q \in Invocations, NEW m \in 1..Len(deliveries'[q]),
                      deliveries'[q][m].status = "delivered"
               PROVE  \E k \in 1..Len(arrived[q]) : arrived[q][k] = m
    BY <1>1 DEF DeliveredWasAccepted
  <2>1. CASE q # r
    BY <1>2, <2>1 DEF Claims, IInv, DeliveredWasAccepted
  <2>2. CASE q = r
    <3>1. m # L + 1 /\ m \in 1..L
      BY <1>2, <2>2 DEF Claims
    <3>2. deliveries[r][m].status = "delivered"
      BY <1>2, <2>2, <3>1 DEF Claims
    <3> QED BY <1>1, <3>1, <3>2 DEF Delivered
  <2> QED BY <2>1, <2>2
<1>15. ArrivedInv'
  <2> SUFFICES ASSUME NEW q \in Invocations \ (unacknowledged \cup overdue')
               PROVE  /\ Len(arrived[q]) <= 1
                      /\ arrived[q] # <<>> =>
                           \/ Delivered(q)'
                           \/ \E j \in Invocations : Forgets(j)' /\ proc'[j].run = q
    BY <1>1 DEF ArrivedInv
  <2>1. /\ Len(arrived[q]) <= 1
        /\ arrived[q] # <<>> =>
             Delivered(q) \/ \E j \in Invocations : Forgets(j) /\ proc[j].run = q
    BY <1>4 DEF IInv, ArrivedInv
  <2>2. CASE q = r
    <3>1. \A j \in Invocations : Forgets(j) => proc[j].at \in Sending
      BY DEF Forgets, Sending
    <3> QED BY <1>1, <1>5, <2>1, <2>2, <3>1
  <2>3. CASE q # r
    <3>1. Delivered(q) => Delivered(q)'
      BY <1>2, <2>3 DEF Delivered, Claims
    <3> QED BY <1>2, <1>6, <2>1, <3>1 DEF Claims
  <2> QED BY <2>2, <2>3
<1> QED BY <1>9, <1>10, <1>11, <1>12, <1>13, <1>14, <1>15 DEF IInv

-----------------------------------------------------------------------------
(* The invariant holds, and what follows from it.                          *)

LEMMA InitInv == Init => IInv
<1> SUFFICES ASSUME Init PROVE IInv
  OBVIOUS
<1>1. TypeOK
  BY TypeInit
<1>2. \A i \in Invocations : proc[i].at = "absent" /\ verdict[i] = "absent"
                             /\ deliveries[i] = <<>> /\ arrived[i] = <<>>
  BY DEF Init, At
<1>3. \A i \in Invocations : proc[i].at \notin Sending /\ ~Forgets(i)
  BY <1>2 DEF Sending, Forgets
<1>4. \A r \in Invocations : Len(deliveries[r]) = 0 /\ Len(arrived[r]) = 0
  BY <1>2
<1>5. ClaimInv
  BY <1>2, <1>3 DEF ClaimInv
<1>6. HistoryWellFormed /\ DeliveredWasAccepted
  BY <1>4 DEF HistoryWellFormed, DeliveredWasAccepted
<1>7. FreshInv /\ OneSender /\ AcceptInv
  BY <1>3 DEF FreshInv, OneSender, AcceptInv
<1>8. ArrivedInv
  BY <1>2, <1>4 DEF ArrivedInv
<1> QED BY <1>1, <1>5, <1>6, <1>7, <1>8 DEF IInv

LEMMA StepInv == IInv /\ [Next]_vars => IInv'
<1> SUFFICES ASSUME IInv, [Next]_vars PROVE IInv'
  OBVIOUS
<1>1. TypeOK'
  BY TypeStep DEF IInv
<1>2. CASE UNCHANGED vars \/ Tick
  <2>1. UNCHANGED <<verdict, deliveries, proc, arrived, unacknowledged, overdue, requests>>
    BY <1>2 DEF Tick, vars, historyVars
  <2>2. ClaimInv' /\ HistoryWellFormed' /\ FreshInv' /\ OneSender'
    BY <2>1 DEF IInv, ClaimInv, HistoryWellFormed, FreshInv, OneSender
  <2>3. AcceptInv' /\ DeliveredWasAccepted'
    BY <2>1 DEF IInv, AcceptInv, DeliveredWasAccepted, Forgets
  <2>4. ArrivedInv'
    BY <2>1 DEF IInv, ArrivedInv, Forgets, Delivered
  <2> QED BY <1>1, <2>2, <2>3, <2>4 DEF IInv
<1>3. ASSUME NEW i \in Invocations, Continue(i) PROVE IInv'
  BY <1>1, <1>3, ScanStep, SkipStep, ClaimStep, AcceptedStep, NotAcceptedStep,
     AnswerArrivesStep, AnswerLostStep, FinalizeStep DEF Continue
<1>4. ASSUME NEW i \in Invocations, Persist(i) \/ StoreFails(i) \/ Crash(i) PROVE IInv'
  BY <1>1, <1>4, PersistStep, StoreFailsStep, CrashStep
<1> QED BY <1>2, <1>3, <1>4 DEF Next, Finished

LEMMA IInvHolds == Spec => []IInv
BY InitInv, StepInv, PTL DEF Spec

\* The history of an alert is a sequence of failures and at most one attempt after
\* them, whatever the invocations do at the same time and wherever they are killed,
\* so no constraint of the table refuses a write (repository.py
\* claim_discord_delivery and finalize_discord_delivery, schema.sql).
THEOREM HistoryWellFormedHolds == Spec => []HistoryWellFormed
BY IInvHolds, PTL DEF IInv

\* A recorded delivery is one that Discord accepted, in that attempt (discord.py
\* deliver_drift_alert).
THEOREM DeliveredWasAcceptedHolds == Spec => []DeliveredWasAccepted
BY IInvHolds, PTL DEF IInv

\* The history of an alert can always be written and is true of what Discord
\* took (repository.py claim_discord_delivery, finalize_discord_delivery).
THEOREM HistoryIsTrueHolds == Spec => []HistoryIsTrue
BY HistoryWellFormedHolds, DeliveredWasAcceptedHolds, PTL DEF HistoryIsTrue

\* Two invocations never work on the same alert unless a claim outlived its
\* lifetime (repository.py claim_discord_delivery).
THEOREM OneSenderHolds == Spec => []OneSender
BY IInvHolds, PTL DEF IInv

\* A second message of an alert needs an accepted request that went unnoticed or
\* an overdue claim (discord.py deliver_drift_alert and recover_drift_alerts).
THEOREM DuplicateNeedsLossHolds == Spec => []DuplicateNeedsLoss
<1>1. IInv => DuplicateNeedsLoss
  <2> SUFFICES ASSUME IInv, NEW r \in Invocations, Len(arrived[r]) > 1,
                      r \notin unacknowledged \cup overdue
               PROVE  FALSE
    BY DEF DuplicateNeedsLoss
  <2>1. Len(arrived[r]) \in Nat /\ Len(arrived[r]) <= 1
    BY DEF IInv, TypeOK, ArrivedInv
  <2> QED BY <2>1
<1> QED BY <1>1, IInvHolds, PTL

\* Only claims and finalizations write an attempt.
LEMMA OthersWriteNothing ==
  ASSUME [Next]_vars
  PROVE  \/ deliveries' = deliveries
         \/ \E i \in Invocations : Finalize(i) \/ \E r \in Invocations : Claim(i, r)
BY DEF Next, Continue, Persist, Scan, Skip, Accepted, NotAccepted, AnswerArrives,
       AnswerLost, StoreFails, Crash, Tick, Finished, vars

\* No attempt is removed and a settled one never changes, even when its sender
\* answers after another invocation declared it stale (repository.py
\* finalize_discord_delivery).
THEOREM SettledIsFinalHolds == Spec => SettledIsFinal
<1> DEFINE Kept(r) ==
             /\ Len(deliveries[r]) <= Len(deliveries'[r])
             /\ \A n \in 1..Len(deliveries[r]) :
                  /\ deliveries'[r][n].createdAt = deliveries[r][n].createdAt
                  /\ deliveries[r][n].status # "pending" =>
                       deliveries'[r][n] = deliveries[r][n]
<1>1. IInv /\ [Next]_vars => [\A r \in Invocations : Kept(r)]_vars
  <2> SUFFICES ASSUME IInv, [Next]_vars, NEW r \in Invocations PROVE Kept(r)
    OBVIOUS
  <2>1. Len(deliveries[r]) \in Nat
    BY DEF IInv, TypeOK
  <2>2. CASE deliveries' = deliveries
    BY <2>1, <2>2
  <2>3. ASSUME NEW i \in Invocations, Finalize(i) PROVE Kept(r)
    <3>1. TypeOK'
      BY TypeStep DEF IInv
    <3>2. CASE Settles(i)
      <4> DEFINE q == proc[i].run
                 m == proc[i].number
      <4>1. Len(deliveries'[r]) = Len(deliveries[r])
        BY <3>2 DEF Settles
      <4>2. ASSUME NEW n \in 1..Len(deliveries[r]), r # q \/ n # m
            PROVE  deliveries'[r][n] = deliveries[r][n]
        BY <3>2, <4>2 DEF Settles
      <4>3. deliveries[q][m].status = "pending"
            /\ deliveries'[q][m].createdAt = deliveries[q][m].createdAt
        BY <3>2 DEF Settles
      <4> QED BY <2>1, <4>1, <4>2, <4>3
    <3> QED BY <2>2, <2>3, <3>1, <3>2, FinalizeSettles
  <2>4. ASSUME NEW i \in Invocations, NEW q \in Invocations, Claim(i, q) PROVE Kept(r)
    <3>1. Claims(i, q)
      BY <2>4, ClaimClaims
    <3>2. CASE q = r
      BY <3>1, <3>2 DEF Claims
    <3>3. CASE q # r
      BY <2>1, <3>1, <3>3 DEF Claims
    <3> QED BY <3>2, <3>3
  <2> QED BY <2>2, <2>3, <2>4, OthersWriteNothing
<1> QED BY <1>1, IInvHolds, PTL DEF Spec, SettledIsFinal

\* The first attempt of an alert is always made by the invocation that persisted
\* its run, never by a recovery (repository.py recoverable_discord_reports).
THEOREM OwnerAttemptsFirstHolds == Spec => OwnerAttemptsFirst
<1> DEFINE First(r) == deliveries[r] = <<>> /\ deliveries'[r] # <<>> => proc[r].at = "claim"
<1>1. IInv /\ [Next]_vars => [\A r \in Invocations : First(r)]_vars
  <2> SUFFICES ASSUME IInv, [Next]_vars, NEW r \in Invocations,
                      deliveries[r] = <<>>, deliveries'[r] # <<>>
               PROVE  proc[r].at = "claim"
    OBVIOUS
  <2>1. ASSUME NEW i \in Invocations, Finalize(i) PROVE FALSE
    <3>1. TypeOK'
      BY TypeStep DEF IInv
    <3>2. Settles(i)
      BY <2>1, <3>1, FinalizeSettles
    <3> QED BY <3>2 DEF Settles
  <2>2. ASSUME NEW i \in Invocations, NEW q \in Invocations, Claim(i, q)
        PROVE  proc[r].at = "claim"
    <3>1. q = r
      BY <2>2, ClaimClaims DEF Claims
    <3>2. proc[i].at = "claim" /\ (r = i \/ r \in proc[i].todo)
      BY <2>2, <3>1 DEF Claim, IsNext
    <3>3. r \notin proc[i].todo
      BY <3>2 DEF IInv, ClaimInv
    <3> QED BY <3>2, <3>3
  <2> QED BY <2>1, <2>2, OthersWriteNothing
<1> QED BY <1>1, IInvHolds, PTL DEF Spec, OwnerAttemptsFirst

-----------------------------------------------------------------------------
(* The number of requests.                                                 *)

\* The limit of a query bounds its answer.
LEMMA NewestBound ==
  ASSUME NEW S \in SUBSET Invocations, NEW L \in Nat
  PROVE  IsFiniteSet(NewestOf(S, L)) /\ Cardinality(NewestOf(S, L)) <= L
<1> DEFINE T == NewestOf(S, L)
           Newer(r) == {q \in S : q > r}
           f == [r \in T |-> Cardinality(Newer(r))]
           U == 0..(L - 1)
<1>1. IsFiniteSet(S) /\ S \subseteq Nat
  BY RunsAreFinite, FS_Subset
<1>2. IsFiniteSet(T) /\ T \subseteq S
  BY <1>1, FS_Subset DEF NewestOf
<1>3. ASSUME NEW r \in S PROVE IsFiniteSet(Newer(r)) /\ Cardinality(Newer(r)) \in Nat
  <2>1. Newer(r) \in SUBSET S
    OBVIOUS
  <2> HIDE DEF Newer
  <2> QED BY <1>1, <2>1, FS_Subset, FS_CardinalityType
<1>4. \A r \in T : Cardinality(Newer(r)) < L
  BY DEF NewestOf
<1>5. f \in [T -> U]
  <2> HIDE DEF Newer, T
  <2>1. ASSUME NEW r \in T PROVE Cardinality(Newer(r)) \in U
    BY <1>2, <1>3, <1>4
  <2> HIDE DEF U
  <2> QED BY <2>1
<1>6. ASSUME NEW x \in T, NEW y \in T, x < y PROVE f[x] # f[y]
  <2>3. x \in S /\ y \in S /\ x \in Nat /\ y \in Nat
    BY <1>1, <1>2
  <2>4. \A q \in S : q \in Nat
    BY <1>1
  <2>1. Newer(y) \subseteq Newer(x) /\ y \in Newer(x) /\ y \notin Newer(y)
    <3> HIDE DEF T
    <3>1. y > x /\ ~(y > y)
      BY <1>6, <2>3
    <3>2. ASSUME NEW q \in S, q > y PROVE q > x
      BY <1>6, <2>3, <2>4, <3>2
    <3> QED BY <2>3, <3>1, <3>2
  <2>2. Cardinality(Newer(y)) # Cardinality(Newer(x))
    <3>1. IsFiniteSet(Newer(x)) /\ Newer(y) \in SUBSET Newer(x) /\ Newer(y) # Newer(x)
      BY <1>2, <1>3, <2>1
    <3> HIDE DEF Newer
    <3> QED BY <3>1, FS_Subset
  <2> QED BY <2>2
<1>7. IsFiniteSet(U) /\ Cardinality(U) = L
  BY FS_Interval
<1>8. Cardinality(T) \in Nat
  BY <1>2, FS_CardinalityType
<1>9. ~(L < Cardinality(T))
  <2> SUFFICES ASSUME L < Cardinality(T) PROVE FALSE
    OBVIOUS
  <2> HIDE DEF f, U, T
  <2>1. PICK x \in T, y \in T : x # y /\ f[x] = f[y]
    BY <1>2, <1>5, <1>7, FS_PigeonHole
  <2>2. x < y \/ y < x
    BY <1>1, <1>2, <2>1
  <2> QED BY <1>6, <2>1, <2>2
<1> QED BY <1>2, <1>8, <1>9

\* What invocation i may have requested when it is at p, two for each alert.
Allowance(p, count) ==
  LET Left == 2 * Cardinality(p.todo) IN
  /\ p.at \in {"absent", "scan", "done"} => p.todo = {}
  /\ p.at \in {"absent", "scan"} => count = 0
  /\ p.at = "claim" => count + Left <= 2 * RecoverLimit
  /\ p.at \in Sending =>
       /\ p.todo # {} => p.run \in p.todo
       /\ count + Left <= 2 * RecoverLimit + (IF p.retried \/ p.at = "finalize" THEN 2 ELSE 1)
  /\ p.at = "done" => count <= 2 * RecoverLimit + 2

BudgetInv == \A i \in Invocations : Allowance(proc[i], requests[i])

\* A step of one invocation keeps the others within their allowance.
LEMMA AllowanceUpdate ==
  ASSUME TypeOK, BudgetInv, NEW i \in Invocations, NEW p, NEW count,
         proc' = [proc EXCEPT ![i] = p],
         requests' = [requests EXCEPT ![i] = count],
         Allowance(p, count)
  PROVE  BudgetInv'
<1>1. \A j \in Invocations :
        /\ proc'[j] = IF j = i THEN p ELSE proc[j]
        /\ requests'[j] = IF j = i THEN count ELSE requests[j]
  BY DEF TypeOK
<1> SUFFICES ASSUME NEW j \in Invocations PROVE Allowance(proc'[j], requests'[j])
  BY DEF BudgetInv, Allowance
<1>2. CASE j = i
  BY <1>1, <1>2
<1>3. CASE j # i
  BY <1>1, <1>3 DEF BudgetInv
<1> QED BY <1>2, <1>3

LEMMA TodoIsFinite ==
  ASSUME TypeOK, NEW i \in Invocations
  PROVE  /\ IsFiniteSet(proc[i].todo) /\ Cardinality(proc[i].todo) \in Nat
         /\ proc[i].todo = {} => Cardinality(proc[i].todo) = 0
         /\ requests[i] \in Nat /\ RecoverLimit \in Nat
         /\ requests' = requests => requests' = [requests EXCEPT ![i] = requests[i]]
<1>1. proc[i].todo \in SUBSET Invocations /\ requests \in [Invocations -> Nat]
  BY DEF TypeOK, Procs
<1> QED BY <1>1, RunsAreFinite, FS_Subset, FS_CardinalityType, FS_EmptySet, LimitAssumption

\* At the end nothing is left to deliver.
LEMMA EndAllowance ==
  ASSUME NEW count \in Nat, count <= 2 * RecoverLimit + 2
  PROVE  Allowance(At("done", {}), count)
BY DEF Allowance, At, Sending

\* What follows a delivery has two requests fewer to make.
LEMMA LeaveAllowance ==
  ASSUME TypeOK, BudgetInv, NEW i \in Invocations, NEW r,
         \/ proc[i].at = "claim" /\ IsNext(i, r)
         \/ proc[i].at \in Sending /\ r = proc[i].run
  PROVE  Allowance(After(i, r), requests[i])
<1> DEFINE todo == proc[i].todo
           c == Cardinality(todo)
           R == RecoverLimit
<1>1. /\ IsFiniteSet(todo) /\ c \in Nat /\ (todo = {} => c = 0)
      /\ requests[i] \in Nat /\ R \in Nat
  BY TodoIsFinite
<1>2. /\ proc[i].at = "claim" => requests[i] + 2 * c <= 2 * R
      /\ proc[i].at \in Sending => requests[i] + 2 * c <= 2 * R + 2
      /\ proc[i].at \in Sending /\ todo # {} => r \in todo
  <2>1. Allowance(proc[i], requests[i])
    BY DEF BudgetInv
  <2> HIDE DEF c
  <2> QED BY <1>1, <2>1 DEF Allowance, Sending, c
<1>3. todo # {} => r \in todo
  BY <1>2 DEF IsNext
<1>4. requests[i] + 2 * c <= 2 * R + 2
  <2> HIDE DEF c
  <2> QED BY <1>1, <1>2
<1>5. CASE todo = {}
  <2>1. requests[i] <= 2 * R + 2
    BY <1>1, <1>4, <1>5
  <2>2. After(i, r) = At("done", {})
    BY <1>5 DEF After
  <2> QED BY <1>1, <2>1, <2>2, EndAllowance
<1>6. CASE todo # {}
  <2>1. After(i, r) = At("claim", todo \ {r})
    BY <1>6 DEF After
  <2>2. Cardinality(todo \ {r}) = c - 1
    BY <1>1, <1>3, <1>6, FS_RemoveElement
  <2>3. requests[i] + 2 * (c - 1) <= 2 * R
    <3> HIDE DEF c
    <3> QED BY <1>1, <1>4
  <2>4. requests[i] + 2 * Cardinality(todo \ {r}) <= 2 * R
    BY <2>2, <2>3
  <2> HIDE DEF todo
  <2> QED BY <2>1, <2>4 DEF At, Allowance, Sending
<1> QED BY <1>5, <1>6

LEMMA BudgetMoves ==
  ASSUME TypeOK, BudgetInv, NEW i \in Invocations,
         Scan(i) \/ Persist(i) \/ StoreFails(i) \/ Crash(i) \/ Finalize(i)
           \/ \E r \in Invocations : Skip(i, r)
  PROVE  BudgetInv'
<1>1. /\ requests' = [requests EXCEPT ![i] = requests[i]] /\ requests[i] \in Nat
  BY TodoIsFinite DEF Scan, Persist, StoreFails, Crash, Finalize, Skip, historyVars
<1>2. Allowance(proc[i], requests[i])
  BY DEF BudgetInv
<1>3. ASSUME NEW r, proc' = [proc EXCEPT ![i] = After(i, r)],
             \/ proc[i].at = "claim" /\ IsNext(i, r)
             \/ proc[i].at \in Sending /\ r = proc[i].run
      PROVE  BudgetInv'
  BY <1>1, <1>3, AllowanceUpdate, LeaveAllowance
<1>4. ASSUME proc' = [proc EXCEPT ![i] = At("done", {})],
             proc[i].at \in {"absent", "scan", "claim"} \cup Sending
      PROVE  BudgetInv'
  <2>1. requests[i] <= 2 * RecoverLimit + 2
    <3> DEFINE c == Cardinality(proc[i].todo)
    <3>1. c \in Nat /\ RecoverLimit \in Nat
      BY TodoIsFinite
    <3> HIDE DEF c
    <3> QED BY <1>1, <1>2, <1>4, <3>1 DEF Allowance, Sending, c
  <2> QED BY <1>1, <1>4, <2>1, AllowanceUpdate, EndAllowance
<1>5. CASE Scan(i)
  <2> DEFINE S == Recoverable(i)
  <2>1. S \subseteq Invocations /\ Cardinality(S) <= RecoverLimit /\ Cardinality(S) \in Nat
    <3> DEFINE Others == {r \in Invocations \ {i} : verdict[r] # "absent"}
               Candidates == {r \in NewestOf(Others, InspectLimit) :
                                /\ verdict[r] = "drift_detected"
                                /\ deliveries[r] # <<>>
                                /\ deliveries[r][Len(deliveries[r])].status # "delivered"
                                /\ ~Active(deliveries[r][Len(deliveries[r])])}
    <3>1. S = NewestOf(Candidates, RecoverLimit)
      BY DEF Recoverable
    <3>2. Candidates \in SUBSET Invocations
      BY DEF NewestOf
    <3>3. RecoverLimit \in Nat
      BY LimitAssumption
    <3> HIDE DEF Candidates
    <3>4. IsFiniteSet(S) /\ Cardinality(S) <= RecoverLimit
      BY <3>1, <3>2, <3>3, NewestBound
    <3>5. S \subseteq Invocations
      BY <3>1, <3>2 DEF NewestOf
    <3> QED BY <3>4, <3>5, FS_CardinalityType
  <2>2. requests[i] = 0
    BY <1>2, <1>5 DEF Allowance, Scan
  <2> HIDE DEF S
  <2>3. requests[i] + 2 * Cardinality(S) <= 2 * RecoverLimit
    BY <2>1, <2>2, LimitAssumption
  <2>4. Allowance(At("claim", S), requests[i])
    BY <2>3 DEF Allowance, At, Sending
  <2> QED BY <1>1, <1>5, <2>4, AllowanceUpdate DEF Scan, S
<1>6. CASE Persist(i)
  <2>1. PICK pc \in {"done", "scan"} : proc' = [proc EXCEPT ![i] = At(pc, {})]
    BY <1>6 DEF Persist
  <2>2. CASE pc = "done"
    BY <1>4, <1>6, <2>1, <2>2 DEF Persist
  <2>3. CASE pc = "scan"
    <3>1. requests[i] = 0
      BY <1>2, <1>6 DEF Allowance, Persist
    <3>2. Allowance(At("scan", {}), requests[i])
      BY <3>1 DEF Allowance, At, Sending
    <3> QED BY <1>1, <2>1, <2>3, <3>2, AllowanceUpdate
  <2> QED BY <2>1, <2>2, <2>3
<1>7. CASE StoreFails(i)
  BY <1>3, <1>4, <1>7 DEF StoreFails, Sending
<1>8. CASE Crash(i)
  BY <1>4, <1>8 DEF Crash
<1>9. CASE Finalize(i)
  BY <1>3, <1>9 DEF Finalize, Sending
<1>10. ASSUME NEW r \in Invocations, Skip(i, r) PROVE BudgetInv'
  BY <1>3, <1>10 DEF Skip
<1> QED BY <1>5, <1>6, <1>7, <1>8, <1>9, <1>10

\* The first of two requests for an alert.
LEMMA BudgetClaim ==
  ASSUME TypeOK, BudgetInv, NEW i \in Invocations, NEW r \in Invocations, Claim(i, r)
  PROVE  BudgetInv'
<1> DEFINE p == [proc[i] EXCEPT !.at = "post", !.run = r, !.number = Len(deliveries[r]) + 1]
           c == Cardinality(proc[i].todo)
<1>1. proc[i] \in Procs /\ proc[i].at = "claim" /\ (proc[i].todo # {} => r \in proc[i].todo)
  BY DEF TypeOK, Claim, IsNext
<1>2. proc' = [proc EXCEPT ![i] = p]
  <2>1. proc' = [proc EXCEPT ![i].at = "post", ![i].run = r, ![i].number = Len(deliveries[r]) + 1]
    BY DEF Claim
  <2>2. proc \in [Invocations -> Procs]
    BY DEF TypeOK
  <2> QED BY <2>1, <2>2
<1>3. requests' = [requests EXCEPT ![i] = requests[i] + 1]
  BY DEF Claim
<1>4. p.at = "post" /\ p.run = r /\ p.todo = proc[i].todo
  BY <1>1 DEF Procs
<1>5. Allowance(proc[i], requests[i])
  BY DEF BudgetInv
<1>6. c \in Nat /\ requests[i] \in Nat /\ RecoverLimit \in Nat
  BY TodoIsFinite
<1> HIDE DEF p, c
<1>7. requests[i] + 1 + 2 * c <= 2 * RecoverLimit + 1
  BY <1>1, <1>5, <1>6 DEF Allowance, c
<1>8. requests[i] + 1 + 2 * c <=
        2 * RecoverLimit + (IF p.retried \/ p.at = "finalize" THEN 2 ELSE 1)
  BY <1>6, <1>7
<1>9. Allowance(p, requests[i] + 1)
  BY <1>1, <1>4, <1>8 DEF Allowance, Sending, c
<1> QED BY <1>2, <1>3, <1>9, AllowanceUpdate

\* One retry follows a failed request that was no retry itself.
LEMMA BudgetError ==
  ASSUME TypeOK, BudgetInv, NEW i \in Invocations, NEW error \in Errors,
         proc[i].at \in {"post", "answer"},
         proc' = [proc EXCEPT ![i] = AfterError(@, error)],
         requests' = RequestsAfter(i, error)
  PROVE  BudgetInv'
<1> DEFINE c == Cardinality(proc[i].todo)
<1>1. proc[i] \in Procs /\ Allowance(proc[i], requests[i])
  BY DEF TypeOK, BudgetInv
<1>2. c \in Nat /\ requests[i] \in Nat /\ RecoverLimit \in Nat
      /\ (requests' = requests => requests' = [requests EXCEPT ![i] = requests[i]])
  BY TodoIsFinite
<1>3. /\ proc[i].todo # {} => proc[i].run \in proc[i].todo
      /\ requests[i] + 2 * c <= 2 * RecoverLimit + (IF proc[i].retried THEN 2 ELSE 1)
  BY <1>1 DEF Allowance, Sending
<1>4. CASE Retries(proc[i], error)
  <2> DEFINE p == [proc[i] EXCEPT !.at = "post", !.retried = TRUE]
  <2>1. p.at = "post" /\ p.retried = TRUE /\ p.todo = proc[i].todo /\ p.run = proc[i].run
    BY <1>1 DEF Procs
  <2>2. proc' = [proc EXCEPT ![i] = p] /\ requests' = [requests EXCEPT ![i] = requests[i] + 1]
    BY <1>4 DEF AfterError, RequestsAfter
  <2> HIDE DEF p, c
  <2>3. requests[i] + 1 + 2 * c <= 2 * RecoverLimit + 2
    BY <1>2, <1>3, <1>4 DEF Retries
  <2>4. Allowance(p, requests[i] + 1)
    BY <1>3, <2>1, <2>3 DEF Allowance, Sending, c
  <2> QED BY <2>2, <2>4, AllowanceUpdate
<1>5. CASE ~Retries(proc[i], error)
  <2> DEFINE p == [proc[i] EXCEPT !.at = "finalize", !.error = error]
  <2>1. p.at = "finalize" /\ p.todo = proc[i].todo /\ p.run = proc[i].run
    BY <1>1 DEF Procs
  <2>2. proc' = [proc EXCEPT ![i] = p] /\ requests' = [requests EXCEPT ![i] = requests[i]]
    BY <1>2, <1>5 DEF AfterError, RequestsAfter
  <2> HIDE DEF p, c
  <2>3. requests[i] + 2 * c <= 2 * RecoverLimit + 2
    BY <1>2, <1>3
  <2>4. Allowance(p, requests[i])
    BY <1>3, <2>1, <2>3 DEF Allowance, Sending, c
  <2> QED BY <2>2, <2>4, AllowanceUpdate
<1> QED BY <1>4, <1>5

LEMMA BudgetAnswer ==
  ASSUME TypeOK, BudgetInv, NEW i \in Invocations, Accepted(i) \/ AnswerArrives(i)
  PROVE  BudgetInv'
<1> DEFINE c == Cardinality(proc[i].todo)
<1>1. proc[i] \in Procs /\ Allowance(proc[i], requests[i]) /\ proc \in [Invocations -> Procs]
  BY DEF TypeOK, BudgetInv
<1>2. c \in Nat /\ requests[i] \in Nat /\ RecoverLimit \in Nat
      /\ requests' = [requests EXCEPT ![i] = requests[i]]
  BY TodoIsFinite DEF Accepted, AnswerArrives, historyVars
<1>3. proc[i].at \in {"post", "answer"}
  BY DEF Accepted, AnswerArrives
<1>4. /\ proc[i].todo # {} => proc[i].run \in proc[i].todo
      /\ requests[i] + 2 * c <= 2 * RecoverLimit + (IF proc[i].retried THEN 2 ELSE 1)
  BY <1>1, <1>3 DEF Allowance, Sending
<1>5. PICK p \in {[proc[i] EXCEPT !.at = "answer"],
                  [proc[i] EXCEPT !.at = "finalize", !.error = "none"]} :
        proc' = [proc EXCEPT ![i] = p]
  <2>1. CASE Accepted(i)
    BY <2>1 DEF Accepted
  <2>2. CASE AnswerArrives(i)
    BY <1>1, <2>2 DEF AnswerArrives
  <2> QED BY <2>1, <2>2
<1>6. /\ p.at \in {"answer", "finalize"} /\ p.todo = proc[i].todo /\ p.run = proc[i].run
      /\ p.retried = proc[i].retried
  BY <1>1, <1>5 DEF Procs
<1> HIDE DEF c
<1>7. requests[i] + 2 * c <=
        2 * RecoverLimit + (IF p.retried \/ p.at = "finalize" THEN 2 ELSE 1)
  BY <1>2, <1>4, <1>6
<1>8. Allowance(p, requests[i])
  BY <1>4, <1>6, <1>7 DEF Allowance, Sending, c
<1> QED BY <1>2, <1>5, <1>8, AllowanceUpdate

LEMMA BudgetInit == Init => BudgetInv
<1> SUFFICES ASSUME Init, NEW i \in Invocations PROVE Allowance(proc[i], requests[i])
  BY DEF BudgetInv
<1>1. proc[i] = At("absent", {}) /\ requests[i] = 0
  BY DEF Init
<1> QED BY <1>1 DEF Allowance, At, Sending

LEMMA BudgetStep == TypeOK /\ BudgetInv /\ [Next]_vars => BudgetInv'
<1> SUFFICES ASSUME TypeOK, BudgetInv, [Next]_vars PROVE BudgetInv'
  OBVIOUS
<1>1. CASE UNCHANGED vars \/ Tick
  <2>1. proc' = proc /\ requests' = requests
    BY <1>1 DEF Tick, vars, historyVars
  <2> QED BY <2>1 DEF BudgetInv, Allowance
<1>2. ASSUME NEW i \in Invocations, NotAccepted(i) PROVE BudgetInv'
  BY <1>2, BudgetError DEF NotAccepted
<1>3. ASSUME NEW i \in Invocations, AnswerLost(i) PROVE BudgetInv'
  <2>1. "transient" \in Errors
    BY DEF Errors
  <2> QED BY <1>3, <2>1, BudgetError DEF AnswerLost
<1>4. ASSUME NEW i \in Invocations, Persist(i) \/ Continue(i) \/ StoreFails(i) \/ Crash(i)
      PROVE  BudgetInv'
  BY <1>2, <1>3, <1>4, BudgetMoves, BudgetClaim, BudgetAnswer DEF Continue
<1> QED BY <1>1, <1>4 DEF Next, Finished

\* An invocation makes at most two requests for each alert it may deliver, however
\* its retries, skipped alerts and failures fall (discord.py deliver_drift_alert and
\* recover_drift_alerts).
THEOREM BoundedRequestsHolds == Spec => []BoundedRequests
<1>1. Init => TypeOK /\ BudgetInv
  BY TypeInit, BudgetInit
<1>2. TypeOK /\ BudgetInv /\ [Next]_vars => (TypeOK /\ BudgetInv)'
  BY TypeStep, BudgetStep
<1>3. TypeOK /\ BudgetInv => BoundedRequests
  <2> SUFFICES ASSUME TypeOK, BudgetInv, NEW i \in Invocations
               PROVE  requests[i] <= 2 * (RecoverLimit + 1)
    BY DEF BoundedRequests
  <2> DEFINE c == Cardinality(proc[i].todo)
  <2>1. c \in Nat /\ requests[i] \in Nat /\ RecoverLimit \in Nat
    BY TodoIsFinite
  <2>2. Allowance(proc[i], requests[i])
    BY DEF BudgetInv
  <2>3. proc[i].at \in {"absent", "scan", "claim", "done"} \cup Sending
    BY DEF TypeOK, Procs
  <2> HIDE DEF c
  <2> QED BY <2>1, <2>2, <2>3 DEF Allowance, c
<1> QED BY <1>1, <1>2, <1>3, PTL DEF Spec

\* However many invocations recover at the same time, an alert has one sender and
\* each invocation its budget of requests (repository.py claim_discord_delivery,
\* discord.py deliver_drift_alert).
THEOREM RecoveryIsContainedHolds == Spec => []RecoveryIsContained
BY OneSenderHolds, BoundedRequestsHolds, PTL DEF RecoveryIsContained

=============================================================================
