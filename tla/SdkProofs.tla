----------------------------- MODULE SdkProofs -----------------------------
(***************************************************************************)
(* Theorems about SdkCapture.tla, for every set of spans and tasks.        *)
(***************************************************************************)
EXTENDS SdkProperties, SequenceTheorems, TLAPS

-----------------------------------------------------------------------------
(* The inductive invariant, in the layers in which it is proved.           *)

\* A span's place in its tree; the tree is fixed when the span is entered.
TreeInv ==
  \A s \in Spans :
    /\ scope[s].at = "new" => above[s] = {} /\ IsRoot(s)
    /\ scope[s].at # "new" => scope[s].task \in started
    /\ IsRoot(scope[s].root)
    /\ scope[s].root = s <=> IsRoot(s)
    /\ scope[s].root = s \/ scope[s].root \in above[s]
    /\ IsRoot(s) => above[s] = {}
    /\ ~IsRoot(s) => above[s] = above[scope[s].parent] \cup {scope[s].parent}
    /\ s \notin above[s]
    /\ \A a \in above[s] : /\ scope[a].at # "new"
                           /\ scope[a].root = scope[s].root
                           /\ above[a] \subseteq above[s]

\* The open spans of a task are its current span and what encloses it.
StackInv ==
  \A t \in Tasks :
    /\ leaving[t] # NoSpan => scope[leaving[t]].at = "leaving" /\ scope[leaving[t]].task = t
    /\ \A s \in Spans : scope[s].task = t =>
         /\ scope[s].at = "leaving" => leaving[t] = s
         /\ scope[s].at = "open" =>
              current[t] # NoSpan /\ (s = current[t] \/ s \in above[current[t]])
    /\ current[t] # NoSpan =>
         /\ scope[current[t]].at # "new"
         /\ \A s \in above[current[t]] \cup {current[t]} :
              scope[s].task = t => scope[s].at = "open"

\* A span that encloses another one of its task is left after it.
NestingInv ==
  /\ \A s \in Spans : \A a \in after[s] : scope[a].at = "exited" /\ scope[s].at = "exited"
  /\ \A s \in Spans : \A a \in above[s] :
       scope[a].task = scope[s].task =>
         /\ scope[a].at \in {"leaving", "exited"} => scope[s].at = "exited"
         /\ scope[a].at = "exited" => s \in after[a]

Queued(s) == \E i \in 1..Len(jobs) : jobs[i] = Job("emit", s)
Dropped == refused \cup invalid

\* What was captured or dropped, and when.
CaptureInv ==
  /\ executor = "absent" => captured = {}
  /\ executor # "closed" => refused = {}
  /\ \A s \in captured : scope[s].at \in {"leaving", "exited"}
  /\ \A s \in Dropped : scope[s].at = "exited"

\* A span that left its scope was dropped, appended, or waits in the queue.
SettledInv ==
  \A s \in Exited : s \in Dropped \/ Appended(s) \/ (s \in captured /\ Queued(s))

QueueInv ==
  \A s \in Spans : \A i \in 1..Len(jobs) : jobs[i] = Job("emit", s) =>
    /\ s \in Exited /\ s \in captured /\ s \notin Dropped
    /\ ~Appended(s)
    /\ \A j \in 1..Len(jobs) : jobs[j] = Job("emit", s) => i = j

AccumulatorInv ==
  \A r, s \in Spans : \A i \in 1..Len(completed[r]) : completed[r][i] = s =>
    /\ scope[s].root = r
    /\ s \in Exited /\ s \notin Dropped
    /\ \A j \in 1..Len(completed[r]) : completed[r][j] = s => i = j

\* The executor's queue keeps the order in which scopes were left ...
QueueOrderInv ==
  \A s \in Spans : \A j \in 1..Len(jobs) : jobs[j] = Job("emit", s) =>
    \A a \in after[s] : a \in captured =>
      a \in Dropped \/ Appended(a) \/ \E i \in 1..(j - 1) : jobs[i] = Job("emit", a)

\* ... and so does the accumulator, for spans not deferred behind others.
AccumulatorOrderInv ==
  \A r, s \in Spans : \A j \in 1..Len(completed[r]) : completed[r][j] = s =>
    \A a \in after[s] :
      a \notin Dropped /\ scope[a].root = r /\ (a \in captured => s \in captured) =>
        \E i \in 1..(j - 1) : completed[r][i] = a

\* The entries of an accumulator up to its root are the ones the root emits.
Released(r, k) == completed[r][k] = r
Emitter(r) == IF r \in captured THEN Executor ELSE scope[r].task

\* What a root released is offered or about to be, in reverse.
ReleaseInv ==
  /\ \A t \in Tasks : leaving[t] # NoSpan => todo[t] = <<>>
  /\ \A s \in Spans : (s \in offered \/ \E x \in Threads : In(s, todo[x])) =>
       \E k \in 1..Len(completed[scope[s].root]) :
         Released(scope[s].root, k) /\ \E i \in 1..k : completed[scope[s].root][i] = s
  /\ \A x \in Threads : \A p \in 1..Len(todo[x]) : x = Emitter(scope[todo[x][p]].root)
  /\ \A r \in Spans : \A k \in 1..Len(completed[r]) : Released(r, k) =>
       \A i \in 1..k : completed[r][i] \in offered \/ \E x \in Threads : In(completed[r][i], todo[x])

OrderInv ==
  \A r \in Spans : \A k \in 1..Len(completed[r]) : Released(r, k) =>
    \A j \in 1..k : \A i \in 1..(j - 1) :
      /\ completed[r][i] \in offered =>
           completed[r][j] \in offered /\ completed[r][j] \in earlier[completed[r][i]]
      /\ \A x \in Threads : \A p \in 1..Len(todo[x]) : todo[x][p] = completed[r][i] =>
           completed[r][j] \in offered \/ \E q \in 1..(p - 1) : todo[x][q] = completed[r][j]

Behind(s) == \E j \in 1..Len(jobs) : jobs[j] = Barrier /\ \E i \in 1..(j - 1) : jobs[i] = Job("emit", s)
Delivered(s) == s \in invalid \/ (Appended(s) /\ (IsRoot(s) => s \in offered))

\* What a flush covers is delivered, or its barrier is still to come.
Covered(s) ==
  \/ Delivered(s)
  \/ Behind(s)
  \/ Appended(s) /\ In(s, todo[Executor]) /\ In(Barrier, jobs)

CoverInv ==
  /\ sink => accepted = offered
  /\ app.covers \subseteq Exited
  /\ app.at = "barrier" => \A s \in app.covers : Covered(s)
  /\ app.at = "drain" => \A s \in app.covers : Delivered(s)
  /\ flushed \subseteq Exited
  /\ FlushCoversExits

-----------------------------------------------------------------------------
(* Types.                                                                  *)

LEMMA ReversedType ==
  ASSUME NEW q \in Seq(Spans)
  PROVE  /\ Reversed(q) \in Seq(Spans)
         /\ Len(Reversed(q)) = Len(q)
         /\ \A i \in 1..Len(q) : Reversed(q)[i] = q[Len(q) + 1 - i]
<1> DEFINE n == Len(q)
<1>1. n \in Nat /\ \A i \in 1..n : q[i] \in Spans
  OBVIOUS
<1>2. \A i \in 1..n : n + 1 - i \in 1..n
  BY <1>1
<1>3. Reversed(q) \in [1..n -> Spans]
  BY <1>1, <1>2 DEF Reversed
<1>4. Reversed(q) \in Seq(Spans)
  BY <1>1, <1>3, SeqDef
<1>5. Len(Reversed(q)) = n
  BY <1>1, <1>3, <1>4, LenProperties
<1> QED BY <1>4, <1>5 DEF Reversed

LEMMA InitType == Init => TypeOK
<1> SUFFICES ASSUME Init PROVE TypeOK
  OBVIOUS
<1>1. scope \in [Spans -> Scopes]
  BY ScopeAssumption DEF Init, Scopes
<1>2. app \in Calls
  BY ScopeAssumption DEF Init, Calls
<1>3. jobs \in Seq(Jobs) /\ <<>> \in Seq(Spans)
  BY DEF Init
<1>4. completed \in [Spans -> Seq(Spans)] /\ todo \in [Threads -> Seq(Spans)]
  BY <1>3 DEF Init
<1>5. earlier \in [Spans -> SUBSET Spans] /\ above \in [Spans -> SUBSET Spans]
      /\ after \in [Spans -> SUBSET Spans]
  BY DEF Init
<1>6. current \in [Tasks -> Spans \cup {NoSpan}] /\ leaving \in [Tasks -> Spans \cup {NoSpan}]
  BY DEF Init
<1> QED BY <1>1, <1>2, <1>3, <1>4, <1>5, <1>6, ScopeAssumption DEF Init, TypeOK

LEMMA JobType == \A s \in Spans : Job("put", s) \in Jobs /\ Job("emit", s) \in Jobs
BY DEF Jobs, Job

LEMMA AtType ==
  ASSUME TypeOK, NEW s \in Spans, NEW at \in {"leaving", "exited"}
  PROVE  [scope EXCEPT ![s].at = at] \in [Spans -> Scopes]
<1>1. scope \in [Spans -> Scopes] /\ scope[s] \in Scopes
  BY DEF TypeOK
<1>2. [scope[s] EXCEPT !.at = at] \in Scopes
  BY <1>1 DEF Scopes
<1> QED BY <1>1, <1>2

\* What emit_span changes keeps its type.
LEMMA EmitSpanType ==
  ASSUME TypeOK, NEW x \in Threads, NEW s \in Spans, EmitSpan(x, s)
  PROVE  /\ completed' \in [Spans -> Seq(Spans)]
         /\ todo' \in [Threads -> Seq(Spans)]
<1> DEFINE r == scope[s].root
<1>1. r \in Spans
  BY DEF TypeOK, Scopes
<1>2. completed' \in [Spans -> Seq(Spans)]
  BY <1>1 DEF TypeOK, EmitSpan
<1>3. Reversed(completed'[r]) \in Seq(Spans)
  BY <1>1, <1>2, ReversedType
<1> QED BY <1>2, <1>3 DEF TypeOK, EmitSpan

LEMMA FlushEndsType ==
  ASSUME TypeOK, NEW ok \in BOOLEAN, FlushEnds(ok)
  PROVE  app' \in Calls /\ flushed' \subseteq Spans
<1>1. app \in Calls
  BY DEF TypeOK, Calls
<1>2. app' \in Calls
  BY <1>1 DEF FlushEnds, Returns, Calls
<1>3. flushed' \subseteq Spans
  BY <1>1 DEF TypeOK, FlushEnds, Calls
<1> QED BY <1>2, <1>3

LEMMA TypeStep == TypeOK /\ [Next]_vars => TypeOK'
<1> SUFFICES ASSUME TypeOK, [Next]_vars PROVE TypeOK'
  OBVIOUS
<1> USE ScopeAssumption
<1>1. ASSUME NEW t \in Tasks, NEW u \in Tasks, Spawn(t, u) PROVE TypeOK'
  BY <1>1 DEF TypeOK, Spawn, captureVars, offerVars, appVars
<1>2. ASSUME NEW t \in Tasks, NEW s \in Spans, Enter(t, s) PROVE TypeOK'
  <2>1. current[t] \in Spans \cup {NoSpan}
    BY DEF TypeOK
  <2>2. scope' \in [Spans -> Scopes]
    <3>1. scope \in [Spans -> Scopes]
      BY DEF TypeOK, Scopes
    <3>2. scope'[s] \in Scopes /\ scope' = [scope EXCEPT ![s] = scope'[s]]
      BY <1>2, <2>1, <3>1 DEF Enter, Scopes
    <3> QED BY <3>1, <3>2
  <2>3. above' \in [Spans -> SUBSET Spans] /\ current' \in [Tasks -> Spans \cup {NoSpan}]
    BY <1>2, <2>1 DEF TypeOK, Enter
  <2> QED BY <1>2, <2>2, <2>3 DEF TypeOK, Enter, Scopes, captureVars, offerVars, appVars
<1>3. ASSUME NEW t \in Tasks, NEW s \in Spans, Leave(t, s) PROVE TypeOK'
  <2>1. scope' \in [Spans -> Scopes]
    BY <1>3, AtType DEF Leave
  <2>2. current' \in [Tasks -> Spans \cup {NoSpan}] /\ leaving' \in [Tasks -> Spans \cup {NoSpan}]
    BY <1>3 DEF TypeOK, Leave, Scopes
  <2>3. captured' \subseteq Spans /\ refused \subseteq captured' /\ jobs' \in Seq(Jobs)
    <3>1. Append(jobs, Job("put", s)) \in Seq(Jobs)
      BY JobType DEF TypeOK
    <3> QED BY <1>3, <3>1 DEF TypeOK, Leave
  <2> QED BY <1>3, <2>1, <2>2, <2>3 DEF TypeOK, Leave, Scopes, Jobs, offerVars, appVars
<1>4. ASSUME NEW t \in Tasks, NEW s \in Spans, Exit(t, s) PROVE TypeOK'
  <2>1. scope' \in [Spans -> Scopes]
    BY <1>4, AtType DEF Exit
  <2>2. leaving' \in [Tasks -> Spans \cup {NoSpan}] /\ after' \in [Spans -> SUBSET Spans]
    BY <1>4 DEF TypeOK, Exit, Exited
  <2>3. /\ completed' \in [Spans -> Seq(Spans)]
        /\ todo' \in [Threads -> Seq(Spans)]
    BY <1>4, EmitSpanType DEF Exit, ExitInline, ExitInvalid, ExitDeferred, TypeOK, Threads
  <2>4. refused' \subseteq captured /\ invalid' \subseteq Spans /\ jobs' \in Seq(Jobs)
    <3>1. Append(jobs, Job("emit", s)) \in Seq(Jobs)
      BY JobType DEF TypeOK
    <3> QED BY <1>4, <3>1 DEF TypeOK, Exit, ExitInline, ExitInvalid, ExitDeferred
  <2> QED BY <1>4, <2>1, <2>2, <2>3, <2>4 DEF TypeOK, Exit, Scopes, Jobs, appVars
<1>5. ASSUME NEW x \in Threads, Offer(x) PROVE TypeOK'
  <2>1. todo[x] \in Seq(Spans) /\ todo[x] # <<>>
    BY <1>5 DEF TypeOK, Offer
  <2>2. Head(todo[x]) \in Spans /\ Tail(todo[x]) \in Seq(Spans)
    BY <2>1
  <2> QED BY <1>5, <2>2 DEF TypeOK, Offer, scopeVars, captureVars, appVars
<1>6. CASE RunJob
  <2>1. jobs \in Seq(Jobs) /\ jobs # <<>>
    BY <1>6 DEF TypeOK, RunJob
  <2>2. Head(jobs) \in Jobs /\ Tail(jobs) \in Seq(Jobs)
    BY <2>1
  <2>3. Head(jobs).do # "barrier" => Head(jobs).span \in Spans
    BY <2>2 DEF Jobs, Barrier, Job
  <2>4. /\ completed' \in [Spans -> Seq(Spans)]
        /\ todo' \in [Threads -> Seq(Spans)]
        /\ written' \subseteq Spans /\ invalid' \subseteq Spans
    BY <1>6, <2>3, EmitSpanType DEF RunJob, TypeOK, Threads
  <2> QED BY <1>6, <2>2, <2>4 DEF TypeOK, RunJob, scopeVars, appVars
<1>7. ASSUME NEW call \in {"flush", "shutdown"}, Call(call) PROVE TypeOK'
  <2>1. app \in Calls
    BY DEF TypeOK
  <2>2. Returned \subseteq Spans
    BY DEF Returned, Exited
  <2>3. executor \in {"absent", "open", "closed"}
    BY DEF TypeOK
  <2>4. app'.at \in {"idle", "barrier", "drain", "close"}
    BY <1>7, <2>1, <2>3 DEF Call, Calls
  <2>5. app' \in Calls
    <3>1. app.calls \in 0..MaxCalls /\ app.calls < MaxCalls
      BY <1>7, <2>1 DEF Call, Calls
    <3>2. app.calls + 1 \in 0..MaxCalls
      BY <3>1
    <3>3. (executor # "closed") \in BOOLEAN
      OBVIOUS
    <3> DEFINE at == app'.at
    <3>4. app' = [call |-> call, covers |-> Returned, calls |-> app.calls + 1,
                  at |-> at, result |-> executor # "closed"]
      BY <1>7 DEF Call
    <3>5. at \in {"idle", "barrier", "drain", "close"}
      BY <2>4
    <3> HIDE DEF at
    <3>6. call \in {"none", "flush", "shutdown"}
      BY <1>7
    <3> QED BY <3>2, <3>3, <3>4, <3>5, <3>6, <2>2 DEF Calls
  <2>6. jobs' \in Seq(Jobs)
    BY <1>7 DEF TypeOK, Call, Jobs
  <2> QED BY <1>7, <2>5, <2>6 DEF TypeOK, Call, scopeVars, offerVars
<1>8. CASE FlushTimesOut
  BY <1>8, FlushEndsType DEF TypeOK, FlushTimesOut, scopeVars, captureVars, offerVars
<1>9. CASE AppReturns
  <2>1. app \in Calls
    BY DEF TypeOK
  <2>2. CASE FlushWaits
    BY <2>1, <2>2 DEF FlushWaits, TypeOK, Calls, scopeVars, captureVars, offerVars
  <2>3. ASSUME NEW ok \in BOOLEAN, Drained(ok) PROVE TypeOK'
    BY <2>3, FlushEndsType DEF TypeOK, Drained, scopeVars, captureVars, offerVars
  <2>4. CASE CloseExecutor
    BY <2>1, <2>4 DEF CloseExecutor, TypeOK, Calls, Returns, scopeVars, offerVars
  <2>5. ASSUME NEW ok \in BOOLEAN, StopCollector(ok) PROVE TypeOK'
    BY <2>1, <2>5 DEF StopCollector, TypeOK, Calls, Returns, scopeVars, captureVars
  <2> QED BY <1>9, <2>2, <2>3, <2>4, <2>5 DEF AppReturns
<1>10. CASE InterpreterExits
  BY <1>10 DEF InterpreterExits, TypeOK, scopeVars, offerVars
<1>11. CASE UNCHANGED vars
  BY <1>11 DEF TypeOK, vars, scopeVars, captureVars, offerVars, appVars
<1> QED
  BY <1>1, <1>2, <1>3, <1>4, <1>5, <1>6, <1>7, <1>8, <1>9, <1>10, <1>11 DEF Next, Finished

\* Every reachable state is well typed (the state of tracer.py and config.py).
THEOREM TypeCorrect == Spec => []TypeOK
BY InitType, TypeStep, PTL DEF Spec

-----------------------------------------------------------------------------
(* Steps that leave the scopes alone, and steps of the application.        *)

AppStep ==
  /\ UNCHANGED <<scopeVars, captured, refused, invalid, completed, todo,
                 offered, earlier>>
  /\ jobs' = jobs \/ jobs' = Append(jobs, Barrier)
  /\ executor' = executor \/ (executor = "open" /\ executor' = "closed")

LEMMA StepCases ==
  ASSUME [Next]_vars
  PROVE  \/ \E t \in Tasks : \/ \E u \in Tasks : Spawn(t, u)
                             \/ \E s \in Spans : Enter(t, s) \/ Leave(t, s) \/ Exit(t, s)
         \/ \E x \in Threads : Offer(x)
         \/ RunJob
         \/ AppStep
<1> USE DEF AppStep, scopeVars, captureVars, offerVars, appVars
<1>1. ASSUME NEW call, Call(call) PROVE AppStep
  BY <1>1 DEF Call
<1>2. CASE FlushTimesOut
  BY <1>2 DEF FlushTimesOut
<1>3. ASSUME AppReturns PROVE AppStep
  BY <1>3 DEF AppReturns, FlushWaits, Drained, CloseExecutor, StopCollector
<1>4. CASE InterpreterExits
  BY <1>4 DEF InterpreterExits
<1>5. CASE UNCHANGED vars
  BY <1>5 DEF vars
<1> QED BY <1>1, <1>2, <1>3, <1>4, <1>5 DEF Next, Finished

LEMMA ScopesKept ==
  ASSUME (\E x \in Threads : Offer(x)) \/ RunJob \/ AppStep
  PROVE  UNCHANGED scopeVars
BY DEF Offer, RunJob, AppStep

-----------------------------------------------------------------------------
(* The tree of spans and the stack of each task.                           *)

LEMMA InitScopes == Init => TreeInv /\ StackInv /\ NestingInv
BY ScopeAssumption DEF Init, TreeInv, StackInv, NestingInv, IsRoot

LEMMA TreeStep ==
  ASSUME TypeOK, TreeInv, StackInv, [Next]_vars
  PROVE  TreeInv'
<1> USE ScopeAssumption
<1>1. ASSUME NEW t \in Tasks, NEW u \in Tasks, Spawn(t, u) PROVE TreeInv'
  BY <1>1 DEF Spawn, TreeInv, IsRoot
<1>2. ASSUME NEW t \in Tasks, NEW s \in Spans, Enter(t, s) PROVE TreeInv'
  <2>p. PICK p : p = current[t]
    OBVIOUS
  <2>1. /\ scope[s].at = "new" /\ started' = started /\ t \in started
        /\ scope'[s] = [at |-> "open", parent |-> p, task |-> t,
                        root |-> IF p = NoSpan THEN s ELSE scope[p].root]
        /\ above'[s] = IF p = NoSpan THEN {} ELSE above[p] \cup {p}
        /\ \A q \in Spans \ {s} : scope'[q] = scope[q] /\ above'[q] = above[q]
    BY <1>2, <2>p DEF Enter, Runs, TypeOK
  <2>2. p \in Spans \cup {NoSpan} /\ (p # NoSpan => scope[p].at # "new")
    BY <2>p DEF TypeOK, StackInv
  <2>3. \A q \in Spans : scope[q].root \in Spans /\ above[q] \subseteq Spans
                         /\ scope[q].parent \in Spans \cup {NoSpan}
    BY DEF TypeOK, Scopes
  <2>4. \A q \in Spans \ {s} : s \notin above[q] /\ scope[q].root # s /\ scope[q].parent # s
    BY <2>1, <2>3 DEF TreeInv, IsRoot
  <2>5. ASSUME NEW q \in Spans, q # s
        PROVE  /\ scope'[q].at = "new" => above'[q] = {} /\ IsRoot(q)'
               /\ scope'[q].at # "new" => scope'[q].task \in started'
               /\ IsRoot(scope[q].root)'
               /\ scope'[q].root = q <=> IsRoot(q)'
               /\ scope'[q].root = q \/ scope'[q].root \in above'[q]
               /\ IsRoot(q)' => above'[q] = {}
               /\ ~IsRoot(q)' => above'[q] = above'[scope'[q].parent] \cup {scope'[q].parent}
               /\ q \notin above'[q]
               /\ \A a \in above'[q] : /\ scope'[a].at # "new"
                                       /\ scope'[a].root = scope'[q].root
                                       /\ above'[a] \subseteq above'[q]
    <3>1. scope'[q] = scope[q] /\ above'[q] = above[q]
      BY <2>1, <2>5
    <3>2. scope[q].root \in Spans \ {s} /\ above[q] \subseteq Spans \ {s}
          /\ scope[q].parent \in (Spans \ {s}) \cup {NoSpan}
      BY <2>3, <2>4, <2>5
    <3>3. /\ scope[q].at = "new" => above[q] = {} /\ IsRoot(q)
          /\ scope[q].at # "new" => scope[q].task \in started
          /\ IsRoot(scope[q].root)
          /\ scope[q].root = q <=> IsRoot(q)
          /\ scope[q].root = q \/ scope[q].root \in above[q]
          /\ IsRoot(q) => above[q] = {}
          /\ ~IsRoot(q) => above[q] = above[scope[q].parent] \cup {scope[q].parent}
          /\ q \notin above[q]
          /\ \A a \in above[q] : /\ scope[a].at # "new"
                                 /\ scope[a].root = scope[q].root
                                 /\ above[a] \subseteq above[q]
      BY DEF TreeInv
    <3>4. IsRoot(q)' <=> IsRoot(q)
      BY <3>1 DEF IsRoot
    <3>5. IsRoot(scope[q].root)'
      BY <2>1, <3>1, <3>2, <3>3 DEF IsRoot
    <3>6. \A a \in above[q] : scope'[a] = scope[a] /\ above'[a] = above[a]
      BY <2>1, <3>2
    <3>7. ~IsRoot(q) => above'[scope[q].parent] = above[scope[q].parent]
      BY <2>1, <3>2 DEF IsRoot
    <3> QED BY <2>1, <3>1, <3>3, <3>4, <3>5, <3>6, <3>7
  <2>6. IsRoot(s)' <=> p = NoSpan
    BY <2>1 DEF IsRoot
  <2>7. CASE p = NoSpan
    <3>1. scope'[s].root = s /\ above'[s] = {} /\ scope'[s].task = t /\ scope'[s].at = "open"
      BY <2>1, <2>7
    <3> QED BY <2>1, <2>5, <2>6, <2>7, <3>1 DEF TreeInv
  <2>8. CASE p # NoSpan
    <3>1. p \in Spans /\ p # s
      BY <2>1, <2>2, <2>8
    <3>2. scope'[s].root = scope[p].root /\ above'[s] = above[p] \cup {p}
          /\ scope'[s].task = t /\ scope'[s].at = "open" /\ scope'[s].parent = p
      BY <2>1, <2>8
    <3>3. scope[p].root \in above'[s] /\ scope[p].root # s
      BY <2>4, <3>1, <3>2 DEF TreeInv
    <3>4. IsRoot(scope[p].root)'
      BY <2>5, <3>1 DEF IsRoot
    <3>5. s \notin above'[s] /\ above'[p] = above[p]
      BY <2>1, <2>4, <3>1, <3>2
    <3>6. ASSUME NEW a \in above'[s]
          PROVE  /\ scope'[a].at # "new"
                 /\ scope'[a].root = scope'[s].root
                 /\ above'[a] \subseteq above'[s]
      <4>1. a \in Spans \ {s}
        BY <2>3, <3>1, <3>2, <3>5
      <4>2. scope'[a] = scope[a] /\ above'[a] = above[a]
        BY <2>1, <4>1
      <4>3. CASE a = p
        BY <2>2, <2>8, <3>2, <4>2, <4>3
      <4>4. CASE a \in above[p]
        BY <3>1, <3>2, <4>2, <4>4 DEF TreeInv
      <4> QED BY <3>2, <4>3, <4>4
    <3> QED BY <2>1, <2>5, <2>6, <2>8, <3>2, <3>3, <3>4, <3>5, <3>6 DEF TreeInv, IsRoot
  <2> QED BY <2>7, <2>8
<1>3. ASSUME NEW t \in Tasks, NEW s \in Spans, Leave(t, s) \/ Exit(t, s) PROVE TreeInv'
  <2>1. /\ UNCHANGED <<above, started>>
        /\ \A q \in Spans : /\ scope'[q].parent = scope[q].parent
                            /\ scope'[q].root = scope[q].root
                            /\ scope'[q].task = scope[q].task
                            /\ scope'[q].at = "new" <=> scope[q].at = "new"
    <3>1. scope[s] \in Scopes /\ scope \in [Spans -> Scopes]
      BY DEF TypeOK
    <3>2. scope[s].at # "new"
      BY <1>3, <3>1 DEF Leave, Exit, ExitInline, ExitInvalid, ExitDeferred, StackInv
    <3> QED BY <1>3, <3>1, <3>2 DEF Leave, Exit, Scopes
  <2>2. \A q \in Spans : above[q] \subseteq Spans /\ scope[q].root \in Spans
    BY DEF TypeOK, Scopes
  <2> QED BY <2>1, <2>2 DEF TreeInv, IsRoot
<1>4. CASE UNCHANGED scopeVars
  BY <1>4 DEF scopeVars, TreeInv, IsRoot
<1> QED BY <1>1, <1>2, <1>3, <1>4, StepCases, ScopesKept

\* What Enter, Leave and Exit do to the scopes.
LEMMA EnterEffect ==
  ASSUME TypeOK, StackInv, NEW t \in Tasks, NEW s \in Spans, Enter(t, s)
  PROVE  /\ scope[s].at = "new" /\ leaving[t] = NoSpan
         /\ scope'[s].at = "open" /\ scope'[s].task = t
         /\ above'[s] = IF current[t] = NoSpan THEN {} ELSE above[current[t]] \cup {current[t]}
         /\ \A q \in Spans \ {s} : scope'[q] = scope[q] /\ above'[q] = above[q]
         /\ current'[t] = s
         /\ \A w \in Tasks \ {t} : current'[w] = current[w]
         /\ leaving' = leaving /\ after' = after
BY DEF Enter, Runs, TypeOK

LEMMA LeaveEffect ==
  ASSUME TypeOK, NEW t \in Tasks, NEW s \in Spans, Leave(t, s)
  PROVE  /\ scope[s].at = "open" /\ scope[s].task = t /\ current[t] = s /\ leaving[t] = NoSpan
         /\ scope'[s] = [scope[s] EXCEPT !.at = "leaving"] /\ scope'[s].at = "leaving"
         /\ \A q \in Spans : /\ scope'[q].parent = scope[q].parent
                             /\ scope'[q].root = scope[q].root
                             /\ scope'[q].task = scope[q].task
         /\ \A q \in Spans \ {s} : scope'[q] = scope[q]
         /\ current'[t] = scope[s].parent /\ leaving'[t] = s
         /\ \A w \in Tasks \ {t} : current'[w] = current[w] /\ leaving'[w] = leaving[w]
         /\ above' = above /\ after' = after
<1>1. scope[s] \in Scopes /\ scope \in [Spans -> Scopes]
  BY DEF TypeOK
<1> QED BY <1>1 DEF Leave, Runs, TypeOK, Scopes

LEMMA ExitEffect ==
  ASSUME TypeOK, StackInv, NEW t \in Tasks, NEW s \in Spans, Exit(t, s)
  PROVE  /\ scope[s].at = "leaving" /\ scope[s].task = t /\ leaving[t] = s
         /\ scope'[s] = [scope[s] EXCEPT !.at = "exited"] /\ scope'[s].at = "exited"
         /\ \A q \in Spans : /\ scope'[q].parent = scope[q].parent
                             /\ scope'[q].root = scope[q].root
                             /\ scope'[q].task = scope[q].task
         /\ \A q \in Spans \ {s} : scope'[q] = scope[q] /\ after'[q] = after[q]
         /\ leaving'[t] = NoSpan
         /\ \A w \in Tasks \ {t} : leaving'[w] = leaving[w]
         /\ above' = above /\ current' = current
         /\ after'[s] = Exited
<1>1. scope[s] \in Scopes /\ scope \in [Spans -> Scopes]
  BY DEF TypeOK
<1>2. leaving[t] = s /\ s # NoSpan
  BY ScopeAssumption DEF Exit, ExitInline, ExitInvalid, ExitDeferred
<1>3. scope[s].at = "leaving" /\ scope[s].task = t
  BY <1>2 DEF StackInv
<1> QED BY <1>1, <1>2, <1>3 DEF Exit, TypeOK, Scopes

LEMMA StackStep ==
  ASSUME TypeOK, TreeInv, StackInv, [Next]_vars
  PROVE  StackInv'
<1> USE ScopeAssumption
<1>1. ASSUME NEW t \in Tasks, NEW u \in Tasks, Spawn(t, u) PROVE StackInv'
  <2>1. /\ u \notin started /\ current'[u] = current[t] /\ u # t
        /\ \A w \in Tasks \ {u} : current'[w] = current[w]
        /\ UNCHANGED <<scope, leaving, above>>
    BY <1>1 DEF Spawn, Runs, TypeOK
  <2>2. \A s \in Spans : scope[s].at # "new" => scope[s].task # u
    BY <2>1 DEF TreeInv
  <2>3. current[t] # NoSpan => \A s \in above[current[t]] \cup {current[t]} :
          s \in Spans /\ scope[s].at # "new"
    BY DEF StackInv, TreeInv, TypeOK
  <2> QED BY <2>1, <2>2, <2>3 DEF StackInv
<1>2. ASSUME NEW t \in Tasks, NEW s \in Spans, Enter(t, s) PROVE StackInv'
  <2>0. /\ scope[s].at = "new" /\ leaving[t] = NoSpan
        /\ scope'[s].at = "open" /\ scope'[s].task = t
        /\ above'[s] = IF current[t] = NoSpan THEN {} ELSE above[current[t]] \cup {current[t]}
        /\ \A q \in Spans \ {s} : scope'[q] = scope[q] /\ above'[q] = above[q]
        /\ current'[t] = s
        /\ \A w \in Tasks \ {t} : current'[w] = current[w]
        /\ leaving' = leaving /\ after' = after
    BY <1>2, EnterEffect
  <2>1. \A w \in Tasks : current[w] # NoSpan =>
          /\ current[w] \in Spans \ {s} /\ above[current[w]] \subseteq Spans \ {s}
    <3>1. \A q \in Spans : s \notin above[q]
      BY <2>0 DEF TreeInv
    <3>2. \A w \in Tasks : current[w] # NoSpan => current[w] \in Spans /\ current[w] # s
      BY <2>0 DEF TypeOK, StackInv
    <3> QED BY <3>1, <3>2 DEF TypeOK
  <2>2. \A w \in Tasks : leaving[w] # NoSpan => leaving[w] \in Spans \ {s}
    BY <2>0 DEF TypeOK, StackInv
  <2>3. ASSUME NEW w \in Tasks, w # t
        PROVE  /\ leaving'[w] # NoSpan => scope'[leaving'[w]].at = "leaving" /\ scope'[leaving'[w]].task = w
               /\ \A q \in Spans : scope'[q].task = w =>
                    /\ scope'[q].at = "leaving" => leaving'[w] = q
                    /\ scope'[q].at = "open" =>
                         current'[w] # NoSpan /\ (q = current'[w] \/ q \in above'[current'[w]])
               /\ current'[w] # NoSpan =>
                    /\ scope'[current'[w]].at # "new"
                    /\ \A q \in above'[current'[w]] \cup {current'[w]} :
                         scope'[q].task = w => scope'[q].at = "open"
    BY <1>2, <2>1, <2>2, <2>3, <2>0 DEF StackInv
  <2>4. /\ leaving'[t] = NoSpan /\ current'[t] = s /\ s # NoSpan
        /\ scope'[s].at = "open"
    BY <2>0
  <2>5. ASSUME NEW q \in Spans, scope'[q].task = t
        PROVE  /\ scope'[q].at # "leaving"
               /\ scope'[q].at = "open" => q = s \/ q \in above'[s]
    <3>1. CASE q = s
      BY <3>1, <2>4
    <3>2. CASE q # s
      <4>1. scope'[q] = scope[q] /\ leaving[t] = NoSpan
        BY <1>2, <3>2, <2>0
      <4>2. scope[q].at # "leaving"
        BY <2>5, <4>1 DEF StackInv
      <4>3. scope[q].at = "open" =>
              current[t] # NoSpan /\ (q = current[t] \/ q \in above[current[t]])
        BY <2>5, <4>1 DEF StackInv
      <4> QED BY <1>2, <4>1, <4>2, <4>3, <2>0
    <3> QED BY <3>1, <3>2
  <2>6. ASSUME NEW q \in above'[s], scope'[q].task = t PROVE scope'[q].at = "open"
    <3>1. current[t] # NoSpan /\ q \in above[current[t]] \cup {current[t]}
      BY <1>2, <2>6, <2>0
    <3>2. q \in Spans \ {s}
      BY <2>1, <3>1
    <3>3. scope'[q] = scope[q]
      BY <1>2, <3>2, <2>0
    <3> QED BY <2>6, <3>1, <3>3 DEF StackInv
  <2> QED BY <2>3, <2>4, <2>5, <2>6 DEF StackInv
<1>3. ASSUME NEW t \in Tasks, NEW s \in Spans, Leave(t, s) PROVE StackInv'
  <2>0. /\ scope[s].at = "open" /\ scope[s].task = t /\ current[t] = s /\ leaving[t] = NoSpan
        /\ scope'[s] = [scope[s] EXCEPT !.at = "leaving"] /\ scope'[s].at = "leaving"
        /\ \A q \in Spans : /\ scope'[q].parent = scope[q].parent
                            /\ scope'[q].root = scope[q].root
                            /\ scope'[q].task = scope[q].task
        /\ \A q \in Spans \ {s} : scope'[q] = scope[q]
        /\ current'[t] = scope[s].parent /\ leaving'[t] = s
        /\ \A w \in Tasks \ {t} : current'[w] = current[w] /\ leaving'[w] = leaving[w]
        /\ above' = above /\ after' = after
    BY <1>3, LeaveEffect
  <2>1. /\ s \notin above[s]
        /\ scope[s].parent # NoSpan => above[s] = above[scope[s].parent] \cup {scope[s].parent}
        /\ scope[s].parent = NoSpan => above[s] = {}
        /\ \A q \in above[s] : scope[q].at # "new" /\ q \in Spans
    BY DEF TreeInv, IsRoot, TypeOK
  <2>2. ASSUME NEW w \in Tasks, w # t
        PROVE  /\ leaving'[w] # NoSpan => scope'[leaving'[w]].at = "leaving" /\ scope'[leaving'[w]].task = w
               /\ \A q \in Spans : scope'[q].task = w =>
                    /\ scope'[q].at = "leaving" => leaving'[w] = q
                    /\ scope'[q].at = "open" =>
                         current'[w] # NoSpan /\ (q = current'[w] \/ q \in above'[current'[w]])
               /\ current'[w] # NoSpan =>
                    /\ scope'[current'[w]].at # "new"
                    /\ \A q \in above'[current'[w]] \cup {current'[w]} :
                         scope'[q].task = w => scope'[q].at = "open"
    <3>1. leaving'[w] = leaving[w] /\ current'[w] = current[w] /\ above' = above
      BY <1>3, <2>2, <2>0
    <3>2. \A q \in Spans : scope'[q].task = w => q # s /\ scope'[q] = scope[q]
      BY <1>3, <2>2, <2>0
    <3>3. leaving[w] # NoSpan => leaving[w] \in Spans /\ scope[leaving[w]].task = w
      BY DEF StackInv, TypeOK
    <3>4. leaving[w] # NoSpan => scope'[leaving[w]] = scope[leaving[w]]
      BY <1>3, <2>2, <3>3, <2>0
    <3>5. current[w] # NoSpan => /\ current[w] \in Spans /\ above[current[w]] \subseteq Spans
                                 /\ scope'[current[w]].at # "new"
      <4>1. current[w] # NoSpan => /\ current[w] \in Spans /\ above[current[w]] \subseteq Spans
                                   /\ scope[current[w]].at # "new"
        BY DEF StackInv, TypeOK
      <4>2. \A q \in Spans : scope[q].at # "new" => scope'[q].at # "new"
        BY <2>0
      <4> QED BY <4>1, <4>2
    <3> QED BY <3>1, <3>2, <3>3, <3>4, <3>5 DEF StackInv
  <2>3. /\ leaving'[t] = s /\ scope'[s].at = "leaving" /\ scope'[s].task = t
        /\ current'[t] = scope[s].parent /\ above' = above
    BY <2>0
  <2>4. ASSUME NEW q \in Spans, scope'[q].task = t
        PROVE  /\ scope'[q].at = "leaving" => q = s
               /\ scope'[q].at = "open" => q \in above[s]
    <3>1. q # s => scope'[q] = scope[q] /\ leaving[t] = NoSpan /\ current[t] = s
      BY <2>0
    <3> QED BY <2>3, <2>4, <3>1 DEF StackInv
  <2>5. ASSUME NEW q \in above[s] PROVE scope'[q].at # "new" /\ (scope'[q].task = t => scope'[q].at = "open")
    <3>1. q \in Spans \ {s} /\ scope'[q] = scope[q] /\ current[t] = s
      BY <1>3, <2>1, <2>0
    <3> QED BY <2>1, <3>1 DEF StackInv
  <2> QED BY <2>1, <2>2, <2>3, <2>4, <2>5 DEF StackInv
<1>4. ASSUME NEW t \in Tasks, NEW s \in Spans, Exit(t, s) PROVE StackInv'
  <2>0. /\ scope[s].at = "leaving" /\ scope[s].task = t /\ leaving[t] = s
        /\ scope'[s] = [scope[s] EXCEPT !.at = "exited"] /\ scope'[s].at = "exited"
        /\ \A q \in Spans : /\ scope'[q].parent = scope[q].parent
                            /\ scope'[q].root = scope[q].root
                            /\ scope'[q].task = scope[q].task
        /\ \A q \in Spans \ {s} : scope'[q] = scope[q] /\ after'[q] = after[q]
        /\ leaving'[t] = NoSpan
        /\ \A w \in Tasks \ {t} : leaving'[w] = leaving[w]
        /\ above' = above /\ current' = current
        /\ after'[s] = Exited
    BY <1>4, ExitEffect
  <2>1. \A q \in Spans : /\ scope'[q].task = scope[q].task
                         /\ scope'[q].at = "open" <=> scope[q].at = "open"
                         /\ scope'[q].at = "new" <=> scope[q].at = "new"
                         /\ scope'[q].at = "leaving" <=> (scope[q].at = "leaving" /\ q # s)
    BY <2>0
  <2>2. /\ leaving[t] = s /\ leaving'[t] = NoSpan /\ above' = above /\ current' = current
        /\ scope[s].task = t
        /\ \A w \in Tasks \ {t} : leaving'[w] = leaving[w]
    BY <2>0
  <2>3. \A q \in Spans : above[q] \subseteq Spans
    BY DEF TypeOK
  <2>4. \A w \in Tasks : current[w] \in Spans \cup {NoSpan} /\ leaving[w] \in Spans \cup {NoSpan}
    BY DEF TypeOK
  <2> QED BY <2>1, <2>2, <2>3, <2>4 DEF StackInv
<1>5. CASE UNCHANGED scopeVars
  BY <1>5 DEF scopeVars, StackInv
<1> QED BY <1>1, <1>2, <1>3, <1>4, <1>5, StepCases, ScopesKept

LEMMA NestingStep ==
  ASSUME TypeOK, TreeInv, StackInv, NestingInv, [Next]_vars
  PROVE  NestingInv'
<1> USE ScopeAssumption
<1>0. \A q \in Spans : above[q] \subseteq Spans /\ after[q] \subseteq Spans
  BY DEF TypeOK
<1>1. ASSUME NEW t \in Tasks, NEW u \in Tasks, Spawn(t, u) PROVE NestingInv'
  BY <1>1 DEF Spawn, NestingInv
<1>2. ASSUME NEW t \in Tasks, NEW s \in Spans, Enter(t, s) PROVE NestingInv'
  <2>0. /\ scope[s].at = "new" /\ leaving[t] = NoSpan
        /\ scope'[s].at = "open" /\ scope'[s].task = t
        /\ above'[s] = IF current[t] = NoSpan THEN {} ELSE above[current[t]] \cup {current[t]}
        /\ \A q \in Spans \ {s} : scope'[q] = scope[q] /\ above'[q] = above[q]
        /\ current'[t] = s
        /\ \A w \in Tasks \ {t} : current'[w] = current[w]
        /\ leaving' = leaving /\ after' = after
    BY <1>2, EnterEffect
  <2>1. \A q \in Spans : s \notin above[q] /\ s \notin after[q]
    BY <2>0 DEF TreeInv, NestingInv
  <2>2. after[s] = {}
    BY <2>0 DEF NestingInv
  <2>3. ASSUME NEW a \in above'[s], scope'[a].task = t PROVE scope'[a].at = "open"
    <3>1. current[t] # NoSpan /\ a \in above[current[t]] \cup {current[t]}
      BY <1>2, <2>3, <2>0
    <3>2. a \in Spans \ {s}
      <4>1. current[t] \in Spans /\ scope[current[t]].at # "new"
        BY <3>1 DEF TypeOK, StackInv
      <4> QED BY <1>0, <1>2, <2>1, <3>1, <4>1, <2>0
    <3>3. scope'[a] = scope[a]
      BY <1>2, <3>2, <2>0
    <3> QED BY <2>3, <3>1, <3>3 DEF StackInv
  <2>4. ASSUME NEW q \in Spans \ {s}, NEW a \in above'[q], scope'[a].task = scope'[q].task
        PROVE  /\ scope'[a].at \in {"leaving", "exited"} => scope'[q].at = "exited"
               /\ scope'[a].at = "exited" => q \in after'[a]
    <3>1. a \in Spans \ {s} /\ scope'[q] = scope[q] /\ a \in above[q] /\ scope'[a] = scope[a]
          /\ after' = after
      BY <1>0, <1>2, <2>1, <2>0
    <3> QED BY <2>4, <3>1 DEF NestingInv
  <2>5. \A q \in Spans : \A a \in after'[q] : scope'[a].at = "exited" /\ scope'[q].at = "exited"
    BY <1>0, <1>2, <2>1, <2>2, <2>0 DEF NestingInv
  <2>6. scope'[s].task = t
    BY <2>0
  <2> QED BY <2>3, <2>4, <2>5, <2>6 DEF NestingInv
<1>3. ASSUME NEW t \in Tasks, NEW s \in Spans, Leave(t, s) PROVE NestingInv'
  <2>0. /\ scope[s].at = "open" /\ scope[s].task = t /\ current[t] = s /\ leaving[t] = NoSpan
        /\ scope'[s] = [scope[s] EXCEPT !.at = "leaving"] /\ scope'[s].at = "leaving"
        /\ \A q \in Spans : /\ scope'[q].parent = scope[q].parent
                            /\ scope'[q].root = scope[q].root
                            /\ scope'[q].task = scope[q].task
        /\ \A q \in Spans \ {s} : scope'[q] = scope[q]
        /\ current'[t] = scope[s].parent /\ leaving'[t] = s
        /\ \A w \in Tasks \ {t} : current'[w] = current[w] /\ leaving'[w] = leaving[w]
        /\ above' = above /\ after' = after
    BY <1>3, LeaveEffect
  <2>1. ASSUME NEW q \in Spans, s \in above[q], scope[q].task = t PROVE scope[q].at = "exited"
    <3>1. scope[q].at # "new" /\ q # s
      BY <2>1 DEF TreeInv
    <3>2. scope[q].at # "leaving"
      BY <1>3, <2>1, <2>0 DEF StackInv
    <3>3. ASSUME scope[q].at = "open" PROVE FALSE
      <4>1. q \in above[s]
        BY <1>3, <2>1, <3>1, <3>3, <2>0 DEF StackInv
      <4> QED BY <2>1, <4>1 DEF TreeInv
    <3> QED BY <3>1, <3>2, <3>3 DEF TypeOK, Scopes
  <2>2. /\ \A q \in Spans : scope'[q].task = scope[q].task
        /\ \A q \in Spans : scope'[q].at = "exited" <=> scope[q].at = "exited"
        /\ \A q \in Spans \ {s} : scope'[q] = scope[q]
        /\ scope[s].at = "open" /\ scope[s].task = t /\ above' = above /\ after' = after
    BY <2>0
  <2>3. \A q \in Spans : \A a \in above[q] : scope[a].task = scope[q].task =>
          /\ scope'[a].at \in {"leaving", "exited"} => scope[q].at = "exited"
          /\ scope[a].at = "exited" => q \in after[a]
    BY <1>0, <2>1, <2>2 DEF NestingInv
  <2>4. \A q \in Spans : \A a \in after[q] : scope[a].at = "exited" /\ scope[q].at = "exited"
    BY DEF NestingInv
  <2> QED BY <1>0, <2>2, <2>3, <2>4 DEF NestingInv
<1>4. ASSUME NEW t \in Tasks, NEW s \in Spans, Exit(t, s) PROVE NestingInv'
  <2>0. /\ scope[s].at = "leaving" /\ scope[s].task = t /\ leaving[t] = s
        /\ scope'[s] = [scope[s] EXCEPT !.at = "exited"] /\ scope'[s].at = "exited"
        /\ \A q \in Spans : /\ scope'[q].parent = scope[q].parent
                            /\ scope'[q].root = scope[q].root
                            /\ scope'[q].task = scope[q].task
        /\ \A q \in Spans \ {s} : scope'[q] = scope[q] /\ after'[q] = after[q]
        /\ leaving'[t] = NoSpan
        /\ \A w \in Tasks \ {t} : leaving'[w] = leaving[w]
        /\ above' = above /\ current' = current
        /\ after'[s] = Exited
    BY <1>4, ExitEffect
  <2>1. /\ \A q \in Spans : scope'[q].task = scope[q].task
        /\ \A q \in Spans : scope[q].at = "exited" => scope'[q].at = "exited"
        /\ \A q \in Spans \ {s} : scope'[q] = scope[q] /\ after'[q] = after[q]
        /\ scope[s].at = "leaving" /\ scope'[s].at = "exited" /\ above' = above
        /\ after'[s] = Exited
    BY <2>0
  <2>2. ASSUME NEW q \in Spans, NEW a \in above[q], scope[a].task = scope[q].task
        PROVE  /\ scope'[a].at \in {"leaving", "exited"} => scope'[q].at = "exited"
               /\ scope'[a].at = "exited" => q \in after'[a]
    <3>1. a \in Spans
      BY <1>0
    <3>2. /\ scope[a].at \in {"leaving", "exited"} => scope[q].at = "exited"
          /\ scope[a].at = "exited" => q \in after[a]
      BY <2>2 DEF NestingInv
    <3>3. CASE a = s
      BY <2>1, <3>2, <3>3 DEF Exited
    <3>4. CASE a # s
      BY <2>1, <3>1, <3>2, <3>4
    <3> QED BY <3>3, <3>4
  <2>3. ASSUME NEW q \in Spans, NEW a \in after'[q]
        PROVE  scope'[a].at = "exited" /\ scope'[q].at = "exited"
    <3>1. CASE q = s
      BY <2>1, <2>3, <3>1 DEF Exited
    <3>2. CASE q # s
      BY <1>0, <2>1, <2>3, <3>2 DEF NestingInv
    <3> QED BY <3>1, <3>2
  <2> QED BY <1>0, <2>1, <2>2, <2>3 DEF NestingInv
<1>5. CASE UNCHANGED scopeVars
  BY <1>5 DEF scopeVars, NestingInv
<1> QED BY <1>1, <1>2, <1>3, <1>4, <1>5, StepCases, ScopesKept

-----------------------------------------------------------------------------
(* The queue of the executor and the accumulators.                         *)

PlaceInv == SettledInv /\ QueueInv /\ AccumulatorInv /\ QueueOrderInv /\ AccumulatorOrderInv

LEMMA AppendFacts ==
  ASSUME NEW S, NEW q \in Seq(S), NEW e \in S
  PROVE  /\ Append(q, e) \in Seq(S)
         /\ Len(q) \in Nat
         /\ Len(Append(q, e)) = Len(q) + 1
         /\ Append(q, e)[Len(q) + 1] = e
         /\ \A i \in 1..Len(q) : Append(q, e)[i] = q[i]
OBVIOUS

LEMMA TailFacts ==
  ASSUME NEW S, NEW q \in Seq(S), q # <<>>
  PROVE  /\ Tail(q) \in Seq(S)
         /\ Len(q) \in Nat \ {0}
         /\ Len(Tail(q)) = Len(q) - 1
         /\ \A i \in 1..(Len(q) - 1) : Tail(q)[i] = q[i + 1]
         /\ Head(q) = q[1]
OBVIOUS

LEMMA EmitJobs ==
  \A x, y : Job("emit", x) = Job("emit", y) => x = y
BY DEF Job

\* The emit jobs of the queue, moved forward by d places.
JobsMoved(d) ==
  /\ \A i \in 1..Len(jobs') : \A s \in Spans : jobs'[i] = Job("emit", s) =>
       i + d \in 1..Len(jobs) /\ jobs[i + d] = Job("emit", s)
  /\ \A i \in 1..Len(jobs) : \A s \in Spans : jobs[i] = Job("emit", s) =>
       i - d \in 1..Len(jobs') /\ jobs'[i - d] = Job("emit", s)

\* A step after which every span is where it was.
QuietStep ==
  /\ Exited' = Exited
  /\ \A q \in Exited : /\ scope'[q].root = scope[q].root
                       /\ q \in captured' <=> q \in captured
  /\ UNCHANGED <<after, completed, refused, invalid>>
  /\ \E d \in {0, 1} : JobsMoved(d)

LEMMA QuietKeeps ==
  ASSUME TypeOK, NestingInv, PlaceInv, QuietStep
  PROVE  PlaceInv'
<1>1. PICK d \in {0, 1} : JobsMoved(d)
  BY DEF QuietStep
<1>2. /\ Dropped' = Dropped
      /\ \A s \in Exited : Appended(s)' <=> Appended(s)
      /\ Exited' = Exited /\ Exited \subseteq Spans
  BY DEF QuietStep, Dropped, Appended, In, Exited
<1>3. \A s \in Spans : \A a \in after[s] : a \in Exited
  BY DEF NestingInv, Exited, TypeOK
<1>4. Len(jobs) \in Nat
  BY DEF TypeOK
<1>5. SettledInv'
  <2>1. ASSUME NEW s \in Exited, Queued(s) PROVE Queued(s)'
    BY <1>1, <1>2, <2>1 DEF Queued, JobsMoved
  <2>2. \A s \in Exited : s \in captured => s \in captured'
    BY DEF QuietStep
  <2> QED BY <1>2, <2>1, <2>2 DEF PlaceInv, SettledInv
<1>6. QueueInv'
  <2>1. ASSUME NEW s \in Spans, NEW i \in 1..Len(jobs'), jobs'[i] = Job("emit", s)
        PROVE  /\ s \in Exited /\ s \in captured' /\ s \notin Dropped
               /\ ~Appended(s)'
               /\ \A j \in 1..Len(jobs') : jobs'[j] = Job("emit", s) => i = j
    <3>1. i + d \in 1..Len(jobs) /\ jobs[i + d] = Job("emit", s)
      BY <1>1, <2>1 DEF JobsMoved
    <3>2. /\ s \in Exited /\ s \in captured /\ s \notin Dropped /\ ~Appended(s)
          /\ \A j \in 1..Len(jobs) : jobs[j] = Job("emit", s) => i + d = j
      BY <3>1 DEF PlaceInv, QueueInv
    <3>3. s \in captured' /\ ~Appended(s)'
      BY <1>2, <3>2 DEF QuietStep
    <3>4. ASSUME NEW j \in 1..Len(jobs'), jobs'[j] = Job("emit", s) PROVE i = j
      <4>1. j + d \in 1..Len(jobs) /\ jobs[j + d] = Job("emit", s)
        BY <1>1, <3>4 DEF JobsMoved
      <4>2. i + d = j + d
        BY <3>2, <4>1
      <4> QED BY <2>1, <3>4, <4>2, <1>1
    <3> QED BY <3>2, <3>3, <3>4
  <2> QED BY <1>2, <2>1 DEF QueueInv
<1>7. AccumulatorInv'
  BY <1>2 DEF QuietStep, PlaceInv, AccumulatorInv
<1>8. QueueOrderInv'
  <2>1. ASSUME NEW s \in Spans, NEW j \in 1..Len(jobs'), jobs'[j] = Job("emit", s),
               NEW a \in after[s], a \in captured'
        PROVE  a \in Dropped \/ Appended(a)' \/ \E i \in 1..(j - 1) : jobs'[i] = Job("emit", a)
    <3>1. j + d \in 1..Len(jobs) /\ jobs[j + d] = Job("emit", s)
      BY <1>1, <2>1 DEF JobsMoved
    <3>2. a \in Exited /\ a \in captured
      BY <1>3, <2>1 DEF QuietStep
    <3>3. a \in Dropped \/ Appended(a) \/ \E i \in 1..(j + d - 1) : jobs[i] = Job("emit", a)
      BY <3>1, <3>2 DEF PlaceInv, QueueOrderInv
    <3>4. ASSUME NEW i \in 1..(j + d - 1), jobs[i] = Job("emit", a)
          PROVE  \E k \in 1..(j - 1) : jobs'[k] = Job("emit", a)
      <4>1. i \in 1..Len(jobs)
        BY <1>4, <3>1, <3>4
      <4>2. i - d \in 1..Len(jobs') /\ jobs'[i - d] = Job("emit", a)
        BY <1>1, <1>2, <3>2, <3>4, <4>1 DEF JobsMoved
      <4>3. i - d \in 1..(j - 1)
        BY <1>1, <3>1, <4>2
      <4> QED BY <4>2, <4>3
    <3> QED BY <1>2, <3>2, <3>3, <3>4
  <2> QED BY <1>2, <2>1 DEF QuietStep, QueueOrderInv
<1>9. AccumulatorOrderInv'
  <2>1. ASSUME NEW r \in Spans, NEW s \in Spans, NEW j \in 1..Len(completed[r]), completed[r][j] = s,
               NEW a \in after[s], a \notin Dropped, scope'[a].root = r,
               a \in captured' => s \in captured'
        PROVE  \E i \in 1..(j - 1) : completed[r][i] = a
    <3>1. a \in Exited /\ s \in Exited
      BY <1>3, <2>1 DEF PlaceInv, AccumulatorInv
    <3>2. scope[a].root = r /\ (a \in captured => s \in captured)
      BY <2>1, <3>1 DEF QuietStep
    <3> QED BY <2>1, <3>2 DEF PlaceInv, AccumulatorOrderInv
  <2> QED BY <1>2, <2>1 DEF QuietStep, AccumulatorOrderInv
<1> QED BY <1>5, <1>6, <1>7, <1>8, <1>9 DEF PlaceInv

\* Span s leaves its scope, or its callback leaves the head of the queue.
SpanArrives(s) ==
  /\ UNCHANGED captured
  /\ \A q \in Spans : scope'[q].root = scope[q].root
  /\ Exited' = Exited \cup {s}
  /\ \A q \in Spans \ {s} : after'[q] = after[q]
  /\ \/ s \notin Exited /\ after'[s] = Exited /\ JobsMoved(0)
     \/ /\ s \in Exited /\ after'[s] = after[s]
        /\ jobs # <<>> /\ jobs[1] = Job("emit", s) /\ jobs' = Tail(jobs)

LEMMA ArrivalFacts ==
  ASSUME TypeOK, CaptureInv, NestingInv, PlaceInv, NEW s \in Spans, SpanArrives(s)
  PROVE  /\ s \notin Dropped /\ ~Appended(s)
         /\ \A q \in Exited : after'[q] = after[q]
         /\ \A q \in Spans : after[q] \subseteq Exited /\ (q \notin Exited => after[q] = {})
         /\ \A i \in 1..Len(jobs') : jobs'[i] # Job("emit", s)
         /\ \E d \in {0, 1} :
              /\ d = 1 => jobs # <<>> /\ jobs[1] = Job("emit", s)
              /\ d = 0 => s \notin Exited
              /\ \A i \in 1..Len(jobs') : \A q \in Spans : jobs'[i] = Job("emit", q) =>
                   i + d \in 1..Len(jobs) /\ jobs[i + d] = Job("emit", q)
              /\ \A i \in 1..Len(jobs) : \A q \in Spans \ {s} : jobs[i] = Job("emit", q) =>
                   i - d \in 1..Len(jobs') /\ jobs'[i - d] = Job("emit", q)
<1>1. \A q \in Spans : after[q] \subseteq Exited /\ (q \notin Exited => after[q] = {})
  BY DEF NestingInv, Exited, TypeOK
<1>2. CASE s \notin Exited
  <2>1. s \notin Dropped
    BY <1>2 DEF CaptureInv, Exited
  <2>2. ~Appended(s)
    BY <1>2 DEF PlaceInv, AccumulatorInv, Appended, In, TypeOK, Scopes
  <2>3. after'[s] = Exited /\ JobsMoved(0) /\ \A q \in Spans \ {s} : after'[q] = after[q]
    BY <1>2 DEF SpanArrives
  <2>4. \A i \in 1..Len(jobs) : jobs[i] # Job("emit", s)
    BY <1>2 DEF PlaceInv, QueueInv
  <2>5. \A i \in 1..Len(jobs') : jobs'[i] # Job("emit", s)
    BY <2>3, <2>4 DEF JobsMoved
  <2>6. \A q \in Exited : after'[q] = after[q]
    BY <1>2, <2>3 DEF Exited
  <2> QED BY <1>1, <1>2, <2>1, <2>2, <2>3, <2>5, <2>6 DEF JobsMoved
<1>3. CASE s \in Exited
  <2>1. /\ jobs # <<>> /\ jobs[1] = Job("emit", s) /\ jobs' = Tail(jobs)
        /\ \A q \in Spans : after'[q] = after[q]
    BY <1>3 DEF SpanArrives
  <2>2. jobs \in Seq(Jobs)
    BY DEF TypeOK
  <2>3. /\ Len(jobs) \in Nat \ {0} /\ Len(jobs') = Len(jobs) - 1
        /\ \A i \in 1..(Len(jobs) - 1) : jobs'[i] = jobs[i + 1]
    BY <2>1, <2>2, TailFacts
  <2>4. /\ s \notin Dropped /\ ~Appended(s)
        /\ \A j \in 1..Len(jobs) : jobs[j] = Job("emit", s) => 1 = j
    BY <2>1, <2>3 DEF PlaceInv, QueueInv
  <2>5. \A i \in 1..Len(jobs') : jobs'[i] # Job("emit", s)
    BY <2>3, <2>4
  <2>6. \A i \in 1..Len(jobs') : \A q \in Spans : jobs'[i] = Job("emit", q) =>
          i + 1 \in 1..Len(jobs) /\ jobs[i + 1] = Job("emit", q)
    BY <2>3
  <2>7. ASSUME NEW i \in 1..Len(jobs), NEW q \in Spans \ {s}, jobs[i] = Job("emit", q)
        PROVE  i - 1 \in 1..Len(jobs') /\ jobs'[i - 1] = Job("emit", q)
    <3>1. i # 1
      BY <2>1, <2>7, EmitJobs
    <3> QED BY <2>3, <2>7, <3>1
  <2>8. \A q \in Exited : after'[q] = after[q]
    BY <2>1 DEF Exited
  <2> QED BY <1>1, <1>3, <2>1, <2>4, <2>5, <2>6, <2>7, <2>8
<1> QED BY <1>2, <1>3

LEMMA EmitSpanEffect ==
  ASSUME TypeOK, NEW x, NEW s \in Spans, EmitSpan(x, s)
  PROVE  LET r == scope[s].root
         IN /\ r \in Spans
            /\ Len(completed[r]) \in Nat
            /\ Len(completed'[r]) = Len(completed[r]) + 1
            /\ completed'[r][Len(completed[r]) + 1] = s
            /\ \A i \in 1..Len(completed[r]) : completed'[r][i] = completed[r][i]
            /\ \A q \in Spans \ {r} : completed'[q] = completed[q]
<1>1. scope[s].root \in Spans
  BY DEF TypeOK, Scopes
<1>2. completed \in [Spans -> Seq(Spans)]
  BY DEF TypeOK
<1>3. completed' = [completed EXCEPT ![scope[s].root] = Append(@, s)]
  BY DEF EmitSpan
<1>4. completed[scope[s].root] \in Seq(Spans)
  BY <1>1, <1>2
<1>5. completed'[scope[s].root] = Append(completed[scope[s].root], s)
  BY <1>1, <1>2, <1>3
<1> QED BY <1>1, <1>2, <1>3, <1>4, <1>5

LEMMA EmitKeeps ==
  ASSUME TypeOK, CaptureInv, NestingInv, PlaceInv, NEW x, NEW s \in Spans,
         EmitSpan(x, s), SpanArrives(s), UNCHANGED <<refused, invalid>>,
         s \notin Exited => s \notin captured
  PROVE  PlaceInv'
<1>1. /\ s \notin Dropped /\ ~Appended(s)
      /\ \A q \in Exited : after'[q] = after[q]
      /\ \A q \in Spans : after[q] \subseteq Exited
      /\ \A i \in 1..Len(jobs') : jobs'[i] # Job("emit", s)
  BY ArrivalFacts
<1>2. PICK d \in {0, 1} :
        /\ d = 1 => jobs # <<>> /\ jobs[1] = Job("emit", s)
        /\ d = 0 => s \notin Exited
        /\ \A i \in 1..Len(jobs') : \A q \in Spans : jobs'[i] = Job("emit", q) =>
             i + d \in 1..Len(jobs) /\ jobs[i + d] = Job("emit", q)
        /\ \A i \in 1..Len(jobs) : \A q \in Spans \ {s} : jobs[i] = Job("emit", q) =>
             i - d \in 1..Len(jobs') /\ jobs'[i - d] = Job("emit", q)
  BY ArrivalFacts
<1>3. PICK r \in Spans :
        /\ r = scope[s].root
        /\ Len(completed[r]) \in Nat
        /\ Len(completed'[r]) = Len(completed[r]) + 1
        /\ completed'[r][Len(completed[r]) + 1] = s
        /\ \A i \in 1..Len(completed[r]) : completed'[r][i] = completed[r][i]
        /\ \A q \in Spans \ {r} : completed'[q] = completed[q]
  BY EmitSpanEffect
<1>4. /\ Dropped' = Dropped /\ captured' = captured /\ Exited' = Exited \cup {s}
      /\ \A q \in Spans : scope'[q].root = scope[q].root /\ scope[q].root \in Spans
      /\ Exited \subseteq Spans
  BY DEF Dropped, SpanArrives, Exited, TypeOK, Scopes
<1>5. \A q \in Spans : Len(completed[q]) \in Nat
  BY DEF TypeOK
<1>6. ASSUME NEW q \in Spans PROVE Appended(q)' <=> Appended(q) \/ q = s
  <2>1. CASE scope[q].root = r
    <3>1. \A i : i \in 1..Len(completed'[r]) <=>
                   i \in 1..Len(completed[r]) \/ i = Len(completed[r]) + 1
      BY <1>3
    <3>2. In(q, completed'[r]) <=> In(q, completed[r]) \/ q = s
      BY <1>3, <3>1 DEF In
    <3> QED BY <1>4, <2>1, <3>2 DEF Appended, In
  <2>2. CASE scope[q].root # r
    BY <1>3, <1>4, <2>2 DEF Appended, In
  <2> QED BY <2>1, <2>2
<1>7. SettledInv'
  <2>1. ASSUME NEW q \in Exited, q # s, Queued(q) PROVE Queued(q)'
    BY <1>2, <1>4, <2>1 DEF Queued
  <2> QED BY <1>4, <1>6, <2>1 DEF PlaceInv, SettledInv
<1>8. QueueInv'
  <2>1. ASSUME NEW q \in Spans, NEW i \in 1..Len(jobs'), jobs'[i] = Job("emit", q)
        PROVE  /\ q \in Exited /\ q \in captured /\ q \notin Dropped /\ q # s
               /\ ~Appended(q)
               /\ \A j \in 1..Len(jobs') : jobs'[j] = Job("emit", q) => i = j
    <3>1. i + d \in 1..Len(jobs) /\ jobs[i + d] = Job("emit", q) /\ q # s
      BY <1>1, <1>2, <2>1
    <3>2. /\ q \in Exited /\ q \in captured /\ q \notin Dropped /\ ~Appended(q)
          /\ \A j \in 1..Len(jobs) : jobs[j] = Job("emit", q) => i + d = j
      BY <3>1 DEF PlaceInv, QueueInv
    <3>3. ASSUME NEW j \in 1..Len(jobs'), jobs'[j] = Job("emit", q) PROVE i = j
      <4>1. j + d \in 1..Len(jobs) /\ jobs[j + d] = Job("emit", q)
        BY <1>2, <3>3
      <4>2. i + d = j + d
        BY <3>2, <4>1
      <4> QED BY <2>1, <3>3, <4>2, <1>2
    <3> QED BY <3>1, <3>2, <3>3
  <2> QED BY <1>4, <1>6, <2>1 DEF QueueInv
<1>9. AccumulatorInv'
  <2>1. ASSUME NEW t \in Spans, NEW q \in Spans, NEW i \in 1..Len(completed'[t]), completed'[t][i] = q
        PROVE  /\ scope[q].root = t
               /\ q \in Exited \cup {s} /\ q \notin Dropped
               /\ \A j \in 1..Len(completed'[t]) : completed'[t][j] = q => i = j
    <3>1. CASE t # r
      BY <1>3, <2>1, <3>1 DEF PlaceInv, AccumulatorInv
    <3>2. CASE t = r
      <4>1. \A j \in 1..Len(completed[r]) : completed[r][j] # s
        BY <1>1, <1>3 DEF Appended, In
      <4>2. \A j \in 1..Len(completed'[r]) : j \in 1..Len(completed[r]) \/ j = Len(completed[r]) + 1
        BY <1>3
      <4>3. CASE q = s
        <5>1. \A j \in 1..Len(completed'[r]) : completed'[r][j] = s => j = Len(completed[r]) + 1
          BY <1>3, <4>1, <4>2
        <5> QED BY <1>1, <1>3, <2>1, <3>2, <4>3, <5>1
      <4>4. CASE q # s
        <5>1. \A j \in 1..Len(completed'[r]) : completed'[r][j] = q =>
                j \in 1..Len(completed[r]) /\ completed[r][j] = q
          BY <1>3, <4>2, <4>4
        <5>2. i \in 1..Len(completed[r]) /\ completed[r][i] = q
          BY <2>1, <3>2, <5>1
        <5>3. scope[q].root = r /\ q \in Exited /\ q \notin Dropped
              /\ \A j \in 1..Len(completed[r]) : completed[r][j] = q => i = j
          BY <5>2 DEF PlaceInv, AccumulatorInv
        <5> QED BY <3>2, <5>1, <5>3
      <4> QED BY <4>3, <4>4
    <3> QED BY <3>1, <3>2
  <2> QED BY <1>4, <2>1 DEF AccumulatorInv
<1>10. QueueOrderInv'
  <2>1. ASSUME NEW q \in Spans, NEW j \in 1..Len(jobs'), jobs'[j] = Job("emit", q),
               NEW a \in after'[q], a \in captured
        PROVE  a \in Dropped \/ Appended(a)' \/ \E i \in 1..(j - 1) : jobs'[i] = Job("emit", a)
    <3>1. j + d \in 1..Len(jobs) /\ jobs[j + d] = Job("emit", q) /\ q # s
      BY <1>1, <1>2, <2>1
    <3>2. q \in Exited /\ a \in after[q] /\ a \in Spans
      <4>1. q \in Exited
        BY <3>1 DEF PlaceInv, QueueInv
      <4> QED BY <1>1, <1>4, <2>1, <4>1
    <3>3. a \in Dropped \/ Appended(a) \/ \E i \in 1..(j + d - 1) : jobs[i] = Job("emit", a)
      BY <2>1, <3>1, <3>2 DEF PlaceInv, QueueOrderInv
    <3>4. ASSUME a # s, NEW i \in 1..(j + d - 1), jobs[i] = Job("emit", a)
          PROVE  \E k \in 1..(j - 1) : jobs'[k] = Job("emit", a)
      <4>1. i \in 1..Len(jobs)
        <5>1. Len(jobs) \in Nat
          BY DEF TypeOK
        <5> QED BY <3>1, <3>4, <5>1
      <4>2. i - d \in 1..Len(jobs') /\ jobs'[i - d] = Job("emit", a)
        BY <1>2, <3>2, <3>4, <4>1
      <4>3. i - d \in 1..(j - 1)
        BY <3>1, <3>4, <4>2
      <4> QED BY <4>2, <4>3
    <3> QED BY <1>6, <3>2, <3>3, <3>4
  <2> QED BY <1>4, <2>1 DEF QueueOrderInv
<1>11. AccumulatorOrderInv'
  <2>1. ASSUME NEW t \in Spans, NEW q \in Spans, NEW j \in 1..Len(completed'[t]), completed'[t][j] = q,
               NEW a \in after'[q], a \notin Dropped, scope[a].root = t,
               a \in captured => q \in captured
        PROVE  \E i \in 1..(j - 1) : completed'[t][i] = a
    <3>1. CASE q # s
      <4>1. j \in 1..Len(completed[t]) /\ completed[t][j] = q
        <5>1. CASE t = r
          <6>1. j \in 1..Len(completed[r]) \/ j = Len(completed[r]) + 1
            BY <1>3, <2>1, <5>1
          <6> QED BY <1>3, <2>1, <3>1, <5>1, <6>1
        <5> QED BY <1>3, <2>1, <5>1
      <4>2. q \in Exited /\ a \in after[q]
        <5>1. q \in Exited
          BY <4>1 DEF PlaceInv, AccumulatorInv
        <5> QED BY <1>1, <2>1, <5>1
      <4>3. PICK i \in 1..(j - 1) : completed[t][i] = a
        BY <2>1, <4>1, <4>2 DEF PlaceInv, AccumulatorOrderInv
      <4>4. i \in 1..Len(completed[t])
        BY <1>5, <4>1
      <4> QED BY <1>3, <4>3, <4>4
    <3>2. CASE q = s
      <4>1. a \in Exited
        BY <1>1, <2>1, <3>2 DEF SpanArrives
      <4>2. Appended(a)
        <5>1. CASE s \notin Exited
          <6>1. a \notin captured
            BY <2>1, <3>2, <5>1
          <6> QED BY <2>1, <4>1, <6>1 DEF PlaceInv, SettledInv
        <5>2. CASE s \in Exited
          <6>1. d = 1 /\ jobs # <<>> /\ jobs[1] = Job("emit", s) /\ a \in after[s]
            BY <1>1, <1>2, <2>1, <3>2, <5>2
          <6>2. 1 \in 1..Len(jobs)
            BY <6>1 DEF TypeOK
          <6>3. a \in captured => a \in Dropped \/ Appended(a) \/ \E i \in 1..(1 - 1) : jobs[i] = Job("emit", a)
            BY <6>1, <6>2 DEF PlaceInv, QueueOrderInv
          <6>4. a \notin captured => Appended(a)
            BY <2>1, <4>1 DEF PlaceInv, SettledInv
          <6> QED BY <2>1, <6>3, <6>4
        <5> QED BY <5>1, <5>2
      <4>3. t = r /\ \E i \in 1..Len(completed[r]) : completed[r][i] = a
        <5>1. t = r
          BY <1>3, <1>4, <1>9, <2>1, <3>2 DEF AccumulatorInv
        <5> QED BY <2>1, <4>2, <5>1 DEF Appended, In
      <4>4. j = Len(completed[r]) + 1
        <5>1. \A i \in 1..Len(completed[r]) : completed'[r][i] # s
          BY <1>1, <1>3 DEF Appended, In
        <5> QED BY <1>3, <2>1, <3>2, <4>3, <5>1
      <4> QED BY <1>3, <4>3, <4>4
    <3> QED BY <3>1, <3>2
  <2>2. \A q \in Spans : after'[q] \subseteq Spans
    BY <1>1, <1>4 DEF SpanArrives
  <2> QED BY <1>4, <2>1, <2>2 DEF AccumulatorOrderInv
<1> QED BY <1>7, <1>8, <1>9, <1>10, <1>11 DEF PlaceInv
\* The span is dropped on arrival.
LEMMA DropKeeps ==
  ASSUME TypeOK, CaptureInv, NestingInv, PlaceInv, NEW s \in Spans, SpanArrives(s),
         UNCHANGED completed, Dropped' = Dropped \cup {s}
  PROVE  PlaceInv'
<1>1. /\ s \notin Dropped /\ ~Appended(s)
      /\ \A q \in Exited : after'[q] = after[q]
      /\ \A q \in Spans : after[q] \subseteq Exited
      /\ \A i \in 1..Len(jobs') : jobs'[i] # Job("emit", s)
  BY ArrivalFacts
<1>2. PICK d \in {0, 1} :
        /\ d = 1 => jobs # <<>> /\ jobs[1] = Job("emit", s)
        /\ d = 0 => s \notin Exited
        /\ \A i \in 1..Len(jobs') : \A q \in Spans : jobs'[i] = Job("emit", q) =>
             i + d \in 1..Len(jobs) /\ jobs[i + d] = Job("emit", q)
        /\ \A i \in 1..Len(jobs) : \A q \in Spans \ {s} : jobs[i] = Job("emit", q) =>
             i - d \in 1..Len(jobs') /\ jobs'[i - d] = Job("emit", q)
  BY ArrivalFacts
<1>3. /\ captured' = captured /\ Exited' = Exited \cup {s} /\ completed' = completed
      /\ \A q \in Spans : scope'[q].root = scope[q].root
      /\ Exited \subseteq Spans
  BY DEF SpanArrives, Exited
<1>4. \A q \in Spans : Appended(q)' <=> Appended(q)
  BY <1>3 DEF Appended, In
<1>5. Len(jobs) \in Nat /\ \A q \in Spans : Len(completed[q]) \in Nat
  BY DEF TypeOK
<1>6. SettledInv'
  <2>1. ASSUME NEW q \in Exited, q # s, Queued(q) PROVE Queued(q)'
    BY <1>2, <1>3, <2>1 DEF Queued
  <2> QED BY <1>3, <1>4, <2>1 DEF PlaceInv, SettledInv
<1>7. QueueInv'
  <2>1. ASSUME NEW q \in Spans, NEW i \in 1..Len(jobs'), jobs'[i] = Job("emit", q)
        PROVE  /\ q \in Exited /\ q \in captured /\ q \notin Dropped /\ q # s
               /\ ~Appended(q)
               /\ \A j \in 1..Len(jobs') : jobs'[j] = Job("emit", q) => i = j
    <3>1. i + d \in 1..Len(jobs) /\ jobs[i + d] = Job("emit", q) /\ q # s
      BY <1>1, <1>2, <2>1
    <3>2. /\ q \in Exited /\ q \in captured /\ q \notin Dropped /\ ~Appended(q)
          /\ \A j \in 1..Len(jobs) : jobs[j] = Job("emit", q) => i + d = j
      BY <3>1 DEF PlaceInv, QueueInv
    <3>3. ASSUME NEW j \in 1..Len(jobs'), jobs'[j] = Job("emit", q) PROVE i = j
      <4>1. j + d \in 1..Len(jobs) /\ jobs[j + d] = Job("emit", q)
        BY <1>2, <3>3
      <4>2. i + d = j + d
        BY <3>2, <4>1
      <4> QED BY <2>1, <3>3, <4>2, <1>2
    <3> QED BY <3>1, <3>2, <3>3
  <2> QED BY <1>3, <1>4, <2>1 DEF QueueInv
<1>8. AccumulatorInv'
  <2>1. ASSUME NEW t \in Spans, NEW q \in Spans, NEW i \in 1..Len(completed[t]), completed[t][i] = q
        PROVE  /\ scope[q].root = t
               /\ q \in Exited /\ q \notin Dropped /\ q # s
               /\ \A j \in 1..Len(completed[t]) : completed[t][j] = q => i = j
    <3>1. /\ scope[q].root = t /\ q \in Exited /\ q \notin Dropped
          /\ \A j \in 1..Len(completed[t]) : completed[t][j] = q => i = j
      BY <2>1 DEF PlaceInv, AccumulatorInv
    <3>2. Appended(q)
      BY <2>1, <3>1 DEF Appended, In
    <3> QED BY <1>1, <3>1, <3>2
  <2> QED BY <1>3, <2>1 DEF AccumulatorInv
<1>9. QueueOrderInv'
  <2>1. ASSUME NEW q \in Spans, NEW j \in 1..Len(jobs'), jobs'[j] = Job("emit", q),
               NEW a \in after'[q], a \in captured, a # s
        PROVE  a \in Dropped \/ Appended(a) \/ \E i \in 1..(j - 1) : jobs'[i] = Job("emit", a)
    <3>1. j + d \in 1..Len(jobs) /\ jobs[j + d] = Job("emit", q) /\ q # s
      BY <1>1, <1>2, <2>1
    <3>2. q \in Exited /\ a \in after[q] /\ a \in Spans
      <4>1. q \in Exited
        BY <3>1 DEF PlaceInv, QueueInv
      <4> QED BY <1>1, <1>3, <2>1, <4>1
    <3>3. a \in Dropped \/ Appended(a) \/ \E i \in 1..(j + d - 1) : jobs[i] = Job("emit", a)
      BY <2>1, <3>1, <3>2 DEF PlaceInv, QueueOrderInv
    <3>4. ASSUME NEW i \in 1..(j + d - 1), jobs[i] = Job("emit", a)
          PROVE  \E k \in 1..(j - 1) : jobs'[k] = Job("emit", a)
      <4>1. i \in 1..Len(jobs)
        BY <1>5, <3>1, <3>4
      <4>2. i - d \in 1..Len(jobs') /\ jobs'[i - d] = Job("emit", a)
        BY <1>2, <2>1, <3>2, <3>4, <4>1
      <4>3. i - d \in 1..(j - 1)
        BY <3>1, <3>4, <4>2
      <4> QED BY <4>2, <4>3
    <3> QED BY <3>3, <3>4
  <2> QED BY <1>3, <1>4, <2>1, <1>1 DEF QueueOrderInv, SpanArrives
<1>10. AccumulatorOrderInv'
  <2>1. ASSUME NEW t \in Spans, NEW q \in Spans, NEW j \in 1..Len(completed[t]), completed[t][j] = q,
               NEW a \in after'[q], a \notin Dropped, scope'[a].root = t,
               a \in captured => q \in captured
        PROVE  \E i \in 1..(j - 1) : completed[t][i] = a
    <3>1. q \in Exited
      BY <2>1 DEF PlaceInv, AccumulatorInv
    <3>2. a \in after[q] /\ a \in Spans
      BY <1>1, <1>3, <2>1, <3>1
    <3>3. scope[a].root = t
      BY <1>3, <2>1, <3>2
    <3> QED BY <2>1, <3>2, <3>3 DEF PlaceInv, AccumulatorOrderInv
  <2> QED BY <1>3, <2>1 DEF AccumulatorOrderInv
<1> QED BY <1>6, <1>7, <1>8, <1>9, <1>10 DEF PlaceInv

\* The span queues its callback on arrival.
LEMMA EnqueueKeeps ==
  ASSUME TypeOK, CaptureInv, NestingInv, PlaceInv, NEW s \in Spans,
         s \notin Exited, s \in captured, jobs' = Append(jobs, Job("emit", s)),
         UNCHANGED <<captured, completed, refused, invalid>>,
         \A q \in Spans : scope'[q].root = scope[q].root,
         Exited' = Exited \cup {s}, after'[s] = Exited,
         \A q \in Spans \ {s} : after'[q] = after[q]
  PROVE  PlaceInv'
<1>1. /\ Len(jobs) \in Nat /\ Len(jobs') = Len(jobs) + 1
      /\ jobs'[Len(jobs) + 1] = Job("emit", s)
      /\ \A i \in 1..Len(jobs) : jobs'[i] = jobs[i]
  BY JobType DEF TypeOK
<1>2. \A i \in 1..Len(jobs') : i \in 1..Len(jobs) \/ i = Len(jobs) + 1
  BY <1>1
<1>3. /\ Dropped' = Dropped /\ Exited \subseteq Spans
      /\ \A q \in Spans : Appended(q)' <=> Appended(q)
  BY DEF Dropped, Exited, Appended, In
<1>4. \A q \in Spans : after[q] \subseteq Exited /\ (q \notin Exited => after[q] = {})
  BY DEF NestingInv, Exited, TypeOK
<1>5. /\ s \notin Dropped
      /\ \A i \in 1..Len(jobs) : jobs[i] # Job("emit", s)
  BY DEF CaptureInv, Exited, PlaceInv, QueueInv
<1>6. \A r \in Spans : \A i \in 1..Len(completed[r]) : completed[r][i] # s
  BY DEF PlaceInv, AccumulatorInv
<1>7. ~Appended(s)
  BY <1>6 DEF Appended, In, TypeOK, Scopes
<1>8. SettledInv'
  <2>1. ASSUME NEW q \in Exited, Queued(q) PROVE Queued(q)'
    BY <1>1, <1>2, <2>1 DEF Queued
  <2>2. Queued(s)'
    BY <1>1 DEF Queued
  <2> QED BY <1>3, <2>1, <2>2 DEF PlaceInv, SettledInv
<1>9. QueueInv'
  <2>1. ASSUME NEW q \in Spans, NEW i \in 1..Len(jobs'), jobs'[i] = Job("emit", q)
        PROVE  /\ q \in Exited \cup {s} /\ q \in captured /\ q \notin Dropped
               /\ ~Appended(q)
               /\ \A j \in 1..Len(jobs') : jobs'[j] = Job("emit", q) => i = j
    <3>1. CASE q = s
      <4>1. \A j \in 1..Len(jobs') : jobs'[j] = Job("emit", s) => j = Len(jobs) + 1
        BY <1>1, <1>2, <1>5
      <4> QED BY <1>5, <1>7, <2>1, <3>1, <4>1
    <3>2. CASE q # s
      <4>1. \A j \in 1..Len(jobs') : jobs'[j] = Job("emit", q) =>
              j \in 1..Len(jobs) /\ jobs[j] = Job("emit", q)
        BY <1>1, <1>2, <3>2, EmitJobs
      <4>2. i \in 1..Len(jobs) /\ jobs[i] = Job("emit", q)
        BY <2>1, <4>1
      <4>3. /\ q \in Exited /\ q \in captured /\ q \notin Dropped /\ ~Appended(q)
            /\ \A j \in 1..Len(jobs) : jobs[j] = Job("emit", q) => i = j
        BY <4>2 DEF PlaceInv, QueueInv
      <4> QED BY <4>1, <4>3
    <3> QED BY <3>1, <3>2
  <2> QED BY <1>3, <2>1 DEF QueueInv
<1>10. AccumulatorInv'
  BY <1>3 DEF PlaceInv, AccumulatorInv
<1>11. QueueOrderInv'
  <2>1. ASSUME NEW q \in Spans, NEW j \in 1..Len(jobs'), jobs'[j] = Job("emit", q),
               NEW a \in after'[q], a \in captured
        PROVE  a \in Dropped \/ Appended(a) \/ \E i \in 1..(j - 1) : jobs'[i] = Job("emit", a)
    <3>1. CASE j = Len(jobs) + 1
      <4>1. q = s /\ a \in Exited
        BY <1>1, <2>1, <3>1, EmitJobs
      <4>2. a \in Dropped \/ Appended(a) \/ Queued(a)
        BY <4>1 DEF PlaceInv, SettledInv
      <4>3. \A i \in 1..Len(jobs) : i \in 1..(j - 1)
        BY <1>1, <3>1
      <4> QED BY <1>1, <4>2, <4>3 DEF Queued
    <3>2. CASE j \in 1..Len(jobs)
      <4>1. jobs[j] = Job("emit", q)
        BY <1>1, <2>1, <3>2
      <4>2. q \in Exited
        BY <3>2, <4>1 DEF PlaceInv, QueueInv
      <4>3. a \in after[q]
        BY <2>1, <4>2
      <4>4. a \in Dropped \/ Appended(a) \/ \E i \in 1..(j - 1) : jobs[i] = Job("emit", a)
        BY <2>1, <3>2, <4>1, <4>3 DEF PlaceInv, QueueOrderInv
      <4>5. \A i \in 1..(j - 1) : i \in 1..Len(jobs)
        BY <1>1, <3>2
      <4> QED BY <1>1, <4>4, <4>5
    <3> QED BY <1>2, <2>1, <3>1, <3>2
  <2>2. \A q \in Spans : after'[q] \subseteq Spans
    BY <1>3, <1>4
  <2> QED BY <1>3, <2>1, <2>2 DEF QueueOrderInv
<1>12. AccumulatorOrderInv'
  <2>1. ASSUME NEW t \in Spans, NEW q \in Spans, NEW j \in 1..Len(completed[t]), completed[t][j] = q,
               NEW a \in after'[q], a \notin Dropped, scope'[a].root = t,
               a \in captured => q \in captured
        PROVE  \E i \in 1..(j - 1) : completed[t][i] = a
    <3>1. q # s
      BY <1>6, <2>1
    <3>2. a \in after[q] /\ a \in Spans
      BY <1>3, <1>4, <2>1, <3>1
    <3>3. scope[a].root = t
      BY <2>1, <3>2
    <3> QED BY <2>1, <3>2, <3>3 DEF PlaceInv, AccumulatorOrderInv
  <2> QED BY <1>3, <2>1 DEF AccumulatorOrderInv
<1> QED BY <1>8, <1>9, <1>10, <1>11, <1>12 DEF PlaceInv
\* What the executor may do with the job at the head of its queue.
LEMMA RunJobCases ==
  ASSUME TypeOK, RunJob
  PROVE  /\ jobs # <<>> /\ jobs' = Tail(jobs) /\ todo[Executor] = <<>>
         /\ UNCHANGED <<scopeVars, captured, refused, executor, sink, offered, accepted, earlier, appVars>>
         /\ \/ /\ \A s : jobs[1] # Job("emit", s)
               /\ UNCHANGED <<invalid, completed, todo>>
            \/ \E s \in Spans : /\ jobs[1] = Job("emit", s)
                                /\ EmitSpan(Executor, s)
                                /\ UNCHANGED invalid
            \/ \E s \in Spans : /\ jobs[1] = Job("emit", s)
                                /\ invalid' = invalid \cup {s}
                                /\ UNCHANGED <<completed, todo>>
<1>1. jobs \in Seq(Jobs) /\ jobs # <<>>
  BY DEF TypeOK, RunJob
<1>2. Head(jobs) = jobs[1] /\ Head(jobs) \in Jobs
  BY <1>1
<1>3. Head(jobs).do = "emit" =>
        Head(jobs).span \in Spans /\ jobs[1] = Job("emit", Head(jobs).span)
  BY <1>2 DEF Jobs, Job, Barrier
<1>4. Head(jobs).do # "emit" => \A s : jobs[1] # Job("emit", s)
  BY <1>2 DEF Job
<1> QED BY <1>1, <1>3, <1>4 DEF RunJob

LEMMA InitPlace == Init => CaptureInv /\ PlaceInv
<1> SUFFICES ASSUME Init PROVE CaptureInv /\ PlaceInv
  OBVIOUS
<1>1. /\ jobs = <<>> /\ Len(jobs) = 0 /\ Exited = {} /\ captured = {} /\ Dropped = {}
      /\ refused = {} /\ \A r \in Spans : completed[r] = <<>> /\ Len(completed[r]) = 0
  BY DEF Init, Exited, Dropped
<1>2. \A i : i \notin 1..0
  OBVIOUS
<1> QED BY <1>1, <1>2 DEF CaptureInv, PlaceInv, SettledInv, QueueInv, AccumulatorInv,
           QueueOrderInv, AccumulatorOrderInv

\* How the steps of a scope move it on.
LEMMA ScopeMoves ==
  ASSUME TypeOK, StackInv, NEW t \in Tasks, NEW s \in Spans
  PROVE  /\ Enter(t, s) \/ Leave(t, s) \/ Exit(t, s) =>
              \A q \in Spans \ {s} : scope'[q] = scope[q]
         /\ Enter(t, s) => scope[s].at = "new" /\ scope'[s].at = "open"
         /\ Leave(t, s) => scope[s].at = "open" /\ scope'[s].at = "leaving"
         /\ Leave(t, s) \/ Exit(t, s) => \A q \in Spans : scope'[q].root = scope[q].root
         /\ Exit(t, s) => /\ scope[s].at = "leaving" /\ scope'[s].at = "exited"
                          /\ \A q \in Spans \ {s} : after'[q] = after[q]
                          /\ after'[s] = Exited
<1>1. scope[s] \in Scopes /\ scope \in [Spans -> Scopes]
  BY DEF TypeOK
<1>2. Enter(t, s) => scope[s].at = "new" /\ scope'[s].at = "open" /\ \A q \in Spans \ {s} : scope'[q] = scope[q]
  BY <1>1 DEF Enter
<1>3. Leave(t, s) => /\ scope[s].at = "open" /\ scope'[s].at = "leaving"
                     /\ \A q \in Spans \ {s} : scope'[q] = scope[q]
                     /\ \A q \in Spans : scope'[q].root = scope[q].root
  BY <1>1 DEF Leave, Scopes
<1>4. ASSUME Exit(t, s)
      PROVE  /\ scope[s].at = "leaving" /\ scope'[s].at = "exited"
             /\ \A q \in Spans \ {s} : scope'[q] = scope[q] /\ after'[q] = after[q]
             /\ \A q \in Spans : scope'[q].root = scope[q].root
             /\ after'[s] = Exited
  <2>1. leaving[t] = s /\ s # NoSpan
    BY <1>4, ScopeAssumption DEF Exit, ExitInline, ExitInvalid, ExitDeferred
  <2>2. scope[s].at = "leaving"
    BY <2>1 DEF StackInv
  <2> QED BY <1>1, <1>4, <2>2 DEF Exit, TypeOK, Scopes
<1> QED BY <1>2, <1>3, <1>4

LEMMA CaptureStep ==
  ASSUME TypeOK, StackInv, CaptureInv, PlaceInv, [Next]_vars
  PROVE  CaptureInv'
<1>1. ASSUME NEW t \in Tasks, NEW u \in Tasks, Spawn(t, u) PROVE CaptureInv'
  BY <1>1 DEF Spawn, CaptureInv, captureVars, Dropped
<1>2. ASSUME NEW t \in Tasks, NEW s \in Spans, Enter(t, s) PROVE CaptureInv'
  <2>1. scope[s].at = "new" /\ \A q \in Spans \ {s} : scope'[q] = scope[q]
    BY <1>2, ScopeMoves
  <2>2. captured \subseteq Spans /\ Dropped \subseteq Spans
    BY DEF TypeOK, Dropped
  <2> QED BY <1>2, <2>1, <2>2 DEF Enter, CaptureInv, captureVars, Dropped
<1>3. ASSUME NEW t \in Tasks, NEW s \in Spans, Leave(t, s) PROVE CaptureInv'
  <2>1. scope[s].at = "open" /\ scope'[s].at = "leaving" /\ \A q \in Spans \ {s} : scope'[q] = scope[q]
    BY <1>3, ScopeMoves
  <2>2. captured \subseteq Spans /\ Dropped \subseteq Spans
    BY DEF TypeOK, Dropped
  <2> QED BY <1>3, <2>1, <2>2 DEF Leave, CaptureInv, Dropped
<1>4. ASSUME NEW t \in Tasks, NEW s \in Spans, Exit(t, s) PROVE CaptureInv'
  <2>1. scope'[s].at = "exited" /\ \A q \in Spans \ {s} : scope'[q] = scope[q]
    BY <1>4, ScopeMoves
  <2>2. captured \subseteq Spans /\ Dropped \subseteq Spans /\ executor \in {"absent", "open", "closed"}
    BY DEF TypeOK, Dropped
  <2>3. Dropped' \subseteq Dropped \cup {s} /\ captured' = captured /\ executor' = executor
        /\ (refused' # refused => s \in captured /\ executor # "open")
    BY <1>4 DEF Exit, ExitInline, ExitInvalid, ExitDeferred, Dropped
  <2> QED BY <2>1, <2>2, <2>3 DEF CaptureInv
<1>5. CASE RunJob
  <2>1. UNCHANGED <<scope, captured, refused, executor>>
    BY <1>5 DEF RunJob, scopeVars
  <2>2. Dropped' \subseteq Dropped \cup Exited
    <3>1. ASSUME NEW s \in Spans, jobs[1] = Job("emit", s) PROVE s \in Exited
      <4>1. 1 \in 1..Len(jobs)
        BY <1>5 DEF TypeOK, RunJob
      <4> QED BY <3>1, <4>1 DEF PlaceInv, QueueInv
    <3>2. invalid' = invalid \/ \E s \in Spans : jobs[1] = Job("emit", s) /\ invalid' = invalid \cup {s}
      BY <1>5, RunJobCases
    <3> QED BY <2>1, <3>1, <3>2 DEF Dropped
  <2> QED BY <2>1, <2>2 DEF CaptureInv, Exited
<1>6. ASSUME NEW x \in Threads, Offer(x) PROVE CaptureInv'
  BY <1>6 DEF Offer, CaptureInv, scopeVars, captureVars, Dropped
<1>7. CASE AppStep
  BY <1>7 DEF AppStep, CaptureInv, scopeVars, Dropped
<1> QED BY <1>1, <1>2, <1>3, <1>4, <1>5, <1>6, <1>7, StepCases

\* A job that is no span's callback joins the queue.
LEMMA OtherJob ==
  ASSUME TypeOK, NEW job \in Jobs, \A s : job # Job("emit", s),
         jobs' = jobs \/ jobs' = Append(jobs, job)
  PROVE  JobsMoved(0)
<1>1. CASE jobs' = jobs
  <2>1. Len(jobs) \in Nat
    BY DEF TypeOK
  <2> QED BY <1>1, <2>1 DEF JobsMoved
<1>2. CASE jobs' = Append(jobs, job)
  <2>1. /\ Len(jobs) \in Nat /\ Len(jobs') = Len(jobs) + 1
        /\ jobs'[Len(jobs) + 1] = job
        /\ \A i \in 1..Len(jobs) : jobs'[i] = jobs[i]
    BY <1>2 DEF TypeOK
  <2>2. \A i \in 1..Len(jobs') : i \in 1..Len(jobs) \/ i = Len(jobs) + 1
    BY <2>1
  <2> QED BY <2>1, <2>2 DEF JobsMoved
<1> QED BY <1>1, <1>2

LEMMA PlaceStep ==
  ASSUME TypeOK, StackInv, NestingInv, CaptureInv, PlaceInv, [Next]_vars
  PROVE  PlaceInv'
<1>0. Barrier \in Jobs /\ \A s : Barrier # Job("emit", s)
  BY DEF Barrier, Jobs, Job
<1>1. ASSUME NEW t \in Tasks, NEW u \in Tasks, Spawn(t, u) PROVE PlaceInv'
  <2>1. JobsMoved(0)
    BY <1>0, <1>1, OtherJob DEF Spawn, captureVars
  <2>2. QuietStep
    BY <1>1, <2>1 DEF Spawn, QuietStep, captureVars, Exited
  <2> QED BY <2>2, QuietKeeps
<1>2. ASSUME NEW t \in Tasks, NEW s \in Spans, Enter(t, s) PROVE PlaceInv'
  <2>1. scope[s].at = "new" /\ scope'[s].at = "open" /\ \A q \in Spans \ {s} : scope'[q] = scope[q]
    BY <1>2, ScopeMoves
  <2>2. JobsMoved(0)
    BY <1>0, <1>2, OtherJob DEF Enter, captureVars
  <2>3. QuietStep
    BY <1>2, <2>1, <2>2 DEF Enter, QuietStep, captureVars, Exited
  <2> QED BY <2>3, QuietKeeps
<1>3. ASSUME NEW t \in Tasks, NEW s \in Spans, Leave(t, s) PROVE PlaceInv'
  <2>1. scope[s].at = "open" /\ scope'[s].at = "leaving" /\ \A q \in Spans \ {s} : scope'[q] = scope[q]
    BY <1>3, ScopeMoves
  <2>2. Job("put", s) \in Jobs /\ \A q : Job("put", s) # Job("emit", q)
    BY JobType DEF Job
  <2>3. jobs' = jobs \/ jobs' = Append(jobs, Job("put", s))
    BY <1>3 DEF Leave
  <2>4. JobsMoved(0)
    BY <2>2, <2>3, OtherJob
  <2>5. QuietStep
    BY <1>3, <2>1, <2>4 DEF Leave, QuietStep, Exited
  <2> QED BY <2>5, QuietKeeps
<1>4. ASSUME NEW t \in Tasks, NEW s \in Spans, Exit(t, s) PROVE PlaceInv'
  <2>0. /\ scope[s].at = "leaving" /\ scope'[s].at = "exited"
        /\ \A q \in Spans : scope'[q].root = scope[q].root
        /\ \A q \in Spans \ {s} : scope'[q] = scope[q] /\ after'[q] = after[q]
        /\ after'[s] = Exited
    BY <1>4, ScopeMoves
  <2>1. s \notin Exited /\ Exited' = Exited \cup {s}
    BY <2>0 DEF Exited
  <2>2. captured' = captured
    BY <1>4 DEF Exit
  <2>3. ASSUME jobs' = jobs PROVE SpanArrives(s)
    <3>1. JobsMoved(0)
      BY <1>0, <2>3, OtherJob
    <3> QED BY <2>0, <2>1, <2>2, <3>1 DEF SpanArrives
  <2>4. CASE ExitInline(t, s)
    <3>1. SpanArrives(s)
      BY <2>3, <2>4 DEF ExitInline
    <3>2. EmitSpan(t, s) /\ s \notin captured /\ UNCHANGED <<refused, invalid>>
      BY <2>4 DEF ExitInline
    <3> QED BY <3>1, <3>2, EmitKeeps
  <2>5. CASE ExitInvalid(t, s)
    <3>1. SpanArrives(s)
      BY <2>3, <2>5 DEF ExitInvalid
    <3>2. UNCHANGED completed /\ Dropped' = Dropped \cup {s}
      BY <2>5 DEF ExitInvalid, Dropped
    <3> QED BY <3>1, <3>2, DropKeeps
  <2>6. CASE ExitDeferred(t, s) /\ executor = "open"
    <3>1. /\ s \in captured /\ jobs' = Append(jobs, Job("emit", s))
          /\ UNCHANGED <<completed, refused, invalid>>
      BY <2>6 DEF ExitDeferred
    <3> QED BY <2>0, <2>1, <2>2, <3>1, EnqueueKeeps
  <2>7. CASE ExitDeferred(t, s) /\ executor # "open"
    <3>1. SpanArrives(s)
      BY <2>3, <2>7 DEF ExitDeferred
    <3>2. UNCHANGED completed /\ Dropped' = Dropped \cup {s}
      BY <2>7 DEF ExitDeferred, Dropped
    <3> QED BY <3>1, <3>2, DropKeeps
  <2> QED BY <1>4, <2>4, <2>5, <2>6, <2>7 DEF Exit
<1>5. CASE RunJob
  <2>1. /\ jobs # <<>> /\ jobs' = Tail(jobs)
        /\ UNCHANGED <<scope, after, captured, refused>>
    BY <1>5, RunJobCases DEF scopeVars
  <2>2. Exited' = Exited
    BY <2>1 DEF Exited
  <2>3. ASSUME NEW s \in Spans, jobs[1] = Job("emit", s) PROVE SpanArrives(s) /\ s \in Exited
    <3>1. 1 \in 1..Len(jobs)
      BY <2>1 DEF TypeOK
    <3>2. s \in Exited
      BY <2>3, <3>1 DEF PlaceInv, QueueInv
    <3> QED BY <2>1, <2>2, <2>3, <3>2 DEF SpanArrives
  <2>4. CASE (\A s : jobs[1] # Job("emit", s)) /\ UNCHANGED <<invalid, completed, todo>>
    <3>1. /\ Len(jobs) \in Nat \ {0} /\ Len(jobs') = Len(jobs) - 1
          /\ \A i \in 1..(Len(jobs) - 1) : jobs'[i] = jobs[i + 1]
      BY <2>1, TailFacts DEF TypeOK
    <3>2. \A i \in 1..Len(jobs) : i = 1 \/ (i - 1 \in 1..Len(jobs') /\ jobs'[i - 1] = jobs[i])
      BY <3>1
    <3>3. JobsMoved(1)
      BY <2>4, <3>1, <3>2 DEF JobsMoved
    <3>4. QuietStep
      BY <2>1, <2>2, <2>4, <3>3 DEF QuietStep
    <3> QED BY <3>4, QuietKeeps
  <2>5. ASSUME NEW s \in Spans, jobs[1] = Job("emit", s), EmitSpan(Executor, s), UNCHANGED invalid
        PROVE  PlaceInv'
    <3>1. UNCHANGED <<refused, invalid>>
      BY <2>1, <2>5
    <3> QED BY <2>3, <2>5, <3>1, EmitKeeps
  <2>6. ASSUME NEW s \in Spans, jobs[1] = Job("emit", s), invalid' = invalid \cup {s},
               UNCHANGED <<completed, todo>>
        PROVE  PlaceInv'
    <3>1. Dropped' = Dropped \cup {s} /\ UNCHANGED completed
      BY <2>1, <2>6 DEF Dropped
    <3> QED BY <2>3, <2>6, <3>1, DropKeeps
  <2> QED BY <1>5, <2>4, <2>5, <2>6, RunJobCases
<1>6. ASSUME NEW x \in Threads, Offer(x) PROVE PlaceInv'
  <2>1. JobsMoved(0)
    BY <1>0, <1>6, OtherJob DEF Offer, captureVars
  <2>2. QuietStep
    BY <1>6, <2>1 DEF Offer, QuietStep, scopeVars, captureVars, Exited
  <2> QED BY <2>2, QuietKeeps
<1>7. CASE AppStep
  <2>1. JobsMoved(0)
    BY <1>0, <1>7, OtherJob DEF AppStep
  <2>2. QuietStep
    BY <1>7, <2>1 DEF AppStep, QuietStep, scopeVars, Exited
  <2> QED BY <2>2, QuietKeeps
<1> QED BY <1>1, <1>2, <1>3, <1>4, <1>5, <1>6, <1>7, StepCases
-----------------------------------------------------------------------------
(* What a root releases, and its way to the collector.                     *)

DeliveryInv == ReleaseInv /\ OfferedOnce /\ OrderInv

LEMMA InitDelivery == Init => DeliveryInv
<1> SUFFICES ASSUME Init PROVE DeliveryInv
  OBVIOUS
<1>1. /\ offered = {} /\ \A x \in Threads : todo[x] = <<>> /\ Len(todo[x]) = 0
      /\ \A r \in Spans : completed[r] = <<>> /\ Len(completed[r]) = 0
      /\ \A t \in Tasks : leaving[t] = NoSpan
  BY DEF Init
<1>2. \A i : i \notin 1..0
  OBVIOUS
<1>3. \A s : ~\E x \in Threads : In(s, todo[x])
  BY <1>1, <1>2 DEF In
<1> QED BY <1>1, <1>2, <1>3 DEF DeliveryInv, ReleaseInv, OfferedOnce, OrderInv

\* A span that is offered or about to be stands in its root's accumulator, no
\* later than the root.
LEMMA ReleasedSpan ==
  ASSUME TypeOK, PlaceInv, DeliveryInv, NEW s \in Spans,
         s \in offered \/ \E x \in Threads : In(s, todo[x])
  PROVE  /\ s \in Exited /\ scope[s].root \in Exited
         /\ \E k \in 1..Len(completed[scope[s].root]) :
              /\ Released(scope[s].root, k)
              /\ \E i \in 1..k : completed[scope[s].root][i] = s
<1>1. PICK r \in Spans : r = scope[s].root
  BY DEF TypeOK, Scopes
<1>2. PICK k \in 1..Len(completed[r]) : Released(r, k) /\ \E i \in 1..k : completed[r][i] = s
  BY <1>1 DEF DeliveryInv, ReleaseInv
<1>3. PICK i \in 1..k : completed[r][i] = s
  BY <1>2
<1>4. Len(completed[r]) \in Nat
  BY DEF TypeOK
<1>5. i \in 1..Len(completed[r])
  BY <1>2, <1>3, <1>4
<1>6. s \in Exited /\ r \in Exited
  BY <1>2, <1>3, <1>5 DEF Released, PlaceInv, AccumulatorInv
<1> QED BY <1>1, <1>2, <1>6

LEMMA TodoSpans ==
  ASSUME TypeOK
  PROVE  \A y \in Threads : \A p \in 1..Len(todo[y]) : todo[y][p] \in Spans /\ In(todo[y][p], todo[y])
BY DEF TypeOK, In

LEMMA DeliveryQuiet ==
  ASSUME TypeOK, PlaceInv, DeliveryInv,
         UNCHANGED <<todo, completed, offered, earlier>>,
         \A q \in Exited : /\ scope'[q].root = scope[q].root
                           /\ scope'[q].task = scope[q].task
                           /\ q \in captured' <=> q \in captured,
         \A t \in Tasks : leaving'[t] # NoSpan => todo[t] = <<>>
  PROVE  DeliveryInv'
<1>1. ASSUME NEW s \in Spans, s \in offered \/ \E x \in Threads : In(s, todo[x])
      PROVE  /\ scope'[s].root = scope[s].root
             /\ Emitter(scope[s].root)' = Emitter(scope[s].root)
             /\ \E k \in 1..Len(completed[scope[s].root]) :
                  /\ Released(scope[s].root, k)
                  /\ \E i \in 1..k : completed[scope[s].root][i] = s
  <2>1. /\ s \in Exited /\ scope[s].root \in Exited
        /\ \E k \in 1..Len(completed[scope[s].root]) :
             /\ Released(scope[s].root, k)
             /\ \E i \in 1..k : completed[scope[s].root][i] = s
    BY <1>1, ReleasedSpan
  <2>2. scope'[s].root = scope[s].root
    BY <2>1
  <2>3. Emitter(scope[s].root)' = Emitter(scope[s].root)
    BY <2>1, <2>2 DEF Emitter
  <2> QED BY <2>1, <2>2, <2>3
<1>2. \A r, k : Released(r, k)' <=> Released(r, k)
  BY DEF Released
<1>3. \A x \in Threads : \A p \in 1..Len(todo[x]) : todo[x][p] \in Spans /\ In(todo[x][p], todo[x])
  BY TodoSpans
<1>4. ReleaseInv'
  <2>1. \A s \in Spans : (s \in offered \/ \E x \in Threads : In(s, todo[x])) =>
          \E k \in 1..Len(completed[scope'[s].root]) :
            Released(scope'[s].root, k) /\ \E i \in 1..k : completed[scope'[s].root][i] = s
    BY <1>1
  <2>2. \A x \in Threads : \A p \in 1..Len(todo[x]) : x = Emitter(scope[todo[x][p]].root)'
    <3> SUFFICES ASSUME NEW x \in Threads, NEW p \in 1..Len(todo[x])
                 PROVE  x = Emitter(scope[todo[x][p]].root)'
      OBVIOUS
    <3>1. x = Emitter(scope[todo[x][p]].root)
      BY DEF DeliveryInv, ReleaseInv
    <3>2. PICK s \in Spans : s = todo[x][p] /\ In(s, todo[x])
      BY <1>3
    <3>3. Emitter(scope[s].root)' = Emitter(scope[s].root)
      BY <1>1, <3>2
    <3> QED BY <3>1, <3>2, <3>3
  <2>3. \A r \in Spans : \A k \in 1..Len(completed[r]) : Released(r, k) =>
          \A i \in 1..k : completed[r][i] \in offered \/ \E x \in Threads : In(completed[r][i], todo[x])
    BY DEF DeliveryInv, ReleaseInv
  <2> QED BY <1>2, <2>1, <2>2, <2>3 DEF ReleaseInv, In
<1>5. OfferedOnce'
  BY DEF DeliveryInv, OfferedOnce
<1>6. OrderInv'
  <2>1. OrderInv
    BY DEF DeliveryInv
  <2> QED BY <2>1 DEF OrderInv, Released
<1> QED BY <1>4, <1>5, <1>6 DEF DeliveryInv
LEMMA Mirror ==
  ASSUME NEW m \in Nat, NEW i \in 1..m
  PROVE  m + 1 - i \in 1..m /\ m + 1 - (m + 1 - i) = i
OBVIOUS

\* A span that is no root joins its accumulator, or a root releases its own.
LEMMA DeliveryEmit ==
  ASSUME TypeOK, TypeOK', TreeInv, PlaceInv, PlaceInv', DeliveryInv,
         NEW x \in Threads, NEW s \in Spans, EmitSpan(x, s), ~Appended(s), todo[x] = <<>>,
         IsRoot(s) => x = Emitter(s),
         UNCHANGED <<offered, earlier, captured>>,
         \A q \in Spans : scope'[q].root = scope[q].root /\ scope'[q].task = scope[q].task,
         \A t \in Tasks : leaving'[t] # NoSpan => todo'[t] = <<>>
  PROVE  DeliveryInv'
<1>1. PICK r \in Spans :
        /\ r = scope[s].root
        /\ Len(completed[r]) \in Nat
        /\ Len(completed'[r]) = Len(completed[r]) + 1
        /\ completed'[r][Len(completed[r]) + 1] = s
        /\ \A i \in 1..Len(completed[r]) : completed'[r][i] = completed[r][i]
        /\ \A q \in Spans \ {r} : completed'[q] = completed[q]
  BY EmitSpanEffect
<1>2. \A i \in 1..Len(completed'[r]) : i \in 1..Len(completed[r]) \/ i = Len(completed[r]) + 1
  BY <1>1
<1>3. \A q \in Spans : Len(completed[q]) \in Nat
  BY DEF TypeOK
<1>4. \A q \in Spans : /\ Len(completed[q]) \in Nat /\ 1..Len(completed[q]) \subseteq 1..Len(completed'[q])
                       /\ \A i \in 1..Len(completed[q]) : completed'[q][i] = completed[q][i]
  BY <1>1, <1>3
<1>5. \A q : Emitter(q)' = Emitter(q) \/ q \notin Spans
  BY DEF Emitter
<1>6. \A t \in Spans : \A k \in 1..Len(completed[t]) : \A i \in 1..k : i \in 1..Len(completed[t])
  BY <1>3
<1>7. \A y \in Threads : \A p \in 1..Len(todo[y]) : todo[y][p] \in Spans /\ In(todo[y][p], todo[y])
  BY TodoSpans
\* What stays with the entries that were there.
<1>8. ASSUME NEW q \in Spans, q \in offered \/ \E y \in Threads : In(q, todo[y])
      PROVE  /\ scope[q].root \in Spans
             /\ \E k \in 1..Len(completed[scope[q].root]) : Released(scope[q].root, k)
             /\ \E k \in 1..Len(completed'[scope'[q].root]) :
                  completed'[scope'[q].root][k] = scope'[q].root /\ \E i \in 1..k : completed'[scope'[q].root][i] = q
  <2>1. PICK t \in Spans : t = scope[q].root
    BY DEF TypeOK, Scopes
  <2>2. PICK k \in 1..Len(completed[t]) :
          Released(t, k) /\ \E i \in 1..k : completed[t][i] = q
    BY <1>8, <2>1 DEF DeliveryInv, ReleaseInv
  <2>3. PICK i \in 1..k : completed[t][i] = q
    BY <2>2
  <2>4. k \in 1..Len(completed'[t]) /\ completed'[t][k] = t /\ completed'[t][i] = q
    BY <1>4, <1>6, <2>2, <2>3 DEF Released
  <2>5. i \in 1..k /\ scope'[q].root = t
    BY <2>1, <2>3
  <2> QED BY <2>1, <2>2, <2>4, <2>5 DEF Released
<1>9. CASE ~IsRoot(s)
  <2>1. todo' = todo /\ r # s
    BY <1>1, <1>9 DEF EmitSpan, TreeInv
  <2>2. ASSUME NEW t \in Spans, NEW k \in 1..Len(completed'[t]), completed'[t][k] = t
        PROVE  /\ k \in 1..Len(completed[t]) /\ Released(t, k)
               /\ \A i \in 1..k : completed'[t][i] = completed[t][i]
    <3>1. CASE t = r
      <4>1. k # Len(completed[r]) + 1
        BY <1>1, <2>1, <2>2, <3>1 DEF Released
      <4>2. k \in 1..Len(completed[r])
        BY <1>2, <2>2, <3>1, <4>1
      <4> QED BY <1>4, <1>6, <2>2, <3>1, <4>2 DEF Released
    <3>2. CASE t # r
      BY <1>1, <2>2, <3>2 DEF Released
    <3> QED BY <3>1, <3>2
  <2>3. ReleaseInv'
    <3>1. \A y \in Threads : \A p \in 1..Len(todo[y]) : y = Emitter(scope[todo[y][p]].root)'
      <4> SUFFICES ASSUME NEW y \in Threads, NEW p \in 1..Len(todo[y])
                   PROVE  y = Emitter(scope[todo[y][p]].root)'
        OBVIOUS
      <4>1. y = Emitter(scope[todo[y][p]].root)
        BY DEF DeliveryInv, ReleaseInv
      <4>2. PICK q \in Spans : q = todo[y][p] /\ scope[q].root \in Spans
        BY <1>7, <1>8
      <4>3. Emitter(scope[q].root)' = Emitter(scope[q].root)
        BY <4>2 DEF Emitter
      <4>4. todo'[y][p] = q
        BY <2>1, <4>2
      <4> QED BY <4>1, <4>2, <4>3, <4>4 DEF Emitter
    <3>2. ASSUME NEW t \in Spans, NEW k \in 1..Len(completed'[t]), completed'[t][k] = t, NEW i \in 1..k
          PROVE  completed'[t][i] \in offered \/ \E y \in Threads : In(completed'[t][i], todo[y])
      <4>1. completed[t][i] \in offered \/ \E y \in Threads : In(completed[t][i], todo[y])
        BY <2>2, <3>2 DEF DeliveryInv, ReleaseInv
      <4>2. completed'[t][i] = completed[t][i]
        BY <2>2, <3>2
      <4> QED BY <4>1, <4>2 DEF In
    <3>3. \A t \in Tasks : leaving'[t] # NoSpan => todo'[t] = <<>>
      OBVIOUS
    <3> QED BY <1>8, <2>1, <3>1, <3>2, <3>3 DEF ReleaseInv, In, Released
  <2>4. OfferedOnce'
    BY <2>1 DEF DeliveryInv, OfferedOnce
  <2>5. OrderInv'
    <3> SUFFICES ASSUME NEW t \in Spans, NEW k \in 1..Len(completed'[t]), completed'[t][k] = t,
                        NEW j \in 1..k, NEW i \in 1..(j - 1)
                 PROVE  /\ completed'[t][i] \in offered =>
                             completed'[t][j] \in offered /\ completed'[t][j] \in earlier[completed'[t][i]]
                        /\ \A y \in Threads : \A p \in 1..Len(todo[y]) : todo[y][p] = completed'[t][i] =>
                             completed'[t][j] \in offered \/ \E q \in 1..(p - 1) : todo[y][q] = completed'[t][j]
      BY <2>1 DEF OrderInv, Released
    <3>1. k \in 1..Len(completed[t]) /\ Released(t, k) /\ i \in 1..k
          /\ completed'[t][i] = completed[t][i] /\ completed'[t][j] = completed[t][j]
      BY <2>2
    <3>2. /\ completed[t][i] \in offered =>
               completed[t][j] \in offered /\ completed[t][j] \in earlier[completed[t][i]]
          /\ \A y \in Threads : \A p \in 1..Len(todo[y]) : todo[y][p] = completed[t][i] =>
               completed[t][j] \in offered \/ \E q \in 1..(p - 1) : todo[y][q] = completed[t][j]
      BY <3>1 DEF DeliveryInv, OrderInv
    <3> QED BY <3>1, <3>2
  <2> QED BY <2>3, <2>4, <2>5 DEF DeliveryInv
<1>10. CASE IsRoot(s)
  <2>1. r = s /\ x = Emitter(s)
    BY <1>1, <1>10 DEF TreeInv
  <2>2. PICK m \in Nat : m = Len(completed'[s]) /\ m = Len(completed[s]) + 1 /\ completed'[s][m] = s
    BY <1>1, <2>1
  <2>3. \A k \in 1..Len(completed[s]) : ~Released(s, k)
    BY <1>1, <2>1 DEF Released, Appended, In
  <2>4. ASSUME NEW q \in Spans, scope[q].root = s
        PROVE  q \notin offered /\ \A y \in Threads : ~In(q, todo[y])
    BY <1>8, <2>3, <2>4
  <2>5. /\ Len(todo'[x]) = m
        /\ \A p \in 1..m : todo'[x][p] = completed'[s][m + 1 - p]
        /\ \A y \in Threads \ {x} : todo'[y] = todo[y]
    <3>1. completed'[s] \in Seq(Spans)
      BY DEF TypeOK
    <3>2. todo' = [todo EXCEPT ![x] = Reversed(completed'[s])]
      BY <1>1, <1>10, <2>1 DEF EmitSpan
    <3>3. todo'[x] = Reversed(completed'[s]) /\ \A y \in Threads \ {x} : todo'[y] = todo[y]
      BY <3>2 DEF TypeOK
    <3>4. /\ Len(Reversed(completed'[s])) = Len(completed'[s])
          /\ \A p \in 1..Len(completed'[s]) :
               Reversed(completed'[s])[p] = completed'[s][Len(completed'[s]) + 1 - p]
      BY <3>1, ReversedType
    <3> QED BY <2>2, <3>3, <3>4
  <2>6. \A i \in 1..m : m + 1 - i \in 1..m /\ m + 1 - (m + 1 - i) = i
    BY Mirror
  <2>7. ASSUME NEW t \in Spans, NEW i \in 1..Len(completed'[t])
        PROVE  /\ completed'[t][i] \in Spans /\ scope[completed'[t][i]].root = t
               /\ \A j \in 1..Len(completed'[t]) : completed'[t][j] = completed'[t][i] => i = j
    <3>1. completed'[t][i] \in Spans
      BY DEF TypeOK
    <3> QED BY <3>1 DEF PlaceInv, AccumulatorInv
  <2>8. ASSUME NEW p \in 1..m
        PROVE  /\ todo'[x][p] \in Spans /\ scope[todo'[x][p]].root = s
               /\ todo'[x][p] \notin offered /\ \A y \in Threads : ~In(todo'[x][p], todo[y])
    <3>1. PICK i \in 1..m : i = m + 1 - p
      BY <2>6
    <3>2. todo'[x][p] = completed'[s][i] /\ i \in 1..Len(completed'[s])
      BY <2>2, <2>5, <3>1
    <3>3. completed'[s][i] \in Spans /\ scope[completed'[s][i]].root = s
      BY <2>7, <3>2
    <3> QED BY <2>4, <3>2, <3>3
  <2>9. \A y \in Threads : \A p \in 1..Len(todo'[y]) :
          \/ y = x /\ p \in 1..m
          \/ /\ y # x /\ todo'[y] = todo[y]
             /\ p \in 1..Len(todo[y]) /\ todo[y][p] \in Spans /\ In(todo[y][p], todo[y])
    BY <1>7, <2>5
  <2>10. ASSUME NEW t \in Spans, NEW k \in 1..Len(completed'[t]), completed'[t][k] = t
         PROVE  \/ t = s /\ k = m
                \/ /\ t # s /\ k \in 1..Len(completed[t]) /\ Released(t, k)
                   /\ completed'[t] = completed[t]
    <3>1. CASE t = s
      <4>0. m \in 1..m
        BY <2>2
      <4>1. k \in 1..m /\ m \in 1..m /\ completed'[s][k] = s
        BY <2>2, <2>10, <3>1, <4>0 DEF Released
      <4>2. k \in 1..Len(completed'[s]) /\ m \in 1..Len(completed'[s]) /\ completed'[s][m] = completed'[s][k]
        BY <2>2, <4>1
      <4>3. m = k
        BY <2>7, <4>2
      <4> QED BY <3>1, <4>3
    <3>2. CASE t # s
      BY <1>1, <2>1, <2>10, <3>2 DEF Released
    <3> QED BY <3>1, <3>2
  <2>11. ReleaseInv'
    <3>1. ASSUME NEW q \in Spans, q \in offered \/ \E y \in Threads : In(q, todo'[y])
          PROVE  \E k \in 1..Len(completed'[scope'[q].root]) :
                   completed'[scope'[q].root][k] = scope'[q].root /\ \E i \in 1..k : completed'[scope'[q].root][i] = q
      <4>1. CASE q \in offered \/ \E y \in Threads : In(q, todo[y])
        BY <1>8, <4>1
      <4>2. ASSUME ~(q \in offered \/ \E y \in Threads : In(q, todo[y])) PROVE In(q, todo'[x])
        BY <2>5, <3>1, <4>2
      <4>3. CASE In(q, todo'[x])
        <5>1. PICK p \in 1..m : todo'[x][p] = q
          BY <2>5, <4>3 DEF In
        <5>2. scope'[q].root = s /\ m \in 1..m /\ completed'[s][m] = s
          BY <2>2, <2>8, <5>1 DEF Released
        <5>3. m + 1 - p \in 1..m /\ completed'[s][m + 1 - p] = q
          BY <2>5, <2>6, <5>1
        <5> QED BY <2>2, <5>2, <5>3 DEF Released
      <4> QED BY <4>1, <4>2, <4>3
    <3>2. ASSUME NEW y \in Threads, NEW p \in 1..Len(todo'[y])
          PROVE  y = Emitter(scope[todo[y][p]].root)'
      <4>1. CASE y = x /\ p \in 1..m
        <5>1. PICK q \in Spans : q = todo'[x][p] /\ scope[q].root = s
          BY <2>8, <4>1
        <5>2. scope'[q].root = s /\ scope'[s].task = scope[s].task
          BY <5>1
        <5> QED BY <2>1, <4>1, <5>1, <5>2 DEF Emitter
      <4>2. CASE y # x /\ todo'[y] = todo[y] /\ p \in 1..Len(todo[y])
        <5>1. y = Emitter(scope[todo[y][p]].root)
          BY <4>2 DEF DeliveryInv, ReleaseInv
        <5>2. PICK q \in Spans : q = todo[y][p] /\ scope[q].root \in Spans
          BY <1>7, <1>8, <4>2
        <5>3. Emitter(scope[q].root)' = Emitter(scope[q].root)
          BY <5>2 DEF Emitter
        <5>4. todo'[y][p] = q
          BY <4>2, <5>2
        <5> QED BY <5>1, <5>2, <5>3, <5>4
      <4> QED BY <2>9, <4>1, <4>2
    <3>3. ASSUME NEW t \in Spans, NEW k \in 1..Len(completed'[t]), completed'[t][k] = t, NEW i \in 1..k
          PROVE  completed'[t][i] \in offered \/ \E y \in Threads : In(completed'[t][i], todo'[y])
      <4>1. CASE t = s /\ k = m
        <5>1. m + 1 - i \in 1..m /\ todo'[x][m + 1 - i] = completed'[s][i]
          BY <2>5, <2>6, <3>3, <4>1
        <5> QED BY <2>5, <4>1, <5>1 DEF In
      <4>2. CASE t # s /\ k \in 1..Len(completed[t]) /\ Released(t, k) /\ completed'[t] = completed[t]
        <5>1. completed[t][i] \in offered \/ \E y \in Threads : In(completed[t][i], todo[y])
          BY <3>3, <4>2 DEF DeliveryInv, ReleaseInv
        <5>2. ASSUME NEW y \in Threads, In(completed[t][i], todo[y]) PROVE y # x
          BY <5>2 DEF In
        <5> QED BY <2>5, <4>2, <5>1, <5>2
      <4> QED BY <2>10, <3>3, <4>1, <4>2
    <3>4. \A t \in Tasks : leaving'[t] # NoSpan => todo'[t] = <<>>
      OBVIOUS
    <3> QED BY <3>1, <3>2, <3>3, <3>4 DEF ReleaseInv, In, Released
  <2>12. OfferedOnce'
    <3> SUFFICES ASSUME NEW y \in Threads, NEW z \in Threads,
                        NEW i \in 1..Len(todo'[y]), NEW j \in 1..Len(todo'[z])
                 PROVE  /\ todo'[y][i] \notin offered
                        /\ todo'[y][i] = todo'[z][j] => y = z /\ i = j
      BY DEF OfferedOnce
    <3>1. CASE y # x /\ z # x
      <4>1. /\ i \in 1..Len(todo[y]) /\ todo'[y][i] = todo[y][i]
            /\ j \in 1..Len(todo[z]) /\ todo'[z][j] = todo[z][j]
        BY <2>5, <3>1
      <4> QED BY <4>1 DEF DeliveryInv, OfferedOnce
    <3>2. CASE y = x /\ z # x
      BY <2>8, <2>9, <3>2
    <3>3. CASE y # x /\ z = x
      <4>1. todo'[y][i] \notin offered
        BY <2>9, <3>3 DEF DeliveryInv, OfferedOnce
      <4> QED BY <2>8, <2>9, <3>3, <4>1
    <3>4. CASE y = x /\ z = x
      <4>1. i \in 1..m /\ j \in 1..m
        BY <2>5, <3>4
      <4>2. ASSUME todo'[x][i] = todo'[x][j] PROVE m + 1 - i = m + 1 - j
        <5>1. PICK a \in 1..m : a = m + 1 - i
          BY <2>6, <4>1
        <5>2. PICK b \in 1..m : b = m + 1 - j
          BY <2>6, <4>1
        <5>3. completed'[s][a] = completed'[s][b]
          BY <2>5, <4>1, <4>2, <5>1, <5>2
        <5>4. a \in 1..Len(completed'[s]) /\ b \in 1..Len(completed'[s])
          BY <2>2, <5>1, <5>2
        <5> QED BY <2>7, <5>1, <5>2, <5>3, <5>4
      <4>4. m + 1 - i = m + 1 - j => i = j
        BY <2>2, <4>1
      <4>5. todo'[x][i] \notin offered
        BY <2>8, <4>1
      <4> QED BY <3>4, <4>2, <4>4, <4>5
    <3> QED BY <3>1, <3>2, <3>3, <3>4
  <2>13. OrderInv'
    <3> SUFFICES ASSUME NEW t \in Spans, NEW k \in 1..Len(completed'[t]), completed'[t][k] = t,
                        NEW j \in 1..k, NEW i \in 1..(j - 1)
                 PROVE  /\ completed'[t][i] \in offered =>
                             completed'[t][j] \in offered /\ completed'[t][j] \in earlier[completed'[t][i]]
                        /\ \A y \in Threads : \A p \in 1..Len(todo'[y]) : todo'[y][p] = completed'[t][i] =>
                             completed'[t][j] \in offered \/ \E q \in 1..(p - 1) : todo'[y][q] = completed'[t][j]
      BY DEF OrderInv, Released
    <3>1. CASE t = s /\ k = m
      <4>1. i \in 1..m /\ j \in 1..m /\ i < j
        BY <2>2, <3>1
      <4>2. completed'[s][i] \notin offered /\ \A y \in Threads : ~In(completed'[s][i], todo[y])
        BY <2>2, <2>4, <2>7, <4>1
      <4>3. ASSUME NEW y \in Threads, NEW p \in 1..Len(todo'[y]), todo'[y][p] = completed'[s][i]
            PROVE  \E q \in 1..(p - 1) : todo'[y][q] = completed'[s][j]
        <5>1. y = x /\ p \in 1..m
          BY <2>9, <4>2, <4>3
        <5>2. PICK b \in 1..m : b = m + 1 - p
          BY <2>6, <5>1
        <5>3. completed'[s][b] = completed'[s][i] /\ b \in 1..Len(completed'[s]) /\ i \in 1..Len(completed'[s])
          BY <2>2, <2>5, <4>1, <4>3, <5>1, <5>2
        <5>4. b = i
          BY <2>7, <5>3
        <5>5. PICK q \in 1..m : q = m + 1 - j /\ m + 1 - q = j
          BY <2>6, <4>1
        <5>6. q \in 1..(p - 1)
          BY <2>2, <4>1, <5>1, <5>2, <5>4, <5>5
        <5>7. todo'[x][q] = completed'[s][j]
          BY <2>5, <5>5
        <5> QED BY <5>1, <5>6, <5>7
      <4> QED BY <3>1, <4>2, <4>3
    <3>2. CASE t # s /\ k \in 1..Len(completed[t]) /\ Released(t, k) /\ completed'[t] = completed[t]
      <4>1. /\ completed[t][i] \in offered =>
                 completed[t][j] \in offered /\ completed[t][j] \in earlier[completed[t][i]]
            /\ \A y \in Threads : \A p \in 1..Len(todo[y]) : todo[y][p] = completed[t][i] =>
                 completed[t][j] \in offered \/ \E q \in 1..(p - 1) : todo[y][q] = completed[t][j]
        BY <3>2 DEF DeliveryInv, OrderInv
      <4>2. i \in 1..Len(completed'[t])
        BY <1>3, <3>2
      <4>3. scope[completed'[t][i]].root = t
        BY <2>7, <4>2
      <4>4. ASSUME NEW y \in Threads, NEW p \in 1..Len(todo'[y]), todo'[y][p] = completed'[t][i]
            PROVE  y # x /\ todo'[y] = todo[y] /\ p \in 1..Len(todo[y])
        BY <2>8, <2>9, <3>2, <4>3, <4>4
      <4>5. ASSUME NEW y \in Threads, NEW p \in 1..Len(todo'[y]), todo'[y][p] = completed'[t][i]
            PROVE  completed'[t][j] \in offered \/ \E q \in 1..(p - 1) : todo'[y][q] = completed'[t][j]
        <5>1. todo'[y] = todo[y] /\ p \in 1..Len(todo[y]) /\ todo[y][p] = completed[t][i]
          BY <3>2, <4>4, <4>5
        <5>2. completed[t][j] \in offered \/ \E q \in 1..(p - 1) : todo[y][q] = completed[t][j]
          BY <4>1, <5>1
        <5> QED BY <3>2, <5>1, <5>2
      <4>6. completed'[t] = completed[t]
        BY <3>2
      <4> QED BY <4>1, <4>5, <4>6
    <3> QED BY <2>10, <3>1, <3>2
  <2> QED BY <2>11, <2>12, <2>13 DEF DeliveryInv
<1> QED BY <1>9, <1>10
LEMMA OfferEffect ==
  ASSUME TypeOK, NEW x \in Threads, Offer(x)
  PROVE  /\ todo[x] # <<>> /\ todo[x][1] \in Spans
         /\ Len(todo[x]) \in Nat \ {0} /\ Len(todo'[x]) = Len(todo[x]) - 1
         /\ \A i \in 1..Len(todo'[x]) : i + 1 \in 1..Len(todo[x]) /\ todo'[x][i] = todo[x][i + 1]
         /\ \A y \in Threads \ {x} : todo'[y] = todo[y]
         /\ offered' = offered \cup {todo[x][1]}
         /\ earlier'[todo[x][1]] = offered
         /\ \A q \in Spans \ {todo[x][1]} : earlier'[q] = earlier[q]
         /\ UNCHANGED <<scopeVars, captureVars, sink, appVars>>
<1>1. todo[x] \in Seq(Spans) /\ todo[x] # <<>> /\ todo \in [Threads -> Seq(Spans)]
  BY DEF TypeOK, Offer
<1>2. /\ Tail(todo[x]) \in Seq(Spans)
      /\ Len(todo[x]) \in Nat \ {0}
      /\ Len(Tail(todo[x])) = Len(todo[x]) - 1
      /\ \A i \in 1..(Len(todo[x]) - 1) : Tail(todo[x])[i] = todo[x][i + 1]
      /\ Head(todo[x]) = todo[x][1]
  BY <1>1, TailFacts
<1>3. todo'[x] = Tail(todo[x]) /\ \A y \in Threads \ {x} : todo'[y] = todo[y]
  BY <1>1 DEF Offer
<1>4. todo[x][1] \in Spans
  BY <1>1, <1>2
<1>5. \A i \in 1..Len(todo'[x]) : i + 1 \in 1..Len(todo[x]) /\ todo'[x][i] = todo[x][i + 1]
  BY <1>2, <1>3
<1>6. /\ offered' = offered \cup {Head(todo[x])}
      /\ earlier' = [earlier EXCEPT ![Head(todo[x])] = offered]
      /\ UNCHANGED <<scopeVars, captureVars, sink, appVars>>
  BY DEF Offer
<1>7. earlier \in [Spans -> SUBSET Spans]
  BY DEF TypeOK
<1> QED BY <1>1, <1>2, <1>3, <1>4, <1>5, <1>6, <1>7

LEMMA DeliveryOffer ==
  ASSUME TypeOK, DeliveryInv, NEW x \in Threads, Offer(x)
  PROVE  DeliveryInv'
<1>1. PICK s \in Spans :
        /\ s = todo[x][1] /\ todo[x] # <<>>
        /\ Len(todo[x]) \in Nat \ {0} /\ Len(todo'[x]) = Len(todo[x]) - 1
        /\ \A i \in 1..Len(todo'[x]) : i + 1 \in 1..Len(todo[x]) /\ todo'[x][i] = todo[x][i + 1]
        /\ \A y \in Threads \ {x} : todo'[y] = todo[y]
        /\ offered' = offered \cup {s}
        /\ earlier'[s] = offered
        /\ \A q \in Spans \ {s} : earlier'[q] = earlier[q]
        /\ UNCHANGED <<scope, captured, completed, leaving>>
  BY OfferEffect DEF scopeVars, captureVars
<1>2. /\ 1 \in 1..Len(todo[x])
      /\ \A p \in 1..Len(todo[x]) : p # 1 => p - 1 \in 1..Len(todo'[x]) /\ todo'[x][p - 1] = todo[x][p]
  BY <1>1
<1>3. \A q : In(q, todo[x]) => q = s \/ In(q, todo'[x])
  <2> SUFFICES ASSUME NEW q, NEW p \in 1..Len(todo[x]), todo[x][p] = q, q # s
               PROVE  In(q, todo'[x])
    BY DEF In
  <2>1. p # 1
    BY <1>1
  <2> QED BY <1>2, <2>1 DEF In
<1>4. \A y \in Threads : \A q : In(q, todo'[y]) => In(q, todo[y])
  BY <1>1 DEF In
<1>5. \A y \in Threads : \A q : In(q, todo[y]) => q = s \/ In(q, todo'[y])
  BY <1>1, <1>3
<1>6. s \notin offered /\ In(s, todo[x])
  BY <1>1, <1>2 DEF DeliveryInv, OfferedOnce, In
<1>7. ReleaseInv'
  <2>1. ASSUME NEW t \in Tasks, leaving[t] # NoSpan PROVE todo'[t] = <<>>
    <3>1. todo[t] = <<>> /\ t \in Threads
      BY <2>1 DEF DeliveryInv, ReleaseInv, Threads
    <3> QED BY <1>1, <3>1
  <2>2. ASSUME NEW q \in Spans, q \in offered' \/ \E y \in Threads : In(q, todo'[y])
        PROVE  \E k \in 1..Len(completed[scope[q].root]) :
                 Released(scope[q].root, k) /\ \E i \in 1..k : completed[scope[q].root][i] = q
    <3>1. q \in offered \/ \E y \in Threads : In(q, todo[y])
      BY <1>1, <1>4, <1>6, <2>2
    <3> QED BY <3>1 DEF DeliveryInv, ReleaseInv
  <2>3. ASSUME NEW y \in Threads, NEW p \in 1..Len(todo'[y])
        PROVE  y = Emitter(scope[todo'[y][p]].root)
    <3>1. CASE y = x
      <4>1. p + 1 \in 1..Len(todo[x]) /\ todo'[x][p] = todo[x][p + 1]
        BY <1>1, <2>3, <3>1
      <4>2. x = Emitter(scope[todo[x][p + 1]].root)
        BY <4>1 DEF DeliveryInv, ReleaseInv
      <4> QED BY <3>1, <4>1, <4>2
    <3>2. CASE y # x
      <4>1. todo'[y] = todo[y]
        BY <1>1, <3>2
      <4> QED BY <2>3, <4>1 DEF DeliveryInv, ReleaseInv
    <3> QED BY <3>1, <3>2
  <2>4. ASSUME NEW r \in Spans, NEW k \in 1..Len(completed[r]), Released(r, k), NEW i \in 1..k
        PROVE  completed[r][i] \in offered' \/ \E y \in Threads : In(completed[r][i], todo'[y])
    <3>1. completed[r][i] \in offered \/ \E y \in Threads : In(completed[r][i], todo[y])
      BY <2>4 DEF DeliveryInv, ReleaseInv
    <3> QED BY <1>1, <1>5, <3>1
  <2>5. UNCHANGED <<scope, captured, completed, leaving>>
    BY <1>1
  <2> QED BY <2>1, <2>2, <2>3, <2>4, <2>5 DEF ReleaseInv, Released, Emitter, In
<1>8. ASSUME NEW y \in Threads, NEW p \in 1..Len(todo'[y])
      PROVE  LET d == IF y = x THEN 1 ELSE 0
             IN /\ p + d \in 1..Len(todo[y]) /\ todo'[y][p] = todo[y][p + d]
                /\ todo[y][p + d] \notin offered /\ todo[y][p + d] # s
  <2>1. CASE y = x
    <3>1. p + 1 \in 1..Len(todo[x]) /\ todo'[x][p] = todo[x][p + 1] /\ p + 1 # 1
      BY <1>1, <1>8, <2>1
    <3>2. todo[x][p + 1] \notin offered /\ (todo[x][p + 1] = todo[x][1] => p + 1 = 1)
      BY <1>2, <3>1 DEF DeliveryInv, OfferedOnce
    <3> QED BY <1>1, <2>1, <3>1, <3>2
  <2>2. CASE y # x
    <3>1. todo'[y] = todo[y] /\ p \in 1..Len(todo[y]) /\ p + 0 = p
      BY <1>1, <1>8, <2>2
    <3>2. todo[y][p] \notin offered /\ (todo[y][p] = todo[x][1] => y = x)
      BY <1>2, <3>1 DEF DeliveryInv, OfferedOnce
    <3> QED BY <1>1, <2>2, <3>1, <3>2
  <2> QED BY <2>1, <2>2
<1>9. OfferedOnce'
  <2> SUFFICES ASSUME NEW y \in Threads, NEW z \in Threads,
                      NEW i \in 1..Len(todo'[y]), NEW j \in 1..Len(todo'[z])
               PROVE  /\ todo'[y][i] \notin offered'
                      /\ todo'[y][i] = todo'[z][j] => y = z /\ i = j
    BY DEF OfferedOnce
  <2>1. PICK d \in {0, 1} : /\ d = IF y = x THEN 1 ELSE 0
                            /\ i + d \in 1..Len(todo[y]) /\ todo'[y][i] = todo[y][i + d]
                            /\ todo[y][i + d] \notin offered /\ todo[y][i + d] # s
    BY <1>8
  <2>2. PICK e \in {0, 1} : /\ e = IF z = x THEN 1 ELSE 0
                            /\ j + e \in 1..Len(todo[z]) /\ todo'[z][j] = todo[z][j + e]
    BY <1>8
  <2>3. todo[y][i + d] = todo[z][j + e] => y = z /\ i + d = j + e
    BY <2>1, <2>2 DEF DeliveryInv, OfferedOnce
  <2>4. y = z /\ i + d = j + e => i = j
    BY <2>1, <2>2
  <2> QED BY <1>1, <2>1, <2>2, <2>3, <2>4
<1>10. OrderInv'
  <2> SUFFICES ASSUME NEW r \in Spans, NEW k \in 1..Len(completed[r]), Released(r, k),
                      NEW j \in 1..k, NEW i \in 1..(j - 1)
               PROVE  /\ completed[r][i] \in offered' =>
                           completed[r][j] \in offered' /\ completed[r][j] \in earlier'[completed[r][i]]
                      /\ \A y \in Threads : \A p \in 1..Len(todo'[y]) : todo'[y][p] = completed[r][i] =>
                           completed[r][j] \in offered' \/ \E q \in 1..(p - 1) : todo'[y][q] = completed[r][j]
    BY <1>1 DEF OrderInv, Released
  <2>1. /\ completed[r][i] \in offered =>
             completed[r][j] \in offered /\ completed[r][j] \in earlier[completed[r][i]]
        /\ \A y \in Threads : \A p \in 1..Len(todo[y]) : todo[y][p] = completed[r][i] =>
             completed[r][j] \in offered \/ \E q \in 1..(p - 1) : todo[y][q] = completed[r][j]
    BY DEF DeliveryInv, OrderInv
  <2>2. completed[r][i] \in Spans
    <3>1. completed[r] \in Seq(Spans) /\ i \in 1..Len(completed[r])
      BY DEF TypeOK
    <3> QED BY <3>1
  <2>3. ASSUME completed[r][i] \in offered'
        PROVE  completed[r][j] \in offered' /\ completed[r][j] \in earlier'[completed[r][i]]
    <3>1. CASE completed[r][i] = s
      <4>1. completed[r][j] \in offered \/ \E q \in 1..(1 - 1) : todo[x][q] = completed[r][j]
        BY <1>1, <1>2, <2>1, <3>1
      <4> QED BY <1>1, <3>1, <4>1
    <3>2. CASE completed[r][i] # s
      BY <1>1, <2>1, <2>2, <2>3, <3>2
    <3> QED BY <3>1, <3>2
  <2>4. ASSUME NEW y \in Threads, NEW p \in 1..Len(todo'[y]), todo'[y][p] = completed[r][i]
        PROVE  completed[r][j] \in offered' \/ \E q \in 1..(p - 1) : todo'[y][q] = completed[r][j]
    <3>1. CASE y # x
      <4>1. todo'[y] = todo[y]
        BY <1>1, <3>1
      <4>2. p \in 1..Len(todo[y]) /\ todo[y][p] = completed[r][i]
        BY <2>4, <4>1
      <4>3. completed[r][j] \in offered \/ \E q \in 1..(p - 1) : todo[y][q] = completed[r][j]
        BY <2>1, <4>2
      <4> QED BY <1>1, <4>1, <4>3
    <3>2. CASE y = x
      <4>1. p + 1 \in 1..Len(todo[x]) /\ todo[x][p + 1] = completed[r][i]
        BY <1>1, <2>4, <3>2
      <4>2. completed[r][j] \in offered \/ \E q \in 1..(p + 1 - 1) : todo[x][q] = completed[r][j]
        BY <2>1, <4>1
      <4>3. ASSUME NEW q \in 1..(p + 1 - 1), todo[x][q] = completed[r][j], q # 1
            PROVE  q - 1 \in 1..(p - 1) /\ todo'[x][q - 1] = completed[r][j]
        <5>1. q \in 1..Len(todo[x])
          BY <1>1, <4>1, <4>3
        <5> QED BY <1>2, <2>4, <4>3, <5>1
      <4> QED BY <1>1, <3>2, <4>2, <4>3
    <3> QED BY <3>1, <3>2
  <2> QED BY <2>3, <2>4
<1> QED BY <1>7, <1>9, <1>10 DEF DeliveryInv

LEMMA DeliveryStep ==
  ASSUME TypeOK, TypeOK', TreeInv, StackInv, PlaceInv, PlaceInv', DeliveryInv, [Next]_vars
  PROVE  DeliveryInv'
<1>0. /\ \A w \in Tasks : leaving[w] # NoSpan => todo[w] = <<>>
      /\ Executor \notin Tasks /\ Executor \in Threads /\ Tasks \subseteq Threads
  BY ScopeAssumption DEF DeliveryInv, ReleaseInv, Threads
<1>1. ASSUME NEW t \in Tasks, NEW u \in Tasks, Spawn(t, u) PROVE DeliveryInv'
  BY <1>0, <1>1, DeliveryQuiet DEF Spawn, captureVars, offerVars
<1>2. ASSUME NEW t \in Tasks, NEW s \in Spans, Enter(t, s) PROVE DeliveryInv'
  <2>1. /\ scope[s].at = "new" /\ \A q \in Spans \ {s} : scope'[q] = scope[q]
        /\ UNCHANGED <<todo, completed, offered, earlier, captured, leaving>>
    BY <1>2, ScopeMoves DEF Enter, captureVars, offerVars
  <2>2. \A q \in Exited : q \in Spans \ {s}
    BY <2>1 DEF Exited
  <2> QED BY <1>0, <2>1, <2>2, DeliveryQuiet
<1>3. ASSUME NEW t \in Tasks, NEW s \in Spans, Leave(t, s) PROVE DeliveryInv'
  <2>1. /\ scope[s].at = "open" /\ \A q \in Spans \ {s} : scope'[q] = scope[q]
    BY <1>3, ScopeMoves
  <2>2. /\ UNCHANGED <<todo, completed, offered, earlier>>
        /\ captured' \subseteq captured \cup {s} /\ captured \subseteq captured'
        /\ todo[t] = <<>> /\ leaving' = [leaving EXCEPT ![t] = s]
    BY <1>3 DEF Leave, offerVars, Runs
  <2>3. \A q \in Exited : q \in Spans \ {s}
    BY <2>1 DEF Exited
  <2>4. \A w \in Tasks : leaving'[w] # NoSpan => todo[w] = <<>>
    BY <1>0, <2>2 DEF TypeOK
  <2> QED BY <2>1, <2>2, <2>3, <2>4, DeliveryQuiet
<1>4. ASSUME NEW t \in Tasks, NEW s \in Spans, Exit(t, s) PROVE DeliveryInv'
  <2>0. /\ scope[s].at = "leaving" /\ scope[s].task = t /\ leaving[t] = s
        /\ \A q \in Spans : /\ scope'[q].parent = scope[q].parent
                            /\ scope'[q].root = scope[q].root
                            /\ scope'[q].task = scope[q].task
        /\ leaving'[t] = NoSpan
        /\ \A w \in Tasks \ {t} : leaving'[w] = leaving[w]
    <3>1. /\ scope[s].at = "leaving" /\ scope[s].task = t /\ leaving[t] = s
          /\ scope'[s] = [scope[s] EXCEPT !.at = "exited"] /\ scope'[s].at = "exited"
          /\ \A q \in Spans : /\ scope'[q].parent = scope[q].parent
                              /\ scope'[q].root = scope[q].root
                              /\ scope'[q].task = scope[q].task
          /\ \A q \in Spans \ {s} : scope'[q] = scope[q] /\ after'[q] = after[q]
          /\ leaving'[t] = NoSpan
          /\ \A w \in Tasks \ {t} : leaving'[w] = leaving[w]
          /\ above' = above /\ current' = current
          /\ after'[s] = Exited
      BY <1>4, ExitEffect
    <3> QED BY <3>1
  <2>1. UNCHANGED <<captured, offered, earlier>> /\ todo[t] = <<>> /\ Exited \subseteq Spans
    BY <1>0, <1>4, <2>0, ScopeAssumption DEF Exit, Exited
  <2>2. CASE ExitInline(t, s)
    <3>1. EmitSpan(t, s) /\ s \notin captured
      BY <2>2 DEF ExitInline
    <3>2. ~Appended(s)
      BY <2>0 DEF PlaceInv, AccumulatorInv, Appended, In, TypeOK, Scopes, Exited
    <3>3. \A w \in Tasks : leaving'[w] # NoSpan => todo'[w] = <<>>
      <4>1. \A w \in Tasks \ {t} : todo'[w] = todo[w]
        BY <1>0, <3>1 DEF EmitSpan, TypeOK
      <4> QED BY <1>0, <2>0, <4>1
    <3>4. t = Emitter(s) /\ t \in Threads
      BY <1>0, <2>0, <3>1 DEF Emitter
    <3> QED BY <2>0, <2>1, <3>1, <3>2, <3>3, <3>4, DeliveryEmit
  <2>3. CASE UNCHANGED <<completed, todo>>
    <3>1. \A w \in Tasks : leaving'[w] # NoSpan => todo[w] = <<>>
      BY <1>0, <2>0
    <3> QED BY <2>0, <2>1, <2>3, <3>1, DeliveryQuiet
  <2> QED BY <1>4, <2>2, <2>3 DEF Exit, ExitInvalid, ExitDeferred
<1>5. CASE RunJob
  <2>1. jobs # <<>> /\ todo[Executor] = <<>> /\ UNCHANGED <<scope, leaving, captured, offered, earlier>>
    BY <1>5, RunJobCases DEF scopeVars
  <2>2. ASSUME UNCHANGED <<completed, todo>> PROVE DeliveryInv'
    BY <1>0, <2>1, <2>2, DeliveryQuiet
  <2>3. ASSUME NEW s \in Spans, jobs[1] = Job("emit", s), EmitSpan(Executor, s) PROVE DeliveryInv'
    <3>1. s \in captured /\ ~Appended(s)
      <4>1. 1 \in 1..Len(jobs)
        BY <2>1 DEF TypeOK
      <4> QED BY <2>3, <4>1 DEF PlaceInv, QueueInv
    <3>2. \A w \in Tasks : leaving'[w] # NoSpan => todo'[w] = <<>>
      <4>1. \A w \in Tasks : todo'[w] = todo[w]
        BY <1>0, <2>3 DEF EmitSpan, TypeOK
      <4> QED BY <1>0, <2>1, <4>1
    <3>3. Executor = Emitter(s)
      BY <3>1 DEF Emitter
    <3>4. \A q \in Spans : scope'[q].root = scope[q].root /\ scope'[q].task = scope[q].task
      BY <2>1
    <3> QED BY <1>0, <2>1, <2>3, <3>1, <3>2, <3>3, <3>4, DeliveryEmit
  <2> QED BY <1>5, <2>2, <2>3, RunJobCases
<1>6. ASSUME NEW x \in Threads, Offer(x) PROVE DeliveryInv'
  BY <1>6, DeliveryOffer
<1>7. CASE AppStep
  <2>1. UNCHANGED <<scope, leaving, captured, completed, todo, offered, earlier>>
    BY <1>7 DEF AppStep, scopeVars
  <2> QED BY <1>0, <2>1, DeliveryQuiet
<1> QED BY <1>1, <1>2, <1>3, <1>4, <1>5, <1>6, <1>7, StepCases
-----------------------------------------------------------------------------
(* flush.                                                                  *)

LEMMA InitCover == Init => CoverInv
BY DEF Init, CoverInv, FlushCoversExits

\* What was delivered stays delivered.
LEMMA CoverKeeps ==
  ASSUME CoverInv,
         UNCHANGED <<app, flushed, sink>>,
         sink => accepted' = offered', accepted \subseteq accepted', invalid \subseteq invalid',
         Exited \subseteq Exited',
         \A s \in Exited : /\ Delivered(s) => Delivered(s)'
                           /\ Covered(s) => Covered(s)'
                           /\ Appended(s) => Appended(s)'
                           /\ IsRoot(s)' => IsRoot(s)
  PROVE  CoverInv'
<1>1. FlushCoversExits'
  <2> SUFFICES ASSUME NEW s \in flushed
               PROVE  s \in invalid' \/ (Appended(s)' /\ (IsRoot(s)' => s \in accepted'))
    BY DEF FlushCoversExits
  <2>1. s \in Exited /\ (s \in invalid \/ (Appended(s) /\ (IsRoot(s) => s \in accepted)))
    BY DEF CoverInv, FlushCoversExits
  <2> QED BY <2>1
<1>2. app.at = "barrier" => \A s \in app.covers : Covered(s)'
  BY DEF CoverInv
<1>3. app.at = "drain" => \A s \in app.covers : Delivered(s)'
  BY DEF CoverInv
<1> QED BY <1>1, <1>2, <1>3 DEF CoverInv

\* The queue may grow, and the executor's own emission loop is left alone.
LEMMA CoverGrows ==
  ASSUME TypeOK, CoverInv,
         UNCHANGED <<app, flushed, sink, accepted, offered>>, invalid \subseteq invalid',
         Exited \subseteq Exited',
         \A s \in Exited : /\ scope'[s].root = scope[s].root
                           /\ scope'[s].parent = scope[s].parent,
         \A r \in Spans : \A s : In(s, completed[r]) => In(s, completed'[r]),
         todo'[Executor] = todo[Executor],
         jobs' = jobs \/ \E job \in Jobs : jobs' = Append(jobs, job)
  PROVE  CoverInv'
<1>1. \A s \in Exited : /\ s \in Spans
                        /\ Appended(s) => Appended(s)'
                        /\ IsRoot(s)' <=> IsRoot(s)
  <2> SUFFICES ASSUME NEW s \in Exited
               PROVE  s \in Spans /\ (Appended(s) => Appended(s)') /\ (IsRoot(s)' <=> IsRoot(s))
    OBVIOUS
  <2>1. PICK r \in Spans : s \in Spans /\ r = scope[s].root
    BY DEF Exited, TypeOK, Scopes
  <2>2. In(s, completed[r]) => In(s, completed'[r])
    BY <2>1
  <2>3. scope'[s].root = r /\ scope'[s].parent = scope[s].parent
    BY <2>1
  <2> QED BY <2>1, <2>2, <2>3 DEF Appended, In, IsRoot
<1>2. \A s \in Exited : Delivered(s) => Delivered(s)'
  BY <1>1 DEF Delivered
<1>3. /\ Len(jobs) \in Nat /\ \A i \in 1..Len(jobs) : i \in 1..Len(jobs') /\ jobs'[i] = jobs[i]
  <2>1. jobs \in Seq(Jobs)
    BY DEF TypeOK
  <2>2. ASSUME NEW job \in Jobs, jobs' = Append(jobs, job)
        PROVE  \A i \in 1..Len(jobs) : i \in 1..Len(jobs') /\ jobs'[i] = jobs[i]
    BY <2>1, <2>2
  <2> QED BY <2>1, <2>2
<1>4. \A s \in Exited : Behind(s) => Behind(s)'
  <2> SUFFICES ASSUME NEW s \in Exited, NEW j \in 1..Len(jobs), jobs[j] = Barrier,
                      NEW i \in 1..(j - 1), jobs[i] = Job("emit", s)
               PROVE  Behind(s)'
    BY DEF Behind
  <2>1. i \in 1..Len(jobs)
    BY <1>3
  <2>2. j \in 1..Len(jobs') /\ jobs'[j] = Barrier /\ jobs'[i] = Job("emit", s)
    BY <1>3, <2>1
  <2> QED BY <2>2 DEF Behind, Barrier
<1>5. In(Barrier, jobs) => In(Barrier, jobs')
  BY <1>3 DEF In
<1>6. \A s : In(s, todo[Executor]) => In(s, todo'[Executor])
  BY DEF In
<1>7. \A s \in Exited : Covered(s) => Covered(s)'
  BY <1>1, <1>2, <1>4, <1>5, <1>6 DEF Covered, In, Barrier, Job
<1>8. (sink => accepted' = offered') /\ accepted \subseteq accepted'
  BY DEF CoverInv
<1> QED BY <1>1, <1>2, <1>7, <1>8, CoverKeeps

\* What a call of flush finds: spans whose __exit__ returned are delivered, or
\* the executor still has to deliver them.
LEMMA ReturnedSpan ==
  ASSUME TypeOK, CaptureInv, TreeInv, PlaceInv, DeliveryInv, executor # "closed",
         NEW s \in Returned
  PROVE  \/ Delivered(s)
         \/ executor = "open" /\ Queued(s)
         \/ executor = "open" /\ Appended(s) /\ In(s, todo[Executor])
<1>1. s \in Spans /\ s \in Exited /\ todo[scope[s].task] = <<>>
  BY DEF Returned, Exited
<1>2. refused = {} /\ (executor = "absent" => captured = {}) /\ executor \in {"absent", "open", "closed"}
  BY DEF CaptureInv, TypeOK
<1>3. s \in invalid \/ Appended(s) \/ (s \in captured /\ Queued(s))
  BY <1>1, <1>2 DEF PlaceInv, SettledInv, Dropped
<1>4. CASE Appended(s) /\ IsRoot(s)
  <2>1. scope[s].root = s
    BY <1>1, <1>4 DEF TreeInv
  <2>2. PICK k \in 1..Len(completed[s]) : completed[s][k] = s
    BY <1>4, <2>1 DEF Appended, In
  <2>3. k \in 1..k
    BY DEF TypeOK
  <2>4. s \in offered \/ \E x \in Threads : In(s, todo[x])
    BY <1>1, <2>2, <2>3 DEF DeliveryInv, ReleaseInv, Released
  <2>5. ASSUME NEW x \in Threads, In(s, todo[x])
        PROVE  s \in captured /\ x = Executor
    <3>1. PICK p \in 1..Len(todo[x]) : todo[x][p] = s
      BY <2>5 DEF In
    <3>2. x = Emitter(s)
      BY <2>1, <3>1 DEF DeliveryInv, ReleaseInv
    <3>3. todo[x] # <<>>
      BY <3>1
    <3> QED BY <1>1, <3>2, <3>3 DEF Emitter
  <2>6. s \in captured => executor = "open"
    BY <1>2
  <2> QED BY <1>4, <2>4, <2>5, <2>6 DEF Delivered
<1>5. CASE s \in invalid \/ (Appended(s) /\ ~IsRoot(s))
  BY <1>5 DEF Delivered
<1>6. CASE s \in captured /\ Queued(s)
  BY <1>2, <1>6
<1> QED BY <1>3, <1>4, <1>5, <1>6
\* The executor's thread delivers what is covered, or keeps it covered.
LEMMA CoverRunJob ==
  ASSUME TypeOK, TypeOK', TreeInv, PlaceInv, CoverInv, RunJob
  PROVE  CoverInv'
<1>1. /\ jobs # <<>> /\ jobs' = Tail(jobs) /\ todo[Executor] = <<>>
      /\ UNCHANGED <<scope, sink, offered, accepted, app, flushed>>
      /\ Exited' = Exited /\ Exited \subseteq Spans
  BY RunJobCases DEF scopeVars, appVars, Exited
<1>2. /\ Len(jobs) \in Nat \ {0} /\ Len(jobs') = Len(jobs) - 1
      /\ \A i \in 1..(Len(jobs) - 1) : jobs'[i] = jobs[i + 1]
  BY <1>1, TailFacts DEF TypeOK
<1>3. \A i \in 1..Len(jobs) : i # 1 => i - 1 \in 1..Len(jobs') /\ jobs'[i - 1] = jobs[i]
  BY <1>2
<1>4. invalid \subseteq invalid'
  BY RunJobCases
<1>5. ASSUME NEW r \in Spans, NEW s, In(s, completed[r]) PROVE In(s, completed'[r])
  <2>1. CASE UNCHANGED completed
    BY <1>5, <2>1 DEF In
  <2>2. ASSUME NEW q \in Spans, EmitSpan(Executor, q) PROVE In(s, completed'[r])
    <3>1. /\ Len(completed[scope[q].root]) \in Nat
          /\ Len(completed'[scope[q].root]) = Len(completed[scope[q].root]) + 1
          /\ \A i \in 1..Len(completed[scope[q].root]) : completed'[scope[q].root][i] = completed[scope[q].root][i]
          /\ \A p \in Spans \ {scope[q].root} : completed'[p] = completed[p]
      BY <2>2, EmitSpanEffect
    <3>2. PICK i \in 1..Len(completed[r]) : completed[r][i] = s
      BY <1>5 DEF In
    <3>3. i \in 1..Len(completed'[r]) /\ completed'[r][i] = s
      BY <3>1, <3>2
    <3> QED BY <3>3 DEF In
  <2> QED BY <2>1, <2>2, RunJobCases
<1>6. ASSUME NEW s \in Exited
      PROVE  /\ Appended(s) => Appended(s)'
             /\ IsRoot(s)' <=> IsRoot(s)
             /\ Delivered(s) => Delivered(s)'
  <2>1. PICK r \in Spans : s \in Spans /\ r = scope[s].root /\ scope'[s] = scope[s]
    BY <1>1 DEF TypeOK, Scopes
  <2>2. In(s, completed[r]) => In(s, completed'[r])
    BY <1>5, <2>1
  <2>3. Appended(s) => Appended(s)'
    BY <2>1, <2>2 DEF Appended, In
  <2>4. IsRoot(s)' <=> IsRoot(s)
    BY <2>1 DEF IsRoot
  <2> QED BY <1>1, <1>4, <2>3, <2>4 DEF Delivered
<1>7. ASSUME NEW s \in Exited, Behind(s) PROVE Covered(s)'
  <2>1. PICK j \in 1..Len(jobs) : jobs[j] = Barrier /\ \E i \in 1..(j - 1) : jobs[i] = Job("emit", s)
    BY <1>7 DEF Behind
  <2>2. PICK i \in 1..(j - 1) : jobs[i] = Job("emit", s)
    BY <2>1
  <2>3. j # 1 /\ i \in 1..Len(jobs)
    BY <1>2, <2>1, <2>2
  <2>4. j - 1 \in 1..Len(jobs') /\ jobs'[j - 1] = Barrier
    BY <1>3, <2>1, <2>3
  <2>5. CASE i # 1
    <3>1. i - 1 \in 1..(j - 1 - 1) /\ jobs'[i - 1] = Job("emit", s)
      BY <1>3, <2>2, <2>3, <2>5
    <3>2. Behind(s)'
      BY <2>4, <3>1 DEF Behind, Barrier
    <3> QED BY <3>2 DEF Covered
  <2>6. CASE i = 1
    <3>1. jobs[1] = Job("emit", s)
      BY <2>2, <2>6
    <3>2. ASSUME EmitSpan(Executor, s) PROVE Covered(s)'
      <4>1. PICK r \in Spans :
              /\ r = scope[s].root
              /\ Len(completed[r]) \in Nat
              /\ Len(completed'[r]) = Len(completed[r]) + 1
              /\ completed'[r][Len(completed[r]) + 1] = s
        BY <1>1, <3>2, EmitSpanEffect
      <4>2. Appended(s)'
        <5>1. Len(completed[r]) + 1 \in 1..Len(completed'[r])
          BY <4>1
        <5> QED BY <1>1, <4>1, <5>1 DEF Appended, In
      <4>3. In(Barrier, jobs')
        BY <2>4 DEF In
      <4>4. CASE IsRoot(s)
        <5>1. r = s
          BY <1>1, <4>1, <4>4 DEF TreeInv
        <5>2. todo'[Executor] = Reversed(completed'[s])
          <6>1. todo' = [todo EXCEPT ![Executor] = Reversed(completed'[scope[s].root])]
            BY <3>2, <4>4 DEF EmitSpan
          <6>2. Executor \in DOMAIN todo
            BY DEF TypeOK, Threads
          <6>3. completed'[scope[s].root] = completed'[s]
            BY <4>1, <5>1
          <6>4. todo'[Executor] = Reversed(completed'[scope[s].root])
            BY <6>1, <6>2
          <6> QED BY <6>3, <6>4
        <5>3. PICK q \in Seq(Spans) : q = completed'[s]
          BY <1>1 DEF TypeOK
        <5>4. Len(q) \in Nat \ {0} /\ q[Len(q)] = s
          BY <4>1, <5>1, <5>3
        <5>5. /\ Len(todo'[Executor]) = Len(q)
              /\ \A p \in 1..Len(q) : todo'[Executor][p] = q[Len(q) + 1 - p]
          BY <5>2, <5>3, ReversedType
        <5>6. 1 \in 1..Len(todo'[Executor]) /\ todo'[Executor][1] = s
          BY <5>4, <5>5
        <5>7. In(s, todo'[Executor])
          BY <5>6 DEF In
        <5> QED BY <4>2, <4>3, <5>7 DEF Covered, In, Barrier, Job
      <4>5. CASE ~IsRoot(s)
        <5>1. ~IsRoot(s)'
          BY <1>6, <4>5
        <5> QED BY <4>2, <5>1 DEF Covered, Delivered
      <4> QED BY <4>4, <4>5
    <3>3. ASSUME invalid' = invalid \cup {s} PROVE Covered(s)'
      BY <3>3 DEF Covered, Delivered
    <3> QED BY <3>1, <3>2, <3>3, RunJobCases, EmitJobs
  <2> QED BY <2>5, <2>6
<1>8. ASSUME NEW s \in Exited, Covered(s) PROVE Covered(s)'
  <2>1. ~In(s, todo[Executor])
    BY <1>1 DEF In
  <2> QED BY <1>6, <1>7, <1>8, <2>1 DEF Covered
<1>9. (sink => accepted' = offered') /\ accepted \subseteq accepted'
  BY <1>1 DEF CoverInv
<1> QED BY <1>1, <1>4, <1>6, <1>8, <1>9, CoverKeeps

LEMMA CoverOffer ==
  ASSUME TypeOK, CoverInv, NEW x \in Threads, Offer(x)
  PROVE  CoverInv'
<1>1. PICK s \in Spans :
        /\ s = todo[x][1]
        /\ Len(todo[x]) \in Nat \ {0} /\ Len(todo'[x]) = Len(todo[x]) - 1
        /\ \A i \in 1..Len(todo'[x]) : i + 1 \in 1..Len(todo[x]) /\ todo'[x][i] = todo[x][i + 1]
        /\ \A y \in Threads \ {x} : todo'[y] = todo[y]
        /\ offered' = offered \cup {s}
        /\ UNCHANGED <<scope, completed, invalid, jobs, sink, app, flushed>>
  BY OfferEffect DEF scopeVars, captureVars, appVars
<1>2. (sink => accepted' = offered') /\ accepted \subseteq accepted'
  <2>1. accepted' = IF sink THEN accepted \cup {Head(todo[x])} ELSE accepted
    BY DEF Offer
  <2>2. offered' = offered \cup {Head(todo[x])}
    BY DEF Offer
  <2> QED BY <2>1, <2>2 DEF CoverInv
<1>3. \A q : /\ Appended(q)' <=> Appended(q)
             /\ IsRoot(q)' <=> IsRoot(q)
             /\ Delivered(q) => Delivered(q)'
             /\ Behind(q)' <=> Behind(q)
  BY <1>1 DEF Appended, In, IsRoot, Delivered, Behind, Barrier, Job
<1>4. ASSUME NEW q \in Exited, Appended(q), In(q, todo[Executor]), In(Barrier, jobs)
      PROVE  Covered(q)'
  <2>1. PICK p \in 1..Len(todo[Executor]) : todo[Executor][p] = q
    BY <1>4 DEF In
  <2>2. In(Barrier, jobs')
    BY <1>1, <1>4
  <2>3. CASE x # Executor
    <3>1. In(q, todo'[Executor])
      BY <1>1, <1>4, <2>3, ScopeAssumption DEF Threads
    <3> QED BY <1>3, <1>4, <2>2, <3>1 DEF Covered, In, Barrier, Job
  <2>4. CASE x = Executor /\ p = 1
    <3>1. q \in offered'
      BY <1>1, <2>1, <2>4
    <3> QED BY <1>3, <1>4, <3>1 DEF Covered, Delivered
  <2>5. CASE x = Executor /\ p # 1
    <3>1. p - 1 \in 1..Len(todo'[Executor]) /\ todo'[Executor][p - 1] = q
      BY <1>1, <2>1, <2>5
    <3>2. In(q, todo'[Executor])
      BY <3>1 DEF In
    <3> QED BY <1>3, <1>4, <2>2, <3>2 DEF Covered, In, Barrier, Job
  <2> QED BY <2>3, <2>4, <2>5
<1>5. \A q \in Exited : Covered(q) => Covered(q)'
  BY <1>3, <1>4 DEF Covered
<1>6. Exited' = Exited
  BY <1>1 DEF Exited
<1> QED BY <1>1, <1>2, <1>3, <1>5, <1>6, CoverKeeps

\* A flush that fails vouches for nothing.
LEMMA CoverLapses ==
  ASSUME CoverInv, UNCHANGED <<scope, completed, invalid, offered, accepted, flushed>>,
         sink' => sink, app'.covers \subseteq Exited, app'.at \notin {"barrier", "drain"}
  PROVE  CoverInv'
<1>1. \A s : (Appended(s)' <=> Appended(s)) /\ (IsRoot(s)' <=> IsRoot(s))
  BY DEF Appended, In, IsRoot
<1>2. FlushCoversExits'
  BY <1>1 DEF CoverInv, FlushCoversExits
<1>3. Exited' = Exited
  BY DEF Exited
<1> QED BY <1>2, <1>3 DEF CoverInv
LEMMA CoverStep ==
  ASSUME TypeOK, TypeOK', TreeInv, StackInv, CaptureInv, PlaceInv, DeliveryInv, CoverInv, [Next]_vars
  PROVE  CoverInv'
<1>0. /\ Executor \notin Tasks /\ Executor \in Threads /\ Barrier \in Jobs
      /\ Exited \subseteq Spans
  BY ScopeAssumption DEF Threads, Jobs, Exited
<1>1. ASSUME NEW t \in Tasks, NEW u \in Tasks, Spawn(t, u) PROVE CoverInv'
  <2>1. UNCHANGED <<scope, completed, invalid, todo, jobs, sink, accepted, offered, app, flushed>>
    BY <1>1 DEF Spawn, captureVars, offerVars, appVars
  <2> QED BY <2>1, CoverGrows DEF Exited
<1>2. ASSUME NEW t \in Tasks, NEW s \in Spans, Enter(t, s) PROVE CoverInv'
  <2>1. UNCHANGED <<completed, invalid, todo, jobs, sink, accepted, offered, app, flushed>>
    BY <1>2 DEF Enter, captureVars, offerVars, appVars
  <2>2. /\ scope[s].at = "new" /\ \A q \in Spans \ {s} : scope'[q] = scope[q]
    BY <1>2, ScopeMoves
  <2>3. \A q \in Exited : scope'[q] = scope[q] /\ q \in Exited'
    BY <2>2 DEF Exited
  <2> QED BY <2>1, <2>3, CoverGrows
<1>3. ASSUME NEW t \in Tasks, NEW s \in Spans, Leave(t, s) PROVE CoverInv'
  <2>1. UNCHANGED <<completed, invalid, todo, sink, accepted, offered, app, flushed>>
        /\ (jobs' = jobs \/ jobs' = Append(jobs, Job("put", s)))
    BY <1>3 DEF Leave, offerVars, appVars
  <2>2. /\ scope[s].at = "open" /\ \A q \in Spans \ {s} : scope'[q] = scope[q]
    BY <1>3, ScopeMoves
  <2>3. \A q \in Exited : scope'[q] = scope[q] /\ q \in Exited'
    BY <2>2 DEF Exited
  <2> QED BY <2>1, <2>3, JobType, CoverGrows
<1>4. ASSUME NEW t \in Tasks, NEW s \in Spans, Exit(t, s) PROVE CoverInv'
  <2>1. /\ UNCHANGED <<sink, accepted, offered, app, flushed>>
        /\ invalid \subseteq invalid'
        /\ (jobs' = jobs \/ jobs' = Append(jobs, Job("emit", s)))
    BY <1>4 DEF Exit, ExitInline, ExitInvalid, ExitDeferred, appVars
  <2>2. /\ scope[s].at = "leaving" /\ scope'[s].at = "exited"
        /\ \A q \in Spans \ {s} : scope'[q] = scope[q]
    BY <1>4, ScopeMoves
  <2>3. \A q \in Exited : scope'[q] = scope[q] /\ q \in Exited'
    BY <2>2 DEF Exited
  <2>4. UNCHANGED <<completed, todo>> \/ EmitSpan(t, s)
    BY <1>4 DEF Exit, ExitInline, ExitInvalid, ExitDeferred
  <2>5. todo'[Executor] = todo[Executor]
    BY <1>0, <2>4 DEF EmitSpan, TypeOK
  <2>6. ASSUME NEW r \in Spans, NEW q, In(q, completed[r]) PROVE In(q, completed'[r])
    <3>1. CASE UNCHANGED completed
      BY <2>6, <3>1 DEF In
    <3>2. CASE EmitSpan(t, s)
      <4>1. /\ Len(completed[scope[s].root]) \in Nat
            /\ Len(completed'[scope[s].root]) = Len(completed[scope[s].root]) + 1
            /\ \A i \in 1..Len(completed[scope[s].root]) : completed'[scope[s].root][i] = completed[scope[s].root][i]
            /\ \A p \in Spans \ {scope[s].root} : completed'[p] = completed[p]
        BY <3>2, EmitSpanEffect
      <4>2. PICK i \in 1..Len(completed[r]) : completed[r][i] = q
        BY <2>6 DEF In
      <4>3. i \in 1..Len(completed'[r]) /\ completed'[r][i] = q
        BY <4>1, <4>2
      <4> QED BY <4>3 DEF In
    <3> QED BY <2>4, <3>1, <3>2
  <2> QED BY <2>1, <2>3, <2>5, <2>6, JobType, CoverGrows
<1>5. ASSUME NEW x \in Threads, Offer(x) PROVE CoverInv'
  BY <1>5, CoverOffer
<1>6. CASE RunJob
  BY <1>6, CoverRunJob
<1>7. ASSUME NEW call \in {"flush", "shutdown"}, Call(call) PROVE CoverInv'
  <2>1. /\ UNCHANGED <<scope, captured, refused, invalid, completed, executor, todo, sink,
                       offered, accepted, flushed>>
        /\ app'.covers = Returned
        /\ executor = "open" => jobs' = Append(jobs, Barrier)
        /\ executor # "open" => jobs' = jobs
    BY <1>7 DEF Call, scopeVars, offerVars
  <2>2. /\ executor \in {"absent", "open", "closed"}
        /\ executor = "open" => app'.at = "barrier"
        /\ executor = "absent" => app'.at = "drain"
        /\ executor = "closed" => app'.at \in {"idle", "close"}
    BY <1>7 DEF Call, TypeOK
  <2>3. Returned \subseteq Exited
    BY DEF Returned
  <2>4. CASE executor = "closed"
    BY <2>1, <2>2, <2>3, <2>4, CoverLapses
  <2>5. CASE executor # "closed"
    <3>1. \A s : /\ Appended(s)' <=> Appended(s)
                 /\ IsRoot(s)' <=> IsRoot(s)
                 /\ Delivered(s)' <=> Delivered(s)
      BY <2>1 DEF Appended, In, IsRoot, Delivered
    <3>2. Exited' = Exited
      BY <2>1 DEF Exited
    <3>3. FlushCoversExits'
      BY <2>1, <3>1 DEF CoverInv, FlushCoversExits
    <3>4. executor = "absent" => \A s \in app'.covers : Delivered(s)'
      BY <2>1, <2>5, <3>1, ReturnedSpan
    <3>5. ASSUME executor = "open", NEW s \in Returned PROVE Covered(s)'
      <4>1. /\ Len(jobs) \in Nat /\ Len(jobs') = Len(jobs) + 1
            /\ jobs'[Len(jobs) + 1] = Barrier
            /\ \A i \in 1..Len(jobs) : jobs'[i] = jobs[i]
        <5>1. jobs \in Seq(Jobs) /\ jobs' = Append(jobs, Barrier)
          BY <2>1, <3>5 DEF TypeOK
        <5> QED BY <1>0, <5>1, AppendFacts
      <4>2. Len(jobs) + 1 \in 1..Len(jobs')
        BY <4>1
      <4>3. Delivered(s) \/ Queued(s) \/ (Appended(s) /\ In(s, todo[Executor]))
        BY <2>5, ReturnedSpan
      <4>4. ASSUME Queued(s) PROVE Covered(s)'
        <5>1. PICK i \in 1..Len(jobs) : jobs[i] = Job("emit", s)
          BY <4>4 DEF Queued
        <5>2. i \in 1..(Len(jobs) + 1 - 1) /\ jobs'[i] = Job("emit", s)
          BY <4>1, <5>1
        <5>3. Behind(s)'
          BY <4>1, <4>2, <5>2 DEF Behind, Barrier
        <5> QED BY <5>3 DEF Covered
      <4>5. ASSUME Appended(s), In(s, todo[Executor]) PROVE Covered(s)'
        <5>1. In(s, todo'[Executor]) /\ Appended(s)'
          BY <2>1, <3>1, <4>5
        <5>2. In(Barrier, jobs')
          BY <4>1, <4>2 DEF In
        <5> QED BY <5>1, <5>2 DEF Covered, In, Barrier, Job
      <4> QED BY <3>1, <4>3, <4>4, <4>5 DEF Covered
    <3>6. sink' => accepted' = offered'
      BY <2>1 DEF CoverInv
    <3>7. flushed' \subseteq Exited'
      BY <2>1, <3>2 DEF CoverInv
    <3> QED BY <2>1, <2>2, <2>3, <2>5, <3>2, <3>3, <3>4, <3>5, <3>6, <3>7 DEF CoverInv
  <2> QED BY <2>4, <2>5
<1>8. CASE FlushWaits
  <2>1. /\ UNCHANGED <<scope, invalid, completed, todo, jobs, sink, offered, accepted, flushed>>
        /\ app.at = "barrier" /\ ~In(Barrier, jobs)
        /\ app'.covers = app.covers /\ app'.at = "drain"
    BY <1>8 DEF FlushWaits, BarrierPassed, TypeOK, Calls, scopeVars, captureVars, offerVars
  <2>2. \A s : /\ Appended(s)' <=> Appended(s)
               /\ IsRoot(s)' <=> IsRoot(s)
               /\ Delivered(s)' <=> Delivered(s)
    BY <2>1 DEF Appended, In, IsRoot, Delivered
  <2>3. \A s : ~Behind(s)
    BY <2>1 DEF Behind, In
  <2>4. \A s \in app.covers : Delivered(s)
    BY <2>1, <2>3 DEF CoverInv, Covered
  <2>5. FlushCoversExits' /\ Exited' = Exited
    BY <2>1, <2>2 DEF CoverInv, FlushCoversExits, Exited
  <2> QED BY <2>1, <2>2, <2>4, <2>5 DEF CoverInv
<1>9. CASE FlushTimesOut
  <2>1. app'.covers = app.covers /\ app'.at \in {"idle", "close"} /\ flushed' = flushed
    BY <1>9 DEF FlushTimesOut, FlushEnds, Returns, TypeOK, Calls
  <2>2. UNCHANGED <<scope, invalid, completed, sink, offered, accepted>>
    BY <1>9 DEF FlushTimesOut, scopeVars, captureVars, offerVars
  <2>3. app'.covers \subseteq Exited
    BY <2>1 DEF CoverInv
  <2> QED BY <2>1, <2>2, <2>3, CoverLapses
<1>10. ASSUME NEW ok \in BOOLEAN, Drained(ok) PROVE CoverInv'
  <2>1. /\ app.at = "drain" /\ app'.covers = app.covers /\ app'.at \in {"idle", "close"}
        /\ flushed' = IF ok /\ sink THEN flushed \cup app.covers ELSE flushed
    BY <1>10 DEF Drained, FlushEnds, Returns, TypeOK, Calls
  <2>2. UNCHANGED <<scope, invalid, completed, sink, offered, accepted>>
    BY <1>10 DEF Drained, scopeVars, captureVars, offerVars
  <2>3. app.covers \subseteq Exited /\ \A s \in app.covers : Delivered(s)
    BY <2>1 DEF CoverInv
  <2>4. \A s : (Appended(s)' <=> Appended(s)) /\ (IsRoot(s)' <=> IsRoot(s))
    BY <2>2 DEF Appended, In, IsRoot
  <2>5. FlushCoversExits'
    <3>1. ASSUME NEW s \in app.covers, sink
          PROVE  s \in invalid \/ (Appended(s) /\ (IsRoot(s) => s \in accepted))
      BY <2>3, <3>1 DEF Delivered, CoverInv
    <3>2. \A s \in flushed : s \in invalid \/ (Appended(s) /\ (IsRoot(s) => s \in accepted))
      BY DEF CoverInv, FlushCoversExits
    <3> QED BY <2>1, <2>2, <2>4, <3>1, <3>2 DEF FlushCoversExits
  <2>6. Exited' = Exited
    BY <2>2 DEF Exited
  <2> QED BY <2>1, <2>2, <2>3, <2>5, <2>6 DEF CoverInv
<1>11. CASE CloseExecutor
  <2>1. app'.covers = app.covers /\ app'.at \in {"idle", "stop"}
    BY <1>11 DEF CloseExecutor, Returns, TypeOK, Calls
  <2>2. UNCHANGED <<scope, invalid, completed, sink, offered, accepted, flushed>>
    BY <1>11 DEF CloseExecutor, scopeVars, offerVars
  <2>3. app'.covers \subseteq Exited
    BY <2>1 DEF CoverInv
  <2> QED BY <2>1, <2>2, <2>3, CoverLapses
<1>12. ASSUME NEW ok \in BOOLEAN, StopCollector(ok) PROVE CoverInv'
  <2>1. app'.covers = app.covers /\ app'.at = "idle" /\ ~sink'
    BY <1>12 DEF StopCollector, Returns, TypeOK, Calls
  <2>2. UNCHANGED <<scope, invalid, completed, offered, accepted, flushed>>
    BY <1>12 DEF StopCollector, scopeVars, captureVars
  <2>3. app'.covers \subseteq Exited
    BY <2>1 DEF CoverInv
  <2> QED BY <2>1, <2>2, <2>3, CoverLapses
<1>13. CASE InterpreterExits
  <2>1. app' = app /\ app.at = "idle"
    BY <1>13 DEF InterpreterExits
  <2>2. UNCHANGED <<scope, invalid, completed, sink, offered, accepted, flushed>>
    BY <1>13 DEF InterpreterExits, scopeVars, offerVars
  <2>3. app'.covers \subseteq Exited
    BY <2>1 DEF CoverInv
  <2> QED BY <2>1, <2>2, <2>3, CoverLapses
<1>14. CASE UNCHANGED vars
  <2>1. UNCHANGED <<scope, completed, invalid, todo, jobs, sink, accepted, offered, app, flushed>>
    BY <1>14 DEF vars, scopeVars, captureVars, offerVars, appVars
  <2> QED BY <2>1, CoverGrows DEF Exited
<1> QED
  BY <1>1, <1>2, <1>3, <1>4, <1>5, <1>6, <1>7, <1>8, <1>9, <1>10, <1>11, <1>12, <1>13, <1>14
  DEF Next, AppReturns, Finished

-----------------------------------------------------------------------------
(* The invariant, and what it implies.                                     *)

IInv ==
  /\ TypeOK
  /\ TreeInv
  /\ StackInv
  /\ NestingInv
  /\ CaptureInv
  /\ PlaceInv
  /\ DeliveryInv
  /\ CoverInv

THEOREM Inductive == Spec => []IInv
<1>1. Init => IInv
  BY InitType, InitScopes, InitPlace, InitDelivery, InitCover DEF IInv
<1>2. IInv /\ [Next]_vars => IInv'
  <2> SUFFICES ASSUME IInv, [Next]_vars PROVE IInv'
    OBVIOUS
  <2>1. TypeOK' /\ TreeInv' /\ StackInv' /\ NestingInv' /\ CaptureInv' /\ PlaceInv'
    BY TypeStep, TreeStep, StackStep, NestingStep, CaptureStep, PlaceStep DEF IInv
  <2>2. DeliveryInv' /\ CoverInv'
    BY <2>1, DeliveryStep, CoverStep DEF IInv
  <2> QED BY <2>1, <2>2 DEF IInv
<1> QED BY <1>1, <1>2, PTL DEF Spec

\* A span left before one that encloses it was left by then.
LEMMA LeftByThen ==
  ASSUME TypeOK, NestingInv, NEW s \in Spans, NEW a \in above[s], LeftBefore(s, a), a \in Exited
  PROVE  s \in after[a]
BY DEF LeftBefore, NestingInv, Exited, TypeOK

\* Such a span precedes the root in the accumulator the root released.
LEMMA InOrderIndex ==
  ASSUME IInv, NEW a \in Spans, InOrder(a), NEW k \in 1..Len(completed[scope[a].root]),
         Released(scope[a].root, k), a # scope[a].root
  PROVE  \E j \in 1..(k - 1) : completed[scope[a].root][j] = a
<1>1. PICK r \in Spans : r = scope[a].root
  BY DEF IInv, TypeOK, Scopes
<1>2. /\ r \in above[a] /\ LeftBefore(a, r) /\ a \notin Dropped
      /\ a \in captured => r \in captured
  BY <1>1 DEF IInv, TreeInv, InOrder, LeftBefore, Dropped
<1>3. r \in Exited
  BY <1>1 DEF IInv, PlaceInv, AccumulatorInv, Released
<1>4. a \in after[r]
  BY <1>2, <1>3, LeftByThen DEF IInv
<1> QED BY <1>1, <1>2, <1>4 DEF IInv, PlaceInv, AccumulatorOrderInv, Released

\* No span is handed to the collector twice (tracer.py SpanScope.__exit__).
THEOREM OfferedOnceHolds == Spec => []OfferedOnce
<1>1. IInv => OfferedOnce
  BY DEF IInv, DeliveryInv
<1> QED BY <1>1, Inductive, PTL

\* The root takes along every span that left its scope before it and was not
\* deferred behind it (tracer.py:194, config.py defer_capture).
THEOREM NothingLeftBehindHolds == Spec => []NothingLeftBehind
<1>1. IInv => NothingLeftBehind
  <2> SUFFICES ASSUME IInv, NEW s \in Exited, InOrder(s), scope[s].root \in offered
               PROVE  s \in offered \/ \E x \in Threads : In(s, todo[x])
    BY DEF NothingLeftBehind
  <2>1. PICK r \in Spans : r = scope[s].root /\ scope[r].root = r /\ s \in Spans
    BY DEF IInv, TypeOK, Scopes, TreeInv, Exited
  <2>2. CASE s = r
    BY <2>1, <2>2
  <2>3. CASE s # r
    <3>1. PICK k \in 1..Len(completed[r]) : Released(r, k)
      BY <2>1, ReleasedSpan DEF IInv
    <3>2. PICK j \in 1..(k - 1) : completed[r][j] = s
      BY <2>1, <2>3, <3>1, InOrderIndex
    <3>3. j \in 1..k
      BY DEF IInv, TypeOK
    <3> QED BY <3>1, <3>2, <3>3 DEF IInv, DeliveryInv, ReleaseInv
  <2> QED BY <2>2, <2>3
<1> QED BY <1>1, Inductive, PTL

\* A span reaches the collector after every span that encloses it, if both were
\* left in order and none was deferred behind the other (tracer.py:209).
THEOREM AncestorsFirstHolds == Spec => []AncestorsFirst
<1>1. IInv => AncestorsFirst
  <2> SUFFICES ASSUME IInv, NEW s \in offered, NEW a \in above[s], InOrder(a), LeftBefore(s, a)
               PROVE  a \in earlier[s]
    BY DEF AncestorsFirst
  <2>0. s \in Spans /\ a \in Spans /\ a # s
    BY DEF IInv, TypeOK, TreeInv
  <2>1. PICK r \in Spans : r = scope[s].root /\ r = scope[a].root
    BY <2>0 DEF IInv, TypeOK, Scopes, TreeInv
  <2>2. PICK k \in 1..Len(completed[r]) : Released(r, k) /\ \E i \in 1..k : completed[r][i] = s
    BY <2>0, <2>1, ReleasedSpan DEF IInv
  <2>3. PICK i \in 1..k : completed[r][i] = s
    BY <2>2
  <2>4. \E j \in 1..k : completed[r][j] = a
    <3>1. CASE a = r
      <4>1. k \in 1..k
        BY DEF IInv, TypeOK
      <4> QED BY <2>2, <3>1, <4>1 DEF Released
    <3>2. CASE a # r
      <4>1. PICK j \in 1..(k - 1) : completed[r][j] = a
        BY <2>0, <2>1, <2>2, <3>2, InOrderIndex
      <4>2. j \in 1..k
        BY DEF IInv, TypeOK
      <4> QED BY <4>1, <4>2
    <3> QED BY <3>1, <3>2
  <2>5. PICK j \in 1..k : completed[r][j] = a
    BY <2>4
  <2>6. Len(completed[r]) \in Nat /\ i \in 1..Len(completed[r]) /\ j \in 1..Len(completed[r])
    BY DEF IInv, TypeOK
  <2>7. /\ s \notin Dropped /\ a \in Exited
        /\ \A l \in 1..Len(completed[r]) : completed[r][l] = s => i = l
    BY <2>0, <2>3, <2>5, <2>6 DEF IInv, PlaceInv, AccumulatorInv
  <2>8. s \in after[a] /\ (s \in captured => a \in captured)
    BY <2>0, <2>7, LeftByThen DEF IInv, LeftBefore
  <2>9. \E l \in 1..(j - 1) : completed[r][l] = s
    <3>1. AccumulatorOrderInv
      BY DEF IInv, PlaceInv
    <3>2. \A b \in after[a] : b \notin Dropped /\ scope[b].root = r /\ (b \in captured => a \in captured) =>
            \E l \in 1..(j - 1) : completed[r][l] = b
      BY <2>0, <2>5, <2>6, <3>1 DEF AccumulatorOrderInv
    <3> QED BY <2>1, <2>7, <2>8, <3>2
  <2>10. i \in 1..(j - 1)
    <3>1. PICK l \in 1..(j - 1) : completed[r][l] = s
      BY <2>9
    <3>2. l \in 1..Len(completed[r])
      BY <2>6
    <3> QED BY <2>7, <3>1, <3>2
  <2>11. completed[r][j] \in earlier[completed[r][i]]
    BY <2>2, <2>3, <2>10 DEF IInv, DeliveryInv, OrderInv
  <2> QED BY <2>3, <2>5, <2>11
<1> QED BY <1>1, Inductive, PTL

\* A flush or shutdown that reports success vouches for every span whose __exit__
\* had returned before the call (config.py flush).
THEOREM FlushCoversExitsHolds == Spec => []FlushCoversExits
<1>1. IInv => FlushCoversExits
  BY DEF IInv, CoverInv
<1> QED BY <1>1, Inductive, PTL

=============================================================================
