---------------------------- MODULE HistoriesProofs ----------------------------
(***************************************************************************)
(* Proofs about what the store keeps for good: the append-only histories   *)
(* (Ledger.tla), deferred outcomes (OutcomeImport.tla), the file while it  *)
(* is upgraded (SchemaMigration.tla), for any number of threads, imports,  *)
(* processes, rows and records, and their composition (MCHistories.tla).   *)
(***************************************************************************)
EXTENDS MCHistories, FiniteSetTheorems, WellFoundedInduction, TLAPS

(***************************************************************************)
(* Append-only histories.  Two facts carry the proofs: a thread that has   *)
(* looked for the predecessor of its row holds the write lock, so what it  *)
(* found is still the head when it inserts; and rows are never changed or  *)
(* removed, so an answer that was true remains true.                       *)
(***************************************************************************)

-----------------------------------------------------------------------------
(* Lines: the histories of one table.                                      *)

Ids(T) == {r.id : r \in T}

\* Every history of the table is linear, and a row has one id.
Chains(T, S) ==
  /\ \A s \in S : Linear(T, s)
  /\ \A r, q \in T : r.id = q.id => r = q
  /\ \A r \in T : r.on \in S

\* No history is without a single predecessor for the next row.
LEMMA PredecessorIsOne ==
  ASSUME NEW T, NEW S, Chains(T, S), NEW s \in S
  PROVE  OneRow(Predecessor(T, s))
<1>1. Linear(T, s)
  BY DEF Chains
<1>2. CASE Rows(T, s) = {}
  BY <1>2 DEF Predecessor, OneRow
<1>3. CASE Rows(T, s) # {}
  <2>1. PICK h \in Heads(T, s) : Heads(T, s) = {h}
    BY <1>1, <1>3 DEF Linear, OneRow
  <2>2. Predecessor(T, s) = {h.id}
    BY <1>3, <2>1 DEF Predecessor
  <2> QED BY <2>2 DEF OneRow
<1> QED BY <1>2, <1>3

\* A row supersedes nothing or a row of its own history.
LEMMA Superseded ==
  ASSUME NEW T, NEW S, Chains(T, S), NEW r \in T, r.supersedes # NoRow
  PROVE  \E p \in T : p.id = r.supersedes /\ p.on = r.on
<1>1. r \in Rows(T, r.on) /\ Linear(T, r.on)
  BY DEF Chains, Rows
<1>2. PICK p \in Rows(T, r.on) : p.id = r.supersedes
  BY <1>1 DEF Linear
<1> QED BY <1>2 DEF Rows

\* A row put behind the predecessor of its history leaves lines.
LEMMA LinesGrow ==
  ASSUME NEW T, NEW S, Chains(T, S), NEW n, n.on \in S, n.id \notin Ids(T), n.id # NoRow,
         Predecessor(T, n.on) = {n.supersedes}
  PROVE  Chains(T \cup {n}, S)
<1> DEFINE U == T \cup {n}
<1>1. \A r \in T : r.id # n.id /\ r.supersedes # n.id
  <2> SUFFICES ASSUME NEW r \in T PROVE r.id # n.id /\ r.supersedes # n.id
    OBVIOUS
  <2>1. r.id # n.id
    BY DEF Ids
  <2>2. CASE r.supersedes # NoRow
    BY <2>1, <2>2, Superseded DEF Ids
  <2> QED BY <2>1, <2>2
<1>2. \A r, q \in U : r.id = q.id => r = q
  BY <1>1 DEF Chains
<1>3. \A r \in U : r.on \in S
  BY DEF Chains
<1>4. ASSUME NEW s \in S, s # n.on PROVE Linear(U, s)
  <2>1. Rows(U, s) = Rows(T, s)
    BY <1>4 DEF Rows
  <2>2. Heads(U, s) = Heads(T, s)
    BY <2>1 DEF Heads
  <2>3. Linear(T, s)
    BY DEF Chains
  <2> QED BY <2>1, <2>2, <2>3 DEF Linear
<1>5. Linear(U, n.on)
  <2>1. Rows(U, n.on) = Rows(T, n.on) \cup {n} /\ Linear(T, n.on)
    BY DEF Rows, Chains
  <2>2. CASE Rows(T, n.on) = {}
    <3>1. n.supersedes = NoRow /\ Rows(U, n.on) = {n}
      BY <2>1, <2>2 DEF Predecessor
    <3>2. Heads(U, n.on) = {n}
      BY <3>1 DEF Heads
    <3> QED BY <3>1, <3>2 DEF Linear, OneRow
  <2>3. CASE Rows(T, n.on) # {}
    <3>1. PICK h \in Heads(T, n.on) : Heads(T, n.on) = {h}
      BY <2>1, <2>3 DEF Linear, OneRow
    <3>2. n.supersedes = h.id /\ h \in Rows(T, n.on)
      BY <2>3, <3>1 DEF Predecessor, Heads
    <3>3. n.supersedes # n.id /\ h \in T
      BY <1>1, <3>2 DEF Rows
    <3>4. Heads(U, n.on) = {n}
      <4>1. n \in Heads(U, n.on)
        BY <1>1, <2>1, <3>3 DEF Heads, Rows
      <4>2. ASSUME NEW r \in Heads(U, n.on), r # n PROVE FALSE
        <5>1. r \in Rows(T, n.on) /\ \A c \in Rows(T, n.on) \cup {n} : c.supersedes # r.id
          BY <2>1, <4>2 DEF Heads
        <5>2. r \in Heads(T, n.on)
          BY <5>1 DEF Heads
        <5> QED BY <3>1, <3>2, <5>1, <5>2
      <4> QED BY <4>1, <4>2
    <3>5. \A r \in Rows(U, n.on) :
            r.supersedes # NoRow => \E p \in Rows(U, n.on) : p.id = r.supersedes
      BY <2>1, <3>2 DEF Linear
    <3>6. \A c \in Rows(T, n.on) : c.supersedes # n.supersedes
      BY <3>1, <3>2 DEF Heads
    <3>7. \A r, q \in Rows(U, n.on) : r.supersedes = q.supersedes => r = q
      BY <2>1, <3>6 DEF Linear
    <3> QED BY <3>4, <3>5, <3>7 DEF Linear, OneRow
  <2> QED BY <2>2, <2>3
<1> QED BY <1>2, <1>3, <1>4, <1>5 DEF Chains

-----------------------------------------------------------------------------
(* The invariant.                                                          *)

Locked == {"overrides", "baselines"}

\* The lock belongs to the thread between its BEGIN IMMEDIATE and its COMMIT.
Lawful(t) ==
  writer = t <=> work[t].at \in {"look", "insert"} /\ work[t].form.table \in Locked

\* What a thread found under the lock is the head of the history still.
Found(t) ==
  /\ work[t].at # "idle" => work[t].form \in Forms
  /\ work[t].at = "lock" => work[t].form.table \in Locked
  /\ work[t].at = "look any" => work[t].form.table = "driftRuns"
  /\ work[t].at = "insert" /\ work[t].form.table = "overrides" =>
       Predecessor(overrides, work[t].form.on) = {work[t].row}
  /\ work[t].at = "insert" /\ work[t].form.table = "baselines" =>
       Predecessor(baselines, work[t].form.on) = {work[t].row}

\* An answer is true of the rows (AnswersAreTrue for one thread).
True(result, f) ==
  /\ f \in Forms
  /\ f.table = "overrides" =>
       \E r \in overrides :
         /\ r.key = f.key
         /\ (r.on = f.on /\ Compared[r.value] = Compared[f.value]) <=> result = "saved"
  /\ f.table = "feedback" /\ result = "saved" =>
       \E r \in feedback : r.key = f.key /\ r.on = f.on /\ Compared[r.value] = Compared[f.value]
  /\ f.table = "driftRuns" /\ result = "saved" =>
       \E b \in baselines : b.on = f.on /\ [baseline |-> b.id, policy |-> f.on] \in driftRuns

Told(t) ==
  work[t].at = "idle" /\ work[t].result \in {"saved", "refused"} =>
    True(work[t].result, work[t].form)

LedgerInv ==
  /\ LedgerTypeOK
  /\ Chains(overrides, Decisions) /\ Chains(baselines, Policies)
  /\ \A t \in Threads : Lawful(t) /\ Found(t) /\ Told(t)

Works == [at : Steps, form : Forms \cup {NoRow}, row : RowIds \cup {NoRow}, result : Results]

LEMMA FormFacts ==
  ASSUME NEW f \in Forms
  PROVE  /\ f.table \in {"overrides", "feedback", "baselines", "driftRuns"}
         /\ f.table \in {"overrides", "feedback"} =>
              f.on \in Decisions /\ f.key \in Keys /\ f.value \in Values
         /\ f.table \in {"baselines", "driftRuns"} => f.on \in Policies
BY DEF Forms

LEMMA LedgerInitInv == LedgerInit => LedgerInv
<1> SUFFICES ASSUME LedgerInit PROVE LedgerInv
  OBVIOUS
<1>1. /\ overrides = {} /\ feedback = {} /\ baselines = {} /\ driftRuns = {} /\ writer = NoRow
      /\ \A t \in Threads : work[t] = Rest
      /\ work \in [Threads -> {Rest}]
  BY DEF LedgerInit
<1>2. Rest \in Works /\ Rest.at = "idle" /\ Rest.result = "none"
  BY DEF Rest, Works, Steps, Results
<1>3. LedgerTypeOK
  BY <1>1, <1>2 DEF LedgerTypeOK, Works
<1>4. \A S : Chains({}, S)
  BY DEF Chains, Linear, Rows, Heads
<1>5. ASSUME NEW t \in Threads PROVE Lawful(t) /\ Found(t) /\ Told(t)
  BY <1>1, <1>2, NoRowIsNoRow DEF Lawful, Found, Told
<1> QED BY <1>1, <1>3, <1>4, <1>5 DEF LedgerInv

\* A step of one thread: the tables only grow, the locked ones only under the
\* lock, so the other threads' part of the invariant is kept.
LEMMA OneThreadMoves ==
  ASSUME LedgerInv, NEW t \in Threads, NEW w \in Works,
         work' = [work EXCEPT ![t] = w],
         writer' = writer \/ (writer \in {t, NoRow} /\ writer' \in {t, NoRow}),
         overrides \subseteq overrides', overrides' = overrides \/ writer = t,
         baselines \subseteq baselines', baselines' = baselines \/ writer = t,
         feedback \subseteq feedback', driftRuns \subseteq driftRuns',
         Chains(overrides, Decisions)', Chains(baselines, Policies)',
         overrides' \subseteq [id : RowIds, on : Decisions, key : Keys, value : Values,
                               supersedes : RowIds \cup {NoRow}],
         feedback' \subseteq [id : RowIds, on : Decisions, key : Keys, value : Values],
         baselines' \subseteq [id : RowIds, on : Policies, supersedes : RowIds \cup {NoRow}],
         driftRuns' \subseteq [baseline : RowIds, policy : Policies],
         Lawful(t)', Found(t)', Told(t)'
  PROVE  LedgerInv'
<1>1. /\ work' \in [Threads -> Works]
      /\ \A q \in Threads : q # t => work'[q] = work[q]
      /\ writer' \in Threads \cup {NoRow}
  BY DEF LedgerInv, LedgerTypeOK, Works
<1>2. LedgerTypeOK'
  BY <1>1 DEF LedgerTypeOK, Works
<1>3. ASSUME NEW q \in Threads, q # t PROVE Lawful(q)' /\ Found(q)' /\ Told(q)'
  <2>1. Lawful(q) /\ Found(q) /\ Told(q) /\ work'[q] = work[q] /\ q # NoRow
    BY <1>1, <1>3, NoRowIsNoRow DEF LedgerInv
  <2>2. Lawful(q)'
    BY <1>3, <2>1 DEF Lawful
  <2>3. Found(q)'
    <3>1. /\ overrides' = overrides \/ ~(work[q].at = "insert" /\ work[q].form.table = "overrides")
          /\ baselines' = baselines \/ ~(work[q].at = "insert" /\ work[q].form.table = "baselines")
      BY <1>3, <2>1 DEF Lawful, Locked
    <3> QED BY <2>1, <3>1 DEF Found
  <2>4. Told(q)'
    BY <2>1 DEF Told, True
  <2> QED BY <2>2, <2>3, <2>4
<1> QED BY <1>2, <1>3 DEF LedgerInv

-----------------------------------------------------------------------------
(* The steps.                                                              *)

RowTypes ==
  /\ overrides \subseteq [id : RowIds, on : Decisions, key : Keys, value : Values,
                          supersedes : RowIds \cup {NoRow}]
  /\ feedback \subseteq [id : RowIds, on : Decisions, key : Keys, value : Values]
  /\ baselines \subseteq [id : RowIds, on : Policies, supersedes : RowIds \cup {NoRow}]
  /\ driftRuns \subseteq [baseline : RowIds, policy : Policies]
  /\ Chains(overrides, Decisions) /\ Chains(baselines, Policies)

LEMMA RestWith ==
  ASSUME NEW result, NEW g
  PROVE  [Rest EXCEPT !.result = result, !.form = g]
           \in [at : {"idle"}, form : {g}, row : {NoRow}, result : {result}]
BY DEF Rest

\* A step that ends a request with an answer that is true.
LEMMA AnswerMoves ==
  ASSUME LedgerInv, NEW t \in Threads, NEW result \in Results, NEW f \in Forms,
         work[t].form = f, Answer(t, result),
         writer' = IF writer = t THEN NoRow ELSE writer,
         RowTypes',
         overrides \subseteq overrides', overrides' = overrides \/ writer = t,
         baselines \subseteq baselines', baselines' = baselines \/ writer = t,
         feedback \subseteq feedback', driftRuns \subseteq driftRuns',
         result \in {"saved", "refused"} => True(result, f)'
  PROVE  LedgerInv'
<1> DEFINE g == IF result \in {"saved", "refused"} THEN f ELSE NoRow
           w == [Rest EXCEPT !.result = result, !.form = g]
<1>1. work' = [work EXCEPT ![t] = w]
  BY DEF Answer
<1> HIDE DEF g
<1>2. w \in [at : {"idle"}, form : {g}, row : {NoRow}, result : {result}]
  BY RestWith
<1>0. g \in Forms \cup {NoRow}
  BY DEF g
<1> HIDE DEF w
<1>4. w \in Works /\ w.at = "idle" /\ w.result = result /\ w.form = g
  BY <1>2, <1>0 DEF Works, Steps
<1>3. work'[t] = w /\ t # NoRow /\ writer' # t
  BY <1>1, NoRowIsNoRow DEF LedgerInv, LedgerTypeOK
<1>5. Lawful(t)' /\ Found(t)'
  BY <1>3, <1>4 DEF Lawful, Found
<1>6. Told(t)'
  <2> SUFFICES ASSUME result \in {"saved", "refused"}
               PROVE  True(result, f)'
    BY <1>3, <1>4 DEF Told, True, g
  <2> QED OBVIOUS
<1> QED BY <1>1, <1>3, <1>4, <1>5, <1>6, OneThreadMoves DEF RowTypes

\* A step that takes a request further and writes no row.
LEMMA GotoMoves ==
  ASSUME LedgerInv, NEW t \in Threads, NEW f \in Forms, work[t].form = f,
         NEW step \in {"look", "insert", "look any"}, NEW row \in RowIds \cup {NoRow},
         Goto(t, step, row),
         writer' = IF step = "look" THEN t ELSE writer,
         step = "look" => writer = NoRow /\ f.table \in Locked,
         step # "look" => work[t].at = "look",
         step = "look any" => f.table = "driftRuns",
         step = "insert" /\ f.table = "overrides" => Predecessor(overrides, f.on) = {row},
         step = "insert" /\ f.table = "baselines" => Predecessor(baselines, f.on) = {row},
         UNCHANGED <<overrides, feedback, baselines, driftRuns>>
  PROVE  LedgerInv'
<1> DEFINE w == [work[t] EXCEPT !.at = step, !.row = row]
<1>1. work' = [work EXCEPT ![t] = w]
  BY DEF Goto
<1>2. work[t] \in Works /\ t # NoRow
  BY NoRowIsNoRow DEF LedgerInv, LedgerTypeOK, Works
<1>3. w \in Works /\ w.at = step /\ w.row = row /\ w.form = f
  BY <1>2 DEF Works, Steps
<1>4. work'[t] = w
  BY <1>1 DEF LedgerInv, LedgerTypeOK
<1> HIDE DEF w
<1>5. Lawful(t)'
  BY <1>2, <1>3, <1>4 DEF LedgerInv, Lawful, Locked
<1>6. Found(t)'
  BY <1>3, <1>4 DEF Found
<1>7. Told(t)'
  BY <1>3, <1>4 DEF Told
<1>8. RowTypes /\ RowTypes'
  BY DEF LedgerInv, LedgerTypeOK, RowTypes
<1> QED BY <1>1, <1>3, <1>5, <1>6, <1>7, <1>8, OneThreadMoves DEF RowTypes
\* What the invariant says of one thread, and of the rows.
LEMMA ThreadFacts ==
  ASSUME LedgerInv, NEW t \in Threads
  PROVE  /\ work[t] \in Works /\ t # NoRow /\ Lawful(t) /\ Found(t) /\ RowTypes
         /\ work[t].at # "idle" => work[t].form \in Forms
BY NoRowIsNoRow DEF LedgerInv, LedgerTypeOK, Works, RowTypes, Found

LEMMA PostStep ==
  ASSUME LedgerInv, NEW t \in Threads, NEW f \in Forms, Post(t, f)
  PROVE  LedgerInv'
<1> DEFINE refused == f.table \in {"overrides", "feedback"} /\ f.on \notin Stored
           g == IF refused THEN NoRow ELSE f
           step == IF refused THEN "idle"
                   ELSE IF f.table \in {"overrides", "baselines"} THEN "lock" ELSE "look"
           said == IF refused THEN "not found" ELSE "none"
           w == IF refused THEN [Rest EXCEPT !.result = "not found"]
                ELSE [Rest EXCEPT !.form = f,
                        !.at = IF f.table \in {"overrides", "baselines"} THEN "lock" ELSE "look"]
<1>1. /\ work[t].at = "idle" /\ work' = [work EXCEPT ![t] = w]
      /\ UNCHANGED <<overrides, feedback, baselines, driftRuns, writer>>
  BY DEF Post
<1>2. w \in [at : {step}, form : {g}, row : {NoRow}, result : {said}]
  BY DEF Rest
<1>3. step \in Steps /\ g \in Forms \cup {NoRow} /\ said \in Results
  BY DEF Steps, Results
<1>4. /\ step \in {"idle", "lock", "look"} /\ (step # "idle" => g = f)
      /\ step = "lock" => f.table \in Locked
      /\ step = "look" => f.table \notin Locked
      /\ said \notin {"saved", "refused"}
  BY DEF Locked
<1> HIDE DEF w, step, g, said, refused
<1>5. w \in Works /\ w.at = step /\ w.form = g /\ w.result = said
  BY <1>2, <1>3 DEF Works
<1>6. work'[t] = w
  BY <1>1 DEF LedgerInv, LedgerTypeOK
<1>7. Lawful(t)' /\ Found(t)' /\ Told(t)'
  BY <1>1, <1>4, <1>5, <1>6, ThreadFacts DEF Lawful, Found, Told
<1>8. RowTypes /\ RowTypes'
  BY <1>1, ThreadFacts DEF RowTypes
<1> QED BY <1>1, <1>5, <1>7, <1>8, OneThreadMoves DEF RowTypes

LEMMA LockStep ==
  ASSUME LedgerInv, NEW t \in Threads, Lock(t)
  PROVE  LedgerInv'
<1>1. PICK f \in Forms : work[t].form = f
  BY ThreadFacts DEF Lock
<1>2. f.table \in Locked
  BY <1>1, ThreadFacts DEF Lock, Found
<1> QED BY <1>1, <1>2, GotoMoves DEF Lock

\* Nothing is written and the request ends: the rows are those before.
LEMMA SameRows ==
  ASSUME LedgerInv, UNCHANGED <<overrides, feedback, baselines, driftRuns>>
  PROVE  RowTypes'
BY DEF LedgerInv, LedgerTypeOK, RowTypes

LEMMA FailureSteps ==
  ASSUME LedgerInv, NEW t \in Threads, LockTimesOut(t) \/ Rollback(t)
  PROVE  LedgerInv'
<1>1. work[t].at # "idle" /\ Answer(t, "retry")
      /\ UNCHANGED <<overrides, feedback, baselines, driftRuns>>
  BY ThreadFacts DEF LockTimesOut, Rollback, Lawful
<1>2. PICK f \in Forms : work[t].form = f
  BY <1>1, ThreadFacts
<1>3. writer' = IF writer = t THEN NoRow ELSE writer
  BY ThreadFacts DEF LockTimesOut, Rollback, Lawful
<1>4. "retry" \in Results
  BY DEF Results
<1> QED BY <1>1, <1>2, <1>3, <1>4, SameRows, AnswerMoves
\* A replay is answered from a row under the key.
LEMMA ReplayMoves ==
  ASSUME LedgerInv, NEW t \in Threads, NEW f \in Forms, work[t].form = f,
         NEW T, T \in {overrides, feedback}, Replayed(t, T),
         f.table = "overrides" => T = overrides,
         f.table = "feedback" => T = feedback,
         f.table \in {"overrides", "feedback"},
         writer' = IF writer = t THEN NoRow ELSE writer,
         UNCHANGED <<overrides, feedback, baselines, driftRuns>>
  PROVE  LedgerInv'
<1>1. PICK r \in T :
        /\ r.key = f.key
        /\ Answer(t, IF r.on = f.on /\ Compared[r.value] = Compared[f.value] THEN "saved" ELSE "refused")
  BY DEF Replayed
<1> DEFINE result == IF r.on = f.on /\ Compared[r.value] = Compared[f.value] THEN "saved" ELSE "refused"
<1>2. result \in Results /\ Answer(t, result)
  BY <1>1 DEF Results
<1>3. True(result, f)'
  BY <1>1 DEF True
<1> HIDE DEF result
<1> QED BY <1>2, <1>3, SameRows, AnswerMoves

LEMMA LookOverrideStep ==
  ASSUME LedgerInv, NEW t \in Threads, LookOverride(t)
  PROVE  LedgerInv'
<1>1. PICK f \in Forms : work[t].form = f
  BY ThreadFacts DEF LookOverride
<1>2. /\ work[t].at = "look" /\ f.table = "overrides" /\ f.on \in Decisions
      /\ writer = t /\ UNCHANGED <<overrides, feedback, baselines, driftRuns>>
  BY <1>1, ThreadFacts, FormFacts DEF LookOverride, Lawful, Locked
<1>3. OneRow(Predecessor(overrides, f.on))
  BY <1>2, PredecessorIsOne DEF LedgerInv
<1>4. CASE KeyIsNew(t, overrides)
  <2>1. PICK row \in Predecessor(overrides, f.on) :
          Predecessor(overrides, f.on) = {row} /\ Goto(t, "insert", row) /\ UNCHANGED writer
    BY <1>1, <1>3, <1>4 DEF LookOverride, OneRow
  <2>2. row \in RowIds \cup {NoRow}
    BY <2>1, ThreadFacts DEF Predecessor, Heads, Rows, RowTypes
  <2> QED BY <1>1, <1>2, <2>1, <2>2, GotoMoves
<1>5. CASE ~KeyIsNew(t, overrides)
  <2>1. Replayed(t, overrides) /\ writer' = NoRow
    BY <1>5 DEF LookOverride
  <2> QED BY <1>1, <1>2, <2>1, ReplayMoves
<1> QED BY <1>4, <1>5

LEMMA LookFeedbackStep ==
  ASSUME LedgerInv, NEW t \in Threads, LookFeedback(t)
  PROVE  LedgerInv'
<1>1. PICK f \in Forms : work[t].form = f
  BY ThreadFacts DEF LookFeedback
<1>2. /\ work[t].at = "look" /\ f.table = "feedback" /\ writer # t
      /\ UNCHANGED <<overrides, feedback, baselines, driftRuns, writer>>
  BY <1>1, ThreadFacts DEF LookFeedback, Lawful, Locked
<1>3. CASE Replayed(t, feedback)
  BY <1>1, <1>2, <1>3, ReplayMoves
<1>4. CASE Goto(t, "insert", NoRow)
  BY <1>1, <1>2, <1>4, GotoMoves
<1> QED BY <1>3, <1>4 DEF LookFeedback

LEMMA LookBaselineStep ==
  ASSUME LedgerInv, NEW t \in Threads, LookBaseline(t)
  PROVE  LedgerInv'
<1>1. PICK f \in Forms : work[t].form = f
  BY ThreadFacts DEF LookBaseline
<1>2. /\ work[t].at = "look" /\ f.table = "baselines" /\ writer = t
      /\ UNCHANGED <<overrides, feedback, baselines, driftRuns>>
  BY <1>1, ThreadFacts DEF LookBaseline, Lawful, Locked
<1>3. CASE Answer(t, "refused") /\ writer' = NoRow
  <2>1. True("refused", f)' /\ "refused" \in Results
    BY <1>2 DEF True, Results
  <2> QED BY <1>1, <1>2, <1>3, <2>1, SameRows, AnswerMoves
<1>4. CASE ~(Answer(t, "refused") /\ writer' = NoRow)
  <2>1. PICK row \in Predecessor(baselines, f.on) :
          Predecessor(baselines, f.on) = {row} /\ Goto(t, "insert", row) /\ UNCHANGED writer
    BY <1>1, <1>4 DEF LookBaseline, OneRow
  <2>2. row \in RowIds \cup {NoRow}
    BY <2>1, ThreadFacts DEF Predecessor, Heads, Rows, RowTypes
  <2> QED BY <1>1, <1>2, <2>1, <2>2, GotoMoves
<1> QED BY <1>3, <1>4

LEMMA LookReportSteps ==
  ASSUME LedgerInv, NEW t \in Threads, LookReport(t) \/ LookAnyBaseline(t)
  PROVE  LedgerInv'
<1>1. PICK f \in Forms : work[t].form = f
  BY ThreadFacts DEF LookReport, LookAnyBaseline
<1>2. /\ work[t].at \in {"look", "look any"} /\ f.table = "driftRuns" /\ writer # t
      /\ UNCHANGED <<overrides, feedback, baselines, driftRuns, writer>>
  BY <1>1, ThreadFacts DEF LookReport, LookAnyBaseline, Lawful, Found, Locked
<1>3. ASSUME NEW result \in {"refused", "policy changed", "not created"}, Answer(t, result)
      PROVE  LedgerInv'
  <2>1. result \in Results /\ (result \in {"saved", "refused"} => True(result, f)')
    BY <1>2 DEF Results, True
  <2> QED BY <1>1, <1>2, <1>3, <2>1, SameRows, AnswerMoves
<1>4. CASE LookReport(t)
  <2>1. CASE Goto(t, "look any", NoRow)
    BY <1>1, <1>2, <1>4, <2>1, GotoMoves DEF LookReport
  <2>2. CASE \E row \in Predecessor(baselines, f.on) : Goto(t, "insert", row)
    <3>1. PICK row \in Predecessor(baselines, f.on) : Goto(t, "insert", row)
      BY <2>2
    <3>2. row \in RowIds \cup {NoRow}
      BY <3>1, ThreadFacts DEF Predecessor, Heads, Rows, RowTypes
    <3> QED BY <1>1, <1>2, <1>4, <3>1, <3>2, GotoMoves DEF LookReport
  <2> QED BY <1>1, <1>3, <1>4, <2>1, <2>2 DEF LookReport
<1>5. CASE LookAnyBaseline(t)
  BY <1>3, <1>5 DEF LookAnyBaseline
<1> QED BY <1>4, <1>5

LEMMA InsertOverrideStep ==
  ASSUME LedgerInv, NEW t \in Threads, InsertOverride(t)
  PROVE  LedgerInv'
<1>1. PICK f \in Forms : work[t].form = f
  BY ThreadFacts DEF InsertOverride
<1>2. /\ f.table = "overrides" /\ f.on \in Decisions /\ f.key \in Keys /\ f.value \in Values
      /\ writer = t /\ writer' = NoRow /\ Answer(t, "saved")
      /\ Predecessor(overrides, f.on) = {work[t].row}
      /\ UNCHANGED <<feedback, baselines, driftRuns>>
  BY <1>1, ThreadFacts, FormFacts DEF InsertOverride, Lawful, Found, Locked
<1>3. PICK id \in RowIds \ UsedIds :
        overrides' = overrides \cup {[id |-> id, on |-> f.on, key |-> f.key,
                                      value |-> f.value, supersedes |-> work[t].row]}
  BY <1>1 DEF InsertOverride
<1> DEFINE n == [id |-> id, on |-> f.on, key |-> f.key, value |-> f.value,
                 supersedes |-> work[t].row]
<1>4. /\ n \in [id : RowIds, on : Decisions, key : Keys, value : Values,
                supersedes : RowIds \cup {NoRow}]
      /\ n.on = f.on /\ n.id = id /\ n.key = f.key /\ n.value = f.value
      /\ n.supersedes = work[t].row
  BY <1>2, ThreadFacts DEF Works
<1>5. overrides' = overrides \cup {n}
  BY <1>3
<1> HIDE DEF n
<1>6. id \notin Ids(overrides) /\ id # NoRow
  BY <1>3, NoRowIsNoRow DEF Ids, UsedIds
<1>7. Chains(overrides \cup {n}, Decisions)
  BY <1>2, <1>4, <1>6, LinesGrow DEF LedgerInv
<1>8. RowTypes'
  BY <1>2, <1>4, <1>5, <1>7, ThreadFacts DEF RowTypes
<1>9. True("saved", f)' /\ "saved" \in Results
  BY <1>2, <1>4, <1>5 DEF True, Results
<1> QED BY <1>1, <1>2, <1>5, <1>8, <1>9, AnswerMoves

LEMMA InsertBaselineStep ==
  ASSUME LedgerInv, NEW t \in Threads, InsertBaseline(t)
  PROVE  LedgerInv'
<1>1. PICK f \in Forms : work[t].form = f
  BY ThreadFacts DEF InsertBaseline
<1>2. /\ f.table = "baselines" /\ f.on \in Policies
      /\ writer = t /\ writer' = NoRow /\ Answer(t, "saved")
      /\ Predecessor(baselines, f.on) = {work[t].row}
      /\ UNCHANGED <<overrides, feedback, driftRuns>>
  BY <1>1, ThreadFacts, FormFacts DEF InsertBaseline, Lawful, Found, Locked
<1>3. PICK id \in RowIds \ UsedIds :
        baselines' = baselines \cup {[id |-> id, on |-> f.on, supersedes |-> work[t].row]}
  BY <1>1 DEF InsertBaseline
<1> DEFINE n == [id |-> id, on |-> f.on, supersedes |-> work[t].row]
<1>4. /\ n \in [id : RowIds, on : Policies, supersedes : RowIds \cup {NoRow}]
      /\ n.on = f.on /\ n.id = id /\ n.supersedes = work[t].row
  BY <1>2, ThreadFacts DEF Works
<1>5. baselines' = baselines \cup {n}
  BY <1>3
<1> HIDE DEF n
<1>6. id \notin Ids(baselines) /\ id # NoRow
  BY <1>3, NoRowIsNoRow DEF Ids, UsedIds
<1>7. Chains(baselines \cup {n}, Policies)
  BY <1>2, <1>4, <1>6, LinesGrow DEF LedgerInv
<1>8. RowTypes'
  BY <1>2, <1>4, <1>5, <1>7, ThreadFacts DEF RowTypes
<1>9. True("saved", f)' /\ "saved" \in Results
  BY <1>2 DEF True, Results
<1> QED BY <1>1, <1>2, <1>5, <1>8, <1>9, AnswerMoves
LEMMA InsertFeedbackStep ==
  ASSUME LedgerInv, NEW t \in Threads, InsertFeedback(t)
  PROVE  LedgerInv'
<1>1. PICK f \in Forms : work[t].form = f
  BY ThreadFacts DEF InsertFeedback
<1>2. /\ f.table = "feedback" /\ f.on \in Decisions /\ f.key \in Keys /\ f.value \in Values
      /\ writer # t /\ UNCHANGED <<overrides, baselines, driftRuns, writer>>
  BY <1>1, ThreadFacts, FormFacts DEF InsertFeedback
<1>3. ASSUME NEW id \in RowIds, Answer(t, "saved"),
             feedback' = feedback \cup
               {[id |-> id, on |-> f.on, key |-> f.key, value |-> f.value]}
      PROVE  LedgerInv'
  <2>1. RowTypes'
    BY <1>2, <1>3, ThreadFacts DEF RowTypes
  <2>2. True("saved", f)' /\ "saved" \in Results
    <3> DEFINE n == [id |-> id, on |-> f.on, key |-> f.key, value |-> f.value]
    <3>1. n \in feedback' /\ n.key = f.key /\ n.on = f.on /\ n.value = f.value
      BY <1>3
    <3> HIDE DEF n
    <3> QED BY <1>2, <3>1 DEF True, Results
  <2> QED BY <1>1, <1>2, <1>3, <2>1, <2>2, AnswerMoves
<1>4. CASE Answer(t, "refused") /\ UNCHANGED feedback
  <2>1. True("refused", f)' /\ "refused" \in Results
    BY <1>2 DEF True, Results
  <2> QED BY <1>1, <1>2, <1>4, <2>1, SameRows, AnswerMoves
<1> QED BY <1>1, <1>3, <1>4 DEF InsertFeedback

LEMMA InsertRunStep ==
  ASSUME LedgerInv, NEW t \in Threads, InsertRun(t)
  PROVE  LedgerInv'
<1>1. PICK f \in Forms : work[t].form = f
  BY ThreadFacts DEF InsertRun
<1>2. /\ f.table = "driftRuns" /\ f.on \in Policies
      /\ writer # t /\ UNCHANGED <<overrides, feedback, baselines, writer>>
  BY <1>1, ThreadFacts, FormFacts DEF InsertRun, Lawful, Locked
<1>3. ASSUME NEW b \in baselines, b.id = work[t].row, b.on = f.on, Answer(t, "saved"),
             driftRuns' = driftRuns \cup {[baseline |-> work[t].row, policy |-> f.on]}
      PROVE  LedgerInv'
  <2>1. RowTypes'
    BY <1>2, <1>3, ThreadFacts DEF RowTypes
  <2>2. True("saved", f)' /\ "saved" \in Results
    <3>1. /\ b \in baselines' /\ b.on = f.on
          /\ [baseline |-> b.id, policy |-> f.on] \in driftRuns'
      BY <1>2, <1>3
    <3> QED BY <1>2, <3>1 DEF True, Results
  <2> QED BY <1>1, <1>2, <1>3, <2>1, <2>2, AnswerMoves
<1>4. CASE Answer(t, "refused") /\ UNCHANGED driftRuns
  <2>1. True("refused", f)' /\ "refused" \in Results
    BY <1>2 DEF True, Results
  <2> QED BY <1>1, <1>2, <1>4, <2>1, SameRows, AnswerMoves
<1> QED BY <1>1, <1>3, <1>4 DEF InsertRun

LEMMA LedgerStepInv == LedgerInv /\ [LedgerNext]_ledgerVars => LedgerInv'
<1> SUFFICES ASSUME LedgerInv, [LedgerNext]_ledgerVars PROVE LedgerInv'
  OBVIOUS
<1>1. CASE UNCHANGED ledgerVars
  <2>1. \A t \in Threads : Lawful(t)' /\ Found(t)' /\ Told(t)'
    BY <1>1 DEF LedgerInv, ledgerVars, Lawful, Found, Told, True
  <2>2. RowTypes' /\ LedgerTypeOK'
    BY <1>1, SameRows DEF LedgerInv, ledgerVars, LedgerTypeOK
  <2> QED BY <2>1, <2>2 DEF LedgerInv, RowTypes
<1>2. ASSUME NEW t \in Threads, NEW f \in Forms, Post(t, f) PROVE LedgerInv'
  BY <1>2, PostStep
<1>3. ASSUME NEW t \in Threads, LedgerStep(t) PROVE LedgerInv'
  BY <1>3, LockStep, FailureSteps, LookOverrideStep, InsertOverrideStep, LookFeedbackStep,
     InsertFeedbackStep, LookBaselineStep, InsertBaselineStep, LookReportSteps, InsertRunStep
     DEF LedgerStep
<1> QED BY <1>1, <1>2, <1>3 DEF LedgerNext

LEMMA LedgerInvariant == LedgerSpec => []LedgerInv
BY LedgerInitInv, LedgerStepInv, PTL DEF LedgerSpec

-----------------------------------------------------------------------------
(* What follows from it.                                                   *)

\* The queue's query lets a row of any decision supersede, the card's only one
\* of the same: in a lawful table that is no difference.
LEMMA FreeIsHead ==
  ASSUME LedgerInv, NEW d \in Decisions
  PROVE  {o \in Rows(overrides, d) : \A c \in overrides : c.supersedes # o.id}
           = Heads(overrides, d)
<1>1. ASSUME NEW o \in Rows(overrides, d), NEW c \in overrides, c.supersedes = o.id
      PROVE  c \in Rows(overrides, d)
  <2>1. o \in overrides /\ o.on = d /\ Chains(overrides, Decisions)
    BY DEF Rows, LedgerInv
  <2>2. o.id # NoRow
    BY <2>1, NoRowIsNoRow DEF LedgerInv, LedgerTypeOK
  <2>3. PICK p \in overrides : p.id = c.supersedes /\ p.on = c.on
    BY <1>1, <2>1, <2>2, Superseded
  <2>4. p = o
    BY <1>1, <2>1, <2>3 DEF Chains
  <2> QED BY <2>1, <2>3, <2>4 DEF Rows
<1> QED BY <1>1 DEF Heads, Rows

LEMMA ReadersAgreeHere == LedgerInv => ReadersAgree
<1> SUFFICES ASSUME LedgerInv, NEW d \in Decisions
             PROVE  /\ QueueStatus(d) = CardStatus(d)
                    /\ HasEffectiveOverride(d) <=> CardStatus(d) \notin {"none", "inconsistent"}
  BY DEF ReadersAgree
<1>2. CASE Rows(overrides, d) = {}
  <2>1. Heads(overrides, d) = {}
    BY <1>2 DEF Heads
  <2> QED BY <1>2, <2>1, FS_EmptySet DEF HasEffectiveOverride, CardStatus, QueueStatus
<1>3. CASE Rows(overrides, d) # {}
  <2>1. PICK h \in Heads(overrides, d) : Heads(overrides, d) = {h}
    BY <1>3 DEF LedgerInv, Chains, Linear, OneRow
  <2>2. Cardinality(Heads(overrides, d)) = 1
    BY <2>1, FS_Singleton
  <2>3. h.value \in Values
    BY <2>1 DEF Heads, Rows, LedgerInv, LedgerTypeOK
  <2>4. CardStatus(d) = h.value
    BY <1>3, <2>1 DEF CardStatus, OneRow
  <2>5. QueueStatus(d) = h.value
    <3> DEFINE free == {o \in Rows(overrides, d) : \A c \in overrides : c.supersedes # o.id}
    <3>1. free = {h}
      BY <2>1, FreeIsHead
    <3>2. QueueStatus(d) = IF Rows(overrides, d) = {} THEN "none"
                           ELSE IF OneRow(free) THEN (CHOOSE o \in free : TRUE).value
                           ELSE "inconsistent"
      BY DEF QueueStatus
    <3> QED BY <1>3, <3>1, <3>2 DEF OneRow
  <2> QED BY <2>2, <2>3, <2>4, <2>5, ValuesAreActions DEF HasEffectiveOverride
<1> QED BY <1>2, <1>3

LEMMA AnswersAreTrueHere == LedgerInv => AnswersAreTrue
<1> SUFFICES ASSUME LedgerInv, NEW t \in Threads, work[t].at = "idle",
                    work[t].result \in {"saved", "refused"}
             PROVE  LET f == work[t].form
                        under(table) == {r \in table : r.key = f.key}
                        same(r) == r.on = f.on /\ Compared[r.value] = Compared[f.value]
                    IN /\ f.table = "overrides" =>
                            \E r \in under(overrides) : same(r) <=> work[t].result = "saved"
                       /\ f.table = "feedback" /\ work[t].result = "saved" =>
                            \E r \in under(feedback) : same(r)
                       /\ f.table = "driftRuns" /\ work[t].result = "saved" =>
                            \E b \in baselines :
                              b.on = f.on /\ [baseline |-> b.id, policy |-> f.on] \in driftRuns
  BY DEF AnswersAreTrue
<1>1. True(work[t].result, work[t].form)
  BY DEF LedgerInv, Told
<1> QED BY <1>1 DEF True

\* Concurrent forms and command lines never fork a history: the write lock is
\* taken before the head is read and kept until the row is in
\* (record_override, record_drift_baseline).
THEOREM LinearHistoriesHolds == LedgerSpec => []LinearHistories
<1>1. LedgerInv => LinearHistories
  BY DEF LedgerInv, LinearHistories, Chains
<1> QED BY <1>1, LedgerInvariant, PTL

\* What a request is answered is so, and stays so, and the three readers of a
\* decision's current action agree (record_override, record_feedback, queue,
\* _override_view, reconciliation_source).
THEOREM UsersAreToldTheTruthHolds == LedgerSpec => []UsersAreToldTheTruth
<1>1. LedgerInv => UsersAreToldTheTruth
  BY ReadersAgreeHere, AnswersAreTrueHere DEF UsersAreToldTheTruth
<1> QED BY <1>1, LedgerInvariant, PTL

-----------------------------------------------------------------------------
(***************************************************************************)
(* Deferred outcomes.  Rows are only added, under a source that has none, so*)
(* that what an import counted stays stored; and until a cleanup crosses   *)
(* another import, the temporary name has one owner.                       *)
(***************************************************************************)

-----------------------------------------------------------------------------
(* The invariant.                                                          *)

\* The numbers of the entries among the lines before line n, and of those an
\* import has rejected.
EntriesBefore(i, n) == {k \in 1 .. Len(Lines(i)) : k < n /\ Lines(i)[k].shape # "blank"}
Refused(i) == {p[1] : p \in import[i].rejected}

\* What an import has counted so far is true of the lines behind it.
Honest(i) ==
  import[i].at \in {"reading", "clean up", "done"} =>
    /\ import[i].next >= 1
    /\ import[i].at # "reading" => import[i].next > Len(Lines(i))
    /\ Refused(i) \subseteq EntriesBefore(i, import[i].next)
    /\ \A k \in EntriesBefore(i, import[i].next) \ Refused(i) :
         Payload(PolicyOf[i], Lines(i)[k]) \in {PayloadOf(r) : r \in outcomes}
    /\ import[i].accepted + import[i].replayed + Cardinality(Refused(i))
         = Cardinality(EntriesBefore(i, import[i].next))

\* A row was labelled by a rule of a policy some import was given.
Labelled(r) ==
  /\ r.at \in Int
  /\ \E i \in Importers :
       /\ r.policy = PolicyOf[i].hash
       /\ \E rule \in MatchingRules(PolicyOf[i], r.decision) : rule.outcomeType = r.type

IdsAreKeys == \A r, q \in outcomes : r.id = q.id => r = q

ImportInv ==
  /\ ImportTypeOK
  /\ ArtifactsKeptApart
  /\ IsFiniteSet(outcomes) /\ IdsAreKeys /\ OncePerSource
  /\ \A r \in outcomes : Labelled(r)
  /\ \A i \in Importers : Honest(i)

-----------------------------------------------------------------------------
(* Rows.                                                                   *)

\* A row says what its payload says, under an id.
LEMMA RowSays ==
  ASSUME NEW policy, NEW line, NEW id
  PROVE  LET p == Payload(policy, line)
             r == RowOf(id, p)
         IN /\ r.id = id /\ r.source = line.source /\ r.policy = policy.hash
            /\ r.decision = line.decision /\ r.type = line.type /\ r.at = line.at
            /\ r.label = DeriveLabel(policy, line.decision, line)
            /\ PayloadOf(r) = p
<1> DEFINE p == Payload(policy, line)
           r == RowOf(id, p)
<1>1. DOMAIN p = {"source", "policy", "decision", "type", "at", "value", "label"}
  BY DEF Payload
<1>2. DOMAIN r = {"source", "policy", "decision", "type", "at", "value", "label", "id"}
  BY <1>1 DEF RowOf
<1>3. /\ r.id = id /\ r.source = p.source /\ r.policy = p.policy /\ r.decision = p.decision
      /\ r.type = p.type /\ r.at = p.at /\ r.label = p.label
  BY <1>1 DEF RowOf
<1>4. /\ p.source = line.source /\ p.policy = policy.hash /\ p.decision = line.decision
      /\ p.type = line.type /\ p.at = line.at
      /\ p.label = DeriveLabel(policy, line.decision, line)
  BY DEF Payload
<1>5. DOMAIN r \ {"id"} = DOMAIN p
  BY <1>1, <1>2
<1>6. PayloadOf(r) = [f \in DOMAIN p |-> r[f]]
  BY <1>5 DEF PayloadOf
<1>7. p = [f \in DOMAIN p |-> p[f]]
  BY DEF Payload
<1>8. \A f \in DOMAIN p : r[f] = p[f]
  BY <1>1 DEF RowOf
<1> HIDE DEF p, r
<1>9. PayloadOf(r) = p
  BY <1>6, <1>7, <1>8
<1> QED BY <1>3, <1>4, <1>9 DEF p, r

\* An accepted line has a rule of its policy, and is labelled by it.
LEMMA AcceptedIsLabelled ==
  ASSUME NEW policy, NEW line, line.shape \in Malformed \cup {"ok"}, Verdict(policy, line) \in Labels
  PROVE  /\ DeriveLabel(policy, line.decision, line) \in Labels
         /\ \E rule \in MatchingRules(policy, line.decision) : rule.outcomeType = line.type
<1>1. DeriveLabel(policy, line.decision, line) \in Labels
  BY DEF Verdict, Labels, Malformed
<1> DEFINE rules == {r \in MatchingRules(policy, line.decision) : r.outcomeType = line.type}
<1>2. rules # {}
  <2> SUFFICES ASSUME rules = {} PROVE FALSE
    OBVIOUS
  <2>1. DeriveLabel(policy, line.decision, line) = "no_matching_rule"
    BY DEF DeriveLabel
  <2> QED BY <1>1, <2>1 DEF Labels
<1> QED BY <1>1, <1>2

\* A line that is not blank is given a label, or a reason to reject it.
LEMMA VerdictHasReason ==
  ASSUME NEW policy, NEW line, line.shape \in Malformed \cup {"ok"}
  PROVE  Verdict(policy, line) \in Labels \cup Reasons
<1>1. DeriveLabel(policy, line.decision, line) \in Labels \cup Reasons
  BY DEF DeriveLabel, Labels, Reasons
<1>2. line.shape # "ok" => line.shape \in Reasons
  BY DEF Reasons
<1> QED BY <1>1, <1>2 DEF Verdict, Reasons

\* An entry that is read joins those before the next line.
LEMMA EntriesGrow ==
  ASSUME NEW i \in Importers, NEW n \in Nat, n >= 1, n <= Len(Lines(i))
  PROVE  /\ IsFiniteSet(EntriesBefore(i, n))
         /\ n \notin EntriesBefore(i, n)
         /\ EntriesBefore(i, n + 1) =
              IF Lines(i)[n].shape = "blank" THEN EntriesBefore(i, n)
                                             ELSE EntriesBefore(i, n) \cup {n}
<1>1. Len(Lines(i)) \in Nat
  BY InputsAreLines DEF Lines
<1>2. IsFiniteSet(1 .. Len(Lines(i)))
  BY <1>1, FS_Interval
<1>3. IsFiniteSet(EntriesBefore(i, n))
  BY <1>2, FS_Subset DEF EntriesBefore
<1>4. n \notin EntriesBefore(i, n)
  BY DEF EntriesBefore
<1>5. \A k \in 1 .. Len(Lines(i)) : k < n + 1 <=> k < n \/ k = n
  BY <1>1
<1>6. n \in 1 .. Len(Lines(i))
  BY <1>1
<1> QED BY <1>3, <1>4, <1>5, <1>6 DEF EntriesBefore

\* Without a line read there is no entry, and none refused.
LEMMA FreshIsHonest ==
  ASSUME NEW i \in Importers
  PROVE  EntriesBefore(i, 1) = {} /\ {p[1] : p \in Fresh.rejected} = {} /\ Cardinality({}) = 0
<1>1. Len(Lines(i)) \in Nat
  BY InputsAreLines DEF Lines
<1>2. \A k \in 1 .. Len(Lines(i)) : ~(k < 1)
  BY <1>1
<1>3. EntriesBefore(i, 1) = {}
  BY <1>2 DEF EntriesBefore
<1> QED BY <1>3, FS_EmptySet DEF Fresh

-----------------------------------------------------------------------------
(* The steps.                                                              *)

LineAt(i) == Lines(i)[import[i].next]
Read(i) == [import[i] EXCEPT !.next = @ + 1]

Blank(i) ==
  LineAt(i).shape = "blank" /\ import' = [import EXCEPT ![i] = Read(i)] /\ outcomes' = outcomes

Rejected(i, reason) ==
  /\ LineAt(i).shape # "blank"
  /\ import' = [import EXCEPT ![i] =
       [Read(i) EXCEPT !.rejected = @ \cup {<<import[i].next, reason>>}]]
  /\ outcomes' = outcomes

Accepted(i, id) ==
  /\ LineAt(i).shape \in Malformed \cup {"ok"} /\ Verdict(PolicyOf[i], LineAt(i)) \in Labels
  /\ SameSource(PolicyOf[i], LineAt(i)) = {}
  /\ id \in OutcomeIds \ {r.id : r \in outcomes}
  /\ outcomes' = outcomes \cup {RowOf(id, Payload(PolicyOf[i], LineAt(i)))}
  /\ import' = [import EXCEPT ![i] = [Read(i) EXCEPT !.accepted = @ + 1]]

Repeated(i) ==
  /\ LineAt(i).shape # "blank"
  /\ Payload(PolicyOf[i], LineAt(i)) \in {PayloadOf(r) : r \in outcomes}
  /\ import' = [import EXCEPT ![i] = [Read(i) EXCEPT !.replayed = @ + 1]]
  /\ outcomes' = outcomes

\* Where an import is, and how far.
LEMMA ImportFields ==
  ASSUME ImportInv, NEW i \in Importers
  PROVE  /\ import[i] \in Imports
         /\ import[i].next \in Nat /\ import[i].accepted \in Nat /\ import[i].replayed \in Nat
         /\ Len(Lines(i)) \in Nat
         /\ import[i].at = "reading" => import[i].next >= 1
<1>1. import[i] \in Imports
  BY DEF ImportInv, ImportTypeOK
<1>2. import[i].next \in Nat /\ import[i].accepted \in Nat /\ import[i].replayed \in Nat
  BY <1>1 DEF Imports
<1>3. Len(Lines(i)) \in Nat
  BY InputsAreLines DEF Lines
<1> QED BY <1>1, <1>2, <1>3 DEF ImportInv, Honest

\* What reading a line comes to.
LEMMA ReadLineIs ==
  ASSUME ImportInv, NEW i \in Importers, ReadLine(i)
  PROVE  /\ \/ Blank(i) \/ Repeated(i)
            \/ \E reason \in Reasons : Rejected(i, reason)
            \/ \E id \in OutcomeIds : Accepted(i, id)
         /\ LineAt(i).at \in Int
         /\ import[i].at = "reading" /\ import[i].next <= Len(Lines(i))
         /\ UNCHANGED <<tempEntry, rejectFile, crossed>>
<1> DEFINE line == LineAt(i)
           policy == PolicyOf[i]
<1>1. import[i].at = "reading" /\ import[i].next <= Len(Lines(i))
      /\ UNCHANGED <<tempEntry, rejectFile, crossed>>
  BY DEF ReadLine
<1>2. import[i].next \in 1 .. Len(Lines(i))
  BY <1>1, ImportFields
<1>3. line.at \in Int /\ line.shape \in Malformed \cup {"ok", "blank"}
  BY <1>2, InputsAreLines DEF LineAt, Lines
<1>4. CASE line.shape = "blank"
  BY <1>1, <1>3, <1>4 DEF ReadLine, Blank, LineAt, Read, SetImport
<1>5. CASE line.shape # "blank" /\ Verdict(policy, line) \notin Labels
  <2>1. Rejected(i, Verdict(policy, line))
    BY <1>5 DEF ReadLine, Rejected, LineAt, Read, SetImport
  <2>2. Verdict(policy, line) \in Reasons
    BY <1>3, <1>5, VerdictHasReason
  <2> QED BY <1>1, <1>3, <2>1, <2>2
<1>6. CASE line.shape # "blank" /\ Verdict(policy, line) \in Labels
  <2>1. CASE SameSource(policy, line) = {}
    BY <1>1, <1>3, <1>6, <2>1 DEF ReadLine, Accepted, LineAt, Read, SetImport
  <2>2. CASE SameSource(policy, line) = {Payload(policy, line)}
    <3>1. Payload(policy, line) \in {PayloadOf(r) : r \in outcomes}
      BY <2>2 DEF SameSource
    <3>2. SameSource(policy, line) # {}
      BY <2>2
    <3> QED BY <1>1, <1>3, <1>6, <2>2, <3>1, <3>2 DEF ReadLine, Repeated, LineAt, Read, SetImport
  <2>3. CASE SameSource(policy, line) \notin {{}, {Payload(policy, line)}}
    <3>1. Rejected(i, "source_id_conflict")
      BY <1>6, <2>3 DEF ReadLine, Rejected, LineAt, Read, SetImport
    <3> QED BY <1>1, <1>3, <3>1 DEF Reasons
  <2> QED BY <2>1, <2>2, <2>3
<1> QED BY <1>4, <1>5, <1>6

LEMMA TypeStep ==
  ASSUME ImportInv, ImportNext
  PROVE  ImportTypeOK'
<1> DEFINE Typed(f) == f \in [Importers -> Imports]
<1>1. ImportTypeOK /\ Typed(import)
  BY DEF ImportInv, ImportTypeOK
<1>2. \A i \in Importers, v \in Imports : Typed([import EXCEPT ![i] = v])
  BY <1>1
<1>3. ASSUME NEW at \in Stages
      PROVE  Stopped(at) \in Imports /\ \A i \in Importers : [import[i] EXCEPT !.at = at] \in Imports
  <2>1. Fresh \in Imports
    BY DEF Fresh, Imports, Stages
  <2> QED BY <1>1, <2>1 DEF Stopped, Imports
<1>4. ASSUME NEW i \in Importers, ReadLine(i) PROVE ImportTypeOK'
  <2>1. UNCHANGED <<tempEntry, rejectFile, crossed>>
    BY <1>4, ReadLineIs
  <2> DEFINE now == import[i]
             Right == /\ \A r \in outcomes' : r.id \in OutcomeIds /\ r.label \in Labels
                      /\ Typed(import')
  <2>2. now \in Imports /\ now.next \in Nat
    BY ImportFields
  <2>3. Read(i) \in Imports
    BY <2>2 DEF Imports, Read
  <2>4. \A v \in Imports : import' = [import EXCEPT ![i] = v] => Typed(import')
    BY <1>1
  <2>5. ASSUME Blank(i) PROVE Right
    <3>1. Typed(import')
      BY <2>3, <2>4, <2>5 DEF Blank
    <3> QED BY <1>1, <2>5, <3>1 DEF Blank, ImportTypeOK
  <2>6. ASSUME Repeated(i) PROVE Right
    <3>1. [Read(i) EXCEPT !.replayed = @ + 1] \in Imports
      BY <2>3 DEF Imports
    <3>2. Typed(import')
      BY <2>4, <2>6, <3>1 DEF Repeated
    <3> QED BY <1>1, <2>6, <3>2 DEF Repeated, ImportTypeOK
  <2>7. ASSUME NEW reason \in Reasons, Rejected(i, reason) PROVE Right
    <3>1. <<import[i].next, reason>> \in Nat \X Reasons
      BY <2>2
    <3>2. [Read(i) EXCEPT !.rejected = @ \cup {<<import[i].next, reason>>}] \in Imports
      BY <2>3, <3>1 DEF Imports
    <3>3. Typed(import')
      BY <2>4, <2>7, <3>2 DEF Rejected
    <3> QED BY <1>1, <2>7, <3>3 DEF Rejected, ImportTypeOK
  <2>8. ASSUME NEW id \in OutcomeIds, Accepted(i, id) PROVE Right
    <3> DEFINE r == RowOf(id, Payload(PolicyOf[i], LineAt(i)))
    <3>1. [Read(i) EXCEPT !.accepted = @ + 1] \in Imports
      BY <2>3 DEF Imports
    <3>2. r.id \in OutcomeIds /\ r.label \in Labels
      BY <2>8, RowSays, AcceptedIsLabelled DEF Accepted
    <3>3. /\ outcomes' = outcomes \cup {r}
          /\ import' = [import EXCEPT ![i] = [Read(i) EXCEPT !.accepted = @ + 1]]
      BY <2>8 DEF Accepted
    <3>4. Typed(import')
      BY <2>4, <3>1, <3>3
    <3> HIDE DEF r
    <3> QED BY <1>1, <3>2, <3>3, <3>4 DEF ImportTypeOK
  <2>9. Right
    <3> HIDE DEF Right
    <3> QED BY <1>4, <2>5, <2>6, <2>7, <2>8, ReadLineIs DEF Right
  <2> QED BY <1>1, <2>1, <2>9 DEF ImportTypeOK
<1>5. ASSUME NEW i \in Importers, StartImport(i) PROVE ImportTypeOK'
  <2>1. Stopped("reading") \in Imports /\ "reading" \in Stages
    BY <1>3 DEF Stages
  <2>2. Stopped("failed") \in Imports
    BY <1>3 DEF Stages
  <2>3. Typed(import')
    BY <1>2, <1>5, <2>1, <2>2 DEF StartImport, SetImport, Stopped
  <2> QED BY <1>1, <1>5, <2>3 DEF StartImport, ImportTypeOK
<1>6. ASSUME NEW i \in Importers, Publish(i) PROVE ImportTypeOK'
  <2>1. tempEntry # NoFile => tempEntry \in Importers \cup {"stale"}
    BY <1>1 DEF ImportTypeOK
  <2>2. Stopped("give up") \in Imports /\ [import[i] EXCEPT !.at = "clean up"] \in Imports
    BY <1>3 DEF Stages
  <2>3. Typed(import')
    BY <1>2, <1>6, <2>2 DEF Publish, SetImport
  <2>4. UNCHANGED <<outcomes, crossed>>
    BY <1>6 DEF Publish
  <2>5. CASE tempEntry = NoFile
    BY <1>1, <1>6, <2>3, <2>4, <2>5 DEF Publish, ImportTypeOK
  <2>6. CASE tempEntry # NoFile
    <3>1. rejectFile' = [of |-> tempEntry, movedBy |-> i] /\ tempEntry' = NoFile
      BY <1>6, <2>6 DEF Publish
    <3> QED BY <1>1, <2>1, <2>3, <2>4, <2>6, <3>1 DEF ImportTypeOK
  <2> QED BY <2>5, <2>6
<1>7. ASSUME NEW i \in Importers, ImportFails(i) PROVE ImportTypeOK'
  BY <1>1, <1>2, <1>3, <1>7 DEF ImportFails, ImportTypeOK, SetImport, Stages
<1>8. ASSUME NEW i \in Importers, CleanUp(i) PROVE ImportTypeOK'
  BY <1>1, <1>2, <1>3, <1>8 DEF CleanUp, ImportTypeOK, SetImport, Stages
<1>9. ASSUME NEW i \in Importers, ImportKilled(i) PROVE ImportTypeOK'
  BY <1>1, <1>2, <1>3, <1>9 DEF ImportKilled, ImportTypeOK, SetImport, Stages
<1>10. CASE Sweep
  BY <1>1, <1>10 DEF Sweep, ImportTypeOK
<1> QED BY <1>4, <1>5, <1>6, <1>7, <1>8, <1>9, <1>10 DEF ImportNext

\* Who reads holds the temporary name; only a cleanup may take it from him,
\* and then says so.
LEMMA ApartStep ==
  ASSUME ImportInv, ImportNext
  PROVE  ArtifactsKeptApart'
<1> USE NamesAreDistinct DEF SetImport, Stopped, Fresh
<1>1. ImportTypeOK /\ ArtifactsKeptApart
  BY DEF ImportInv
<1>2. ASSUME NEW i \in Importers, ReadLine(i) PROVE ArtifactsKeptApart'
  <2>1. \A j \in Importers : import'[j].at = import[j].at
    <3>1. \A j \in Importers : import[j] \in Imports
      BY <1>1 DEF ImportTypeOK
    <3>2. Read(i).at = import[i].at /\ Read(i) \in Imports
      BY <3>1 DEF Read, Imports
    <3>3. Blank(i) => import'[i].at = import[i].at
      BY <1>1, <3>2 DEF Blank, ImportTypeOK
    <3>4. Repeated(i) => import'[i].at = import[i].at
      BY <1>1, <3>2 DEF Repeated, ImportTypeOK, Imports
    <3>5. \A reason \in Reasons : Rejected(i, reason) => import'[i].at = import[i].at
      BY <1>1, <3>2 DEF Rejected, ImportTypeOK, Imports
    <3>6. \A id \in OutcomeIds : Accepted(i, id) => import'[i].at = import[i].at
      BY <1>1, <3>2 DEF Accepted, ImportTypeOK, Imports
    <3>7. import'[i].at = import[i].at
      BY <1>2, <3>3, <3>4, <3>5, <3>6, ReadLineIs
    <3>8. \A j \in Importers \ {i} : import'[j] = import[j]
      <4>1. Blank(i) \/ Repeated(i) => \A j \in Importers \ {i} : import'[j] = import[j]
        BY <1>1 DEF Blank, Repeated, ImportTypeOK
      <4>2. \A reason \in Reasons : Rejected(i, reason) => \A j \in Importers \ {i} : import'[j] = import[j]
        BY <1>1 DEF Rejected, ImportTypeOK
      <4>3. \A id \in OutcomeIds : Accepted(i, id) => \A j \in Importers \ {i} : import'[j] = import[j]
        BY <1>1 DEF Accepted, ImportTypeOK
      <4> QED BY <1>2, <4>1, <4>2, <4>3, ReadLineIs
    <3> QED BY <3>7, <3>8
  <2>2. crossed' = crossed /\ tempEntry' = tempEntry /\ rejectFile' = rejectFile
    BY <1>2, ReadLineIs
  <2> QED BY <1>1, <2>1, <2>2 DEF ArtifactsKeptApart
<1>3. ASSUME NEW i \in Importers, StartImport(i) PROVE ArtifactsKeptApart'
  BY <1>1, <1>3 DEF StartImport, ArtifactsKeptApart, ImportTypeOK
<1>4. ASSUME NEW i \in Importers, Publish(i) PROVE ArtifactsKeptApart'
  <2>1. crossed' = crossed /\ import[i].at = "reading"
    BY <1>4 DEF Publish
  <2>2. \A v \in Imports : import' = [import EXCEPT ![i] = v] =>
          import'[i] = v /\ \A j \in Importers \ {i} : import'[j] = import[j]
    BY <1>1 DEF ImportTypeOK
  <2>3. CASE tempEntry = NoFile
    <3>1. Stopped("give up") \in Imports /\ Stopped("give up").at = "give up"
      BY DEF Imports, Stages
    <3>2. import' = [import EXCEPT ![i] = Stopped("give up")] /\ UNCHANGED <<tempEntry, rejectFile>>
      BY <1>4, <2>3 DEF Publish
    <3> HIDE DEF Stopped
    <3>3. import'[i].at = "give up" /\ \A j \in Importers \ {i} : import'[j] = import[j]
      BY <2>2, <3>1, <3>2
    <3> QED BY <1>1, <2>1, <3>2, <3>3 DEF ArtifactsKeptApart
  <2>4. CASE tempEntry # NoFile
    <3> DEFINE v == [import[i] EXCEPT !.at = "clean up"]
    <3>1. v \in Imports /\ v.at = "clean up"
      BY <1>1 DEF Imports, Stages, ImportTypeOK
    <3>2. /\ import' = [import EXCEPT ![i] = v] /\ tempEntry' = NoFile
          /\ rejectFile' = [of |-> tempEntry, movedBy |-> i]
      BY <1>4, <2>4 DEF Publish
    <3> HIDE DEF v
    <3>3. import'[i].at = "clean up" /\ \A j \in Importers \ {i} : import'[j] = import[j]
      BY <2>2, <3>1, <3>2
    <3> QED BY <1>1, <2>1, <3>2, <3>3 DEF ArtifactsKeptApart
  <2> QED BY <2>3, <2>4
<1>5. ASSUME NEW i \in Importers, ImportFails(i) PROVE ArtifactsKeptApart'
  BY <1>1, <1>5 DEF ImportFails, ArtifactsKeptApart, ImportTypeOK
<1>6. ASSUME NEW i \in Importers, CleanUp(i) PROVE ArtifactsKeptApart'
  <2>1. import'[i].at # "reading" /\ \A j \in Importers \ {i} : import'[j] = import[j]
    BY <1>1, <1>6 DEF CleanUp, ImportTypeOK, Imports
  <2>2. ~crossed' => ~crossed /\ tempEntry \in {NoFile, i}
    BY <1>6 DEF CleanUp
  <2>3. tempEntry' = NoFile /\ rejectFile' = rejectFile
    BY <1>6 DEF CleanUp
  <2> QED BY <1>1, <2>1, <2>2, <2>3 DEF ArtifactsKeptApart
<1>7. ASSUME NEW i \in Importers, ImportKilled(i) PROVE ArtifactsKeptApart'
  BY <1>1, <1>7 DEF ImportKilled, ArtifactsKeptApart, ImportTypeOK
<1>8. CASE Sweep
  BY <1>1, <1>8 DEF Sweep, ArtifactsKeptApart, ImportTypeOK
<1> QED BY <1>2, <1>3, <1>4, <1>5, <1>6, <1>7, <1>8 DEF ImportNext

\* Rows come from accepted lines alone.
LEMMA OutcomesGrow ==
  ASSUME ImportInv, ImportNext
  PROVE  \/ outcomes' = outcomes
         \/ \E i \in Importers, id \in OutcomeIds : Accepted(i, id) /\ LineAt(i).at \in Int
<1>1. ASSUME NEW i \in Importers, ReadLine(i), outcomes' # outcomes
      PROVE  \E id \in OutcomeIds : Accepted(i, id) /\ LineAt(i).at \in Int
  BY <1>1, ReadLineIs DEF Blank, Repeated, Rejected
<1>2. \A i \in Importers :
        StartImport(i) \/ Publish(i) \/ ImportFails(i) \/ CleanUp(i) \/ ImportKilled(i)
          => outcomes' = outcomes
  BY DEF StartImport, Publish, ImportFails, CleanUp, ImportKilled
<1>3. Sweep => outcomes' = outcomes
  BY DEF Sweep
<1> QED BY <1>1, <1>2, <1>3 DEF ImportNext

LEMMA RowsStep ==
  ASSUME ImportInv, ImportNext
  PROVE  /\ IsFiniteSet(outcomes') /\ IdsAreKeys' /\ OncePerSource'
         /\ \A r \in outcomes' : Labelled(r)
<1>1. /\ IsFiniteSet(outcomes) /\ IdsAreKeys /\ OncePerSource
      /\ \A r \in outcomes : Labelled(r)
  BY DEF ImportInv
<1>2. CASE outcomes' = outcomes
  BY <1>1, <1>2 DEF IdsAreKeys, OncePerSource
<1>3. ASSUME NEW i \in Importers, NEW id \in OutcomeIds, Accepted(i, id), LineAt(i).at \in Int
      PROVE  /\ IsFiniteSet(outcomes') /\ IdsAreKeys' /\ OncePerSource'
             /\ \A r \in outcomes' : Labelled(r)
  <2> DEFINE line == LineAt(i)
             policy == PolicyOf[i]
             n == RowOf(id, Payload(policy, line))
  <2>1. /\ n.id = id /\ n.source = line.source /\ n.policy = policy.hash
        /\ n.decision = line.decision /\ n.type = line.type /\ n.at = line.at
    BY RowSays
  <2>2. /\ outcomes' = outcomes \cup {n}
        /\ SameSource(policy, line) = {}
        /\ id \notin {r.id : r \in outcomes}
    BY <1>3 DEF Accepted
  <2>3. \E rule \in MatchingRules(policy, line.decision) : rule.outcomeType = line.type
    BY <1>3, AcceptedIsLabelled DEF Accepted
  <2>4. \A r \in outcomes : ~(r.source = line.source /\ r.policy = policy.hash)
    BY <2>2 DEF SameSource
  <2> HIDE DEF n, line, policy
  <2>5. IsFiniteSet(outcomes')
    BY <1>1, <2>2, FS_AddElement
  <2>6. IdsAreKeys'
    BY <1>1, <2>1, <2>2 DEF IdsAreKeys
  <2>7. OncePerSource'
    BY <1>1, <2>1, <2>2, <2>4 DEF OncePerSource
  <2>8. Labelled(n)
    BY <1>3, <2>1, <2>3 DEF Labelled, line, policy
  <2> QED BY <1>1, <2>2, <2>5, <2>6, <2>7, <2>8
<1> QED BY <1>2, <1>3, OutcomesGrow

\* What was stored stays stored.
LEMMA StoredStays ==
  ASSUME ImportInv, ImportNext
  PROVE  {PayloadOf(r) : r \in outcomes} \subseteq {PayloadOf(r) : r \in outcomes'}
<1>1. outcomes \subseteq outcomes'
  BY OutcomesGrow DEF Accepted
<1> QED BY <1>1

\* What reading a line does to the counts, and what it keeps of them.
CountsLine(i, now, refused, stored) ==
  LET counted == now.accepted + now.replayed - (import[i].accepted + import[i].replayed)
  IN /\ now.next = import[i].next + 1 /\ now.accepted \in Nat /\ now.replayed \in Nat
     /\ \/ LineAt(i).shape = "blank" /\ refused = Refused(i) /\ counted = 0
        \/ LineAt(i).shape # "blank" /\ refused = Refused(i) \cup {import[i].next} /\ counted = 0
        \/ /\ LineAt(i).shape # "blank" /\ refused = Refused(i) /\ counted = 1
           /\ Payload(PolicyOf[i], LineAt(i)) \in stored

CountsAdd(i, now, refused, stored) ==
  /\ now.next >= 1
  /\ refused \subseteq EntriesBefore(i, now.next)
  /\ \A k \in EntriesBefore(i, now.next) \ refused : Payload(PolicyOf[i], Lines(i)[k]) \in stored
  /\ now.accepted + now.replayed + Cardinality(refused) = Cardinality(EntriesBefore(i, now.next))

\* The summary of an import whose line was read.
LEMMA CountsAreKept ==
  ASSUME ImportInv, NEW i \in Importers,
         import[i].at = "reading", import[i].next <= Len(Lines(i)),
         NEW now, NEW refused, NEW stored, CountsLine(i, now, refused, stored),
         {PayloadOf(r) : r \in outcomes} \subseteq stored
  PROVE  CountsAdd(i, now, refused, stored)
<1> DEFINE next == now.next
           accepted == now.accepted
           replayed == now.replayed
           were == import[i].accepted + import[i].replayed
<1>0. /\ next = import[i].next + 1 /\ accepted \in Nat /\ replayed \in Nat
      /\ \/ LineAt(i).shape = "blank" /\ refused = Refused(i) /\ accepted + replayed - were = 0
         \/ /\ LineAt(i).shape # "blank" /\ refused = Refused(i) \cup {import[i].next}
            /\ accepted + replayed - were = 0
         \/ /\ LineAt(i).shape # "blank" /\ refused = Refused(i)
            /\ accepted + replayed - were = 1
            /\ Payload(PolicyOf[i], LineAt(i)) \in stored
  BY DEF CountsLine
<1> HIDE DEF next, accepted, replayed
<1> DEFINE n == import[i].next
           before == EntriesBefore(i, n)
           after == EntriesBefore(i, next)
<1>1. n \in Nat /\ n >= 1 /\ next \in Nat /\ next >= 1
      /\ import[i].accepted \in Nat /\ import[i].replayed \in Nat
  BY <1>0, ImportFields
<1>2. /\ IsFiniteSet(before) /\ n \notin before
      /\ after = IF LineAt(i).shape = "blank" THEN before ELSE before \cup {n}
  BY <1>0, <1>1, EntriesGrow DEF LineAt
<1>3. /\ Refused(i) \subseteq before
      /\ \A k \in before \ Refused(i) : Payload(PolicyOf[i], Lines(i)[k]) \in stored
      /\ were + Cardinality(Refused(i)) = Cardinality(before)
  BY DEF Honest, ImportInv
<1>4. IsFiniteSet(Refused(i)) /\ n \notin Refused(i)
  BY <1>2, <1>3, FS_Subset
<1>5. /\ Cardinality(before) \in Nat /\ Cardinality(Refused(i)) \in Nat
      /\ Cardinality(before \cup {n}) = Cardinality(before) + 1
      /\ Cardinality(Refused(i) \cup {n}) = Cardinality(Refused(i)) + 1
  BY <1>2, <1>4, FS_CardinalityType, FS_AddElement
<1>6. refused \subseteq after
  BY <1>0, <1>2, <1>3
<1>7. \A k \in after \ refused : Payload(PolicyOf[i], Lines(i)[k]) \in stored
  BY <1>0, <1>2, <1>3 DEF LineAt
<1>8. accepted + replayed + Cardinality(refused) = Cardinality(after)
  <2>1. were \in Nat /\ were + Cardinality(Refused(i)) = Cardinality(before)
    BY <1>1, <1>3
  <2> HIDE DEF were, before, after
  <2>2. CASE LineAt(i).shape = "blank"
    <3>1. after = before /\ refused = Refused(i) /\ accepted + replayed = were
      BY <1>0, <1>2, <2>1, <2>2
    <3> QED BY <2>1, <3>1
  <2>3. CASE LineAt(i).shape # "blank"
    <3>1. Cardinality(after) = Cardinality(before) + 1
      BY <1>2, <1>5, <2>3
    <3>2. \/ Cardinality(refused) = Cardinality(Refused(i)) + 1 /\ accepted + replayed = were
          \/ Cardinality(refused) = Cardinality(Refused(i)) /\ accepted + replayed = were + 1
      <4>1. CASE refused = Refused(i) \cup {n} /\ accepted + replayed - were = 0
        <5>1. accepted + replayed = were
          BY <1>0, <2>1, <4>1
        <5> QED BY <1>5, <4>1, <5>1
      <4>2. CASE refused = Refused(i) /\ accepted + replayed - were = 1
        <5>1. accepted + replayed = were + 1
          BY <1>0, <2>1, <4>2
        <5> QED BY <4>2, <5>1
      <4> QED BY <1>0, <2>3, <4>1, <4>2
    <3> QED BY <1>5, <2>1, <3>1, <3>2
  <2> QED BY <2>2, <2>3
<1> QED BY <1>1, <1>6, <1>7, <1>8 DEF CountsAdd, next, accepted, replayed

\* Another import does not change what one reports.
LEMMA OthersAreHonest ==
  ASSUME ImportInv, ImportNext, NEW j \in Importers, import'[j] = import[j]
  PROVE  Honest(j)'
<1>1. Honest(j)
  BY DEF ImportInv
<1> QED BY <1>1, StoredStays DEF Honest, Refused, EntriesBefore, Lines

LEMMA HonestStep ==
  ASSUME ImportInv, ImportNext, NEW j \in Importers
  PROVE  Honest(j)'
<1>1. /\ import \in [Importers -> Imports] /\ Honest(j)
  BY DEF ImportInv, ImportTypeOK
<1>2. ASSUME NEW at \in {"idle", "give up", "failed"}, import'[j].at = at
      PROVE  Honest(j)'
  BY <1>2 DEF Honest
<1>3. ASSUME NEW i \in Importers, ReadLine(i) PROVE Honest(j)'
  <2>1. CASE i # j
    <3>1. import'[j] = import[j]
      BY <1>1, <1>3, <2>1, ReadLineIs DEF Blank, Repeated, Rejected, Accepted
    <3> QED BY <3>1, OthersAreHonest
  <2>2. CASE i = j
    <3> DEFINE stored == {PayloadOf(r) : r \in outcomes'}
               now == import'[j]
               Counted == now.at = "reading" /\ CountsLine(j, now, Refused(j)', stored)
    <3>1. SUFFICES now.at = "reading" /\ CountsAdd(j, now, Refused(j)', stored)
      BY DEF Honest, CountsAdd
    <3>2. /\ import[j].at = "reading" /\ import[j].next <= Len(Lines(j))
          /\ import[j] \in Imports
      BY <1>1, <1>3, <2>2, ReadLineIs
    <3>3. {PayloadOf(r) : r \in outcomes} \subseteq stored
      BY StoredStays
    <3>4. /\ Read(j).at = "reading" /\ Read(j).next = import[j].next + 1
          /\ Read(j).accepted = import[j].accepted /\ Read(j).replayed = import[j].replayed
          /\ Read(j).rejected = import[j].rejected /\ Read(j) \in Imports
          /\ Read(j).accepted \in Nat /\ Read(j).replayed \in Nat
      BY <3>2 DEF Read, Imports
    <3>5. ASSUME Blank(j) PROVE Counted
      BY <1>1, <3>4, <3>5 DEF Blank, Refused, CountsLine
    <3>6. ASSUME Repeated(j) PROVE Counted
      <4>1. /\ now = [Read(j) EXCEPT !.replayed = @ + 1]
            /\ Payload(PolicyOf[j], LineAt(j)) \in stored /\ LineAt(j).shape # "blank"
        BY <1>1, <3>3, <3>6 DEF Repeated
      <4>2. /\ now.replayed = import[j].replayed + 1 /\ now.accepted = import[j].accepted
            /\ now.at = "reading" /\ now.next = import[j].next + 1
            /\ now.rejected = import[j].rejected
        BY <3>4, <4>1 DEF Imports
      <4>3. Refused(j)' = Refused(j)
        BY <4>2 DEF Refused
      <4> QED BY <3>2, <3>4, <4>1, <4>2, <4>3 DEF CountsLine, Imports
    <3>7. ASSUME NEW reason \in Reasons, Rejected(j, reason) PROVE Counted
      <4>1. /\ now = [Read(j) EXCEPT !.rejected = @ \cup {<<import[j].next, reason>>}]
            /\ LineAt(j).shape # "blank"
        BY <1>1, <3>7 DEF Rejected
      <4>2. /\ now.replayed = import[j].replayed /\ now.accepted = import[j].accepted
            /\ now.at = "reading" /\ now.next = import[j].next + 1
            /\ now.rejected = import[j].rejected \cup {<<import[j].next, reason>>}
        BY <3>4, <4>1 DEF Imports
      <4>3. <<import[j].next, reason>>[1] = import[j].next
        OBVIOUS
      <4>4. Refused(j)' = Refused(j) \cup {import[j].next}
        BY <4>2, <4>3 DEF Refused
      <4> QED BY <3>2, <3>4, <4>1, <4>2, <4>4 DEF CountsLine, Imports
    <3>8. ASSUME NEW id \in OutcomeIds, Accepted(j, id) PROVE Counted
      <4> DEFINE p == Payload(PolicyOf[j], LineAt(j))
      <4>1. /\ now = [Read(j) EXCEPT !.accepted = @ + 1]
            /\ outcomes' = outcomes \cup {RowOf(id, p)} /\ LineAt(j).shape # "blank"
        BY <1>1, <3>8 DEF Accepted, Malformed
      <4>2. p \in stored
        BY <4>1, RowSays
      <4>3. /\ now.replayed = import[j].replayed /\ now.accepted = import[j].accepted + 1
            /\ now.at = "reading" /\ now.next = import[j].next + 1
            /\ now.rejected = import[j].rejected
        BY <3>4, <4>1 DEF Imports
      <4> HIDE DEF p
      <4>4. Refused(j)' = Refused(j)
        BY <4>3 DEF Refused
      <4> QED BY <3>2, <3>4, <4>1, <4>2, <4>3, <4>4 DEF p, CountsLine, Imports
    <3>9. Counted
      <4> HIDE DEF Counted
      <4> QED BY <1>3, <2>2, <3>5, <3>6, <3>7, <3>8, ReadLineIs
    <3> HIDE DEF stored
    <3> QED BY <1>1, <3>2, <3>3, <3>9, CountsAreKept DEF stored
  <2> QED BY <2>1, <2>2
<1>4. ASSUME NEW i \in Importers, StartImport(i) PROVE Honest(j)'
  <2>1. CASE i # j
    <3>1. import'[j] = import[j]
      BY <1>1, <1>4, <2>1 DEF StartImport, SetImport
    <3> QED BY <3>1, OthersAreHonest
  <2>2. CASE i = j
    <3>1. import'[j] = [Fresh EXCEPT !.at = "reading"] \/ import'[j] = Stopped("failed")
      BY <1>1, <1>4, <2>2 DEF StartImport, SetImport
    <3>2. CASE import'[j] = [Fresh EXCEPT !.at = "reading"]
      <4>1. /\ import'[j].at = "reading" /\ import'[j].next = 1 /\ import'[j].accepted = 0
            /\ import'[j].replayed = 0 /\ import'[j].rejected = {}
        BY <3>2 DEF Fresh
      <4>2. EntriesBefore(j, 1) = {} /\ Refused(j)' = {} /\ Cardinality({}) = 0
        BY <4>1, FreshIsHonest DEF Refused
      <4> QED BY <4>1, <4>2 DEF Honest
    <3>3. CASE import'[j] = Stopped("failed")
      BY <1>2, <3>3 DEF Stopped, Fresh
    <3> QED BY <3>1, <3>2, <3>3
  <2> QED BY <2>1, <2>2
<1>5. ASSUME NEW i \in Importers, Publish(i) PROVE Honest(j)'
  <2>1. CASE i # j
    <3>1. import'[j] = import[j]
      BY <1>1, <1>5, <2>1 DEF Publish, SetImport
    <3> QED BY <3>1, OthersAreHonest
  <2>2. CASE i = j
    <3>1. import'[j] = [import[j] EXCEPT !.at = "clean up"] \/ import'[j] = Stopped("give up")
      BY <1>1, <1>5, <2>2 DEF Publish, SetImport
    <3>2. import[j].at = "reading" /\ import[j].next > Len(Lines(j)) /\ import[j] \in Imports
      BY <1>1, <1>5, <2>2 DEF Publish
    <3>3. CASE import'[j] = [import[j] EXCEPT !.at = "clean up"]
      <4>1. /\ import'[j].at = "clean up" /\ import'[j].next = import[j].next
            /\ import'[j].accepted = import[j].accepted /\ import'[j].replayed = import[j].replayed
            /\ import'[j].rejected = import[j].rejected
        BY <3>2, <3>3 DEF Imports
      <4> QED BY <1>1, <3>2, <4>1, StoredStays DEF Honest, Refused, EntriesBefore, Lines
    <3>4. CASE import'[j] = Stopped("give up")
      BY <1>2, <3>4 DEF Stopped, Fresh
    <3> QED BY <3>1, <3>3, <3>4
  <2> QED BY <2>1, <2>2
<1>6. ASSUME NEW i \in Importers, ImportFails(i) \/ ImportKilled(i) PROVE Honest(j)'
  <2>1. CASE i # j
    <3>1. import'[j] = import[j]
      BY <1>1, <1>6, <2>1 DEF ImportFails, ImportKilled, SetImport
    <3> QED BY <3>1, OthersAreHonest
  <2>2. CASE i = j
    <3>1. import'[j].at \in {"give up", "failed"}
      BY <1>1, <1>6, <2>2 DEF ImportFails, ImportKilled, SetImport, Stopped, Fresh
    <3> QED BY <1>2, <3>1
  <2> QED BY <2>1, <2>2
<1>7. ASSUME NEW i \in Importers, CleanUp(i) PROVE Honest(j)'
  <2>1. CASE i # j
    <3>1. import'[j] = import[j]
      BY <1>1, <1>7, <2>1 DEF CleanUp, SetImport
    <3> QED BY <3>1, OthersAreHonest
  <2>2. CASE i = j /\ import[j].at = "clean up"
    <3>1. import'[j] = [import[j] EXCEPT !.at = "done"] /\ import[j] \in Imports
      BY <1>1, <1>7, <2>2 DEF CleanUp, SetImport
    <3>2. /\ import'[j].at = "done" /\ import'[j].next = import[j].next
          /\ import'[j].accepted = import[j].accepted /\ import'[j].replayed = import[j].replayed
          /\ import'[j].rejected = import[j].rejected
      BY <3>1 DEF Imports
    <3> QED BY <1>1, <2>2, <3>2, StoredStays DEF Honest, Refused, EntriesBefore, Lines
  <2>3. CASE i = j /\ import[j].at # "clean up"
    <3>1. import'[j] = Stopped("failed")
      BY <1>1, <1>7, <2>3 DEF CleanUp, SetImport
    <3> QED BY <1>2, <3>1 DEF Stopped, Fresh
  <2> QED BY <2>1, <2>2, <2>3
<1>8. CASE Sweep
  <2>1. import'[j] = import[j]
    BY <1>8 DEF Sweep
  <2> QED BY <2>1, OthersAreHonest
<1> QED BY <1>3, <1>4, <1>5, <1>6, <1>7, <1>8 DEF ImportNext

LEMMA ImportInvariant == ImportSpec => []ImportInv
<1>1. ImportInit => ImportInv
  <2> SUFFICES ASSUME ImportInit PROVE ImportInv
    OBVIOUS
  <2>1. Fresh \in Imports /\ Fresh.at = "idle"
    BY DEF Fresh, Imports, Stages
  <2>2. \A i \in Importers : import[i] = Fresh
    BY DEF ImportInit
  <2>3. ImportTypeOK
    BY <2>1 DEF ImportInit, ImportTypeOK
  <2>4. ArtifactsKeptApart /\ \A i \in Importers : Honest(i)
    BY <2>1, <2>2 DEF ImportInit, ArtifactsKeptApart, Honest
  <2> QED BY <2>3, <2>4, FS_EmptySet DEF ImportInit, ImportInv, IdsAreKeys, OncePerSource
<1>2. ImportInv /\ [ImportNext]_importVars => ImportInv'
  <2> SUFFICES ASSUME ImportInv, [ImportNext]_importVars PROVE ImportInv'
    OBVIOUS
  <2>1. CASE ImportNext
    <3>1. ImportTypeOK' /\ ArtifactsKeptApart'
      BY <2>1, TypeStep, ApartStep
    <3>2. IsFiniteSet(outcomes') /\ IdsAreKeys' /\ OncePerSource' /\ \A r \in outcomes' : Labelled(r)
      BY <2>1, RowsStep
    <3>3. \A j \in Importers : Honest(j)'
      BY <2>1, HonestStep
    <3> QED BY <3>1, <3>2, <3>3 DEF ImportInv
  <2>2. CASE UNCHANGED importVars
    <3>1. UNCHANGED outcomes /\ UNCHANGED tempEntry /\ UNCHANGED rejectFile /\ UNCHANGED import /\ UNCHANGED crossed
      BY <2>2 DEF importVars
    <3> QED BY <3>1 DEF ImportInv, ImportTypeOK, ArtifactsKeptApart, IdsAreKeys, OncePerSource,
                        Honest, Refused, EntriesBefore, Lines
  <2> QED BY <2>1, <2>2
<1> QED BY <1>1, <1>2, PTL DEF ImportSpec

-----------------------------------------------------------------------------
(* What follows from it.                                                   *)

\* Every import stays where its stages and counters allow, and every stored
\* row has an id of its own kind and a label, whatever the files say.
THEOREM ImportTypeCorrect == ImportSpec => []ImportTypeOK
<1>1. ImportInv => ImportTypeOK
  BY DEF ImportInv
<1> QED BY <1>1, ImportInvariant, PTL

\* Until a cleanup crosses another import, who reads holds the temporary name
\* and the rejects file was moved by its author (import_outcomes).
THEOREM ImportKeepsArtifactsApart == ImportSpec => []ArtifactsKeptApart
<1>1. ImportInv => ArtifactsKeptApart
  BY DEF ImportInv
<1> QED BY <1>1, ImportInvariant, PTL

\* A finished import's summary is true of the store for good, and no source is
\* stored twice under a policy (import_outcomes, record_outcome).
THEOREM ImportStoresAsReported == ImportSpec => []StoredAsReported
<1>1. ASSUME ImportInv PROVE StoredAsReported
  <2>1. ASSUME NEW i \in Importers, import[i].at = "done"
        PROVE  LET entries == {n \in 1..Len(Lines(i)) : Lines(i)[n].shape # "blank"}
                   refused == {p[1] : p \in import[i].rejected}
               IN /\ \A n \in entries \ refused :
                       Payload(PolicyOf[i], Lines(i)[n]) \in {PayloadOf(r) : r \in outcomes}
                  /\ import[i].accepted + import[i].replayed + Cardinality(refused)
                       = Cardinality(entries)
    <3> DEFINE entries == {n \in 1..Len(Lines(i)) : Lines(i)[n].shape # "blank"}
    <3>1. import[i].next \in Nat /\ Len(Lines(i)) \in Nat
      BY <1>1, ImportFields
    <3>2. Honest(i) /\ import[i].next > Len(Lines(i))
      BY <1>1, <2>1 DEF ImportInv, Honest
    <3>3. EntriesBefore(i, import[i].next) = entries
      BY <3>1, <3>2 DEF EntriesBefore
    <3> QED BY <2>1, <3>2, <3>3 DEF Honest, Refused
  <2>2. SummaryIsTrue
    BY <2>1 DEF SummaryIsTrue
  <2> QED BY <1>1, <2>2 DEF ImportInv, StoredAsReported
<1> QED BY <1>1, ImportInvariant, PTL

-----------------------------------------------------------------------------
(* The report.                                                             *)

\* Stored rows are ordered by their instants, then their ids.
LEMMA NewerOrders ==
  ASSUME ImportInv
  PROVE  /\ \A r, q \in outcomes : r # q => Newer(r, q) \/ Newer(q, r)
         /\ \A r, q \in outcomes : ~(Newer(r, q) /\ Newer(q, r))
         /\ \A r, q, s \in outcomes : Newer(r, q) /\ Newer(q, s) => Newer(r, s)
<1>1. \A r \in outcomes : r.at \in Int /\ r.id \in Nat
  BY OutcomeIdsAreNumbers DEF ImportInv, ImportTypeOK, Labelled
<1>2. \A r, q \in outcomes : r.id = q.id => r = q
  BY DEF ImportInv, IdsAreKeys
<1> QED BY <1>1, <1>2 DEF Newer

\* Some row of any set of stored rows is the newest.
LEMMA SomeRowIsNewest ==
  ASSUME ImportInv, NEW rows \in SUBSET outcomes, rows # {}
  PROVE  \E r \in rows : \A q \in rows \ {r} : Newer(r, q)
<1> DEFINE Above(r) == {q \in rows : Newer(q, r)}
           sizes == {Cardinality(Above(r)) : r \in rows}
<1>1. \A r \in rows : IsFiniteSet(Above(r)) /\ Cardinality(Above(r)) \in Nat
  BY FS_Subset, FS_CardinalityType DEF ImportInv
<1>2. sizes \subseteq Nat /\ sizes # {}
  BY <1>1
<1>3. PICK n \in sizes : \A m \in sizes : ~(<<m, n>> \in OpToRel(<, Nat))
  <2> HIDE DEF sizes
  <2> QED BY <1>2, NatLessThanWellFounded, WFMin
<1>4. PICK r \in rows : n = Cardinality(Above(r))
  OBVIOUS
<1>5. \A m \in sizes : ~(m < n)
  BY <1>2, <1>3 DEF OpToRel
<1>6. ASSUME NEW q \in rows, Newer(q, r) PROVE FALSE
  <2>1. Above(q) \subseteq Above(r) /\ q \in Above(r) /\ q \notin Above(q)
    BY <1>6, NewerOrders
  <2> HIDE DEF Above
  <2>2. Cardinality(Above(q)) <= Cardinality(Above(r)) /\ Cardinality(Above(q)) # Cardinality(Above(r))
    BY <1>1, <2>1, FS_Subset
  <2>3. Cardinality(Above(q)) \in sizes
    OBVIOUS
  <2> QED BY <1>1, <1>4, <1>5, <2>2, <2>3
<1> QED BY <1>6, NewerOrders

Mine(i, d) == {r \in outcomes : r.decision = d /\ r.policy = PolicyOf[i].hash}
Newest(i, d) == {r \in Mine(i, d) : \A q \in Mine(i, d) \ {r} : Newer(r, q)}

\* The query ranks each type apart and the report ranks what is left: nothing
\* newer of another type can be lost, since every stored row has its rule.
LEMMA LabelIsNewest ==
  ASSUME ImportInv, NEW i \in Importers, NEW d, NEW l \in Labels
  PROVE  LabelOf(PolicyOf[i], d) = l <=> \E r \in Newest(i, d) : r.label = l
<1> DEFINE policy == PolicyOf[i]
           mine == Mine(i, d)
           newest == Newest(i, d)
           ranked == LatestByType(policy.hash, d)
           compatible == {o \in ranked : \E r \in MatchingRules(policy, d) : r.outcomeType = o.type}
           latest == {o \in compatible : \A q \in compatible \ {o} : Newer(o, q)}
<1>1. ranked = {r \in mine : \A q \in mine : q.type = r.type /\ q # r => Newer(r, q)}
  BY DEF LatestByType, Mine
<1>2. compatible = ranked
  <2>1. \A o \in mine : \E r \in MatchingRules(policy, d) : r.outcomeType = o.type
    BY HashNamesPolicy DEF ImportInv, Labelled, Mine
  <2> QED BY <1>1, <2>1
<1>3. newest \subseteq latest
  BY <1>1, <1>2 DEF Newest
<1>4. ASSUME NEW o \in latest PROVE o \in newest
  <2>1. ASSUME NEW q \in mine, q # o PROVE Newer(o, q)
    <3> DEFINE same == {r \in mine : r.type = q.type}
    <3>1. PICK b \in same : \A r \in same \ {b} : Newer(b, r)
      <4>1. same \in SUBSET outcomes /\ same # {}
        BY <2>1 DEF Mine
      <4> HIDE DEF same
      <4> QED BY <4>1, SomeRowIsNewest
    <3>2. b \in compatible
      BY <1>1, <1>2, <3>1
    <3>3. b = o \/ Newer(o, b)
      BY <1>4, <3>2
    <3>4. b = q \/ Newer(b, q)
      BY <2>1, <3>1
    <3>5. o \in outcomes /\ b \in outcomes /\ q \in outcomes
      BY <1>1, <1>2, <1>4 DEF Mine
    <3> QED BY <2>1, <3>3, <3>4, <3>5, NewerOrders
  <2> QED BY <1>1, <1>2, <1>4, <2>1 DEF Newest
<1>5. latest = newest
  BY <1>3, <1>4
<1>6. \A r, q \in newest : r = q
  BY NewerOrders DEF Newest, Mine
<1>7. LabelOf(policy, d) = IF latest = {} THEN "none" ELSE (CHOOSE o \in latest : TRUE).label
  BY DEF LabelOf
<1>8. l # "none"
  BY DEF Labels
<1> HIDE DEF latest
<1>9. CASE latest = {}
  BY <1>5, <1>7, <1>8, <1>9
<1>10. CASE latest # {}
  <2>1. (CHOOSE o \in latest : TRUE) \in newest
    BY <1>5, <1>10
  <2> QED BY <1>6, <1>7, <1>10, <2>1
<1> QED BY <1>9, <1>10

\* The report counts every mature decision once, under the label of its newest
\* outcome for the policy (reconciliation_source, calculate_report).
THEOREM ReportIsOfNewestLabels == ImportSpec => []ReportCountsNewestLabels
<1>1. ASSUME ImportInv PROVE ReportCountsNewestLabels
  <2> SUFFICES ASSUME NEW i \in Importers, NEW l \in Labels
               PROVE  Metrics(PolicyOf[i])[l] =
                        Cardinality({d \in Mature(PolicyOf[i]) : \E r \in Newest(i, d) : r.label = l})
    BY DEF ReportCountsNewestLabels, Newest, Mine
  <2>1. Metrics(PolicyOf[i])[l] = Cardinality({d \in Mature(PolicyOf[i]) : LabelOf(PolicyOf[i], d) = l})
    BY DEF Metrics
  <2>2. \A d : LabelOf(PolicyOf[i], d) = l <=> \E r \in Newest(i, d) : r.label = l
    BY <1>1, LabelIsNewest
  <2>3. {d \in Mature(PolicyOf[i]) : LabelOf(PolicyOf[i], d) = l}
          = {d \in Mature(PolicyOf[i]) : \E r \in Newest(i, d) : r.label = l}
    BY <2>2
  <2> QED BY <2>1, <2>3
<1> QED BY <1>1, ImportInvariant, PTL

-----------------------------------------------------------------------------
(***************************************************************************)
(* Opening and upgrading the store.  The invariant ties what the holder of *)
(* the write lock has in its draft to the file it read under the lock, and *)
(* what every opener remembers of the file to how far it can have moved since.*)
(***************************************************************************)

NextRelease(s) == IF s = 0 THEN 2 ELSE s + 1

Changing == {"create", "copy", "check", "drop", "commit"}
InTransaction == {"probe again"} \cup Changing
Drafted == {"copy", "check", "drop", "commit"}

\* The write lock belongs to the opener in a transaction.
InOrder(o) == opener[o].at \in InTransaction <=> locked = o

\* What an opener read without the lock is no newer than the file.
Remembers(o) ==
  opener[o].at \in {"begin"} \cup InTransaction =>
    /\ opener[o].seen \in 0 .. Releases - 1
    /\ file.schema \in opener[o].seen .. Releases
    /\ opener[o].at \in Changing => file.schema = opener[o].seen

\* What the transaction has done so far to what the file holds.
Drafts(o) ==
  /\ opener[o].at \in Drafted => draft.schema = NextRelease(file.schema)
  /\ opener[o].at = "copy" => draft.rows = {} /\ draft.old = file.rows
  /\ opener[o].at \in {"check", "drop", "commit"} => draft.rows = file.rows
  /\ opener[o].at = "commit" => draft.old = {}

\* How an open may end, and the foreign keys on the way to it.
Ends(o) ==
  /\ opener[o].at \in {"probe", "open"} => opener[o].keys
  /\ opener[o].at \in {"open", "reading"} => file.schema = Releases
  /\ opener[o].at = "unsupported" => file.schema = Unknown
  /\ opener[o].at = "bad rows" => file.rows \cap (Loose \cup Orphans) # {}

Opening(o) == InOrder(o) /\ Remembers(o) /\ Drafts(o) /\ Ends(o)

SchemaInv == SchemaTypeOK /\ EveryRecordIsKept /\ \A o \in Openers : Opening(o)

OpenerStates == [at : OpenSteps, seen : Fingerprints, keys : BOOLEAN]

-----------------------------------------------------------------------------
LEMMA SchemaInitInv == SchemaInit => SchemaInv
<1> SUFFICES ASSUME SchemaInit PROVE SchemaInv
  OBVIOUS
<1>1. file \in Files /\ file.old = {} /\ draft = file /\ locked = Nobody /\ recorded = file.rows
  BY DEF SchemaInit
<1>2. file.rows \in SUBSET Records
  BY <1>1 DEF Files
<1>3. opener = [o \in Openers |-> [at |-> "closed", seen |-> 0, keys |-> FALSE]]
  BY DEF SchemaInit
<1>4. 0 \in Fingerprints /\ "closed" \in OpenSteps
  BY ReleasesAreNumbers DEF Fingerprints, OpenSteps
<1>5. SchemaTypeOK
  BY <1>1, <1>2, <1>3, <1>4 DEF SchemaTypeOK
<1>6. EveryRecordIsKept
  BY <1>1 DEF EveryRecordIsKept
<1>7. ASSUME NEW o \in Openers PROVE Opening(o)
  BY <1>1, <1>3, OthersAreOthers
     DEF Opening, InOrder, Remembers, Drafts, Ends, InTransaction, Changing, Drafted
<1> QED BY <1>5, <1>6, <1>7 DEF SchemaInv

\* A step of one opener that leaves the file as it is keeps the others' part of
\* the invariant if the lock is not theirs.
LEMMA OneOpenerMoves ==
  ASSUME SchemaInv, NEW o \in Openers, NEW s \in OpenerStates,
         opener' = [opener EXCEPT ![o] = s],
         UNCHANGED <<file, recorded>>, draft' \in Files,
         \/ locked' = locked /\ draft' = draft
         \/ locked' = locked /\ locked = o
         \/ locked = Nobody /\ locked' = o
         \/ locked = o /\ locked' = Nobody,
         Opening(o)'
  PROVE  SchemaInv'
<1>1. /\ opener' \in [Openers -> OpenerStates]
      /\ \A q \in Openers : q # o => opener'[q] = opener[q]
  BY DEF SchemaInv, SchemaTypeOK, OpenerStates
<1>2. SchemaTypeOK' /\ EveryRecordIsKept'
  BY <1>1 DEF SchemaInv, SchemaTypeOK, EveryRecordIsKept, OpenerStates
<1>3. ASSUME NEW q \in Openers, q # o PROVE Opening(q)'
  <2>1. Opening(q) /\ Nobody \notin Openers
    BY OthersAreOthers DEF SchemaInv
  <2>2. Remembers(q)' /\ Ends(q)'
    BY <1>1, <1>3, <2>1 DEF Opening, Remembers, Ends
  <2>3. InOrder(q)'
    BY <1>1, <1>3, <2>1 DEF Opening, InOrder
  <2>4. Drafts(q)'
    <3>1. CASE draft' = draft
      BY <1>1, <1>3, <2>1, <3>1 DEF Opening, Drafts
    <3>2. CASE locked # q
      BY <1>1, <1>3, <2>1, <3>2
         DEF Opening, InOrder, Drafts, InTransaction, Changing, Drafted
    <3> QED BY <1>3, <2>1, <3>1, <3>2
  <2> QED BY <2>2, <2>3, <2>4 DEF Opening
<1> QED BY <1>2, <1>3 DEF SchemaInv

-----------------------------------------------------------------------------
(* Steps.                                                                  *)

\* What every step may use of the state it starts in.
LEMMA InvFacts ==
  ASSUME SchemaInv, NEW o \in Openers
  PROVE  /\ opener[o] \in OpenerStates
         /\ file \in Files /\ draft \in Files /\ locked \in Openers \cup {Nobody}
         /\ file.old = {} /\ recorded = file.rows
         /\ InOrder(o) /\ Remembers(o) /\ Drafts(o) /\ Ends(o)
         /\ \A x, y : /\ [opener EXCEPT ![o].at = x] = [opener EXCEPT ![o] = [opener[o] EXCEPT !.at = x]]
                      /\ [opener EXCEPT ![o].at = x, ![o].keys = y]
                           = [opener EXCEPT ![o] = [opener[o] EXCEPT !.at = x, !.keys = y]]
BY DEF SchemaInv, SchemaTypeOK, OpenerStates, EveryRecordIsKept, Opening

LEMMA StepsBeforeTheLock ==
  ASSUME SchemaInv, NEW o \in Openers,
         Open(o) \/ Probe(o) \/ BeginTimesOut(o) \/ OpenReadOnly(o)
  PROVE  SchemaInv'
<1> DEFINE c == opener[o]
<1>1. /\ c \in OpenerStates /\ InOrder(o) /\ Remembers(o) /\ Drafts(o) /\ Ends(o)
      /\ file \in Files /\ draft \in Files
  BY InvFacts
<1>2. CASE Open(o)
  <2> DEFINE s == [at |-> "probe", seen |-> 0, keys |-> TRUE]
  <2>1. s \in OpenerStates
    BY ReleasesAreNumbers DEF OpenerStates, OpenSteps, Fingerprints
  <2>2. opener' = [opener EXCEPT ![o] = s] /\ opener'[o].at = "probe" /\ opener'[o].keys
    BY <1>2 DEF Open, SchemaInv, SchemaTypeOK
  <2>3. Opening(o)'
    BY <1>1, <1>2, <2>2
       DEF Open, Opening, InOrder, Remembers, Drafts, Ends, InTransaction, Changing, Drafted
  <2> QED BY <1>1, <1>2, <2>1, <2>2, <2>3, OneOpenerMoves DEF Open
<1>3. CASE Probe(o)
  <2> DEFINE s == [at |-> IF file.schema = Releases THEN "open"
                          ELSE IF file.schema = Unknown THEN "unsupported" ELSE "begin",
                   seen |-> file.schema,
                   keys |-> c.keys /\ file.schema \notin Rebuilds]
  <2>1. file.schema \in Fingerprints
    BY <1>1 DEF Files
  <2>2. s \in OpenerStates
    BY <1>1, <2>1 DEF OpenerStates, OpenSteps
  <2>3. /\ opener' = [opener EXCEPT ![o] = s]
        /\ opener'[o].at = s.at /\ opener'[o].seen = file.schema
        /\ opener'[o].keys = (c.keys /\ file.schema \notin Rebuilds)
    BY <1>3 DEF Probe, SchemaInv, SchemaTypeOK
  <2>4. file.schema \notin {Releases, Unknown} =>
          file.schema \in 0 .. Releases - 1 /\ file.schema \in file.schema .. Releases
    BY <2>1, ReleasesAreNumbers DEF Fingerprints
  <2>5. file.schema = Releases => opener'[o].keys
    <3>1. c.keys
      BY <1>1, <1>3 DEF Probe, Ends
    <3>2. Releases \notin Rebuilds
      BY ReleasesAreNumbers
    <3> QED BY <2>3, <3>1, <3>2
  <2>6. UNCHANGED <<file, draft, locked, recorded>> /\ c.at = "probe"
    BY <1>3 DEF Probe
  <2>7. CASE file.schema = Releases
    <3>1. opener'[o].at = "open"
      BY <2>3, <2>7
    <3>2. Opening(o)'
      BY <1>1, <2>5, <2>6, <2>7, <3>1
         DEF Opening, InOrder, Remembers, Drafts, Ends, InTransaction, Changing, Drafted
    <3> QED BY <1>1, <2>2, <2>3, <2>6, <3>2, OneOpenerMoves
  <2>8. CASE file.schema = Unknown /\ file.schema # Releases
    <3>1. opener'[o].at = "unsupported"
      BY <2>3, <2>8
    <3>2. Opening(o)'
      BY <1>1, <2>6, <2>8, <3>1
         DEF Opening, InOrder, Remembers, Drafts, Ends, InTransaction, Changing, Drafted
    <3> QED BY <1>1, <2>2, <2>3, <2>6, <3>2, OneOpenerMoves
  <2>9. CASE file.schema \notin {Releases, Unknown}
    <3>1. opener'[o].at = "begin"
      BY <2>3, <2>9
    <3>2. Opening(o)'
      BY <1>1, <2>3, <2>4, <2>6, <2>9, <3>1
         DEF Opening, InOrder, Remembers, Drafts, Ends, InTransaction, Changing, Drafted
    <3> QED BY <1>1, <2>2, <2>3, <2>6, <3>2, OneOpenerMoves
  <2> QED BY <2>7, <2>8, <2>9
<1>4. CASE BeginTimesOut(o)
  <2> DEFINE s == [c EXCEPT !.at = "busy", !.keys = TRUE]
  <2>1. s \in OpenerStates
    BY <1>1 DEF OpenerStates, OpenSteps
  <2>2. opener' = [opener EXCEPT ![o] = s] /\ opener'[o] = s /\ s.at = "busy"
    BY <1>1, <1>4 DEF BeginTimesOut, Leaves, SchemaInv, SchemaTypeOK, OpenerStates
  <2>3. Opening(o)'
    BY <1>1, <1>4, <2>2
       DEF BeginTimesOut, Opening, InOrder, Remembers, Drafts, Ends, InTransaction, Changing, Drafted
  <2> QED BY <1>1, <1>4, <2>1, <2>2, <2>3, OneOpenerMoves DEF BeginTimesOut
<1>5. CASE OpenReadOnly(o)
  <2> DEFINE s == [c EXCEPT !.at = IF file.schema = Releases THEN "reading" ELSE "refused"]
  <2>1. s \in OpenerStates
    BY <1>1 DEF OpenerStates, OpenSteps
  <2>2. opener' = [opener EXCEPT ![o] = s] /\ opener'[o] = s
        /\ s.at = (IF file.schema = Releases THEN "reading" ELSE "refused")
    BY <1>1, <1>5 DEF OpenReadOnly, MovesTo, SchemaInv, SchemaTypeOK, OpenerStates
  <2>3. UNCHANGED <<file, draft, locked, recorded>> /\ c.at = "closed"
    BY <1>5 DEF OpenReadOnly
  <2>4. CASE file.schema = Releases
    <3>1. opener'[o].at = "reading"
      BY <2>2, <2>4
    <3>2. Opening(o)'
      BY <1>1, <2>3, <2>4, <3>1
         DEF Opening, InOrder, Remembers, Drafts, Ends, InTransaction, Changing, Drafted
    <3> QED BY <1>1, <2>1, <2>2, <2>3, <3>2, OneOpenerMoves
  <2>5. CASE file.schema # Releases
    <3>1. opener'[o].at = "refused"
      BY <2>2, <2>5
    <3>2. Opening(o)'
      BY <1>1, <2>3, <3>1
         DEF Opening, InOrder, Remembers, Drafts, Ends, InTransaction, Changing, Drafted
    <3> QED BY <1>1, <2>1, <2>2, <2>3, <3>2, OneOpenerMoves
  <2> QED BY <2>4, <2>5
<1> QED BY <1>2, <1>3, <1>4, <1>5

\* The steps of a transaction up to its end, but for Commit.
LEMMA StepsUnderTheLock ==
  ASSUME SchemaInv, NEW o \in Openers,
         \/ Begin(o) \/ ProbeAgain(o) \/ Create(o) \/ Copy(o) \/ ForeignKeyCheck(o) \/ Drop(o)
         \/ MigrationFails(o) \/ OpenerKilled(o)
  PROVE  SchemaInv'
<1> DEFINE c == opener[o]
           To(x) == [c EXCEPT !.at = x]
           Left(x) == [c EXCEPT !.at = x, !.keys = TRUE]
<1>1. /\ c \in OpenerStates /\ InOrder(o) /\ Remembers(o) /\ Drafts(o) /\ Ends(o)
      /\ file \in Files /\ draft \in Files /\ file.old = {}
  BY InvFacts
<1>2. /\ opener \in [Openers -> OpenerStates]
      /\ \A s : [opener EXCEPT ![o] = s][o] = s
  BY DEF SchemaInv, SchemaTypeOK, OpenerStates
<1>3. \A x \in OpenSteps : /\ To(x) \in OpenerStates /\ To(x).at = x /\ To(x).seen = c.seen
                           /\ Left(x) \in OpenerStates /\ Left(x).at = x /\ Left(x).seen = c.seen
                           /\ Left(x).keys
  BY <1>1 DEF OpenerStates
<1>4. \A x : /\ MovesTo(o, x) <=> opener' = [opener EXCEPT ![o] = To(x)]
             /\ Leaves(o, x) <=> opener' = [opener EXCEPT ![o] = Left(x)]
  BY DEF MovesTo, Leaves
<1>5. locked = o => (Unlocks(o) => locked' = Nobody)
  BY DEF Unlocks
<1> HIDE DEF To, Left
<1>6. CASE Begin(o)
  <2>1. opener' = [opener EXCEPT ![o] = To("probe again")] /\ opener'[o] = To("probe again")
    BY <1>2, <1>4, <1>6 DEF Begin
  <2>2. /\ opener'[o].at = "probe again" /\ opener'[o].seen = c.seen /\ To("probe again") \in OpenerStates
    BY <1>3, <2>1 DEF OpenSteps
  <2>3. c.at = "begin" /\ locked = Nobody /\ locked' = o /\ draft' = file /\ UNCHANGED <<file, recorded>>
    BY <1>6 DEF Begin
  <2>4. Opening(o)'
    BY <1>1, <2>2, <2>3
       DEF Opening, InOrder, Remembers, Drafts, Ends, InTransaction, Changing, Drafted
  <2> QED BY <1>1, <2>1, <2>2, <2>3, <2>4, OneOpenerMoves
<1>7. CASE ProbeAgain(o)
  <2>1. c.at = "probe again" /\ locked = o /\ UNCHANGED <<file, draft, recorded>>
    BY <1>1, <1>7 DEF ProbeAgain, InOrder, InTransaction
  <2>2. CASE file.schema = c.seen
    <3>1. opener' = [opener EXCEPT ![o] = To("create")] /\ opener'[o] = To("create") /\ locked' = locked
      BY <1>2, <1>4, <1>7, <2>2 DEF ProbeAgain
    <3>2. /\ opener'[o].at = "create" /\ opener'[o].seen = c.seen /\ To("create") \in OpenerStates
      BY <1>3, <3>1 DEF OpenSteps
    <3>3. Opening(o)'
      BY <1>1, <2>1, <2>2, <3>1, <3>2
         DEF Opening, InOrder, Remembers, Drafts, Ends, InTransaction, Changing, Drafted
    <3> QED BY <1>1, <2>1, <3>1, <3>2, <3>3, OneOpenerMoves
  <2>3. CASE file.schema # c.seen
    <3>1. file.schema \in c.seen + 1 .. Releases
      <4>1. c.seen \in 0 .. Releases - 1 /\ file.schema \in c.seen .. Releases
        BY <1>1, <2>1 DEF Remembers, InTransaction
      <4> QED BY <2>3, <4>1, ReleasesAreNumbers
    <3>2. opener' = [opener EXCEPT ![o] = Left("probe")] /\ opener'[o] = Left("probe")
          /\ locked' = Nobody
      BY <1>2, <1>4, <1>5, <1>7, <2>1, <2>3, <3>1 DEF ProbeAgain
    <3>3. opener'[o].at = "probe" /\ opener'[o].keys /\ Left("probe") \in OpenerStates
      BY <1>3, <3>2 DEF OpenSteps
    <3>4. Opening(o)'
      BY <1>1, <2>1, <3>2, <3>3, OthersAreOthers
         DEF Opening, InOrder, Remembers, Drafts, Ends, InTransaction, Changing, Drafted
    <3> QED BY <1>1, <2>1, <3>2, <3>3, <3>4, OneOpenerMoves
  <2> QED BY <2>2, <2>3
<1>8. CASE Create(o)
  <2> DEFINE d == [schema |-> NextRelease(c.seen),
                   rows |-> IF c.seen \in Rebuilds THEN {} ELSE file.rows,
                   old |-> IF c.seen \in Rebuilds THEN file.rows ELSE {}]
             next == IF c.seen \in Rebuilds THEN "copy" ELSE "commit"
  <2>1. c.at = "create" /\ locked = o /\ UNCHANGED <<file, locked, recorded>> /\ draft' = d
    BY <1>1, <1>8 DEF Create, InOrder, InTransaction, Changing, NextRelease
  <2>2. c.seen \in 0 .. Releases - 1 /\ file.schema = c.seen
    BY <1>1, <2>1 DEF Remembers, InTransaction, Changing
  <2>3. NextRelease(c.seen) \in Fingerprints
    BY <2>2, ReleasesAreNumbers DEF NextRelease, Fingerprints
  <2>4. d \in Files
    BY <1>1, <2>3 DEF Files
  <2>5. opener' = [opener EXCEPT ![o] = To(next)] /\ opener'[o] = To(next)
    BY <1>2, <1>4, <1>8 DEF Create
  <2>6. opener'[o].at = next /\ opener'[o].seen = c.seen /\ To(next) \in OpenerStates
    <3>1. next \in OpenSteps
      BY DEF OpenSteps
    <3> HIDE DEF next
    <3> QED BY <1>3, <2>5, <3>1
  <2>7. d.schema = NextRelease(c.seen)
    OBVIOUS
  <2>8. CASE c.seen \in Rebuilds
    <3>1. d.rows = {} /\ d.old = file.rows /\ next = "copy"
      BY <2>8
    <3> HIDE DEF d, next
    <3>2. Opening(o)'
      BY <1>1, <2>1, <2>2, <2>6, <2>7, <3>1
         DEF Opening, InOrder, Remembers, Drafts, Ends, InTransaction, Changing, Drafted
    <3> QED BY <1>1, <2>1, <2>4, <2>5, <2>6, <3>2, OneOpenerMoves
  <2>9. CASE c.seen \notin Rebuilds
    <3>1. d.rows = file.rows /\ d.old = {} /\ next = "commit"
      BY <2>9
    <3> HIDE DEF d, next
    <3>2. Opening(o)'
      BY <1>1, <2>1, <2>2, <2>6, <2>7, <3>1
         DEF Opening, InOrder, Remembers, Drafts, Ends, InTransaction, Changing, Drafted
    <3> QED BY <1>1, <2>1, <2>4, <2>5, <2>6, <3>2, OneOpenerMoves
  <2> QED BY <2>8, <2>9
<1>9. CASE Copy(o)
  <2>1. /\ c.at = "copy" /\ locked = o /\ UNCHANGED <<file, locked, recorded>>
        /\ draft' = [draft EXCEPT !.rows = @ \cup draft.old]
        /\ opener' = [opener EXCEPT ![o] = To("check")]
    BY <1>1, <1>4, <1>9 DEF Copy, InOrder, InTransaction, Changing
  <2>2. /\ draft' \in Files /\ draft'.schema = draft.schema
        /\ draft'.rows = file.rows
    BY <1>1, <2>1 DEF Files, Drafts
  <2>3. opener'[o].at = "check" /\ opener'[o].seen = c.seen /\ To("check") \in OpenerStates
    BY <1>2, <1>3, <2>1 DEF OpenSteps
  <2>4. Opening(o)'
    BY <1>1, <2>1, <2>2, <2>3
       DEF Opening, InOrder, Remembers, Drafts, Ends, InTransaction, Changing, Drafted
  <2> QED BY <1>1, <2>1, <2>2, <2>3, <2>4, OneOpenerMoves
<1>10. CASE ForeignKeyCheck(o)
  <2>1. /\ c.at = "check" /\ locked = o /\ UNCHANGED <<file, draft, locked, recorded>>
        /\ opener' = [opener EXCEPT ![o] = To("drop")]
    BY <1>1, <1>4, <1>10 DEF ForeignKeyCheck, InOrder, InTransaction, Changing
  <2>2. opener'[o].at = "drop" /\ opener'[o].seen = c.seen /\ To("drop") \in OpenerStates
    BY <1>2, <1>3, <2>1 DEF OpenSteps
  <2>3. Opening(o)'
    BY <1>1, <2>1, <2>2
       DEF Opening, InOrder, Remembers, Drafts, Ends, InTransaction, Changing, Drafted
  <2> QED BY <1>1, <2>1, <2>2, <2>3, OneOpenerMoves
<1>11. CASE Drop(o)
  <2>1. /\ c.at = "drop" /\ locked = o /\ UNCHANGED <<file, locked, recorded>>
        /\ draft' = [draft EXCEPT !.old = {}]
        /\ opener' = [opener EXCEPT ![o] = To("commit")]
    BY <1>1, <1>4, <1>11 DEF Drop, InOrder, InTransaction, Changing
  <2>2. /\ draft' \in Files /\ draft'.schema = draft.schema
        /\ draft'.rows = draft.rows /\ draft'.old = {}
    BY <1>1, <2>1 DEF Files
  <2>3. opener'[o].at = "commit" /\ opener'[o].seen = c.seen /\ To("commit") \in OpenerStates
    BY <1>2, <1>3, <2>1 DEF OpenSteps
  <2>4. Opening(o)'
    BY <1>1, <2>1, <2>2, <2>3
       DEF Opening, InOrder, Remembers, Drafts, Ends, InTransaction, Changing, Drafted
  <2> QED BY <1>1, <2>1, <2>2, <2>3, <2>4, OneOpenerMoves
<1>12. CASE MigrationFails(o)
  <2>1. /\ c.at \in {"copy", "check"} /\ locked = o /\ UNCHANGED <<file, draft, recorded>>
        /\ opener' = [opener EXCEPT ![o] = Left("bad rows")] /\ locked' = Nobody
    BY <1>1, <1>4, <1>5, <1>12 DEF MigrationFails, InOrder, InTransaction, Changing
  <2>2. opener'[o].at = "bad rows" /\ Left("bad rows") \in OpenerStates
    BY <1>2, <1>3, <2>1 DEF OpenSteps
  <2>3. file.rows \cap (Loose \cup Orphans) # {}
    BY <1>1, <1>12 DEF MigrationFails, Drafts
  <2>4. Opening(o)'
    BY <1>1, <2>1, <2>2, <2>3, OthersAreOthers
       DEF Opening, InOrder, Remembers, Drafts, Ends, InTransaction, Changing, Drafted
  <2> QED BY <1>1, <2>1, <2>2, <2>4, OneOpenerMoves
<1>13. CASE OpenerKilled(o)
  <2> DEFINE s == [at |-> "closed", seen |-> 0, keys |-> FALSE]
  <2>1. /\ s \in OpenerStates
    BY ReleasesAreNumbers DEF OpenerStates, OpenSteps, Fingerprints
  <2>2. /\ UNCHANGED <<file, draft, recorded>> /\ opener' = [opener EXCEPT ![o] = s]
        /\ locked' = IF locked = o THEN Nobody ELSE locked
    BY <1>13 DEF OpenerKilled, Unlocks
  <2>3. opener'[o].at = "closed"
    BY <1>2, <2>2
  <2>4. Opening(o)'
    BY <1>1, <2>2, <2>3, OthersAreOthers
       DEF Opening, InOrder, Remembers, Drafts, Ends, InTransaction, Changing, Drafted
  <2> QED BY <1>1, <2>1, <2>2, <2>4, OneOpenerMoves
<1> QED BY <1>6, <1>7, <1>8, <1>9, <1>10, <1>11, <1>12, <1>13

\* Commit moves the file to the next release and leaves its rows as they are.
LEMMA CommitStep ==
  ASSUME SchemaInv, NEW o \in Openers, Commit(o)
  PROVE  SchemaInv' /\ file'.schema = NextRelease(file.schema)
<1> DEFINE c == opener[o]
           s == [c EXCEPT !.at = "probe", !.keys = TRUE]
<1>1. /\ c \in OpenerStates /\ InOrder(o) /\ Remembers(o) /\ Drafts(o)
      /\ file \in Files /\ draft \in Files /\ recorded = file.rows /\ file.old = {}
  BY InvFacts
<1>2. /\ c.at = "commit" /\ locked = o /\ file' = draft /\ locked' = Nobody
      /\ UNCHANGED <<draft, recorded>> /\ opener' = [opener EXCEPT ![o] = s]
  BY <1>1 DEF Commit, Leaves, InOrder, InTransaction, Changing
<1>3. /\ draft.schema = NextRelease(file.schema) /\ draft.rows = file.rows /\ draft.old = {}
      /\ file.schema \in 0 .. Releases - 1
  BY <1>1, <1>2 DEF Remembers, Drafts, InTransaction, Changing, Drafted
<1>4. /\ s \in OpenerStates /\ s.at = "probe" /\ s.keys
  BY <1>1 DEF OpenerStates, OpenSteps
<1>5. /\ opener' \in [Openers -> OpenerStates] /\ opener'[o] = s
      /\ \A q \in Openers : q # o => opener'[q] = opener[q]
  BY <1>2, <1>4 DEF SchemaInv, SchemaTypeOK, OpenerStates
<1>6. SchemaTypeOK' /\ EveryRecordIsKept'
  BY <1>1, <1>2, <1>3, <1>5 DEF SchemaTypeOK, EveryRecordIsKept, SchemaInv, OpenerStates
<1>7. /\ file.schema # Releases /\ file.schema # Unknown
      /\ NextRelease(file.schema) \in file.schema .. Releases
  BY <1>3, ReleasesAreNumbers, OthersAreOthers DEF NextRelease
<1> HIDE DEF s
<1>8. Opening(o)'
  BY <1>2, <1>4, <1>5, OthersAreOthers
     DEF Opening, InOrder, Remembers, Drafts, Ends, InTransaction, Changing, Drafted
<1>9. ASSUME NEW q \in Openers, q # o PROVE Opening(q)'
  <2>1. Opening(q) /\ opener'[q] = opener[q]
    BY <1>5, <1>9 DEF SchemaInv
  <2>2. opener[q].at \notin InTransaction
    BY <1>2, <1>9, <2>1 DEF Opening, InOrder
  <2>3. InOrder(q)' /\ Drafts(q)'
    BY <1>2, <2>1, <2>2, OthersAreOthers DEF InOrder, Drafts, InTransaction, Changing, Drafted
  <2>4. Remembers(q)'
    <3> SUFFICES ASSUME opener[q].at = "begin"
                 PROVE  /\ opener[q].seen \in 0 .. Releases - 1
                        /\ draft.schema \in opener[q].seen .. Releases
      BY <1>2, <2>1, <2>2 DEF Remembers, InTransaction
    <3>1. opener[q].seen \in 0 .. Releases - 1 /\ file.schema \in opener[q].seen .. Releases
      BY <2>1 DEF Opening, Remembers
    <3> QED BY <1>3, <1>7, <3>1, ReleasesAreNumbers
  <2>5. Ends(q)'
    <3>1. Ends(q)
      BY <2>1 DEF Opening
    <3>2. opener[q].at \notin {"open", "reading", "unsupported"}
      BY <1>7, <3>1 DEF Ends
    <3> QED BY <1>2, <1>3, <2>1, <3>1, <3>2 DEF Ends
  <2> QED BY <2>3, <2>4, <2>5 DEF Opening
<1> QED BY <1>2, <1>3, <1>6, <1>8, <1>9 DEF SchemaInv

\* A write adds a record and changes nothing else.
LEMMA WriteStep ==
  ASSUME SchemaInv, NEW o \in Openers, NEW r \in Records, Write(o, r)
  PROVE  SchemaInv' /\ file'.schema = file.schema
<1>1. /\ file \in Files /\ recorded = file.rows /\ file.old = {} /\ recorded \subseteq Records
  BY InvFacts DEF Files
<1>2. /\ file' = [file EXCEPT !.rows = @ \cup {r}] /\ recorded' = recorded \cup {r}
      /\ UNCHANGED <<draft, locked, opener>> /\ locked = Nobody
  BY DEF Write
<1>3. /\ file' \in Files /\ file'.schema = file.schema /\ file'.old = {}
      /\ file'.rows = file.rows \cup {r}
  BY <1>1, <1>2 DEF Files
<1>4. SchemaTypeOK' /\ EveryRecordIsKept'
  BY <1>1, <1>2, <1>3 DEF SchemaInv, SchemaTypeOK, EveryRecordIsKept
<1>5. ASSUME NEW q \in Openers PROVE Opening(q)'
  <2>1. Opening(q) /\ opener[q].at \notin InTransaction
    BY <1>2, <1>5, OthersAreOthers DEF SchemaInv, Opening, InOrder
  <2>2. InOrder(q)' /\ Remembers(q)'
    BY <1>2, <1>3, <2>1 DEF Opening, InOrder, Remembers
  <2>3. Drafts(q)'
    BY <1>2, <2>1 DEF Drafts, InTransaction, Changing, Drafted
  <2>4. Ends(q)'
    <3>1. Ends(q)
      BY <2>1 DEF Opening
    <3> QED BY <1>2, <1>3, <3>1 DEF Ends
  <2> QED BY <2>2, <2>3, <2>4 DEF Opening
<1> QED BY <1>3, <1>4, <1>5 DEF SchemaInv

\* Every step keeps the invariant and moves the schema by one release at most.
LEMMA SchemaStep ==
  ASSUME SchemaInv, [SchemaNext]_schemaVars
  PROVE  /\ SchemaInv'
         /\ file'.schema = file.schema \/ file'.schema = NextRelease(file.schema)
<1>1. CASE UNCHANGED schemaVars
  <2>1. SchemaTypeOK' /\ EveryRecordIsKept'
    BY <1>1 DEF schemaVars, SchemaInv, SchemaTypeOK, EveryRecordIsKept
  <2>2. ASSUME NEW q \in Openers PROVE Opening(q)'
    BY <1>1, <2>2 DEF schemaVars, SchemaInv, Opening, InOrder, Remembers, Drafts, Ends
  <2> QED BY <1>1, <2>1, <2>2 DEF schemaVars, SchemaInv
<1>2. ASSUME NEW o \in Openers,
             \/ Open(o) \/ Probe(o) \/ Begin(o) \/ BeginTimesOut(o) \/ ProbeAgain(o)
             \/ Create(o) \/ Copy(o) \/ ForeignKeyCheck(o) \/ Drop(o)
             \/ MigrationFails(o) \/ OpenerKilled(o) \/ OpenReadOnly(o)
      PROVE  SchemaInv' /\ file' = file
  BY <1>2, StepsBeforeTheLock, StepsUnderTheLock
     DEF Open, Probe, Begin, BeginTimesOut, ProbeAgain, Create, Copy, ForeignKeyCheck, Drop,
         MigrationFails, OpenerKilled, OpenReadOnly
<1>3. ASSUME NEW o \in Openers, Commit(o) \/ \E r \in Records : Write(o, r)
      PROVE  SchemaInv' /\ (file'.schema = file.schema \/ file'.schema = NextRelease(file.schema))
  BY <1>3, CommitStep, WriteStep
<1> QED BY <1>1, <1>2, <1>3 DEF SchemaNext

-----------------------------------------------------------------------------
(* Theorems.                                                               *)

\* Whatever number of processes opens, upgrades, reads and writes the file, no
\* record is lost and no half-finished rebuild is committed.
THEOREM EveryRecordIsKeptHolds == SchemaSpec => []EveryRecordIsKept
<1>1. SchemaInv /\ [SchemaNext]_schemaVars => SchemaInv'
  BY SchemaStep
<1>2. SchemaInv => EveryRecordIsKept
  BY DEF SchemaInv
<1> QED BY SchemaInitInv, <1>1, <1>2, PTL DEF SchemaSpec

\* The committed schema moves only to the next release, whichever opener wins.
THEOREM SchemaOnlyAdvancesHolds == SchemaSpec => SchemaOnlyAdvances
<1>1. SchemaInv /\ [SchemaNext]_schemaVars => SchemaInv'
  BY SchemaStep
<1>2. SchemaInv /\ [SchemaNext]_schemaVars =>
        [file'.schema = file.schema
           \/ file'.schema = (IF file.schema = 0 THEN 2 ELSE file.schema + 1)]_schemaVars
  BY SchemaStep DEF NextRelease
<1> QED BY SchemaInitInv, <1>1, <1>2, PTL DEF SchemaSpec, SchemaOnlyAdvances

\* An open succeeds on the current schema with foreign keys on, and fails only
\* for a schema or rows that deserve it.
THEOREM OpensEndRightHolds == SchemaSpec => []OpensEndRight
<1>1. SchemaInv /\ [SchemaNext]_schemaVars => SchemaInv'
  BY SchemaStep
<1>2. SchemaInv => OpensEndRight
  BY DEF SchemaInv, Opening, Ends, OpensEndRight, OpenedIsCurrent, FailuresAreDeserved
<1> QED BY SchemaInitInv, <1>1, <1>2, PTL DEF SchemaSpec

-----------------------------------------------------------------------------
(* The three together.                                                     *)

\* Each component's tables are its own, so that whatever the others do, it
\* behaves as it does alone.
THEOREM HistoriesAreIndependent == Spec => LedgerSpec /\ ImportSpec /\ SchemaSpec
<1>1. Init => LedgerInit /\ ImportInit /\ SchemaInit
  BY DEF Init
<1>2. ASSUME [Next]_historyVars
      PROVE  [LedgerNext]_ledgerVars /\ [ImportNext]_importVars /\ [SchemaNext]_schemaVars
  <2>1. CASE UNCHANGED historyVars
    BY <2>1 DEF historyVars, ledgerVars, importVars, schemaVars
  <2>2. CASE LedgerNext /\ UNCHANGED <<importVars, schemaVars, part>>
    BY <2>2 DEF importVars, schemaVars
  <2>3. CASE ImportNext /\ UNCHANGED <<ledgerVars, schemaVars, part>>
    BY <2>3 DEF ledgerVars, schemaVars
  <2>4. CASE SchemaNext /\ UNCHANGED <<ledgerVars, importVars, part>>
    BY <2>4 DEF ledgerVars, importVars
  <2> QED BY <1>2, <2>1, <2>2, <2>3, <2>4 DEF Next
<1> QED BY <1>1, <1>2, PTL DEF Spec, LedgerSpec, ImportSpec, SchemaSpec

\* Every table, file and command of the store keeps its type while the
\* components work.
THEOREM HistoriesTypeCorrect == Spec => []HistoriesTypeOK
<1>1. LedgerSpec => []LedgerTypeOK
  <2>1. LedgerInv => LedgerTypeOK
    BY DEF LedgerInv
  <2> QED BY <2>1, LedgerInvariant, PTL
<1>2. ImportSpec => []ImportTypeOK
  BY ImportTypeCorrect
<1>3. SchemaSpec => []SchemaTypeOK
  <2>1. SchemaInv /\ [SchemaNext]_schemaVars => SchemaInv'
    BY SchemaStep
  <2>2. SchemaInv => SchemaTypeOK
    BY DEF SchemaInv
  <2> QED BY SchemaInitInv, <2>1, <2>2, PTL DEF SchemaSpec
<1>4. LedgerTypeOK /\ ImportTypeOK /\ SchemaTypeOK => HistoriesTypeOK
  BY DEF HistoriesTypeOK
<1> QED BY HistoriesAreIndependent, <1>1, <1>2, <1>3, <1>4, PTL
=============================================================================
