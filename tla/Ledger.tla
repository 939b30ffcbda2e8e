------------------------------- MODULE Ledger -------------------------------
(***************************************************************************)
(* The append-only histories of the store: override actions and feedback   *)
(* of the planner's web forms, and the drift baselines and runs of the     *)
(* command line.  Every thread works through a connection of its own, so   *)
(* the operation lock of a connection orders nothing between threads: what *)
(* orders them is SQLite's write lock, `writer', and the moment at which   *)
(* each operation takes it.  record_override and record_drift_baseline     *)
(* take it before they read (BEGIN IMMEDIATE); record_feedback reads its   *)
(* idempotency key first and takes it for the INSERT.                      *)
(***************************************************************************)
EXTENDS Naturals, FiniteSets

CONSTANTS
  Threads,      \* request threads of the server and command-line processes
  Decisions,    \* decision ids a form may name
  Stored,       \* those the store holds
  Policies,     \* drift policy hashes of one agent
  Keys,         \* idempotency keys: one per rendered form
  Values,       \* what a form says: all the fields a replay compares
  Compared,     \* Compared[v]: what Python's == sees of v (true, 1 and 1.0 are one)
  RowIds,       \* ULIDs; the bound on the rows of one behaviour
  NoRow         \* no row: an empty history, a first row's predecessor

ASSUME NoRowIsNoRow == NoRow \notin RowIds \cup Threads
ASSUME ValuesAreActions == Values \cap {"none", "inconsistent"} = {}

VARIABLES
  overrides,    \* rows [id, on, key, value, supersedes]
  feedback,     \* rows [id, on, key, value]
  baselines,    \* rows [id, on, supersedes], `on' a policy
  driftRuns,    \* rows [baseline, policy]
  writer,       \* the connection that holds the write lock, or NoRow
  work          \* work[t] = [at, form, row, result]

ledgerVars == <<overrides, feedback, baselines, driftRuns, writer, work>>

Forms ==
  [table : {"overrides", "feedback"}, on : Decisions, key : Keys, value : Values]
    \cup [table : {"baselines"}, on : Policies, supersede : BOOLEAN]
    \cup [table : {"driftRuns"}, on : Policies]

Steps == {"idle", "lock", "look", "insert", "look any"}
Results == {"none", "saved", "refused", "retry", "not found",
            "not created", "policy changed"}
Rest == [at |-> "idle", form |-> NoRow, row |-> NoRow, result |-> "none"]

LedgerInit ==
  /\ overrides = {} /\ feedback = {} /\ baselines = {} /\ driftRuns = {}
  /\ writer = NoRow
  /\ work = [t \in Threads |-> Rest]

Rows(table, s) == {r \in table : r.on = s}

\* The rows of one history that no row of the same history supersedes.
Heads(table, s) ==
  {r \in Rows(table, s) : \A c \in Rows(table, s) : c.supersedes # r.id}

UsedIds == {r.id : r \in overrides \cup feedback \cup baselines}
RoomForRow ==
  Cardinality(UsedIds) + Cardinality({t \in Threads : work[t].at # "idle"})
    < Cardinality(RowIds)

Goto(t, step, row) == work' = [work EXCEPT ![t].at = step, ![t].row = row]
Answer(t, result) ==
  work' = [work EXCEPT ![t] =
    [Rest EXCEPT !.result = result,
       !.form = IF result \in {"saved", "refused"} THEN work[t].form ELSE NoRow]]

-----------------------------------------------------------------------------
(* Requests.                                                               *)

\* A form is posted, or posted again: a double click, a reload, a back button.
\* The handler answers 404 for a decision the store does not hold.
Post(t, f) ==
  /\ work[t].at = "idle"
  /\ RoomForRow
  /\ work' = [work EXCEPT ![t] =
       IF f.table \in {"overrides", "feedback"} /\ f.on \notin Stored
         THEN [Rest EXCEPT !.result = "not found"]
         ELSE [Rest EXCEPT !.form = f,
                 !.at = IF f.table \in {"overrides", "baselines"} THEN "lock" ELSE "look"]]
  /\ UNCHANGED <<overrides, feedback, baselines, driftRuns, writer>>

\* BEGIN takes no lock until the first write (the mutant of Lock).
LockDeferred(t) ==
  /\ work[t].at = "lock"
  /\ Goto(t, "look", NoRow)
  /\ writer' = t
  /\ UNCHANGED <<overrides, feedback, baselines, driftRuns>>

\* BEGIN IMMEDIATE.
Lock(t) ==
  /\ work[t].at = "lock"
  /\ writer = NoRow
  /\ writer' = t
  /\ Goto(t, "look", NoRow)
  /\ UNCHANGED <<overrides, feedback, baselines, driftRuns>>

\* The busy timeout passes while another connection holds the lock.
LockTimesOut(t) ==
  /\ work[t].at = "lock" \/ (work[t].at = "insert" /\ writer # t)
  /\ writer # NoRow
  /\ Answer(t, "retry")
  /\ UNCHANGED <<overrides, feedback, baselines, driftRuns, writer>>

\* Any failure inside the transaction rolls it back.
Rollback(t) ==
  /\ writer = t
  /\ writer' = NoRow
  /\ Answer(t, "retry")
  /\ UNCHANGED <<overrides, feedback, baselines, driftRuns>>

\* The key alone makes a replay (the mutant of Replayed).
ReplayedByKey(t, table) ==
  \E r \in table : r.key = work[t].form.key /\ Answer(t, "saved")

\* A row of the table under the form's key, answered as a replay or a conflict:
\* the parsed fields are compared, and the row keeps the first post's spelling.
Replayed(t, table) ==
  \E r \in table :
    /\ r.key = work[t].form.key
    /\ Answer(t, IF r.on = work[t].form.on /\ Compared[r.value] = Compared[work[t].form.value]
                   THEN "saved" ELSE "refused")

KeyIsNew(t, table) == \A r \in table : r.key # work[t].form.key

-----------------------------------------------------------------------------
(* record_override.                                                        *)

\* The rows of the form's own decision, and their only head.
Predecessor(table, s) == IF Rows(table, s) = {} THEN {NoRow} ELSE {h.id : h \in Heads(table, s)}

OneRow(p) == \E row \in p : p = {row}

LookOverride(t) ==
  /\ work[t].at = "look" /\ work[t].form.table = "overrides"
  /\ LET p == Predecessor(overrides, work[t].form.on) IN
     IF KeyIsNew(t, overrides) /\ OneRow(p)
       THEN (\E row \in p : Goto(t, "insert", row)) /\ UNCHANGED writer
       ELSE /\ IF KeyIsNew(t, overrides) THEN Answer(t, "refused") ELSE Replayed(t, overrides)
            /\ writer' = NoRow
  /\ UNCHANGED <<overrides, feedback, baselines, driftRuns>>

InsertOverride(t) ==
  /\ work[t].at = "insert" /\ work[t].form.table = "overrides"
  /\ KeyIsNew(t, overrides)
  /\ \E id \in RowIds \ UsedIds :
       overrides' = overrides \cup
         {[id |-> id, on |-> work[t].form.on, key |-> work[t].form.key,
           value |-> work[t].form.value, supersedes |-> work[t].row]}
  /\ writer' = NoRow
  /\ Answer(t, "saved")
  /\ UNCHANGED <<feedback, baselines, driftRuns>>

-----------------------------------------------------------------------------
(* record_feedback.                                                        *)

\* Python's sqlite3 begins a transaction at the INSERT: this read is outside it.
LookFeedback(t) ==
  /\ work[t].at = "look" /\ work[t].form.table = "feedback"
  /\ \/ Replayed(t, feedback)
     \/ KeyIsNew(t, feedback) /\ Goto(t, "insert", NoRow)
  /\ UNCHANGED <<overrides, feedback, baselines, driftRuns, writer>>

\* The INSERT takes the write lock and commits; the unique index on the key
\* refuses a row another connection inserted since the read.
InsertFeedback(t) ==
  /\ work[t].at = "insert" /\ work[t].form.table = "feedback"
  /\ writer = NoRow
  /\ \/ /\ KeyIsNew(t, feedback)
        /\ \E id \in RowIds \ UsedIds :
             feedback' = feedback \cup
               {[id |-> id, on |-> work[t].form.on, key |-> work[t].form.key,
                 value |-> work[t].form.value]}
        /\ Answer(t, "saved")
     \/ /\ ~KeyIsNew(t, feedback)
        /\ Answer(t, "refused")
        /\ UNCHANGED feedback
  /\ UNCHANGED <<overrides, baselines, driftRuns, writer>>

-----------------------------------------------------------------------------
(* record_drift_baseline and the drift report.                             *)

\* A history with a head is extended only with --supersede.
LookBaseline(t) ==
  /\ work[t].at = "look" /\ work[t].form.table = "baselines"
  /\ LET p == Predecessor(baselines, work[t].form.on) IN
     IF \/ ~OneRow(p)
        \/ p # {NoRow} /\ ~work[t].form.supersede
       THEN Answer(t, "refused") /\ writer' = NoRow
       ELSE (\E row \in p : Goto(t, "insert", row)) /\ UNCHANGED writer
  /\ UNCHANGED <<overrides, feedback, baselines, driftRuns>>

InsertBaseline(t) ==
  /\ work[t].at = "insert" /\ work[t].form.table = "baselines"
  /\ \A r \in baselines : work[t].row = NoRow \/ r.supersedes # work[t].row
  /\ \E id \in RowIds \ UsedIds :
       baselines' = baselines \cup
         {[id |-> id, on |-> work[t].form.on, supersedes |-> work[t].row]}
  /\ writer' = NoRow
  /\ Answer(t, "saved")
  /\ UNCHANGED <<overrides, feedback, driftRuns>>

\* run_live_drift_report reads the history of its policy; the run that cites
\* the baseline is inserted later, by a transaction of its own.
LookReport(t) ==
  /\ work[t].at = "look" /\ work[t].form.table = "driftRuns"
  /\ LET p == Predecessor(baselines, work[t].form.on) IN
     IF p = {NoRow} THEN Goto(t, "look any", NoRow)
     ELSE IF OneRow(p) THEN \E row \in p : Goto(t, "insert", row)
     ELSE Answer(t, "refused")
  /\ UNCHANGED <<overrides, feedback, baselines, driftRuns, writer>>

\* has_drift_baseline, read after the history was found empty.
LookAnyBaseline(t) ==
  /\ work[t].at = "look any"
  /\ Answer(t, IF baselines # {} THEN "policy changed" ELSE "not created")
  /\ UNCHANGED <<overrides, feedback, baselines, driftRuns, writer>>

InsertRun(t) ==
  /\ work[t].at = "insert" /\ work[t].form.table = "driftRuns"
  /\ writer = NoRow
  /\ \/ /\ \E b \in baselines : b.id = work[t].row /\ b.on = work[t].form.on
        /\ driftRuns' = driftRuns \cup {[baseline |-> work[t].row, policy |-> work[t].form.on]}
        /\ Answer(t, "saved")
     \/ /\ \A b \in baselines : b.id = work[t].row => b.on # work[t].form.on
        /\ Answer(t, "refused")
        /\ UNCHANGED driftRuns
  /\ UNCHANGED <<overrides, feedback, baselines, writer>>

-----------------------------------------------------------------------------
LedgerStep(t) ==
  \/ Lock(t) \/ LockTimesOut(t) \/ Rollback(t)
  \/ LookOverride(t) \/ InsertOverride(t)
  \/ LookFeedback(t) \/ InsertFeedback(t)
  \/ LookBaseline(t) \/ InsertBaseline(t)
  \/ LookReport(t) \/ LookAnyBaseline(t) \/ InsertRun(t)

LedgerNext == \E t \in Threads : LedgerStep(t) \/ \E f \in Forms : Post(t, f)

LedgerSpec == LedgerInit /\ [][LedgerNext]_ledgerVars
-----------------------------------------------------------------------------
(* Readers.                                                                *)

\* override_state in the queue's query: a child of any decision supersedes.
QueueStatus(d) ==
  LET free == {o \in Rows(overrides, d) : \A c \in overrides : c.supersedes # o.id}
  IN IF Rows(overrides, d) = {} THEN "none"
     ELSE IF OneRow(free) THEN (CHOOSE o \in free : TRUE).value ELSE "inconsistent"

\* _override_view of the decision card.
CardStatus(d) ==
  IF Rows(overrides, d) = {} THEN "none"
  ELSE IF OneRow(Heads(overrides, d)) THEN (CHOOSE o \in Heads(overrides, d) : TRUE).value
  ELSE "inconsistent"

\* has_effective_override in reconciliation_source.
HasEffectiveOverride(d) == Cardinality(Heads(overrides, d)) = 1

-----------------------------------------------------------------------------
(* Properties.                                                             *)

LedgerTypeOK ==
  /\ overrides \subseteq [id : RowIds, on : Decisions, key : Keys, value : Values,
                          supersedes : RowIds \cup {NoRow}]
  /\ feedback \subseteq [id : RowIds, on : Decisions, key : Keys, value : Values]
  /\ baselines \subseteq [id : RowIds, on : Policies, supersedes : RowIds \cup {NoRow}]
  /\ driftRuns \subseteq [baseline : RowIds, policy : Policies]
  /\ writer \in Threads \cup {NoRow}
  /\ work \in [Threads -> [at : Steps, form : Forms \cup {NoRow},
                           row : RowIds \cup {NoRow}, result : Results]]

\* A history is empty, or it has one head, each row supersedes a row of the
\* same history, and no two rows supersede the same one: what several forms,
\* command lines and retries at once leave is a line, never a fork
\* (record_override, record_drift_baseline).
Linear(table, s) ==
  /\ Rows(table, s) # {} => OneRow(Heads(table, s))
  /\ \A r \in Rows(table, s) :
       r.supersedes # NoRow => \E p \in Rows(table, s) : p.id = r.supersedes
  /\ \A r, q \in Rows(table, s) : r.supersedes = q.supersedes => r = q
LinearHistories ==
  /\ \A d \in Decisions : Linear(overrides, d)
  /\ \A p \in Policies : Linear(baselines, p)

\* A browser told "saved" finds its own words in the store under its key, or
\* words Python calls equal to them, and one told that an override is refused
\* has used its key for something else (record_override, record_feedback).
AnswersAreTrue ==
  \A t \in Threads :
    LET f == work[t].form
        under(table) == {r \in table : r.key = f.key}
        same(r) == r.on = f.on /\ Compared[r.value] = Compared[f.value]
    IN work[t].at = "idle" /\ work[t].result \in {"saved", "refused"} =>
         /\ f.table = "overrides" =>
              \E r \in under(overrides) : same(r) <=> work[t].result = "saved"
         /\ f.table = "feedback" /\ work[t].result = "saved" =>
              \E r \in under(feedback) : same(r)
         /\ f.table = "driftRuns" /\ work[t].result = "saved" =>
              \E b \in baselines : b.on = f.on /\ [baseline |-> b.id, policy |-> f.on] \in driftRuns

\* The queue, the decision card and the reconciliation report compute a
\* decision's current action by three different queries and agree
\* (queue, _override_view, reconciliation_source).
ReadersAgree ==
  \A d \in Decisions :
    /\ QueueStatus(d) = CardStatus(d)
    /\ HasEffectiveOverride(d) <=> CardStatus(d) \notin {"none", "inconsistent"}

\* Both at once: what the store tells its users is so.
UsersAreToldTheTruth == AnswersAreTrue /\ ReadersAgree
=============================================================================
