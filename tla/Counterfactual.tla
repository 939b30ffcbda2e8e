--------------------------- MODULE Counterfactual ---------------------------
(***************************************************************************)
(* Counterfactual runs: asking a model what it would have recommended for  *)
(* decisions already made.  `glassbox counterfactual run' selects the      *)
(* newest decisions, discloses how many it will send, and runs them while  *)
(* the traced application goes on storing decisions.  A run prepares every *)
(* case, asks the provider case by case, and records all of them at once.  *)
(* The live shadow worker of LiveShadow.tla runs single decisions the same *)
(* way.                                                                    *)
(***************************************************************************)
EXTENDS Naturals, FiniteSets

CONSTANTS
  Sources,      \* decisions: numbers in the order of (decided_at, decision_id)
  WithInput,    \* those whose trace captured an input
  Unfit,        \* those whose stored facts are no finite JSON (an infinite weight)
  Matured,      \* those old enough for their outcome to count
  MaxCases,     \* --max-cases
  Command,      \* the run of the command line
  Worker        \* the run of the shadow worker

ASSUME SourcesAreNumbers == Sources \subseteq Nat

VARIABLES
  decided,      \* the stored decisions
  reconciled,   \* decisions with an outcome that applies under the policy
  run,          \* run[r] for Command and Worker: see Runs
  archive       \* the recorded runs

counterfactualVars == <<decided, reconciled, run, archive>>

Runners == {Command, Worker}
Captures == {"not used", "enriched", "unreadable"}
\* `capture_failed' stands for the three capture_* codes.
Failures == {"capture_failed", "invalid_snapshot", "provider_unavailable", "provider_timeout",
             "provider_failure", "invalid_response"}
Statuses == {"case_failed", "labelled", "decision_not_mature", "outcome_not_applicable"}
Cases == [on : Sources, failure : Failures \cup {"none"}, status : Statuses, sent : BOOLEAN,
          capture : Captures, storable : BOOLEAN]
Phases == {"idle", "selected", "prepared", "asking", "record"}
Runs == [at : Phases, todo : SUBSET Sources,
         cases : SUBSET Cases, disclosed : SUBSET Sources, inputs : Nat, blobs : BOOLEAN,
         delimited : BOOLEAN, outcomes : SUBSET Sources, provider : BOOLEAN]

NoRun == [at |-> "idle", todo |-> {}, cases |-> {}, disclosed |-> {}, inputs |-> 0,
          blobs |-> FALSE, delimited |-> TRUE, outcomes |-> {}, provider |-> FALSE]

CounterfactualInit ==
  /\ decided = {} /\ reconciled = {} /\ archive = {}
  /\ run = [r \in Runners |-> NoRun]

\* The traced application stores a decision, possibly one decided earlier than
\* others already stored; an import adds an outcome of one.
DecisionStored(d) ==
  /\ d \notin decided
  /\ decided' = decided \cup {d}
  /\ UNCHANGED <<reconciled, run, archive>>

OutcomeImported(d) ==
  /\ d \in decided \ reconciled
  /\ reconciled' = reconciled \cup {d}
  /\ UNCHANGED <<decided, run, archive>>

-----------------------------------------------------------------------------
(* run_counterfactual, one case at a time.                                 *)

\* Newest first, cut at --max-cases.
NewestCases(ds) == {d \in ds : Cardinality({e \in ds : e > d}) < MaxCases}

\* glassbox counterfactual run: select and disclose, with the outcomes as read.
\* The prompt artifact may have the markers of the decision data out of order.
Select(blobs, delimited) ==
  /\ run[Command].at = "idle" /\ archive = {}
  /\ LET ds == NewestCases(decided) IN
     run' = [run EXCEPT ![Command] =
       [NoRun EXCEPT !.at = "selected", !.todo = ds, !.disclosed = ds, !.blobs = blobs,
          !.delimited = delimited, !.inputs = IF blobs THEN Cardinality(ds \cap WithInput) ELSE 0,
          !.outcomes = reconciled]]
  /\ UNCHANGED <<decided, reconciled, archive>>

\* No --confirm-egress for a remote provider: nothing was sent.
ConsentRefused ==
  /\ run[Command].at = "selected"
  /\ run' = [run EXCEPT ![Command] = NoRun]
  /\ UNCHANGED <<decided, reconciled, archive>>

\* The decisions are read again (the mutant of Confirmed).
SelectedAgain ==
  /\ run[Command].at = "selected"
  /\ run' = [run EXCEPT ![Command].at = "prepared", ![Command].todo = NewestCases(decided)]
  /\ UNCHANGED <<decided, reconciled, archive>>

\* The disclosed decisions are run.
Confirmed ==
  /\ run[Command].at = "selected"
  /\ run' = [run EXCEPT ![Command].at = "prepared"]
  /\ UNCHANGED <<decided, reconciled, archive>>

\* What becomes of the captured input: a blob may be missing or not be text.
CapturesOf(d, blobs) ==
  IF blobs /\ d \in WithInput THEN {"enriched", "unreadable"} ELSE {"not used"}

\* An unreadable input ends the preparation; the prompt is rendered of finite
\* JSON only, between its markers.
PreparationFailure(d, capture, delimited) ==
  IF capture = "unreadable" THEN "capture_failed"
  ELSE IF d \in Unfit \/ ~delimited THEN "invalid_snapshot" ELSE "none"

\* A case as prepared; it keeps the facts, also when they are what failed it.
CaseOf(d, failure, capture) ==
  [on |-> d, failure |-> failure, sent |-> FALSE, capture |-> capture,
   status |-> IF failure = "none" THEN "outcome_not_applicable" ELSE "case_failed",
   storable |-> d \notin Unfit]

\* Every case is prepared before the provider is made, which only a case that
\* will be sent requires: a failed one is settled here.
PrepareCase(r, d, capture) ==
  /\ run[r].at = "prepared"
  /\ d \in run[r].todo
  /\ d \notin {c.on : c \in run[r].cases}
  /\ capture \in CapturesOf(d, run[r].blobs)
  /\ run' = [run EXCEPT ![r].cases = @ \cup
       {CaseOf(d, PreparationFailure(d, capture, run[r].delimited), capture)}]
  /\ UNCHANGED <<decided, reconciled, archive>>

Renderable(r) == {c \in run[r].cases : c.failure = "none"}

MakeProvider(r, made) ==
  /\ run[r].at = "prepared"
  /\ {c.on : c \in run[r].cases} = run[r].todo
  /\ Renderable(r) = {} => made
  /\ run' = [run EXCEPT ![r].at = IF made THEN "asking" ELSE "record", ![r].provider = made,
       ![r].cases = IF made THEN @
          ELSE {IF c.failure = "none"
                  THEN [c EXCEPT !.failure = "provider_unavailable", !.status = "case_failed"]
                  ELSE c : c \in @}]
  /\ UNCHANGED <<decided, reconciled, archive>>

\* _enrich_result: only the command line compares with outcomes, as they were
\* when the case was selected; a rule may still not apply.
StatusOf(r, d, derived) ==
  IF r = Worker THEN "outcome_not_applicable"
  ELSE IF d \notin Matured THEN "decision_not_mature"
  ELSE IF d \in run[r].outcomes /\ derived THEN "labelled"
  ELSE "outcome_not_applicable"

\* An answer may parse and still not be fit for the table (a rationale that
\* begins with NUL is empty to SQLite's trim).
Settled(r, c, failure, derived, fit) ==
  [c EXCEPT !.sent = TRUE, !.failure = failure,
     !.storable = @ /\ (failure = "none" => fit),
     !.status = IF failure = "none" THEN StatusOf(r, c.on, derived) ELSE "case_failed"]

\* One request and its answer.
Ask(r, d, failure, derived, fit) ==
  /\ run[r].at = "asking"
  /\ failure \in {"none", "provider_timeout", "provider_failure", "invalid_response"}
  /\ run' = [run EXCEPT ![r].cases =
       {IF c.on = d THEN Settled(r, c, failure, derived, fit) ELSE c : c \in @}]
  /\ \E c \in run[r].cases : c.on = d /\ c.failure = "none" /\ ~c.sent
  /\ UNCHANGED <<decided, reconciled, archive>>

AllAsked(r) ==
  /\ run[r].at = "asking"
  /\ \A c \in Renderable(r) : c.sent
  /\ run' = [run EXCEPT ![r].at = "record"]
  /\ UNCHANGED <<decided, reconciled, archive>>

\* _validate_counterfactual_run, the serialization of every case, failed ones
\* too, and the constraints of the table: a run with one unacceptable case is
\* refused as a whole.
Accepts(cases) ==
  \A c \in cases :
    /\ c.storable
    /\ (c.failure # "none") = (c.status = "case_failed")
    /\ c.status = "labelled" => c.on \in reconciled

Archived(r) == [by |-> r, cases |-> run[r].cases]

\* BEGIN IMMEDIATE .. COMMIT.
RecordRun ==
  /\ run[Command].at = "record"
  /\ IF Accepts(run[Command].cases)
       THEN archive' = archive \cup {Archived(Command)}
       ELSE UNCHANGED archive
  /\ run' = [run EXCEPT ![Command] = NoRun]
  /\ UNCHANGED <<decided, reconciled>>

\* The blob directory, the database or the disk fails the whole run.
RunFails ==
  /\ run[Command].at \in {"prepared", "record"}
  /\ run' = [run EXCEPT ![Command] = NoRun]
  /\ UNCHANGED <<decided, reconciled, archive>>

-----------------------------------------------------------------------------
RunNext(r) ==
  \/ \E d \in Sources, capture \in Captures : PrepareCase(r, d, capture)
  \/ \E made \in BOOLEAN : MakeProvider(r, made)
  \/ \E d \in Sources, failure \in Failures \cup {"none"}, derived, fit \in BOOLEAN :
       Ask(r, d, failure, derived, fit)
  \/ AllAsked(r)

CounterfactualNext ==
  \/ \E d \in Sources : DecisionStored(d) \/ OutcomeImported(d)
  \/ \E blobs, delimited \in BOOLEAN : Select(blobs, delimited)
  \/ ConsentRefused \/ Confirmed \/ RecordRun \/ RunFails
  \/ RunNext(Command)

CounterfactualSpec == CounterfactualInit /\ [][CounterfactualNext]_counterfactualVars

-----------------------------------------------------------------------------
CounterfactualTypeOK ==
  /\ decided \subseteq Sources /\ reconciled \subseteq decided
  /\ run \in [Runners -> Runs]
  /\ \A a \in archive : a.by \in Runners /\ a.cases \subseteq Cases

\* No decision and no captured input reaches a provider that the disclosure did
\* not count, however the store grows between disclosure and request.
OnlyDisclosedIsSent ==
  \A r \in Runners :
    LET sent == {c \in run[r].cases : c.sent} IN
    /\ {c.on : c \in sent} \subseteq run[r].disclosed
    /\ Cardinality({c \in sent : c.capture = "enriched"}) <= run[r].inputs

\* A run that is to be recorded answers for every decision it disclosed, once:
\* the decision was sent or failed before.  Nothing but facts or an answer unfit
\* for the table has the record refused, however outcomes changed meanwhile.
RunsAnswerForAll ==
  \A r \in Runners : run[r].at = "record" =>
    LET cases == run[r].cases IN
    /\ {c.on : c \in cases} = run[r].disclosed
    /\ \A c, e \in cases : c.on = e.on => c = e
    /\ \A c \in cases : c.sent \/ c.failure # "none"
    /\ (\A c \in cases : c.storable) => Accepts(cases)

\* Both at once: a run sends what it disclosed, and answers for all of it.
RunsKeepTheirWord == OnlyDisclosedIsSent /\ RunsAnswerForAll

\* The design says that cases persist independently: an unresolved blob or a
\* malformed snapshot records one failed result.  The record refuses the facts
\* that made the snapshot malformed, and the other cases with them.
CasesPersistIndependently ==
  \A r \in Runners :
    run[r].at = "record" /\ (\A c \in run[r].cases : c.sent => c.storable) =>
      Accepts(run[r].cases)
=============================================================================
