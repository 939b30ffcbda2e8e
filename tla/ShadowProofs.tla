---------------------------- MODULE ShadowProofs ----------------------------
(***************************************************************************)
(* Proofs about counterfactual runs (Counterfactual.tla) and the live      *)
(* shadow executor that shares them (LiveShadow.tla), for any decisions,   *)
(* handles and callers.  A run keeps one case per disclosed decision, and  *)
(* the lock keeps a handle's counters equal to what it has outstanding.    *)
(***************************************************************************)
EXTENDS LiveShadow, DataLemmas

-----------------------------------------------------------------------------
(* A run.                                                                  *)

\* The decisions whose captured input a run may send.
Enrichable(x) == IF x.blobs THEN x.todo \cap WithInput ELSE {}

\* A case is of a decision of the run, and failed exactly when it says why.
CaseOK(x, c) ==
  /\ c \in Cases /\ c.on \in x.todo
  /\ (c.failure # "none") = (c.status = "case_failed")
  /\ c.status = "labelled" => c.on \in x.outcomes
  /\ c.capture = "enriched" => c.on \in Enrichable(x)

OneCaseEach(cases) == \A c, d \in cases : c.on = d.on => c = d

\* Once a run asks, it has a case for each decision; once it is to be recorded,
\* each case was sent or had failed.
InPhase(x) ==
  /\ x.at \in {"asking", "record"} => {c.on : c \in x.cases} = x.todo
  /\ x.at = "record" => \A c \in x.cases : c.sent \/ c.failure # "none"

\* A run does what it disclosed, and what it has done is in order.
RunOK(x) ==
  /\ x \in Runs
  /\ IsFiniteSet(x.todo) /\ x.todo = x.disclosed /\ InPhase(x)
  /\ Cardinality(Enrichable(x)) <= x.inputs
  /\ \A c \in x.cases : CaseOK(x, c)
  /\ OneCaseEach(x.cases)

StoreOK ==
  /\ decided \subseteq Sources /\ IsFiniteSet(decided) /\ reconciled \subseteq decided
  /\ \A a \in archive : a.by \in Runners /\ a.cases \subseteq Cases

RunsInv ==
  /\ StoreOK
  /\ run \in [Runners -> Runs]
  /\ \A r \in Runners : RunOK(run[r]) /\ run[r].outcomes \subseteq reconciled

\* A run that goes on: another phase, other cases.
GoesOn(x, y) ==
  /\ x \in Runs
  /\ \E at \in Phases, provider \in BOOLEAN : \E cases :
       y = [x EXCEPT !.at = at, !.cases = cases, !.provider = provider]

LEMMA RunGoesOn ==
  ASSUME NEW x, NEW y, RunOK(x), GoesOn(x, y),
         \A c \in y.cases : CaseOK(x, c), OneCaseEach(y.cases), InPhase(y)
  PROVE  RunOK(y) /\ y.outcomes = x.outcomes
<1>1. PICK at \in Phases, provider \in BOOLEAN :
        \E cases : y = [x EXCEPT !.at = at, !.cases = cases, !.provider = provider]
  BY DEF GoesOn
<1> PICK cases : y = [x EXCEPT !.at = at, !.cases = cases, !.provider = provider]
  BY <1>1
<1>2. x \in Runs
  BY DEF RunOK
<1>3. /\ y.at = at /\ y.todo = x.todo /\ y.cases = cases /\ y.disclosed = x.disclosed
      /\ y.inputs = x.inputs /\ y.blobs = x.blobs /\ y.outcomes = x.outcomes
  BY <1>2 DEF Runs
<1>4. cases \subseteq Cases
  BY <1>3 DEF CaseOK
<1>5. y \in Runs
  BY <1>2, <1>4 DEF Runs
<1>6. Enrichable(y) = Enrichable(x)
  BY <1>3 DEF Enrichable
<1>7. \A c \in y.cases : CaseOK(y, c)
  BY <1>3, <1>6 DEF CaseOK
<1> QED BY <1>3, <1>5, <1>6, <1>7 DEF RunOK

\* The run of one actor goes on or ends; the others stay as they are.
LEMMA RunChanges ==
  ASSUME RunsInv, NEW r \in Runners, NEW y, run' = [run EXCEPT ![r] = y],
         RunOK(y), y.outcomes \subseteq reconciled, reconciled' = reconciled
  PROVE  /\ run' \in [Runners -> Runs]
         /\ \A q \in Runners : RunOK(run'[q]) /\ run'[q].outcomes \subseteq reconciled'
<1>1. y \in Runs
  BY DEF RunOK
<1>2. \A q \in Runners : run'[q] = IF q = r THEN y ELSE run[q]
  BY DEF RunsInv
<1>3. run' \in [Runners -> Runs]
  BY <1>1 DEF RunsInv
<1> QED BY <1>2, <1>3 DEF RunsInv

LEMMA NoRunOK == RunOK(NoRun) /\ NoRun.outcomes = {}
<1>1. NoRun \in Runs /\ NoRun.todo = {} /\ NoRun.cases = {} /\ NoRun.disclosed = {}
      /\ NoRun.inputs = 0 /\ NoRun.outcomes = {} /\ NoRun.blobs = FALSE
  BY DEF NoRun, Runs, Phases
<1>2. Enrichable(NoRun) = {}
  BY <1>1 DEF Enrichable
<1>3. NoRun.at = "idle"
  BY DEF NoRun
<1> QED BY <1>1, <1>2, <1>3, FS_EmptySet DEF RunOK, OneCaseEach, InPhase

-----------------------------------------------------------------------------
(* The steps of a run.                                                     *)

\* Going on with cases of its own keeps a run in order.
LEMMA GoingOn ==
  ASSUME RunsInv, NEW r \in Runners, NEW y, run' = [run EXCEPT ![r] = y],
         GoesOn(run[r], y), \A c \in y.cases : CaseOK(run[r], c), OneCaseEach(y.cases),
         InPhase(y), UNCHANGED <<decided, reconciled, archive>>
  PROVE  RunsInv'
<1>1. RunOK(run[r]) /\ run[r].outcomes \subseteq reconciled
  BY DEF RunsInv
<1>2. RunOK(y) /\ y.outcomes = run[r].outcomes
  BY <1>1, RunGoesOn
<1>3. /\ run' \in [Runners -> Runs]
      /\ \A q \in Runners : RunOK(run'[q]) /\ run'[q].outcomes \subseteq reconciled'
  BY <1>1, <1>2, RunChanges
<1> QED BY <1>3 DEF RunsInv, StoreOK

LEMMA PrepareStep ==
  ASSUME RunsInv, NEW r \in Runners, NEW d \in Sources, NEW capture \in Captures,
         PrepareCase(r, d, capture)
  PROVE  RunsInv'
<1> DEFINE x == run[r]
           failure == PreparationFailure(d, capture, x.delimited)
           new == CaseOf(d, failure, capture)
           y == [x EXCEPT !.cases = @ \cup {new}]
<1>1. x \in Runs /\ RunOK(x)
  BY DEF RunsInv
<1>2. /\ d \in x.todo /\ d \notin {c.on : c \in x.cases} /\ capture \in CapturesOf(d, x.blobs)
      /\ UNCHANGED <<decided, reconciled, archive>> /\ x.at = "prepared"
  BY DEF PrepareCase
<1>3. run' = [run EXCEPT ![r] = y]
  BY DEF PrepareCase
<1>4. /\ new.on = d /\ new.capture = capture /\ new \in Cases
      /\ (new.failure # "none") = (new.status = "case_failed") /\ new.status # "labelled"
  <2>1. failure \in Failures \cup {"none"}
    BY DEF PreparationFailure, Failures
  <2> HIDE DEF failure
  <2> QED BY <2>1 DEF CaseOf, Cases, Statuses
<1>5. capture = "enriched" => d \in Enrichable(x)
  BY <1>2 DEF CapturesOf, Enrichable
<1> HIDE DEF new
<1>6. CaseOK(x, new)
  BY <1>2, <1>4, <1>5 DEF CaseOK
<1>7. y.cases = x.cases \cup {new} /\ GoesOn(x, y)
  <2>1. y = [x EXCEPT !.at = x.at, !.cases = x.cases \cup {new}, !.provider = x.provider]
    BY <1>1 DEF Runs
  <2>2. x.at \in Phases /\ x.provider \in BOOLEAN
    BY <1>1 DEF Runs
  <2>3. y.cases = x.cases \cup {new}
    BY <1>1 DEF Runs
  <2> HIDE DEF y, x
  <2> QED BY <1>1, <2>1, <2>2, <2>3 DEF GoesOn
<1>8. \A c \in y.cases : CaseOK(x, c)
  BY <1>1, <1>6, <1>7 DEF RunOK
<1>9. OneCaseEach(y.cases)
  BY <1>1, <1>2, <1>4, <1>7 DEF RunOK, OneCaseEach
<1>10. InPhase(y)
  BY <1>1, <1>2 DEF Runs, InPhase
<1> HIDE DEF y
<1> QED BY <1>2, <1>3, <1>7, <1>8, <1>9, <1>10, GoingOn

LEMMA ProviderStep ==
  ASSUME RunsInv, NEW r \in Runners, NEW made \in BOOLEAN, MakeProvider(r, made)
  PROVE  RunsInv'
<1> DEFINE x == run[r]
           Unsent(c) == IF c.failure = "none"
                          THEN [c EXCEPT !.failure = "provider_unavailable", !.status = "case_failed"]
                          ELSE c
           at == IF made THEN "asking" ELSE "record"
           cases == IF made THEN x.cases ELSE {Unsent(c) : c \in x.cases}
           y == [x EXCEPT !.at = at, !.cases = cases, !.provider = made]
<1>1. /\ x \in Runs /\ RunOK(x) /\ UNCHANGED <<decided, reconciled, archive>>
      /\ {c.on : c \in x.cases} = x.todo
  BY DEF RunsInv, MakeProvider
<1>2. run' = [run EXCEPT ![r] = y]
  <2>1. run' = [run EXCEPT ![r].at = at, ![r].provider = made, ![r].cases = cases]
    BY DEF MakeProvider
  <2> HIDE DEF cases
  <2> QED BY <1>1, <2>1 DEF RunsInv, Runs
<1>3. ASSUME NEW c \in x.cases PROVE CaseOK(x, Unsent(c)) /\ Unsent(c).on = c.on
                                       /\ Unsent(c).failure # "none"
  <2>1. CaseOK(x, c) /\ c \in Cases
    BY <1>1 DEF RunOK, CaseOK
  <2>2. CASE c.failure = "none"
    <3> DEFINE u == [c EXCEPT !.failure = "provider_unavailable", !.status = "case_failed"]
    <3>1. /\ u.on = c.on /\ u.failure = "provider_unavailable" /\ u.status = "case_failed"
          /\ u.capture = c.capture /\ u \in Cases
      BY <2>1 DEF Cases, Failures, Statuses
    <3> HIDE DEF u
    <3>2. Unsent(c) = u
      BY <2>2 DEF u
    <3> HIDE DEF Unsent
    <3> QED BY <2>1, <3>1, <3>2 DEF CaseOK
  <2>3. CASE c.failure # "none"
    BY <2>1, <2>3
  <2> QED BY <2>2, <2>3
<1>4. y.cases = cases /\ GoesOn(x, y)
  <2>1. at \in Phases
    BY DEF Phases
  <2>2. y.cases = cases
    BY <1>1 DEF Runs
  <2> HIDE DEF cases, at, x
  <2> QED BY <1>1, <2>1, <2>2 DEF GoesOn
<1> HIDE DEF Unsent, y
<1>5. \A c \in cases : CaseOK(x, c)
  BY <1>1, <1>3 DEF RunOK
<1>6. OneCaseEach(cases)
  BY <1>1, <1>3 DEF RunOK, OneCaseEach
<1>7. {c.on : c \in cases} = x.todo
  BY <1>1, <1>3
<1>8. at = "record" => \A c \in cases : c.failure # "none"
  BY <1>3
<1> HIDE DEF cases, at
<1>9. y.at = at /\ y.todo = x.todo
  BY <1>1 DEF Runs, y
<1>10. InPhase(y)
  BY <1>4, <1>7, <1>8, <1>9 DEF InPhase
<1> QED BY <1>1, <1>2, <1>4, <1>5, <1>6, <1>10, GoingOn

LEMMA AskStep ==
  ASSUME RunsInv, NEW r \in Runners, NEW d \in Sources, NEW failure \in Failures \cup {"none"},
         NEW derived \in BOOLEAN, NEW fit \in BOOLEAN, Ask(r, d, failure, derived, fit)
  PROVE  RunsInv'
<1> DEFINE x == run[r]
           Answered(c) == IF c.on = d THEN Settled(r, c, failure, derived, fit) ELSE c
           cases == {Answered(c) : c \in x.cases}
           y == [x EXCEPT !.cases = cases]
<1>1. x \in Runs /\ RunOK(x) /\ UNCHANGED <<decided, reconciled, archive>> /\ x.at = "asking"
  BY DEF RunsInv, Ask
<1>2. run' = [run EXCEPT ![r] = y]
  BY <1>1 DEF Ask
<1>3. ASSUME NEW c \in x.cases PROVE CaseOK(x, Answered(c)) /\ Answered(c).on = c.on
  <2>1. CaseOK(x, c) /\ c \in Cases
    BY <1>1 DEF RunOK, CaseOK
  <2> DEFINE u == Settled(r, c, failure, derived, fit)
  <2>2. StatusOf(r, c.on, derived) \in Statuses \ {"case_failed"}
        /\ (StatusOf(r, c.on, derived) = "labelled" => c.on \in x.outcomes)
    BY DEF StatusOf, Statuses
  <2>3. /\ u.on = c.on /\ u.failure = failure /\ u.capture = c.capture /\ u \in Cases
        /\ u.status = IF failure = "none" THEN StatusOf(r, c.on, derived) ELSE "case_failed"
    BY <2>1, <2>2 DEF Settled, Cases, Statuses
  <2> HIDE DEF u
  <2>4. CaseOK(x, u)
    BY <2>1, <2>2, <2>3 DEF CaseOK
  <2> QED BY <2>1, <2>3, <2>4 DEF u
<1>4. y.cases = cases /\ GoesOn(x, y)
  <2>1. y = [x EXCEPT !.at = x.at, !.cases = cases, !.provider = x.provider]
    BY <1>1 DEF Runs
  <2>2. x.at \in Phases /\ x.provider \in BOOLEAN
    BY <1>1 DEF Runs
  <2>3. y.cases = cases
    BY <1>1 DEF Runs
  <2> HIDE DEF y, x
  <2> QED BY <1>1, <2>1, <2>2, <2>3 DEF GoesOn
<1>5. y.at = "asking" /\ y.todo = x.todo
  BY <1>1 DEF Runs
<1> HIDE DEF Answered, y
<1>6. \A c \in cases : CaseOK(x, c)
  BY <1>3
<1>7. OneCaseEach(cases)
  BY <1>1, <1>3 DEF RunOK, OneCaseEach
<1>8. {c.on : c \in cases} = x.todo
  BY <1>1, <1>3 DEF RunOK, InPhase
<1> HIDE DEF cases
<1>9. InPhase(y)
  BY <1>4, <1>5, <1>8 DEF InPhase
<1> QED BY <1>1, <1>2, <1>4, <1>6, <1>7, <1>9, GoingOn

\* A change of phase alone.
LEMMA PhaseStep ==
  ASSUME RunsInv, NEW r \in Runners, NEW at \in Phases, run' = [run EXCEPT ![r].at = at],
         InPhase([run[r] EXCEPT !.at = at]), UNCHANGED <<decided, reconciled, archive>>
  PROVE  RunsInv'
<1> DEFINE x == run[r]
           y == [x EXCEPT !.at = at]
<1>1. x \in Runs /\ RunOK(x)
  BY DEF RunsInv
<1>2. y = [x EXCEPT !.at = at, !.cases = x.cases, !.provider = x.provider]
      /\ y.cases = x.cases /\ x.provider \in BOOLEAN
  BY <1>1 DEF Runs
<1> HIDE DEF x, y
<1>3. GoesOn(x, y)
  BY <1>1, <1>2 DEF GoesOn
<1>4. (\A c \in y.cases : CaseOK(x, c)) /\ OneCaseEach(y.cases)
  BY <1>1, <1>2 DEF RunOK
<1>5. run' = [run EXCEPT ![r] = y]
  BY DEF x, y
<1>6. InPhase(y)
  BY DEF x, y
<1> QED BY <1>3, <1>4, <1>5, <1>6, GoingOn DEF x

LEMMA RunNextStep ==
  ASSUME RunsInv, NEW r \in Runners, RunNext(r)
  PROVE  RunsInv' /\ UNCHANGED <<decided, reconciled, archive>>
<1>1. ASSUME AllAsked(r) PROVE RunsInv'
  <2>1. /\ run[r] \in Runs /\ RunOK(run[r]) /\ run[r].at = "asking"
        /\ \A c \in Renderable(r) : c.sent
    BY <1>1 DEF AllAsked, RunsInv
  <2>2. InPhase([run[r] EXCEPT !.at = "record"])
    BY <2>1 DEF RunOK, InPhase, Renderable, Runs
  <2> QED BY <1>1, <2>2, PhaseStep DEF AllAsked, Phases
<1>2. RunsInv'
  BY <1>1, PrepareStep, ProviderStep, AskStep DEF RunNext
<1>3. UNCHANGED <<decided, reconciled, archive>>
  BY DEF RunNext, PrepareCase, MakeProvider, Ask, AllAsked
<1> QED BY <1>2, <1>3

\* A run that ends, or begins with what it discloses.
LEMMA FreshRun ==
  ASSUME RunsInv, NEW r \in Runners, NEW y, RunOK(y), y.outcomes \subseteq reconciled,
         run' = [run EXCEPT ![r] = y],
         UNCHANGED <<decided, reconciled>>,
         \A a \in archive' \ archive : a.by \in Runners /\ a.cases \subseteq Cases
  PROVE  RunsInv'
<1>1. /\ run' \in [Runners -> Runs]
      /\ \A q \in Runners : RunOK(run'[q]) /\ run'[q].outcomes \subseteq reconciled'
  BY RunChanges
<1>2. \A a \in archive' : a.by \in Runners /\ a.cases \subseteq Cases
  BY DEF RunsInv, StoreOK
<1> QED BY <1>1, <1>2 DEF RunsInv, StoreOK

LEMMA EndOfRun ==
  ASSUME RunsInv, NEW r \in Runners, run' = [run EXCEPT ![r] = NoRun],
         UNCHANGED <<decided, reconciled>>,
         archive' = archive \/ archive' = archive \cup {Archived(r)}
  PROVE  RunsInv'
<1>1. Archived(r).by = r /\ Archived(r).cases \subseteq Cases
  BY DEF Archived, RunsInv, Runs
<1>2. NoRun.outcomes \subseteq reconciled
  BY NoRunOK
<1>3. \A a \in archive' \ archive : a.by \in Runners /\ a.cases \subseteq Cases
  BY <1>1
<1> HIDE DEF NoRun
<1> QED BY <1>2, <1>3, NoRunOK, FreshRun

LEMMA StoredStep ==
  ASSUME RunsInv, NEW d \in Sources, DecisionStored(d) \/ OutcomeImported(d)
  PROVE  RunsInv'
<1>1. /\ decided' \subseteq Sources /\ IsFiniteSet(decided')
      /\ reconciled' \subseteq decided' /\ reconciled \subseteq reconciled'
      /\ UNCHANGED <<run, archive>>
  BY FS_AddElement DEF RunsInv, StoreOK, DecisionStored, OutcomeImported
<1> QED BY <1>1 DEF RunsInv, StoreOK

LEMMA SelectStep ==
  ASSUME RunsInv, NEW blobs \in BOOLEAN, NEW delimited \in BOOLEAN, Select(blobs, delimited)
  PROVE  RunsInv'
<1> DEFINE ds == NewestCases(decided)
           n == IF blobs THEN Cardinality(ds \cap WithInput) ELSE 0
           y == [NoRun EXCEPT !.at = "selected", !.todo = ds, !.disclosed = ds, !.blobs = blobs,
                   !.delimited = delimited, !.inputs = n, !.outcomes = reconciled]
<1>1. /\ run' = [run EXCEPT ![Command] = y]
      /\ UNCHANGED <<decided, reconciled, archive>> /\ Command \in Runners
  BY DEF Select, Runners
<1>2. StoreOK /\ reconciled \subseteq Sources
  BY DEF RunsInv, StoreOK
<1>3. IsFiniteSet(ds) /\ ds \subseteq Sources
  BY <1>2, FS_Subset DEF NewestCases, StoreOK
<1>4. IsFiniteSet(ds \cap WithInput) /\ Cardinality(ds \cap WithInput) \in Nat
  BY <1>3, FS_Subset, FS_CardinalityType
<1>5. n \in Nat
  BY <1>4
<1> HIDE DEF ds
<1>6. /\ y.todo = ds /\ y.disclosed = ds /\ y.cases = {} /\ y.blobs = blobs
      /\ y.inputs = n /\ y.outcomes = reconciled /\ y \in Runs /\ y.at = "selected"
  <2> HIDE DEF n
  <2> QED BY <1>2, <1>3, <1>5 DEF NoRun, Runs, Phases
<1> HIDE DEF y
<1>7. Cardinality(Enrichable(y)) <= y.inputs
  BY <1>4, <1>6, FS_EmptySet DEF Enrichable
<1>8. RunOK(y) /\ y.outcomes \subseteq reconciled
  BY <1>3, <1>6, <1>7 DEF RunOK, OneCaseEach, InPhase
<1> QED BY <1>1, <1>8, FreshRun

LEMMA CommandRunStep == RunsInv /\ CounterfactualNext => RunsInv'
<1> SUFFICES ASSUME RunsInv, CounterfactualNext PROVE RunsInv'
  OBVIOUS
<1>1. Command \in Runners
  BY DEF Runners
<1>2. ASSUME ConsentRefused \/ RecordRun \/ RunFails PROVE RunsInv'
  BY <1>1, <1>2, EndOfRun DEF ConsentRefused, RecordRun, RunFails
<1>3. ASSUME Confirmed PROVE RunsInv'
  <2>1. run[Command] \in Runs
    BY <1>1 DEF RunsInv
  <2>2. InPhase([run[Command] EXCEPT !.at = "prepared"])
    BY <2>1 DEF InPhase, Runs
  <2> QED BY <1>1, <1>3, <2>2, PhaseStep DEF Confirmed, Phases
<1> QED BY <1>1, <1>2, <1>3, StoredStep, SelectStep, RunNextStep DEF CounterfactualNext

LEMMA RunsInit == CounterfactualInit => RunsInv
BY NoRunOK, FS_EmptySet DEF CounterfactualInit, RunsInv, StoreOK, RunOK

LEMMA RunsStay == RunsInv /\ UNCHANGED counterfactualVars => RunsInv'
BY DEF RunsInv, StoreOK, counterfactualVars

LEMMA RunsInvariant == CounterfactualSpec => []RunsInv
<1>1. RunsInv /\ [CounterfactualNext]_counterfactualVars => RunsInv'
  BY CommandRunStep, RunsStay
<1> QED BY <1>1, RunsInit, PTL DEF CounterfactualSpec

-----------------------------------------------------------------------------
(* What follows for a run.                                                 *)

LEMMA RunsAreTyped == RunsInv => CounterfactualTypeOK
BY DEF RunsInv, StoreOK, CounterfactualTypeOK

\* Of the cases sent with their input, there are no more than disclosed: each
\* is of a decision of its own.
LEMMA EnrichedAreDisclosed ==
  ASSUME NEW x, RunOK(x)
  PROVE  Cardinality({c \in {c \in x.cases : c.sent} : c.capture = "enriched"}) <= x.inputs
<1> DEFINE E == {c \in {c \in x.cases : c.sent} : c.capture = "enriched"}
           f == [c \in E |-> c.on]
<1>1. IsFiniteSet(Enrichable(x)) /\ x.inputs \in Nat
  BY FS_Subset, FS_EmptySet DEF RunOK, Enrichable, Runs
<1>2. f \in [E -> Enrichable(x)]
  BY DEF RunOK, CaseOK
<1>3. f \in Injection(E, Enrichable(x))
  BY <1>2 DEF Injection, IsInjective, RunOK, OneCaseEach
<1> HIDE DEF E, f
<1>4. IsFiniteSet(E) /\ Cardinality(E) <= Cardinality(Enrichable(x))
  BY <1>1, <1>3, FS_Injection
<1>5. Cardinality(E) \in Nat /\ Cardinality(Enrichable(x)) \in Nat
  BY <1>1, <1>4, FS_CardinalityType
<1>6. Cardinality(E) <= x.inputs
  BY <1>1, <1>4, <1>5 DEF RunOK
<1> QED BY <1>6 DEF E

LEMMA WordIsKept == RunsInv => RunsKeepTheirWord
<1> SUFFICES ASSUME RunsInv, NEW r \in Runners
             PROVE  /\ {c.on : c \in {c \in run[r].cases : c.sent}} \subseteq run[r].disclosed
                    /\ Cardinality({c \in {c \in run[r].cases : c.sent} : c.capture = "enriched"})
                         <= run[r].inputs
                    /\ run[r].at = "record" =>
                         /\ {c.on : c \in run[r].cases} = run[r].disclosed
                         /\ \A c, e \in run[r].cases : c.on = e.on => c = e
                         /\ \A c \in run[r].cases : c.sent \/ c.failure # "none"
                         /\ (\A c \in run[r].cases : c.storable) => Accepts(run[r].cases)
  BY DEF RunsKeepTheirWord, OnlyDisclosedIsSent, RunsAnswerForAll
<1>1. RunOK(run[r]) /\ run[r].outcomes \subseteq reconciled
  BY DEF RunsInv
<1>2. {c.on : c \in {c \in run[r].cases : c.sent}} \subseteq run[r].disclosed
  BY <1>1 DEF RunOK, CaseOK
<1>3. (\A c \in run[r].cases : c.storable) => Accepts(run[r].cases)
  BY <1>1 DEF RunOK, CaseOK, Accepts
<1>4. run[r].at = "record" =>
        /\ {c.on : c \in run[r].cases} = run[r].disclosed
        /\ \A c, e \in run[r].cases : c.on = e.on => c = e
        /\ \A c \in run[r].cases : c.sent \/ c.failure # "none"
  BY <1>1 DEF RunOK, InPhase, OneCaseEach
<1> QED BY <1>1, <1>2, <1>3, <1>4, EnrichedAreDisclosed

\* A counterfactual run and its record have the fields and values the table
\* admits, in every phase (run_counterfactual).
THEOREM CounterfactualTypeCorrect == CounterfactualSpec => []CounterfactualTypeOK
BY RunsInvariant, RunsAreTyped, PTL

\* A counterfactual run sends only what was disclosed, however the store grows
\* meanwhile, answers for every disclosed decision once, and its record is
\* refused for unfit facts or answers only (run_counterfactual, command line).
THEOREM CommandKeepsItsWord == CounterfactualSpec => []RunsKeepTheirWord
BY RunsInvariant, WordIsKept, PTL

-----------------------------------------------------------------------------
(* The executor's sums.                                                    *)

LEMMA ThreeAreFinite == ASSUME NEW a, NEW b, NEW c PROVE IsFiniteSet({a, b, c})
<1>1. IsFiniteSet({a}) /\ IsFiniteSet({a} \cup {b})
  BY FS_Singleton, FS_AddElement
<1>2. IsFiniteSet(({a} \cup {b}) \cup {c})
  BY <1>1, FS_AddElement
<1>3. {a, b, c} = ({a} \cup {b}) \cup {c}
  OBVIOUS
<1> QED BY <1>2, <1>3

LEMMA DiagnosticsAreFinite == IsFiniteSet(Diagnostics)
<1> DEFINE A == {"disabled", "configuration_unavailable", "egress_not_authorized"}
           B == {"queue_full", "lifetime_cap", "source_decision_unavailable"}
           C == {"provider_timeout", "provider_failure", "parse_failure"}
           E == {"storage_failure", "completed", "completed"}
<1>1. IsFiniteSet(A) /\ IsFiniteSet(B) /\ IsFiniteSet(C) /\ IsFiniteSet(E)
  BY ThreeAreFinite
<1>2. Diagnostics = (A \cup B) \cup (C \cup E)
  BY DEF Diagnostics
<1> HIDE DEF A, B, C, E
<1>3. IsFiniteSet(A \cup B) /\ IsFiniteSet(C \cup E)
  BY <1>1, FS_Union
<1> QED BY <1>2, <1>3, FS_Union

-----------------------------------------------------------------------------
(* The executor.                                                           *)

Shutdowns == {"no", "waiting", "drained", "timed out"}
Stations == {"none", "take", "source", "run", "finish"}
HandleStates ==
  [closed : BOOLEAN, pending : Nat, counts : [Diagnostics -> Nat], submits : Nat,
   shutdown : Shutdowns]
CallerStates == [at : {"idle", "configure", "admit"}, job : Jobs \cup {NoJob}]

\* Who is inside submit on behalf of a handle, and whether a job is of a handle.
Asking(h) == {t \in Callers : caller[t].at # "idle" /\ caller[t].job.owner = h}
Has(job, h) == IF job # NoJob /\ job.owner = h THEN 1 ELSE 0

\* A handle waits for its own jobs, and every submit is counted or outstanding;
\* the active job of a worker that finishes is counted, and still waited for.
HandleOK(h) ==
  /\ IsFiniteSet(Asking(h))
  /\ handle[h].pending = Has(queue, h) + Has(active, h)
  /\ handle[h].submits = SumFunction(handle[h].counts) + Cardinality(Asking(h))
       + Has(queue, h) + IF working = "finish" THEN 0 ELSE Has(active, h)
  /\ handle[h].shutdown # "no" => handle[h].closed
  /\ handle[h].shutdown = "drained" => handle[h].pending = 0

ExecutorOK ==
  /\ handle \in [Handles -> HandleStates]
  /\ caller \in [Callers -> CallerStates]
  /\ \A t \in Callers : caller[t].at # "idle" => caller[t].job \in Jobs
  /\ queue \in Jobs \cup {NoJob} /\ active \in Jobs \cup {NoJob}
  /\ working \in Stations
  /\ active # NoJob <=> working \in {"source", "run", "finish"}
  /\ queue # NoJob => working # "none"
  /\ accepted \in Nat /\ accepted <= Budget

ShadowInv == RunsInv /\ ExecutorOK /\ \A h \in Handles : HandleOK(h)

\* Counting a diagnostic adds one to the counters of its handle.
LEMMA CountedAddsOne ==
  ASSUME NEW x \in HandleStates, NEW key \in Diagnostics
  PROVE  /\ Counted(x, key) \in HandleStates
         /\ SumFunction(x.counts) \in Nat
         /\ SumFunction(Counted(x, key).counts) = SumFunction(x.counts) + 1
         /\ Counted(x, key).closed = x.closed /\ Counted(x, key).pending = x.pending
         /\ Counted(x, key).submits = x.submits /\ Counted(x, key).shutdown = x.shutdown
<1>1. x.counts \in [Diagnostics -> Nat]
  BY DEF HandleStates
<1>2. Counted(x, key).counts = [x.counts EXCEPT ![key] = @ + 1]
  BY DEF Counted, HandleStates
<1>3. Counted(x, key) \in HandleStates
  BY DEF Counted, HandleStates
<1>4. /\ SumFunction(x.counts) \in Nat
      /\ SumFunction([x.counts EXCEPT ![key] = @ + 1]) = SumFunction(x.counts) + 1
  BY <1>1, DiagnosticsAreFinite, SumAddsOne
<1> QED BY <1>2, <1>3, <1>4 DEF Counted, HandleStates

\* A caller that leaves submit, and one that comes in.
LEMMA CallerLeaves ==
  ASSUME ShadowInv, NEW t \in Callers, caller[t].at # "idle",
         caller' = [caller EXCEPT ![t] = [at |-> "idle", job |-> NoJob]]
  PROVE  /\ caller' \in [Callers -> CallerStates]
         /\ \A u \in Callers : caller'[u].at # "idle" => caller'[u].job \in Jobs
         /\ \A h \in Handles :
              /\ IsFiniteSet(Asking(h)')
              /\ Cardinality(Asking(h)) \in Nat /\ Cardinality(Asking(h)') \in Nat
              /\ Cardinality(Asking(h)) =
                   Cardinality(Asking(h)') + IF caller[t].job.owner = h THEN 1 ELSE 0
<1>1. /\ caller \in [Callers -> CallerStates] /\ \A h \in Handles : IsFiniteSet(Asking(h))
      /\ \A u \in Callers : caller[u].at # "idle" => caller[u].job \in Jobs
  BY DEF ShadowInv, ExecutorOK, HandleOK
<1>2. \A u \in Callers : caller'[u] = IF u = t THEN [at |-> "idle", job |-> NoJob] ELSE caller[u]
  BY <1>1
<1>3. caller' \in [Callers -> CallerStates]
  BY <1>1 DEF CallerStates
<1>4. \A h \in Handles : Asking(h)' = Asking(h) \ {t}
                         /\ (t \in Asking(h) <=> caller[t].job.owner = h)
  BY <1>2 DEF Asking
<1>5. \A h \in Handles : IsFiniteSet(Asking(h)') /\ Cardinality(Asking(h)) \in Nat
        /\ Cardinality(Asking(h)') = IF t \in Asking(h) THEN Cardinality(Asking(h)) - 1
                                                        ELSE Cardinality(Asking(h))
  BY <1>1, <1>4, FS_RemoveElement, FS_CardinalityType
<1>6. \A h \in Handles : Cardinality(Asking(h)') \in Nat
  BY <1>5, FS_CardinalityType
<1> QED BY <1>1, <1>2, <1>3, <1>4, <1>5, <1>6

LEMMA CallerComes ==
  ASSUME ShadowInv, NEW t \in Callers, NEW o \in Handles, NEW d \in Sources, caller[t].at = "idle",
         caller' = [caller EXCEPT ![t] = [at |-> "configure", job |-> [owner |-> o, on |-> d]]]
  PROVE  /\ caller' \in [Callers -> CallerStates]
         /\ \A u \in Callers : caller'[u].at # "idle" => caller'[u].job \in Jobs
         /\ \A h \in Handles :
              /\ IsFiniteSet(Asking(h)')
              /\ Cardinality(Asking(h)) \in Nat /\ Cardinality(Asking(h)') \in Nat
              /\ Cardinality(Asking(h)') = Cardinality(Asking(h)) + IF o = h THEN 1 ELSE 0
<1> DEFINE v == [at |-> "configure", job |-> [owner |-> o, on |-> d]]
<1>1. /\ caller \in [Callers -> CallerStates] /\ \A h \in Handles : IsFiniteSet(Asking(h))
      /\ \A u \in Callers : caller[u].at # "idle" => caller[u].job \in Jobs
  BY DEF ShadowInv, ExecutorOK, HandleOK
<1>2. \A u \in Callers : caller'[u] = IF u = t THEN v ELSE caller[u]
  BY <1>1
<1>3. v \in CallerStates /\ v.job \in Jobs /\ v.at = "configure" /\ v.job.owner = o
  BY DEF CallerStates, Jobs
<1> HIDE DEF v
<1>4. caller' \in [Callers -> CallerStates]
  BY <1>1, <1>3 DEF v
<1>5. \A h \in Handles : Asking(h)' = IF o = h THEN Asking(h) \cup {t} ELSE Asking(h)
  BY <1>2, <1>3 DEF Asking
<1>6. \A h \in Handles : t \notin Asking(h)
  BY DEF Asking
<1>7. \A h \in Handles : IsFiniteSet(Asking(h)') /\ Cardinality(Asking(h)) \in Nat
        /\ Cardinality(Asking(h)') = Cardinality(Asking(h)) + IF o = h THEN 1 ELSE 0
  BY <1>1, <1>5, <1>6, FS_AddElement, FS_CardinalityType
<1>8. \A h \in Handles : Cardinality(Asking(h)') \in Nat
  BY <1>7, FS_CardinalityType
<1> QED BY <1>1, <1>2, <1>3, <1>4, <1>7, <1>8

LEMMA HandleCounts ==
  ASSUME ShadowInv, NEW o \in Handles, NEW key \in Diagnostics,
         handle' = [handle EXCEPT ![o] = Counted(@, key)]
  PROVE  /\ handle' \in [Handles -> HandleStates]
         /\ \A h \in Handles :
              /\ handle'[h].pending = handle[h].pending /\ handle'[h].closed = handle[h].closed
              /\ handle'[h].submits = handle[h].submits
              /\ handle'[h].shutdown = handle[h].shutdown
              /\ SumFunction(handle'[h].counts) =
                   SumFunction(handle[h].counts) + IF h = o THEN 1 ELSE 0
<1>1. handle \in [Handles -> HandleStates]
  BY DEF ShadowInv, ExecutorOK
<1>2. \A h \in Handles : handle'[h] = IF h = o THEN Counted(handle[h], key) ELSE handle[h]
  BY <1>1
<1>3. \A h \in Handles : SumFunction(handle[h].counts) \in Nat
  BY <1>1, CountedAddsOne
<1> QED BY <1>1, <1>2, <1>3, CountedAddsOne

\* What is known of every handle's numbers.
LEMMA Numbers ==
  ASSUME ShadowInv, NEW h \in Handles
  PROVE  /\ handle[h] \in HandleStates
         /\ SumFunction(handle[h].counts) \in Nat /\ Cardinality(Asking(h)) \in Nat
         /\ handle[h].pending \in Nat /\ handle[h].submits \in Nat
         /\ HandleOK(h)
<1>1. handle[h] \in HandleStates /\ HandleOK(h)
  BY DEF ShadowInv, ExecutorOK
<1>2. SumFunction(handle[h].counts) \in Nat
  BY <1>1, CountedAddsOne DEF Diagnostics
<1>3. Cardinality(Asking(h)) \in Nat
  BY <1>1, FS_CardinalityType DEF HandleOK
<1> QED BY <1>1, <1>2, <1>3 DEF HandleStates

\* The rest of the state while a caller or an operator acts.
Elsewhere == UNCHANGED <<queue, active, working, accepted>>

LEMMA SubmitStep ==
  ASSUME ShadowInv, NEW t \in Callers, NEW o \in Handles, NEW d \in LiveSources,
         NEW enabled \in BOOLEAN, Submit(t, o, d, enabled)
  PROVE  ExecutorOK' /\ \A h \in Handles : HandleOK(h)'
<1> DEFINE asked == [handle[o] EXCEPT !.submits = @ + 1]
<1>1. ExecutorOK /\ Elsewhere /\ caller[t].at = "idle" /\ d \in Sources
  BY LiveSourcesAreSources DEF ShadowInv, Submit, Elsewhere
<1>2. /\ asked \in HandleStates /\ asked.submits = handle[o].submits + 1
      /\ asked.pending = handle[o].pending /\ asked.counts = handle[o].counts
      /\ asked.closed = handle[o].closed /\ asked.shutdown = handle[o].shutdown
  BY Numbers DEF HandleStates
<1> HIDE DEF asked
<1>3. CASE handle[o].closed \/ ~enabled
  <2>1. handle' = [handle EXCEPT ![o] = Counted(asked, "disabled")] /\ caller' = caller
    BY <1>3 DEF Submit, asked
  <2>2. "disabled" \in Diagnostics
    BY DEF Diagnostics
  <2>3. handle' \in [Handles -> HandleStates]
    BY <1>1, <1>2, <2>1, <2>2, CountedAddsOne DEF ExecutorOK
  <2>4. ASSUME NEW h \in Handles PROVE HandleOK(h)'
    <3>1. Asking(h)' = Asking(h)
      BY <2>1 DEF Asking
    <3>2. CASE h = o
      <4>1. handle'[h] = Counted(asked, "disabled")
        BY <1>1, <2>1, <3>2 DEF ExecutorOK
      <4>2. /\ handle'[h].pending = handle[h].pending /\ handle'[h].closed = handle[h].closed
            /\ handle'[h].shutdown = handle[h].shutdown
            /\ handle'[h].submits = handle[h].submits + 1
            /\ SumFunction(handle'[h].counts) = SumFunction(handle[h].counts) + 1
        BY <1>2, <2>2, <3>2, <4>1, CountedAddsOne
      <4>3. /\ Has(queue', h) = Has(queue, h) /\ Has(active', h) = Has(active, h)
            /\ working' = working /\ Has(queue, h) \in Nat /\ Has(active, h) \in Nat
        BY <1>1 DEF Elsewhere, Has
      <4> QED BY <3>1, <4>2, <4>3, Numbers DEF HandleOK
    <3>3. CASE h # o
      <4>1. handle'[h] = handle[h]
        BY <1>1, <2>1, <3>3 DEF ExecutorOK
      <4> QED BY <1>1, <3>1, <4>1, Numbers DEF HandleOK, Elsewhere, Has
    <3> QED BY <3>2, <3>3
  <2> QED BY <1>1, <2>1, <2>3, <2>4 DEF ExecutorOK, Elsewhere
<1>4. CASE ~(handle[o].closed \/ ~enabled)
  <2>1. /\ handle' = [handle EXCEPT ![o] = asked]
        /\ caller' = [caller EXCEPT ![t] = [at |-> "configure", job |-> [owner |-> o, on |-> d]]]
    BY <1>4 DEF Submit, asked
  <2>2. handle' \in [Handles -> HandleStates]
    BY <1>1, <1>2, <2>1 DEF ExecutorOK
  <2>3. /\ caller' \in [Callers -> CallerStates]
        /\ \A u \in Callers : caller'[u].at # "idle" => caller'[u].job \in Jobs
        /\ \A h \in Handles :
             /\ IsFiniteSet(Asking(h)')
             /\ Cardinality(Asking(h)') = Cardinality(Asking(h)) + IF o = h THEN 1 ELSE 0
    BY <1>1, <2>1, CallerComes
  <2>4. ASSUME NEW h \in Handles PROVE HandleOK(h)'
    <3>1. handle'[h] = IF h = o THEN asked ELSE handle[h]
      BY <1>1, <2>1 DEF ExecutorOK
    <3>2. /\ handle'[h].pending = handle[h].pending /\ handle'[h].closed = handle[h].closed
          /\ handle'[h].shutdown = handle[h].shutdown /\ handle'[h].counts = handle[h].counts
          /\ handle'[h].submits = handle[h].submits + IF o = h THEN 1 ELSE 0
      BY <1>2, <3>1, Numbers
    <3> QED BY <1>1, <2>3, <3>2, Numbers DEF HandleOK, Elsewhere, Has
  <2> QED BY <1>1, <2>2, <2>3, <2>4 DEF ExecutorOK, Elsewhere
<1> QED BY <1>3, <1>4

LEMMA ConfigureStep ==
  ASSUME ShadowInv, NEW t \in Callers,
         NEW result \in {"ready", "configuration_unavailable", "egress_not_authorized"},
         Configure(t, result)
  PROVE  ExecutorOK' /\ \A h \in Handles : HandleOK(h)'
<1>1. ExecutorOK /\ Elsewhere /\ caller[t].at = "configure"
  BY DEF ShadowInv, Configure, Elsewhere
<1>2. caller[t].job \in Jobs /\ caller[t].job.owner \in Handles /\ caller[t] \in CallerStates
  BY <1>1 DEF ExecutorOK, Jobs
<1>3. CASE result = "ready"
  <2>1. caller' = [caller EXCEPT ![t].at = "admit"] /\ handle' = handle
    BY <1>3 DEF Configure
  <2>2. \A u \in Callers : caller'[u] = IF u = t THEN [caller[u] EXCEPT !.at = "admit"]
                                                ELSE caller[u]
    BY <1>1, <2>1 DEF ExecutorOK
  <2>3. /\ caller' \in [Callers -> CallerStates]
        /\ \A u \in Callers : caller'[u].job = caller[u].job
                              /\ (caller'[u].at # "idle" <=> caller[u].at # "idle")
    BY <1>1, <1>2, <2>1, <2>2 DEF ExecutorOK, CallerStates
  <2>4. \A h \in Handles : Asking(h)' = Asking(h)
    BY <2>3 DEF Asking
  <2>5. ASSUME NEW h \in Handles PROVE HandleOK(h)'
    BY <1>1, <2>1, <2>4, Numbers DEF HandleOK, Elsewhere, Has
  <2> QED BY <1>1, <2>1, <2>3, <2>5 DEF ExecutorOK, Elsewhere
<1>4. CASE result # "ready"
  <2> DEFINE o == caller[t].job.owner
  <2>1. /\ caller' = [caller EXCEPT ![t] = [at |-> "idle", job |-> NoJob]]
        /\ handle' = [handle EXCEPT ![o] = Counted(@, result)]
    BY <1>4 DEF Configure
  <2>2. result \in Diagnostics
    BY <1>4 DEF Diagnostics
  <2>3. /\ caller' \in [Callers -> CallerStates]
        /\ \A u \in Callers : caller'[u].at # "idle" => caller'[u].job \in Jobs
        /\ \A h \in Handles :
             /\ IsFiniteSet(Asking(h)') /\ Cardinality(Asking(h)') \in Nat
             /\ Cardinality(Asking(h)) = Cardinality(Asking(h)') + IF o = h THEN 1 ELSE 0
    BY <1>1, <2>1, CallerLeaves
  <2>4. /\ handle' \in [Handles -> HandleStates]
        /\ \A h \in Handles :
             /\ handle'[h].pending = handle[h].pending /\ handle'[h].closed = handle[h].closed
             /\ handle'[h].submits = handle[h].submits /\ handle'[h].shutdown = handle[h].shutdown
             /\ SumFunction(handle'[h].counts) =
                  SumFunction(handle[h].counts) + IF h = o THEN 1 ELSE 0
    BY <1>2, <2>1, <2>2, HandleCounts
  <2>5. ASSUME NEW h \in Handles PROVE HandleOK(h)'
    BY <1>1, <2>3, <2>4, Numbers DEF HandleOK, Elsewhere, Has
  <2> QED BY <1>1, <2>3, <2>4, <2>5 DEF ExecutorOK, Elsewhere
<1> QED BY <1>3, <1>4

LEMMA AdmitStep ==
  ASSUME ShadowInv, NEW t \in Callers, NEW starts \in BOOLEAN, Admit(t, starts)
  PROVE  ExecutorOK' /\ \A h \in Handles : HandleOK(h)'
<1> DEFINE o == caller[t].job.owner
<1>1. /\ ExecutorOK /\ caller[t].at = "admit" /\ active' = active
      /\ caller' = [caller EXCEPT ![t] = [at |-> "idle", job |-> NoJob]]
  BY DEF ShadowInv, Admit
<1>2. caller[t].job \in Jobs /\ o \in Handles /\ caller[t].job # NoJob
  BY <1>1, NoJobIsNoJob DEF ExecutorOK, Jobs
<1>3. /\ caller' \in [Callers -> CallerStates]
      /\ \A u \in Callers : caller'[u].at # "idle" => caller'[u].job \in Jobs
      /\ \A h \in Handles :
           /\ IsFiniteSet(Asking(h)') /\ Cardinality(Asking(h)') \in Nat
           /\ Cardinality(Asking(h)) = Cardinality(Asking(h)') + IF o = h THEN 1 ELSE 0
  BY <1>1, CallerLeaves
<1>4. ASSUME NEW key \in Diagnostics, handle' = [handle EXCEPT ![o] = Counted(@, key)],
             UNCHANGED <<queue, working, accepted>>
      PROVE  ExecutorOK' /\ \A h \in Handles : HandleOK(h)'
  <2>1. /\ handle' \in [Handles -> HandleStates]
        /\ \A h \in Handles :
             /\ handle'[h].pending = handle[h].pending /\ handle'[h].closed = handle[h].closed
             /\ handle'[h].submits = handle[h].submits /\ handle'[h].shutdown = handle[h].shutdown
             /\ SumFunction(handle'[h].counts) =
                  SumFunction(handle[h].counts) + IF h = o THEN 1 ELSE 0
    BY <1>2, <1>4, HandleCounts
  <2>2. ASSUME NEW h \in Handles PROVE HandleOK(h)'
    BY <1>1, <1>3, <1>4, <2>1, Numbers DEF HandleOK, Has
  <2> QED BY <1>1, <1>3, <1>4, <2>1, <2>2 DEF ExecutorOK
<1>5. Refusal(o) # "none" => Refusal(o) \in Diagnostics
  BY DEF Refusal, Diagnostics
<1>6. CASE Refusal(o) # "none"
  BY <1>4, <1>5, <1>6 DEF Admit
<1>7. CASE Refusal(o) = "none" /\ working = "none" /\ ~starts
  <2>1. "configuration_unavailable" \in Diagnostics
    BY DEF Diagnostics
  <2> QED BY <1>4, <1>7, <2>1 DEF Admit
<1>8. CASE Refusal(o) = "none" /\ ~(working = "none" /\ ~starts)
  <2>1. /\ handle' = [handle EXCEPT ![o].pending = @ + 1]
        /\ queue' = caller[t].job /\ accepted' = accepted + 1
        /\ working' = IF working = "none" THEN "take" ELSE working
    BY <1>8 DEF Admit
  <2>2. ~handle[o].closed /\ queue = NoJob /\ ~(accepted >= Budget)
    BY <1>8 DEF Refusal
  <2>3. /\ accepted \in Nat /\ accepted <= Budget /\ Budget \in Nat
    BY <1>1, BudgetIsNatural DEF ExecutorOK
  <2>4. handle' \in [Handles -> HandleStates]
    <3>1. handle[o] \in HandleStates
      BY <1>1, <1>2 DEF ExecutorOK
    <3>2. [handle[o] EXCEPT !.pending = @ + 1] \in HandleStates
      BY <3>1 DEF HandleStates
    <3> HIDE DEF o
    <3> QED BY <1>1, <2>1, <3>2 DEF ExecutorOK
  <2>5. \A h \in Handles : Has(queue', h) = (IF o = h THEN 1 ELSE 0) /\ Has(queue, h) = 0
    BY <1>2, <2>1, <2>2 DEF Has
  <2>6. \A h \in Handles : Has(active', h) = Has(active, h)
    BY <1>1 DEF Has
  <2>7. working' = "finish" <=> working = "finish"
    BY <2>1
  <2>8. ASSUME NEW h \in Handles PROVE HandleOK(h)'
    <3>1. handle'[h] = IF h = o THEN [handle[h] EXCEPT !.pending = @ + 1] ELSE handle[h]
      BY <1>1, <2>1 DEF ExecutorOK
    <3>2. /\ handle'[h].pending = handle[h].pending + IF o = h THEN 1 ELSE 0
          /\ handle'[h].closed = handle[h].closed
          /\ handle'[h].submits = handle[h].submits /\ handle'[h].shutdown = handle[h].shutdown
          /\ handle'[h].counts = handle[h].counts
      BY <3>1, Numbers DEF HandleStates
    <3>3. o = h => handle[h].shutdown = "no"
      BY <2>2, Numbers DEF HandleOK
    <3>4. Has(active, h) \in Nat
      BY DEF Has
    <3> QED BY <1>3, <2>5, <2>6, <2>7, <3>2, <3>3, <3>4, Numbers DEF HandleOK
  <2>9. working' \in Stations /\ working' # "none" /\ (active # NoJob <=> working' \in {"source", "run", "finish"})
    BY <1>1, <2>1 DEF ExecutorOK, Stations
  <2> QED BY <1>1, <1>2, <1>3, <2>1, <2>2, <2>3, <2>4, <2>8, <2>9 DEF ExecutorOK
<1> QED BY <1>6, <1>7, <1>8

\* The worker counts the job it holds, and goes on to wake the waiters.
LEMMA CountedStep ==
  ASSUME ShadowInv, NEW key \in Diagnostics, working \in {"source", "run"}, CountActive(key),
         working' = "finish", UNCHANGED <<caller, queue, active, accepted>>
  PROVE  ExecutorOK' /\ \A h \in Handles : HandleOK(h)'
<1> DEFINE o == active.owner
<1>1. ExecutorOK /\ active # NoJob /\ o \in Handles
  BY DEF ShadowInv, ExecutorOK, Jobs
<1>2. /\ handle' \in [Handles -> HandleStates]
      /\ \A h \in Handles :
           /\ handle'[h].pending = handle[h].pending /\ handle'[h].closed = handle[h].closed
           /\ handle'[h].submits = handle[h].submits /\ handle'[h].shutdown = handle[h].shutdown
           /\ SumFunction(handle'[h].counts) =
                SumFunction(handle[h].counts) + IF h = o THEN 1 ELSE 0
  BY <1>1, HandleCounts DEF CountActive
<1>3. ASSUME NEW h \in Handles PROVE HandleOK(h)'
  <2>1. /\ Asking(h)' = Asking(h) /\ Has(queue', h) = Has(queue, h)
        /\ Has(active', h) = Has(active, h) /\ Has(active, h) = IF h = o THEN 1 ELSE 0
        /\ Has(queue, h) \in Nat
    BY <1>1 DEF Asking, Has
  <2>2. working # "finish" /\ working' = "finish"
    OBVIOUS
  <2> QED BY <1>2, <2>1, <2>2, Numbers DEF HandleOK
<1> QED BY <1>1, <1>2, <1>3 DEF ExecutorOK, Stations

\* Nothing that a handle's numbers depend on changes.
LEMMA HandlesStay ==
  ASSUME ShadowInv, UNCHANGED <<handle, caller>>,
         \A h \in Handles : /\ Has(queue', h) + Has(active', h) = Has(queue, h) + Has(active, h)
                            /\ (working' = "finish") = (working = "finish")
                            /\ working = "finish" => queue' = queue /\ active' = active
  PROVE  \A h \in Handles : HandleOK(h)'
<1>1. ASSUME NEW h \in Handles PROVE HandleOK(h)'
  <2>1. Asking(h)' = Asking(h)
    BY DEF Asking
  <2>2. /\ Has(queue, h) \in Nat /\ Has(queue', h) \in Nat
        /\ Has(active, h) \in Nat /\ Has(active', h) \in Nat
    BY DEF Has
  <2>3. CASE working = "finish"
    BY <2>1, <2>2, <2>3, Numbers DEF HandleOK
  <2>4. CASE working # "finish"
    BY <2>1, <2>2, <2>4, Numbers DEF HandleOK
  <2> QED BY <2>3, <2>4
<1> QED BY <1>1

LEMMA TakeStep ==
  ASSUME ShadowInv, Take \/ WorkerEnds
  PROVE  ExecutorOK' /\ \A h \in Handles : HandleOK(h)'
<1>1. ExecutorOK /\ working = "take" /\ active = NoJob
  BY DEF ShadowInv, ExecutorOK, Take, WorkerEnds
<1>2. CASE Take
  <2>1. /\ queue # NoJob /\ active' = queue /\ queue' = NoJob /\ working' = "source"
        /\ UNCHANGED <<handle, caller, accepted>>
    BY <1>2 DEF Take
  <2>2. \A h \in Handles : Has(queue', h) + Has(active', h) = Has(queue, h) + Has(active, h)
    BY <1>1, <2>1 DEF Has
  <2> QED BY <1>1, <2>1, <2>2, HandlesStay DEF ExecutorOK, Stations
<1>3. CASE WorkerEnds
  <2>1. queue = NoJob /\ working' = "none" /\ UNCHANGED <<handle, caller, queue, active, accepted>>
    BY <1>3 DEF WorkerEnds
  <2> QED BY <1>1, <2>1, HandlesStay DEF ExecutorOK, Stations
<1> QED BY <1>2, <1>3

LEMMA FinishStep ==
  ASSUME ShadowInv, Finish
  PROVE  ExecutorOK' /\ \A h \in Handles : HandleOK(h)'
<1> DEFINE o == active.owner
<1>1. /\ ExecutorOK /\ active # NoJob /\ o \in Handles /\ working = "finish"
      /\ handle' = [handle EXCEPT ![o].pending = @ - 1]
      /\ active' = NoJob /\ working' = "take" /\ UNCHANGED <<caller, queue, accepted>>
  BY DEF ShadowInv, ExecutorOK, Jobs, Finish
<1>2. \A h \in Handles : /\ Has(queue', h) = Has(queue, h) /\ Has(queue, h) \in Nat
                         /\ Has(active', h) = 0 /\ Has(active, h) = IF h = o THEN 1 ELSE 0
  BY <1>1 DEF Has
<1>3. handle[o] \in HandleStates /\ handle[o].pending - 1 \in Nat
  BY <1>1, <1>2, Numbers DEF HandleOK
<1>4. handle' \in [Handles -> HandleStates]
  <2>1. [handle[o] EXCEPT !.pending = @ - 1] \in HandleStates
    BY <1>3 DEF HandleStates
  <2> HIDE DEF o
  <2> QED BY <1>1, <2>1 DEF ExecutorOK
<1>5. ASSUME NEW h \in Handles PROVE HandleOK(h)'
  <2>1. Asking(h)' = Asking(h)
    BY <1>1 DEF Asking
  <2>2. handle'[h] = IF h = o THEN [handle[h] EXCEPT !.pending = @ - 1] ELSE handle[h]
    BY <1>1 DEF ExecutorOK
  <2>3. /\ handle'[h].pending = handle[h].pending - (IF h = o THEN 1 ELSE 0)
        /\ handle'[h].closed = handle[h].closed
        /\ handle'[h].submits = handle[h].submits /\ handle'[h].shutdown = handle[h].shutdown
        /\ handle'[h].counts = handle[h].counts
    BY <2>2, Numbers DEF HandleStates
  <2> HIDE DEF o
  <2>4. handle[h].shutdown = "drained" => h # o
    BY <1>2, Numbers DEF HandleOK
  <2>5. working' # "finish" /\ working = "finish"
    BY <1>1
  <2> QED BY <1>2, <2>1, <2>3, <2>4, <2>5, Numbers DEF HandleOK
<1> QED BY <1>1, <1>4, <1>5 DEF ExecutorOK, Stations

LEMMA ShutdownStep ==
  ASSUME ShadowInv, NEW o \in Handles, Shutdown(o) \/ ShutdownReturns(o) \/ ShutdownTimesOut(o)
  PROVE  ExecutorOK' /\ \A h \in Handles : HandleOK(h)'
<1>1. /\ ExecutorOK /\ Elsewhere /\ caller' = caller
  BY DEF ShadowInv, Shutdown, ShutdownReturns, ShutdownTimesOut, Elsewhere
<1> DEFINE x == handle[o]
<1>2. PICK y \in HandleStates :
        /\ handle' = [handle EXCEPT ![o] = y]
        /\ y.pending = x.pending /\ y.counts = x.counts /\ y.submits = x.submits
        /\ y.closed
        /\ y.shutdown = "drained" => y.pending = 0
  <2>1. x \in HandleStates /\ HandleOK(o)
    BY Numbers
  <2>2. CASE Shutdown(o)
    <3> DEFINE y == [x EXCEPT !.closed = TRUE, !.shutdown = "waiting"]
    <3>1. handle' = [handle EXCEPT ![o] = y]
      BY <1>1, <2>2 DEF Shutdown, ExecutorOK
    <3>2. /\ y \in HandleStates /\ y.closed /\ y.shutdown = "waiting"
          /\ y.pending = x.pending /\ y.counts = x.counts /\ y.submits = x.submits
      BY <2>1 DEF HandleStates, Shutdowns
    <3> HIDE DEF x, y
    <3> QED BY <3>1, <3>2
  <2>3. CASE ShutdownReturns(o)
    <3> DEFINE y == [x EXCEPT !.shutdown = "drained"]
    <3>1. handle' = [handle EXCEPT ![o] = y] /\ x.pending = 0 /\ x.closed
      BY <1>1, <2>1, <2>3 DEF ShutdownReturns, ExecutorOK, HandleOK
    <3>2. /\ y \in HandleStates /\ y.closed = x.closed
          /\ y.pending = x.pending /\ y.counts = x.counts /\ y.submits = x.submits
      BY <2>1 DEF HandleStates, Shutdowns
    <3> HIDE DEF x, y
    <3> QED BY <3>1, <3>2
  <2>4. CASE ShutdownTimesOut(o)
    <3> DEFINE y == [x EXCEPT !.shutdown = "timed out"]
    <3>1. handle' = [handle EXCEPT ![o] = y] /\ x.closed
      BY <1>1, <2>1, <2>4 DEF ShutdownTimesOut, ExecutorOK, HandleOK
    <3>2. /\ y \in HandleStates /\ y.closed = x.closed /\ y.shutdown = "timed out"
          /\ y.pending = x.pending /\ y.counts = x.counts /\ y.submits = x.submits
      BY <2>1 DEF HandleStates, Shutdowns
    <3> HIDE DEF x, y
    <3> QED BY <3>1, <3>2
  <2> QED BY <2>2, <2>3, <2>4
<1>3. handle' \in [Handles -> HandleStates]
  BY <1>1, <1>2 DEF ExecutorOK
<1>4. ASSUME NEW h \in Handles PROVE HandleOK(h)'
  <2>1. handle'[h] = IF h = o THEN y ELSE handle[h]
    BY <1>1, <1>2 DEF ExecutorOK
  <2>2. /\ Asking(h)' = Asking(h) /\ Has(queue', h) = Has(queue, h)
        /\ Has(active', h) = Has(active, h) /\ working' = working
    BY <1>1 DEF Asking, Has, Elsewhere
  <2>3. /\ handle'[h].pending = handle[h].pending /\ handle'[h].counts = handle[h].counts
        /\ handle'[h].submits = handle[h].submits
        /\ handle'[h].shutdown # "no" => handle'[h].closed
        /\ handle'[h].shutdown = "drained" => handle'[h].pending = 0
    BY <1>2, <2>1, Numbers DEF HandleOK
  <2> QED BY <2>2, <2>3, Numbers DEF HandleOK
<1> QED BY <1>1, <1>3, <1>4 DEF ExecutorOK, Elsewhere

\* The worker's run of the decision it waited for.
LEMMA SourceStep ==
  ASSUME ShadowInv, NEW delimited \in BOOLEAN, SourceFound(delimited)
  PROVE  RunsInv' /\ ExecutorOK' /\ \A h \in Handles : HandleOK(h)'
<1> DEFINE d == active.on
           y == [NoRun EXCEPT !.at = "prepared", !.todo = {d}, !.disclosed = {d},
                   !.blobs = TRUE, !.delimited = delimited, !.inputs = 1]
<1>1. /\ RunsInv /\ ExecutorOK /\ working = "source" /\ d \in decided /\ working' = "run"
      /\ run' = [run EXCEPT ![Worker] = y] /\ Worker \in Runners
      /\ UNCHANGED <<decided, reconciled, archive, handle, caller, queue, active, accepted>>
  BY DEF ShadowInv, SourceFound, Runners
<1>2. d \in Sources
  BY <1>1 DEF RunsInv, StoreOK
<1> HIDE DEF d
<1>3. /\ y.todo = {d} /\ y.disclosed = {d} /\ y.cases = {} /\ y.blobs = TRUE
      /\ y.inputs = 1 /\ y.outcomes = {} /\ y \in Runs /\ y.at = "prepared"
  BY <1>2 DEF NoRun, Runs, Phases
<1> HIDE DEF y
<1>4. IsFiniteSet({d}) /\ Cardinality({d}) = 1
  BY FS_Singleton
<1>5. Cardinality(Enrichable(y)) <= y.inputs
  BY <1>3, <1>4, FS_Subset DEF Enrichable
<1>6. RunOK(y) /\ y.outcomes \subseteq reconciled
  BY <1>3, <1>4, <1>5 DEF RunOK, OneCaseEach, InPhase
<1>7. RunsInv'
  BY <1>1, <1>6, FreshRun
<1>8. \A h \in Handles : HandleOK(h)'
  BY <1>1, HandlesStay
<1> QED BY <1>1, <1>7, <1>8 DEF ExecutorOK, Stations

LEMMA SourceMissingStep ==
  ASSUME ShadowInv, NEW key \in Diagnostics, SourceMissing(key)
  PROVE  RunsInv' /\ ExecutorOK' /\ \A h \in Handles : HandleOK(h)'
BY CountedStep, RunsStay DEF ShadowInv, SourceMissing

\* The run is recorded, or fails, and is counted.
LEMMA RecordStep ==
  ASSUME ShadowInv, ShadowRecords \/ ShadowFails
  PROVE  RunsInv' /\ ExecutorOK' /\ \A h \in Handles : HandleOK(h)'
<1>1. /\ working = "run" /\ working' = "finish" /\ UNCHANGED <<caller, queue, active, accepted>>
      /\ UNCHANGED <<decided, reconciled>> /\ run' = [run EXCEPT ![Worker] = NoRun]
      /\ archive' = archive \/ archive' = archive \cup {Archived(Worker)}
      /\ Worker \in Runners /\ RunsInv
  BY DEF ShadowInv, ShadowRecords, ShadowFails, Runners
<1>2. RunsInv'
  BY <1>1, EndOfRun
<1>3. "storage_failure" \in Diagnostics /\ \A failure : DiagnosisOf(failure) \in Diagnostics
  BY DEF Diagnostics, DiagnosisOf
<1>4. \E key \in Diagnostics : CountActive(key)
  BY <1>3 DEF ShadowRecords, ShadowFails
<1> QED BY <1>1, <1>2, <1>4, CountedStep

LEMMA ShadowStep == ShadowInv /\ [ShadowNext]_shadowVars => ShadowInv'
<1> SUFFICES ASSUME ShadowInv, [ShadowNext]_shadowVars PROVE ShadowInv'
  OBVIOUS
<1>1. RunsInv /\ ExecutorOK
  BY DEF ShadowInv
<1>2. ASSUME UNCHANGED counterfactualVars, ExecutorOK' /\ \A h \in Handles : HandleOK(h)'
      PROVE  ShadowInv'
  BY <1>1, <1>2, RunsStay DEF ShadowInv
<1>3. ASSUME UNCHANGED <<handle, caller, queue, active, working, accepted>>, RunsInv'
      PROVE  ShadowInv'
  <2>1. \A h \in Handles : HandleOK(h)'
    BY <1>3, HandlesStay
  <2> QED BY <1>1, <1>3, <2>1 DEF ShadowInv, ExecutorOK
<1>4. ASSUME NEW d \in LiveSources, SourceStored(d) PROVE ShadowInv'
  BY <1>1, <1>3, <1>4, LiveSourcesAreSources, StoredStep DEF SourceStored
<1>5. CASE WorkerNext
  <2>1. Worker \in Runners
    BY DEF Runners
  <2>2. CASE Take \/ WorkerEnds
    BY <1>2, <2>2, TakeStep DEF Take, WorkerEnds
  <2>3. CASE Finish
    BY <1>2, <2>3, FinishStep DEF Finish
  <2>4. ASSUME NEW delimited \in BOOLEAN, SourceFound(delimited) PROVE ShadowInv'
    BY <2>4, SourceStep DEF ShadowInv
  <2>5. ASSUME NEW key \in Diagnostics, SourceMissing(key) PROVE ShadowInv'
    BY <2>5, SourceMissingStep DEF ShadowInv
  <2>6. CASE ShadowRecords \/ ShadowFails
    BY <2>6, RecordStep DEF ShadowInv
  <2>7. CASE RunNext(Worker) /\ UNCHANGED <<handle, caller, queue, active, working, accepted>>
    BY <1>1, <1>3, <2>1, <2>7, RunNextStep
  <2> QED BY <1>5, <2>2, <2>3, <2>4, <2>5, <2>6, <2>7 DEF WorkerNext
<1>6. ASSUME NEW t \in Callers, NEW h \in Handles, NEW d \in LiveSources, NEW enabled \in BOOLEAN,
             Submit(t, h, d, enabled)
      PROVE  ShadowInv'
  BY <1>2, <1>6, SubmitStep DEF Submit
<1>7. ASSUME NEW t \in Callers,
             NEW result \in {"ready", "configuration_unavailable", "egress_not_authorized"},
             Configure(t, result)
      PROVE  ShadowInv'
  BY <1>2, <1>7, ConfigureStep DEF Configure
<1>8. ASSUME NEW t \in Callers, NEW starts \in BOOLEAN, Admit(t, starts) PROVE ShadowInv'
  BY <1>2, <1>8, AdmitStep DEF Admit
<1>9. ASSUME NEW h \in Handles, Shutdown(h) \/ ShutdownReturns(h) \/ ShutdownTimesOut(h)
      PROVE  ShadowInv'
  BY <1>2, <1>9, ShutdownStep DEF Shutdown, ShutdownReturns, ShutdownTimesOut
<1>10. CASE UNCHANGED shadowVars
  BY <1>1, <1>3, <1>10, RunsStay DEF shadowVars
<1> QED BY <1>4, <1>5, <1>6, <1>7, <1>8, <1>9, <1>10 DEF ShadowNext

LEMMA ShadowInitInv == ShadowInit => ShadowInv
<1> SUFFICES ASSUME ShadowInit PROVE ShadowInv
  OBVIOUS
<1> DEFINE zero == [d \in Diagnostics |-> 0]
<1>1. RunsInv
  BY RunsInit DEF ShadowInit
<1>2. zero \in [Diagnostics -> Nat] /\ SumFunction(zero) = 0
  BY DiagnosticsAreFinite, SumOfZeros
<1> HIDE DEF zero
<1>3. \A h \in Handles : handle[h] = [closed |-> FALSE, pending |-> 0, counts |-> zero,
                                      submits |-> 0, shutdown |-> "no"]
  BY DEF ShadowInit, zero
<1>4. handle \in [Handles -> HandleStates]
  BY <1>2 DEF ShadowInit, HandleStates, Shutdowns, zero
<1>5. caller \in [Callers -> CallerStates] /\ \A t \in Callers : caller[t].at = "idle"
  BY DEF ShadowInit, CallerStates
<1>6. ExecutorOK
  <2>1. queue = NoJob /\ active = NoJob /\ working = "none" /\ accepted = 0
    BY DEF ShadowInit
  <2> QED BY <1>4, <1>5, <2>1, BudgetIsNatural DEF ExecutorOK, Stations
<1>7. ASSUME NEW h \in Handles PROVE HandleOK(h)
  <2>1. Asking(h) = {}
    BY <1>5 DEF Asking
  <2>2. Has(queue, h) = 0 /\ Has(active, h) = 0
    BY DEF Has, ShadowInit
  <2> QED BY <1>2, <1>3, <2>1, <2>2, FS_EmptySet DEF HandleOK
<1> QED BY <1>1, <1>6, <1>7 DEF ShadowInv

LEMMA ShadowInvariant == ShadowSpec => []ShadowInv
BY ShadowInitInv, ShadowStep, PTL DEF ShadowSpec

-----------------------------------------------------------------------------
(* What follows for the executor.                                          *)

LEMMA JobsAreCounted ==
  ASSUME NEW h \in Handles
  PROVE  /\ Cardinality(JobsOf(h)) = Has(queue, h) + Has(active, h)
         /\ Has(queue, h) + Has(active, h) = 0 => JobsOf(h) = {}
<1> DEFINE q == <<"queued", queue>>
           a == <<"active", active>>
<1>1. q[2] = queue /\ a[2] = active /\ q # a
  <2>1. q[1] # a[1]
    OBVIOUS
  <2> QED BY <2>1
<1> HIDE DEF q, a
<1>2. JobsOf(h) = {j \in {q, a} : j[2] # NoJob /\ j[2].owner = h}
  BY DEF JobsOf, q, a
<1>3. JobsOf(h) = (IF Has(queue, h) = 1 THEN {q} ELSE {}) \cup (IF Has(active, h) = 1 THEN {a} ELSE {})
  <2>1. q \in JobsOf(h) <=> Has(queue, h) = 1
    BY <1>1, <1>2 DEF Has
  <2>2. a \in JobsOf(h) <=> Has(active, h) = 1
    BY <1>1, <1>2 DEF Has
  <2>3. JobsOf(h) \subseteq {q, a}
    BY <1>2
  <2> QED BY <2>1, <2>2, <2>3
<1>4. Has(queue, h) \in {0, 1} /\ Has(active, h) \in {0, 1}
  BY DEF Has
<1>5. /\ Cardinality({q}) = 1 /\ Cardinality({a}) = 1 /\ Cardinality({q} \cup {a}) = 2
      /\ Cardinality({}) = 0
  <2>1. IsFiniteSet({q}) /\ Cardinality({q}) = 1 /\ Cardinality({a}) = 1
    BY FS_Singleton
  <2>2. a \notin {q}
    BY <1>1
  <2>3. Cardinality({q} \cup {a}) = 2
    BY <2>1, <2>2, FS_AddElement
  <2>4. Cardinality({}) = 0
    BY FS_EmptySet
  <2> QED BY <2>1, <2>3, <2>4
<1> HIDE DEF JobsOf, Has
<1>6. CASE Has(queue, h) = 0
  <2>1. JobsOf(h) = IF Has(active, h) = 1 THEN {a} ELSE {}
    BY <1>3, <1>6
  <2> QED BY <1>4, <1>5, <1>6, <2>1
<1>7. CASE Has(queue, h) = 1
  <2>1. JobsOf(h) = IF Has(active, h) = 1 THEN {q} \cup {a} ELSE {q}
    BY <1>3, <1>7
  <2> QED BY <1>4, <1>5, <1>7, <2>1
<1> QED BY <1>4, <1>6, <1>7

LEMMA BooksAreKept == ShadowInv => ShadowKeepsBooks
<1> SUFFICES ASSUME ShadowInv PROVE ShadowKeepsBooks
  OBVIOUS
<1>1. ExecutorOK
  BY DEF ShadowInv
<1>2. ASSUME NEW h \in Handles
      PROVE  /\ handle[h].pending = Cardinality(JobsOf(h))
             /\ handle[h].submits =
                  SumFunction(handle[h].counts)
                    + Cardinality({t \in Callers : caller[t].at # "idle" /\ caller[t].job.owner = h})
                    + handle[h].pending
                    - IF working = "finish" /\ active.owner = h THEN 1 ELSE 0
             /\ handle[h].shutdown = "drained" => JobsOf(h) = {}
  <2>1. working = "finish" => active # NoJob
    BY <1>1 DEF ExecutorOK
  <2>2. /\ Has(queue, h) \in Nat /\ Has(active, h) \in Nat
        /\ working = "finish" => Has(active, h) = IF active.owner = h THEN 1 ELSE 0
    BY <2>1 DEF Has
  <2>3. {t \in Callers : caller[t].at # "idle" /\ caller[t].job.owner = h} = Asking(h)
    BY DEF Asking
  <2>4. handle[h].pending = Has(queue, h) + Has(active, h)
    BY Numbers DEF HandleOK
  <2>5. handle[h].submits = SumFunction(handle[h].counts) + Cardinality(Asking(h))
          + handle[h].pending - IF working = "finish" /\ active.owner = h THEN 1 ELSE 0
    <3>1. CASE working = "finish"
      BY <2>2, <2>4, <3>1, Numbers DEF HandleOK
    <3>2. CASE working # "finish"
      BY <2>2, <2>4, <3>2, Numbers DEF HandleOK
    <3> QED BY <3>1, <3>2
  <2>6. handle[h].shutdown = "drained" => handle[h].pending = 0
    BY Numbers DEF HandleOK
  <2> QED BY <2>3, <2>4, <2>5, <2>6, JobsAreCounted
<1> QED BY <1>1, <1>2 DEF ExecutorOK, ShadowKeepsBooks, ShadowBooksBalance, NothingAfterShutdown

LEMMA ShadowIsTyped == ShadowInv => ShadowTypeOK
BY RunsAreTyped DEF ShadowInv, ExecutorOK, ShadowTypeOK, HandleStates, CallerStates, Stations

\* The executor's handles, callers and worker stay within their types, and so do
\* the runs its worker makes (LiveShadowExecutor).
THEOREM ShadowTypeCorrect == ShadowSpec => []ShadowTypeOK
BY ShadowInvariant, ShadowIsTyped, PTL

\* The shadow worker too sends only the decision it was given, answers for it, and
\* has its record refused for unfit facts or an unfit answer only (_execute).
THEOREM WorkerKeepsItsWord == ShadowSpec => []RunsKeepTheirWord
<1>1. ShadowInv => RunsKeepTheirWord
  BY WordIsKept DEF ShadowInv
<1> QED BY <1>1, ShadowInvariant, PTL

\* Every submit is counted once or still outstanding, a handle waits for its own
\* jobs alone, the lifetime budget holds, and a drained handle has no job left
\* (LiveShadowExecutor.submit, _admit, _run_worker, shutdown).
THEOREM ShadowKeepsBooksHolds == ShadowSpec => []ShadowKeepsBooks
BY ShadowInvariant, BooksAreKept, PTL
=============================================================================
