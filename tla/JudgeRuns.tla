------------------------------ MODULE JudgeRuns ------------------------------
(***************************************************************************)
(* `glassbox judge': a model scores the reasoning of stored decisions, and *)
(* the score of a run counts only while the judge agrees with people.  A   *)
(* run selects its decisions, asks about one at a time, reads the history  *)
(* of human and judge scores, decides whether the judge is calibrated, and *)
(* records the run.  Planners score reasoning, applications store          *)
(* decisions and other judge commands run meanwhile.  One cohort of        *)
(* provider, model and rubric.                                             *)
(***************************************************************************)
EXTENDS Naturals, Sequences, FiniteSets, FiniteSetsExt, Ranking

CONSTANTS
  Judged,        \* decisions, numbered in the order of (decided_at, decision_id)
  Recent,        \* those inside --since: the gated set
  SelfMade,      \* those made by the judge's own model
  JudgeCommands, \* concurrent invocations
  Scores,        \* of 1 .. 5
  MaxSent,       \* --max-cases
  MaxVerdicts,   \* bound on the human scores given
  MaxStarts,     \* bound on the runs started
  MinPairs,      \* pairs of scores a calibration needs (30)
  MinSuccesses   \* judged decisions the gated set needs (10)

ASSUME JudgedAreNumbers == Judged \subseteq Nat /\ IsFiniteSet(Judged \ Recent)
ASSUME NoneIsNoCommand == "none" \notin JudgeCommands
ASSUME BoundsAreNatural == {MaxSent, MaxVerdicts, MaxStarts, MinPairs, MinSuccesses} \subseteq Nat
ASSUME ScoresAreScores == Scores \subseteq 1 .. 5

VARIABLES
  known,         \* the stored decisions
  human,         \* human[d]: the newest human score of a decision, 0 without one
  scored,        \* judge results [on, score, at], `at' the start of their run
  judge,         \* judge[j]: a command, see JudgeStates
  starts,        \* runs started so far: their order by run_at
  verdicts       \* human scores given so far

judgeVars == <<known, human, scored, judge, starts, verdicts>>

Outcomes == [on : Judged, score : Scores \cup {0}, error : {"none", "refused", "failed"}]
Pairs == [on : Judged, human : Scores, judge : Scores, fresh : BOOLEAN]
Verdicts == {"none", "too_few_labels", "kappa_undefined", "kappa_below_threshold",
             "gated_set_too_small", "failure_rate_too_high", "mean_score_below_threshold",
             "calibrated"}
JudgeStates ==
  [at : {"idle", "judging", "record", "done"}, cases : Seq(Judged), allowed : BOOLEAN,
   humans : [Judged -> Scores \cup {0}], outcomes : SUBSET Outcomes, pairs : SUBSET Pairs,
   verdict : Verdicts, start : Nat, disturbed : BOOLEAN]

NoJudgement == [at |-> "idle", cases |-> <<>>, allowed |-> FALSE,
                humans |-> [d \in Judged |-> 0], outcomes |-> {}, pairs |-> {},
                verdict |-> "none", start |-> 0, disturbed |-> FALSE]

\* Decisions older than the cutoff are there, recent ones arrive.
JudgeInit ==
  /\ known = Judged \ Recent /\ scored = {} /\ starts = 0 /\ verdicts = 0
  /\ human = [d \in Judged |-> 0]
  /\ judge = [j \in JudgeCommands |-> NoJudgement]

\* Ghost: the histories grow under the other runs; those that ended are forgotten.
Disturbs(except) ==
  [j \in JudgeCommands |->
     IF j = except THEN judge[j]
     ELSE IF judge[j].at = "done" THEN NoJudgement
     ELSE IF judge[j].at = "idle" THEN judge[j]
     ELSE [judge[j] EXCEPT !.disturbed = TRUE]]

DecisionArrives(d) ==
  /\ d \notin known
  /\ known' = known \cup {d}
  /\ UNCHANGED <<human, scored, judge, starts, verdicts>>

\* A planner scores the reasoning of a decision, or scores it again.
HumanScores(d, s) ==
  /\ d \in known
  /\ verdicts < MaxVerdicts
  /\ verdicts' = verdicts + 1
  /\ human' = [human EXCEPT ![d] = s]
  /\ judge' = Disturbs("none")
  /\ UNCHANGED <<known, scored, starts>>

-----------------------------------------------------------------------------
(* Repository.judge_candidates and judge_calibration_pairs.                *)

Backlog == {d \in known : human[d] # 0 /\ d \notin {r.on : r \in scored}}
Candidates == Backlog \cup (known \cap Recent)

\* The calibration backlog first, then the recent ones, each newest first.
Precedes(d, e) ==
  IF (d \in Backlog) = (e \in Backlog) THEN d > e ELSE d \in Backlog
Precedence == {p \in Candidates \X Candidates : Precedes(p[1], p[2])}
Capped == FirstOf(MaxSent, Ranked(Precedence, Candidates))

NewestScore(d) ==
  LET newest == {r \in scored : r.on = d /\ \A q \in scored : q.on = d => q.at <= r.at}
  IN (CHOOSE r \in newest : TRUE).score

\* No decision is left out (the mutant of Historical).
HistoricalOfAll(except) ==
  {[on |-> d, human |-> human[d], judge |-> NewestScore(d), fresh |-> FALSE] :
     d \in {d \in Judged : human[d] # 0 /\ \E r \in scored : r.on = d}}

\* The newest human and judge score of every decision that has both.
Historical(except) ==
  {[on |-> d, human |-> human[d], judge |-> NewestScore(d), fresh |-> FALSE] :
     d \in {d \in Judged \ except : human[d] # 0 /\ \E r \in scored : r.on = d}}

-----------------------------------------------------------------------------
(* The command.                                                            *)

\* run_judge selects the cases, after the count the command disclosed and was
\* allowed to send was read by another connection.
StartRun(j, allowed) ==
  /\ judge[j].at \in {"idle", "done"}
  /\ starts < MaxStarts
  /\ starts' = starts + 1
  /\ judge' = [judge EXCEPT ![j] =
       [NoJudgement EXCEPT !.at = "judging", !.cases = Capped, !.allowed = allowed,
          !.humans = [d \in Judged |-> IF d \in Range(Capped) THEN human[d] ELSE 0],
          !.start = starts + 1]]
  /\ UNCHANGED <<known, human, scored, verdicts>>

\* _judge_one, for the next decision in order: a self-made one is refused unless
\* that was allowed; a dangling citation, the provider or its answer may fail.
JudgeOne(j, score) ==
  /\ judge[j].at = "judging"
  /\ Cardinality(judge[j].outcomes) < Len(judge[j].cases)
  /\ LET d == judge[j].cases[Cardinality(judge[j].outcomes) + 1]
         refused == d \in SelfMade /\ ~judge[j].allowed
     IN judge' = [judge EXCEPT ![j].outcomes = @ \cup
          {[on |-> d, score |-> IF refused THEN 0 ELSE score,
            error |-> IF refused THEN "refused" ELSE IF score = 0 THEN "failed" ELSE "none"]}]
  /\ UNCHANGED <<known, human, scored, starts, verdicts>>

\* A failed case has a score (the mutant of Good).
GoodOrFailed(j) == {o \in judge[j].outcomes : o.error # "refused"}

Good(j) == {o \in judge[j].outcomes : o.error = "none"}

\* The pairs of this run: the human score as it was selected.
FreshPairs(j) ==
  {[on |-> o.on, human |-> judge[j].humans[o.on], judge |-> o.score, fresh |-> TRUE] :
     o \in {o \in Good(j) : judge[j].humans[o.on] # 0}}

Distance(a, b) == IF a > b THEN a - b ELSE b - a
ScoreSum(os) == MapThenSumSet(LAMBDA o : o.score, os)

\* Linear weighted kappa below 0.60, with both sides of the fraction multiplied
\* out: kappa = 1 - observed / chance.
KappaBelow(pairs) ==
  LET observed == MapThenSumSet(LAMBDA p : Distance(p.human, p.judge), pairs)
      chance == MapThenSumSet(LAMBDA pq : Distance(pq[1].human, pq[2].judge), pairs \X pairs)
  IN 5 * Cardinality(pairs) * observed > 2 * chance

Decision(j, pairs) ==
  LET gated == {o \in judge[j].outcomes : o.on \in Recent /\ o.error # "refused"}
      good == gated \cap Good(j)
  IN IF Cardinality(pairs) < MinPairs THEN "too_few_labels"
     ELSE IF 1 \in {Cardinality({p.human : p \in pairs}), Cardinality({p.judge : p \in pairs})}
       THEN "kappa_undefined"
     ELSE IF KappaBelow(pairs) THEN "kappa_below_threshold"
     ELSE IF Cardinality(good) < MinSuccesses THEN "gated_set_too_small"
     ELSE IF 100 * Cardinality(gated \ good) > 5 * Cardinality(gated) THEN "failure_rate_too_high"
     ELSE IF 10 * ScoreSum(good) < 35 * Cardinality(good) THEN "mean_score_below_threshold"
     ELSE "calibrated"

\* _combine_calibration_pairs and _decide_status, once all cases are judged.
Decide(j) ==
  /\ judge[j].at = "judging"
  /\ Cardinality(judge[j].outcomes) = Len(judge[j].cases)
  /\ LET pairs == Historical({o.on : o \in Good(j)}) \cup FreshPairs(j) IN
     judge' = [judge EXCEPT ![j] =
       [NoJudgement EXCEPT !.at = "record", !.pairs = pairs, !.verdict = Decision(j, pairs),
          !.outcomes = judge[j].outcomes, !.start = judge[j].start,
          !.disturbed = judge[j].disturbed]]
  /\ UNCHANGED <<known, human, scored, starts, verdicts>>

\* record_judge_run: the run and all its results, or nothing.
RecordJudgeRun(j) ==
  /\ judge[j].at = "record"
  /\ scored' = scored \cup
       {[on |-> o.on, score |-> o.score, at |-> judge[j].start] : o \in Good(j)}
  /\ judge' = [Disturbs(j) EXCEPT ![j] =
       [NoJudgement EXCEPT !.at = "done", !.pairs = judge[j].pairs,
          !.disturbed = judge[j].disturbed]]
  /\ UNCHANGED <<known, human, starts, verdicts>>

JudgeRunFails(j) ==
  /\ judge[j].at \in {"judging", "record"}
  /\ judge' = [judge EXCEPT ![j] = NoJudgement]
  /\ UNCHANGED <<known, human, scored, starts, verdicts>>

JudgeNext ==
  \/ \E d \in Judged : DecisionArrives(d) \/ \E s \in Scores : HumanScores(d, s)
  \/ \E j \in JudgeCommands :
       \/ \E allowed \in BOOLEAN : StartRun(j, allowed)
       \/ \E s \in Scores \cup {0} : JudgeOne(j, s)
       \/ Decide(j) \/ RecordJudgeRun(j) \/ JudgeRunFails(j)

JudgeSpec == JudgeInit /\ [][JudgeNext]_judgeVars

-----------------------------------------------------------------------------
JudgeTypeOK ==
  /\ known \subseteq Judged
  /\ human \in [Judged -> Scores \cup {0}]
  /\ judge \in [JudgeCommands -> JudgeStates]
  /\ \A r \in scored : r.on \in Judged /\ r.score \in Scores
  /\ starts \in Nat /\ verdicts \in Nat

\* A calibration weighs every decision once, with the run's own score for those it
\* has judged again.
OnePairPerDecision ==
  \A j \in JudgeCommands : \A p, q \in judge[j].pairs : p.on = q.on => p = q

\* A run that nobody disturbed reports the calibration that the history shows
\* once the run is recorded: the next command starts from the same pairs.
ReportMatchesHistory ==
  \A j \in JudgeCommands :
    judge[j].at = "done" /\ ~judge[j].disturbed =>
      {<<p.on, p.human, p.judge>> : p \in judge[j].pairs} =
        {<<p.on, p.human, p.judge>> : p \in Historical({})}

\* Both at once.
CalibrationMatchesHistory == OnePairPerDecision /\ ReportMatchesHistory
=============================================================================
