----------------------------- MODULE JudgeProofs -----------------------------
(***************************************************************************)
(* Proofs about judge runs (JudgeRuns.tla), for any number of decisions,   *)
(* commands and scores.  A run's outcomes follow its cases, each decision  *)
(* once; and as long as nobody disturbs it, what it selected is what the   *)
(* histories hold, and no result is newer than its start.                  *)
(***************************************************************************)
EXTENDS JudgeRuns, DataLemmas

-----------------------------------------------------------------------------
(* The invariant.                                                          *)

Active(j) == judge[j].at \in {"judging", "record"}

\* No two outcomes are of one decision, and a verdict has a score.
OutcomesAreSound(j) ==
  /\ \A o, q \in judge[j].outcomes : o.on = q.on => o = q
  /\ \A o \in judge[j].outcomes : o.error = "none" => o.score \in Scores

\* The outcomes are those of the first cases.
CasesInOrder(j) ==
  LET cases == judge[j].cases
      outcomes == judge[j].outcomes
  IN /\ \A i, k \in 1 .. Len(cases) : cases[i] = cases[k] => i = k
     /\ IsFiniteSet(outcomes) /\ Cardinality(outcomes) <= Len(cases)
     /\ \A o \in outcomes : \E i \in 1 .. Cardinality(outcomes) : o.on = cases[i]

\* What was selected of the human scores is what they are.
HumansAreCurrent(j) ==
  \A i \in 1 .. Len(judge[j].cases) :
    judge[j].humans[judge[j].cases[i]] = human[judge[j].cases[i]]

Heard(j) == {o.on : o \in Good(j)}

\* The pairs that the run's results make with the human scores there are.
CurrentPairs(j) ==
  {[on |-> o.on, human |-> human[o.on], judge |-> o.score, fresh |-> TRUE] :
     o \in {o \in Good(j) : human[o.on] # 0}}

Projected(pairs) == {<<p.on, p.human, p.judge>> : p \in pairs}

Stands(j) ==
  /\ Active(j) => /\ judge[j].start \in 1 .. starts /\ OutcomesAreSound(j)
                  /\ ~judge[j].disturbed => \A r \in scored : r.at < judge[j].start
  /\ judge[j].at = "judging" =>
       CasesInOrder(j) /\ (~judge[j].disturbed => HumansAreCurrent(j))
  /\ judge[j].at = "record" /\ ~judge[j].disturbed =>
       judge[j].pairs = Historical(Heard(j)) \cup CurrentPairs(j)
  /\ judge[j].at = "done" /\ ~judge[j].disturbed =>
       Projected(judge[j].pairs) = Projected(Historical({}))
  /\ \A p, q \in judge[j].pairs : p.on = q.on => p = q

JudgeInv ==
  /\ JudgeTypeOK /\ IsFiniteSet(known)
  /\ \A r \in scored : r.at \in 1 .. starts
  /\ \A j \in JudgeCommands : Stands(j)

-----------------------------------------------------------------------------
(* What the queries return.                                                *)

Newest(d) == {r \in scored : r.on = d /\ \A q \in scored : q.on = d => q.at <= r.at}

\* A decision with a result has a newest one.
LEMMA NewestScoreIs ==
  ASSUME JudgeInv, NEW d, \E r \in scored : r.on = d
  PROVE  NewestScore(d) \in Scores /\ \E r \in Newest(d) : NewestScore(d) = r.score
<1> DEFINE times == {r.at : r \in {r \in scored : r.on = d}}
<1>1. starts \in Nat /\ \A r \in scored : r.at \in 1 .. starts /\ r.score \in Scores
  BY DEF JudgeInv, JudgeTypeOK
<1>2. times \subseteq 1 .. starts /\ times # {}
  BY <1>1
<1>3. IsFiniteSet(times) /\ times \subseteq Int
  <2> HIDE DEF times
  <2>1. IsFiniteSet(1 .. starts)
    BY <1>1, FS_Interval
  <2>2. times \in SUBSET (1 .. starts)
    BY <1>2
  <2>3. IsFiniteSet(times)
    BY <2>1, <2>2, FS_Subset
  <2>4. times \subseteq Int
    BY <1>1, <2>2
  <2> QED BY <2>3, <2>4
<1>4. \E m \in times : \A x \in times : x <= m
  <2> HIDE DEF times
  <2> QED BY <1>2, <1>3, ExtremesExist
<1>5. Newest(d) # {}
  BY <1>4 DEF Newest
<1>6. (CHOOSE r \in Newest(d) : TRUE) \in Newest(d)
  BY <1>5
<1>7. NewestScore(d) = (CHOOSE r \in Newest(d) : TRUE).score
  BY DEF NewestScore, Newest
<1> QED BY <1>1, <1>6, <1>7 DEF Newest

\* The selection: decisions, none of them twice.
LEMMA CappedIs ==
  ASSUME JudgeInv
  PROVE  /\ Capped \in Seq(Judged)
         /\ \A i, k \in 1 .. Len(Capped) : Capped[i] = Capped[k] => i = k
<1> DEFINE list == Ranked(Precedence, Candidates)
<1> HIDE DEF list
<1>1. Candidates \subseteq known /\ known \subseteq Judged /\ Judged \subseteq Nat
  BY JudgedAreNumbers DEF Candidates, Backlog, JudgeInv, JudgeTypeOK
<1>2. IsFiniteSet(Candidates)
  BY <1>1, FS_Subset DEF JudgeInv
<1>3. Orders(Precedence, Candidates)
  <2>1. Candidates \subseteq Nat
    BY <1>1
  <2>2. \A d \in Candidates : <<d, d>> \notin Precedence
    BY <2>1 DEF Precedence, Precedes
  <2>3. \A c, d, e \in Candidates :
          <<c, d>> \in Precedence /\ <<d, e>> \in Precedence => <<c, e>> \in Precedence
    BY <2>1 DEF Precedence, Precedes
  <2>4. \A d, e \in Candidates : d # e => <<d, e>> \in Precedence \/ <<e, d>> \in Precedence
    BY <2>1 DEF Precedence, Precedes
  <2> QED BY <2>2, <2>3, <2>4 DEF Orders
<1>4. /\ list \in Seq(Candidates) /\ Len(list) = Cardinality(Candidates)
      /\ \A i, k \in 1 .. Cardinality(Candidates) : i < k => <<list[i], list[k]>> \in Precedence
  BY <1>2, <1>3, RankedIs, Zenon DEF list
<1>5. MaxSent \in Nat /\ list \in Seq(Judged)
  <2>1. MaxSent \in Nat
    BY BoundsAreNatural
  <2>2. Candidates \subseteq Judged
    BY <1>1
  <2>3. list \in Seq(Judged)
    BY <1>4, <2>2
  <2> QED BY <2>1, <2>3
<1>6. \A i, k \in 1 .. Len(list) : list[i] = list[k] => i = k
  <2> SUFFICES ASSUME NEW i \in 1 .. Len(list), NEW k \in 1 .. Len(list), i < k
               PROVE  list[i] # list[k]
    BY <1>4
  <2>1. <<list[i], list[k]>> \in Precedence /\ list[i] \in Candidates
    BY <1>4
  <2> QED BY <1>3, <2>1 DEF Orders
<1>7. /\ Capped \in Seq(Judged) /\ Len(Capped) <= Len(list)
      /\ \A i \in 1 .. Len(Capped) : Capped[i] = list[i]
  <2>1. Capped = FirstOf(MaxSent, list)
    BY DEF Capped, list
  <2>2. /\ FirstOf(MaxSent, list) \in Seq(Judged)
        /\ Len(FirstOf(MaxSent, list)) = IF Len(list) > MaxSent THEN MaxSent ELSE Len(list)
        /\ \A i \in 1 .. Len(FirstOf(MaxSent, list)) : FirstOf(MaxSent, list)[i] = list[i]
    BY <1>5, FirstOfIs
  <2> QED BY <1>5, <2>1, <2>2
<1> QED BY <1>5, <1>6, <1>7

\* Old pairs, one for each decision.
LEMMA HistoricalIs ==
  ASSUME JudgeInv, NEW except
  PROVE  /\ Historical(except) \subseteq Pairs
         /\ \A p \in Historical(except) : p.on \notin except
         /\ \A p, q \in Historical(except) : p.on = q.on => p = q
<1>1. human \in [Judged -> Scores \cup {0}]
  BY DEF JudgeInv, JudgeTypeOK
<1>2. ASSUME NEW d \in Judged, human[d] # 0, \E r \in scored : r.on = d
      PROVE  [on |-> d, human |-> human[d], judge |-> NewestScore(d), fresh |-> FALSE] \in Pairs
  <2>1. human[d] \in Scores /\ NewestScore(d) \in Scores
    <3>1. human[d] \in Scores
      BY <1>1, <1>2
    <3>2. NewestScore(d) \in Scores
      BY <1>2, NewestScoreIs
    <3> QED BY <3>1, <3>2
  <2> QED BY <1>2, <2>1 DEF Pairs
<1> DEFINE PairOf(d) == [on |-> d, human |-> human[d], judge |-> NewestScore(d), fresh |-> FALSE]
<1>3. ASSUME NEW p \in Historical(except)
      PROVE  \E d \in Judged \ except : p = PairOf(d) /\ human[d] # 0 /\ \E r \in scored : r.on = d
  BY DEF Historical
<1>4. ASSUME NEW p \in Historical(except)
      PROVE  p.on \notin except /\ p = PairOf(p.on) /\ p \in Pairs
  <2>1. PICK d \in Judged \ except : p = PairOf(d) /\ human[d] # 0 /\ \E r \in scored : r.on = d
    BY <1>3
  <2>2. PairOf(d) \in Pairs
    BY <1>2, <2>1
  <2>3. p.on = d
    BY <2>1
  <2> HIDE DEF PairOf
  <2> QED BY <2>1, <2>2, <2>3
<1> HIDE DEF PairOf
<1> QED BY <1>4

\* New pairs, one for each decision the run has heard of.
LEMMA FreshPairsAre ==
  ASSUME JudgeInv, NEW j \in JudgeCommands, OutcomesAreSound(j)
  PROVE  /\ FreshPairs(j) \subseteq Pairs
         /\ \A p \in FreshPairs(j) : p.on \in Heard(j)
         /\ \A p, q \in FreshPairs(j) : p.on = q.on => p = q
<1>1. judge[j].humans \in [Judged -> Scores \cup {0}] /\ judge[j].outcomes \subseteq Outcomes
  BY DEF JudgeInv, JudgeTypeOK, JudgeStates
<1>2. ASSUME NEW o \in Good(j), judge[j].humans[o.on] # 0
      PROVE  [on |-> o.on, human |-> judge[j].humans[o.on], judge |-> o.score, fresh |-> TRUE]
               \in Pairs
  <2>1. o.on \in Judged /\ o.score \in Scores
    BY <1>1 DEF Good, Outcomes, OutcomesAreSound
  <2> QED BY <1>1, <1>2, <2>1 DEF Pairs
<1>3. \A p \in FreshPairs(j) : p.on \in Heard(j)
  BY DEF FreshPairs, Heard
<1>4. ASSUME NEW p \in FreshPairs(j), NEW q \in FreshPairs(j), p.on = q.on PROVE p = q
  <2>1. PICK o \in Good(j) :
          p = [on |-> o.on, human |-> judge[j].humans[o.on], judge |-> o.score, fresh |-> TRUE]
    BY DEF FreshPairs
  <2>2. PICK u \in Good(j) :
          q = [on |-> u.on, human |-> judge[j].humans[u.on], judge |-> u.score, fresh |-> TRUE]
    BY DEF FreshPairs
  <2>3. o.on = u.on
    BY <1>4, <2>1, <2>2
  <2>4. o = u
    BY <2>3 DEF Good, OutcomesAreSound
  <2> QED BY <2>1, <2>2, <2>4
<1>5. FreshPairs(j) \subseteq Pairs
  BY <1>2 DEF FreshPairs
<1> QED BY <1>3, <1>4, <1>5

-----------------------------------------------------------------------------
(* Steps.                                                                  *)

LEMMA OthersStand ==
  ASSUME JudgeInv, NEW k \in JudgeCommands, judge'[k] = judge[k],
         human' = human, scored' = scored, starts' \in {starts, starts + 1}
  PROVE  Stands(k)'
<1>1. Stands(k) /\ starts \in Nat
  BY DEF JudgeInv, JudgeTypeOK
<1>2. /\ Heard(k)' = Heard(k) /\ CurrentPairs(k)' = CurrentPairs(k)
      /\ CasesInOrder(k)' = CasesInOrder(k) /\ HumansAreCurrent(k)' = HumansAreCurrent(k)
      /\ OutcomesAreSound(k)' = OutcomesAreSound(k) /\ Active(k)' = Active(k)
  BY DEF Heard, Good, CurrentPairs, CasesInOrder, HumansAreCurrent, OutcomesAreSound, Active
<1>3. /\ Historical(Heard(k))' = Historical(Heard(k))
      /\ Historical({})' = Historical({})
  BY <1>2 DEF Historical, NewestScore
<1>4. Projected(judge[k].pairs)' = Projected(judge[k].pairs)
  BY DEF Projected
<1>5. Projected(Historical({}))' = Projected(Historical({}))
  BY <1>3 DEF Projected
<1>6. judge[k].start \in 1 .. starts => judge[k].start \in 1 .. starts'
  BY <1>1
<1> QED BY <1>1, <1>2, <1>3, <1>4, <1>5, <1>6 DEF Stands

\* A run that is disturbed has no more to say than that it is sound.
LEMMA DisturbedStands ==
  ASSUME JudgeInv, NEW k \in JudgeCommands, starts' = starts,
         \/ judge'[k] = NoJudgement
         \/ judge[k].at = "idle" /\ judge'[k] = judge[k]
         \/ Active(k) /\ judge'[k] = [judge[k] EXCEPT !.disturbed = TRUE]
  PROVE  Stands(k)'
<1>1. Stands(k) /\ judge[k] \in JudgeStates
  BY DEF JudgeInv, JudgeTypeOK
<1>2. CASE judge'[k] = NoJudgement
  BY <1>2 DEF Stands, Active, NoJudgement
<1>3. CASE judge[k].at = "idle" /\ judge'[k] = judge[k]
  BY <1>1, <1>3 DEF Stands, Active
<1>4. CASE Active(k) /\ judge'[k] = [judge[k] EXCEPT !.disturbed = TRUE]
  <2>1. /\ judge'[k].at = judge[k].at /\ judge'[k].cases = judge[k].cases
        /\ judge'[k].outcomes = judge[k].outcomes /\ judge'[k].start = judge[k].start
        /\ judge'[k].pairs = judge[k].pairs /\ judge'[k].disturbed = TRUE
    BY <1>1, <1>4 DEF JudgeStates
  <2>2. CasesInOrder(k)' = CasesInOrder(k) /\ OutcomesAreSound(k)' = OutcomesAreSound(k)
    BY <2>1 DEF CasesInOrder, OutcomesAreSound
  <2>3. judge[k].at # "done" /\ Active(k)'
    BY <1>4, <2>1 DEF Active
  <2> QED BY <1>1, <1>4, <2>1, <2>2, <2>3 DEF Stands
<1> QED BY <1>2, <1>3, <1>4

\* Every run but one is disturbed by a step.
LEMMA AllAreDisturbed ==
  ASSUME JudgeInv, NEW except, NEW k \in JudgeCommands, k # except, starts' = starts,
         judge'[k] = Disturbs(except)[k]
  PROVE  Stands(k)' /\ judge'[k] \in JudgeStates
<1>1. judge[k] \in JudgeStates
  BY DEF JudgeInv, JudgeTypeOK
<1>2. NoJudgement \in JudgeStates
  BY DEF NoJudgement, JudgeStates, Verdicts
<1>3. CASE judge[k].at \in {"idle", "done"}
  BY <1>1, <1>2, <1>3, DisturbedStands DEF Disturbs
<1>4. CASE judge[k].at \notin {"idle", "done"}
  <2>1. Active(k) /\ judge'[k] = [judge[k] EXCEPT !.disturbed = TRUE]
    BY <1>1, <1>4 DEF Disturbs, Active, JudgeStates
  <2>2. judge'[k] \in JudgeStates
    BY <1>1, <2>1 DEF JudgeStates
  <2> QED BY <2>1, <2>2, DisturbedStands
<1> QED BY <1>3, <1>4

\* A step of one run that stores nothing.
LEMMA OneRunMoves ==
  ASSUME JudgeInv, NEW j \in JudgeCommands, NEW next \in JudgeStates,
         judge' = [judge EXCEPT ![j] = next], starts' \in {starts, starts + 1},
         UNCHANGED <<known, human, scored, verdicts>>, Stands(j)'
  PROVE  JudgeInv'
<1>1. JudgeTypeOK /\ starts \in Nat /\ \A r \in scored : r.at \in 1 .. starts
  BY DEF JudgeInv, JudgeTypeOK
<1>2. JudgeTypeOK'
  BY <1>1 DEF JudgeTypeOK
<1>3. \A r \in scored' : r.at \in 1 .. starts'
  BY <1>1
<1>4. ASSUME NEW k \in JudgeCommands PROVE Stands(k)'
  <2>1. CASE k = j
    BY <2>1
  <2>2. CASE k # j
    <3>1. judge'[k] = judge[k]
      BY <1>1, <2>2 DEF JudgeTypeOK
    <3> QED BY <3>1, OthersStand
  <2> QED BY <2>1, <2>2
<1> QED BY <1>2, <1>3, <1>4 DEF JudgeInv

LEMMA DecisionArrivesStep ==
  ASSUME JudgeInv, NEW d \in Judged, DecisionArrives(d)
  PROVE  JudgeInv'
<1>1. JudgeTypeOK' /\ starts \in Nat
  BY DEF DecisionArrives, JudgeInv, JudgeTypeOK
<1>2. IsFiniteSet(known')
  BY FS_AddElement DEF DecisionArrives, JudgeInv
<1>3. ASSUME NEW k \in JudgeCommands PROVE Stands(k)'
  BY <1>1, OthersStand DEF DecisionArrives
<1> QED BY <1>1, <1>2, <1>3 DEF JudgeInv, DecisionArrives

LEMMA HumanScoresStep ==
  ASSUME JudgeInv, NEW d \in Judged, NEW s \in Scores, HumanScores(d, s)
  PROVE  JudgeInv'
<1>1. ASSUME NEW k \in JudgeCommands PROVE Stands(k)' /\ judge'[k] \in JudgeStates
  <2>1. k # "none" /\ judge'[k] = Disturbs("none")[k] /\ starts' = starts
    BY NoneIsNoCommand DEF HumanScores
  <2> QED BY <2>1, AllAreDisturbed
<1>2. judge' \in [JudgeCommands -> JudgeStates]
  <2>1. judge' = [k \in JudgeCommands |-> judge'[k]]
    BY DEF HumanScores, Disturbs
  <2> QED BY <1>1, <2>1
<1>3. JudgeTypeOK'
  BY <1>2 DEF HumanScores, JudgeInv, JudgeTypeOK
<1> QED BY <1>1, <1>3 DEF JudgeInv, HumanScores

LEMMA NoJudgementIs == NoJudgement \in JudgeStates
BY DEF NoJudgement, JudgeStates, Verdicts

LEMMA BegunIs ==
  ASSUME NEW r \in JudgeStates, NEW cases \in Seq(Judged), NEW allowed \in BOOLEAN,
         NEW humans \in [Judged -> Scores \cup {0}], NEW start \in Nat
  PROVE  [r EXCEPT !.at = "judging", !.cases = cases, !.allowed = allowed, !.humans = humans,
                   !.start = start] \in JudgeStates
BY DEF JudgeStates

LEMMA StartRunStep ==
  ASSUME JudgeInv, NEW j \in JudgeCommands, NEW allowed \in BOOLEAN, StartRun(j, allowed)
  PROVE  JudgeInv'
<1> DEFINE chosen == [d \in Judged |-> IF d \in Range(Capped) THEN human[d] ELSE 0]
           next == [NoJudgement EXCEPT !.at = "judging", !.cases = Capped, !.allowed = allowed,
                                       !.humans = chosen, !.start = starts + 1]
<1>1. /\ human \in [Judged -> Scores \cup {0}] /\ starts \in Nat
      /\ judge \in [JudgeCommands -> JudgeStates] /\ \A r \in scored : r.at \in 1 .. starts
  BY DEF JudgeInv, JudgeTypeOK
<1>2. /\ Capped \in Seq(Judged)
      /\ \A i, k \in 1 .. Len(Capped) : Capped[i] = Capped[k] => i = k
  BY CappedIs
<1>3. chosen \in [Judged -> Scores \cup {0}]
  BY <1>1
<1>4. \A i \in 1 .. Len(Capped) : chosen[Capped[i]] = human[Capped[i]]
  BY <1>2 DEF Range
<1> HIDE DEF chosen
<1>5. next \in JudgeStates
  <2>1. starts + 1 \in Nat
    BY <1>1
  <2> QED BY <1>2, <1>3, <2>1, NoJudgementIs, BegunIs
<1>6. /\ next.at = "judging" /\ next.cases = Capped /\ next.humans = chosen
      /\ next.outcomes = {} /\ next.pairs = {} /\ next.start = starts + 1
  BY DEF NoJudgement
<1>7. /\ judge' = [judge EXCEPT ![j] = next] /\ starts' = starts + 1
      /\ UNCHANGED <<known, human, scored, verdicts>>
  BY DEF StartRun, chosen
<1> HIDE DEF next
<1>8. judge'[j] = next
  BY <1>1, <1>7
<1>9. CasesInOrder(j)'
  <2>1. IsFiniteSet({}) /\ Cardinality({}) = 0
    BY FS_EmptySet
  <2>2. Len(Capped) \in Nat
    BY <1>2
  <2>3. judge'[j].cases = Capped /\ judge'[j].outcomes = {}
    BY <1>6, <1>8
  <2>4. Cardinality({}) <= Len(Capped)
    BY <2>1, <2>2
  <2> QED BY <1>2, <2>1, <2>3, <2>4 DEF CasesInOrder
<1>10. HumansAreCurrent(j)'
  BY <1>4, <1>6, <1>7, <1>8 DEF HumansAreCurrent
<1>11. OutcomesAreSound(j)'
  BY <1>6, <1>8 DEF OutcomesAreSound
<1>12. judge[j].start' \in 1 .. starts' /\ \A r \in scored' : r.at < judge'[j].start
  BY <1>1, <1>6, <1>7, <1>8
<1>13. Stands(j)'
  BY <1>6, <1>8, <1>9, <1>10, <1>11, <1>12 DEF Stands
<1> QED BY <1>5, <1>7, <1>13, OneRunMoves

LEMMA JudgeRunFailsStep ==
  ASSUME JudgeInv, NEW j \in JudgeCommands, JudgeRunFails(j)
  PROVE  JudgeInv'
<1>1. judge'[j] = NoJudgement /\ starts' = starts /\ starts \in Nat
  BY DEF JudgeRunFails, JudgeInv, JudgeTypeOK
<1>2. Stands(j)'
  BY <1>1, DisturbedStands
<1> QED BY <1>1, <1>2, NoJudgementIs, OneRunMoves DEF JudgeRunFails

LEMMA JudgeOneStep ==
  ASSUME JudgeInv, NEW j \in JudgeCommands, NEW score \in Scores \cup {0}, JudgeOne(j, score)
  PROVE  JudgeInv'
<1> DEFINE c == Cardinality(judge[j].outcomes)
           cases == judge[j].cases
           d == cases[c + 1]
           refused == d \in SelfMade /\ ~judge[j].allowed
           o == [on |-> d, score |-> IF refused THEN 0 ELSE score,
                 error |-> IF refused THEN "refused" ELSE IF score = 0 THEN "failed" ELSE "none"]
           outcomes == judge[j].outcomes \cup {o}
           next == [judge[j] EXCEPT !.outcomes = outcomes]
<1>1. /\ judge[j] \in JudgeStates /\ judge \in [JudgeCommands -> JudgeStates] /\ starts \in Nat
      /\ Stands(j) /\ judge[j].at = "judging" /\ c < Len(cases)
  BY DEF JudgeInv, JudgeTypeOK, JudgeOne
<1>2. cases \in Seq(Judged) /\ judge[j].outcomes \subseteq Outcomes
  BY <1>1 DEF JudgeStates
<1>3. CasesInOrder(j) /\ OutcomesAreSound(j)
  BY <1>1 DEF Stands, Active
<1>4. IsFiniteSet(judge[j].outcomes) /\ c \in Nat
  BY <1>3, FS_CardinalityType DEF CasesInOrder
<1>5. c + 1 \in 1 .. Len(cases) /\ d \in Judged
  BY <1>1, <1>2, <1>4
<1>6. o \in Outcomes /\ o.on = d /\ (o.error = "none" => o.score \in Scores)
  <2>1. CASE refused
    BY <1>5, <2>1 DEF Outcomes
  <2>2. CASE ~refused
    BY <1>5, <2>2 DEF Outcomes
  <2> QED BY <2>1, <2>2
<1>7. judge' = [judge EXCEPT ![j] = next] /\ UNCHANGED <<known, human, scored, starts, verdicts>>
  BY <1>1 DEF JudgeOne
<1> HIDE DEF o
<1>8. \A u \in judge[j].outcomes : u.on # d
  <2> SUFFICES ASSUME NEW u \in judge[j].outcomes, u.on = d PROVE FALSE
    OBVIOUS
  <2>1. PICK i \in 1 .. c : u.on = cases[i]
    BY <1>3 DEF CasesInOrder
  <2>2. i \in 1 .. Len(cases) /\ i # c + 1 /\ cases[i] = cases[c + 1]
    BY <1>2, <1>4, <1>5, <2>1
  <2> QED BY <1>3, <1>5, <2>2 DEF CasesInOrder
<1>9. IsFiniteSet(outcomes) /\ Cardinality(outcomes) = c + 1
  <2>1. o \notin judge[j].outcomes
    BY <1>6, <1>8
  <2> QED BY <1>4, <2>1, FS_AddElement
<1>10. next \in JudgeStates
  <2>1. outcomes \subseteq Outcomes
    BY <1>2, <1>6
  <2> HIDE DEF outcomes
  <2> QED BY <1>1, <2>1 DEF JudgeStates
<1>11. /\ next.at = "judging" /\ next.cases = cases /\ next.humans = judge[j].humans
       /\ next.outcomes = outcomes /\ next.pairs = judge[j].pairs
       /\ next.start = judge[j].start /\ next.disturbed = judge[j].disturbed
  BY <1>1 DEF JudgeStates
<1> HIDE DEF next
<1>12. judge'[j] = next
  BY <1>1, <1>7
<1>13. OutcomesAreSound(j)'
  <2>1. \A u, q \in outcomes : u.on = q.on => u = q
    BY <1>3, <1>6, <1>8 DEF OutcomesAreSound
  <2>2. \A u \in outcomes : u.error = "none" => u.score \in Scores
    BY <1>3, <1>6 DEF OutcomesAreSound
  <2> QED BY <1>11, <1>12, <2>1, <2>2 DEF OutcomesAreSound
<1>14. CasesInOrder(j)'
  <2>1. \A u \in outcomes : \E i \in 1 .. c + 1 : u.on = cases[i]
    <3> SUFFICES ASSUME NEW u \in outcomes PROVE \E i \in 1 .. c + 1 : u.on = cases[i]
      OBVIOUS
    <3>1. CASE u = o
      BY <1>4, <1>6, <3>1
    <3>2. CASE u \in judge[j].outcomes
      <4>1. PICK i \in 1 .. c : u.on = cases[i]
        BY <1>3, <3>2 DEF CasesInOrder
      <4>2. i \in 1 .. c + 1
        BY <1>4
      <4> QED BY <4>1, <4>2
    <3> QED BY <3>1, <3>2
  <2>2. Cardinality(outcomes) <= Len(cases)
    BY <1>1, <1>2, <1>4, <1>9
  <2>3. \A i, k \in 1 .. Len(cases) : cases[i] = cases[k] => i = k
    BY <1>3 DEF CasesInOrder
  <2> HIDE DEF outcomes, cases, c
  <2> QED BY <1>9, <1>11, <1>12, <2>1, <2>2, <2>3 DEF CasesInOrder
<1>15. HumansAreCurrent(j) => HumansAreCurrent(j)'
  BY <1>7, <1>11, <1>12 DEF HumansAreCurrent
<1>16. Stands(j)'
  BY <1>1, <1>7, <1>11, <1>12, <1>13, <1>14, <1>15 DEF Stands, Active
<1> QED BY <1>1, <1>7, <1>10, <1>16, OneRunMoves

LEMMA DecidedIs ==
  ASSUME NEW r \in JudgeStates, NEW pairs \in SUBSET Pairs, NEW verdict \in Verdicts,
         NEW outcomes \in SUBSET Outcomes, NEW start \in Nat, NEW disturbed \in BOOLEAN
  PROVE  [r EXCEPT !.at = "record", !.pairs = pairs, !.verdict = verdict,
                   !.outcomes = outcomes, !.start = start, !.disturbed = disturbed] \in JudgeStates
BY DEF JudgeStates

LEMMA DecisionIs ==
  ASSUME NEW j, NEW pairs
  PROVE  Decision(j, pairs) \in Verdicts
BY DEF Decision, Verdicts

LEMMA DecideStep ==
  ASSUME JudgeInv, NEW j \in JudgeCommands, Decide(j)
  PROVE  JudgeInv'
<1> DEFINE pairs == Historical({o.on : o \in Good(j)}) \cup FreshPairs(j)
           next == [NoJudgement EXCEPT !.at = "record", !.pairs = pairs,
                      !.verdict = Decision(j, pairs), !.outcomes = judge[j].outcomes,
                      !.start = judge[j].start, !.disturbed = judge[j].disturbed]
<1>1. /\ judge[j] \in JudgeStates /\ judge \in [JudgeCommands -> JudgeStates]
      /\ human \in [Judged -> Scores \cup {0}] /\ starts \in Nat
      /\ Stands(j) /\ judge[j].at = "judging" /\ OutcomesAreSound(j) /\ CasesInOrder(j)
  BY DEF JudgeInv, JudgeTypeOK, Decide, Stands, Active
<1>2. pairs = Historical(Heard(j)) \cup FreshPairs(j)
  BY DEF Heard
<1>3. pairs \subseteq Pairs
  BY <1>1, <1>2, HistoricalIs, FreshPairsAre
<1>4. \A p, q \in pairs : p.on = q.on => p = q
  <2>1. /\ \A p, q \in Historical(Heard(j)) : p.on = q.on => p = q
        /\ \A p \in Historical(Heard(j)) : p.on \notin Heard(j)
    BY HistoricalIs
  <2>2. /\ \A p, q \in FreshPairs(j) : p.on = q.on => p = q
        /\ \A p \in FreshPairs(j) : p.on \in Heard(j)
    BY <1>1, FreshPairsAre
  <2> QED BY <1>2, <2>1, <2>2
<1>5. HumansAreCurrent(j) => FreshPairs(j) = CurrentPairs(j)
  <2> SUFFICES ASSUME HumansAreCurrent(j), NEW o \in Good(j)
               PROVE  judge[j].humans[o.on] = human[o.on]
    BY DEF FreshPairs, CurrentPairs
  <2>1. /\ judge[j].cases \in Seq(Judged) /\ IsFiniteSet(judge[j].outcomes)
        /\ Cardinality(judge[j].outcomes) <= Len(judge[j].cases)
    BY <1>1 DEF JudgeStates, CasesInOrder
  <2>2. PICK i \in 1 .. Cardinality(judge[j].outcomes) : o.on = judge[j].cases[i]
    BY <1>1 DEF CasesInOrder, Good
  <2>3. i \in 1 .. Len(judge[j].cases)
    BY <2>1, <2>2, FS_CardinalityType
  <2> QED BY <2>2, <2>3 DEF HumansAreCurrent
<1>6. /\ judge' = [judge EXCEPT ![j] = next]
      /\ UNCHANGED <<known, human, scored, starts, verdicts>>
  BY DEF Decide
<1>7. next \in JudgeStates
  <2>1. /\ judge[j].outcomes \in SUBSET Outcomes /\ judge[j].start \in Nat
        /\ judge[j].disturbed \in BOOLEAN
    BY <1>1 DEF JudgeStates
  <2>2. Decision(j, pairs) \in Verdicts
    BY DecisionIs
  <2> HIDE DEF pairs
  <2> QED BY <1>3, <2>1, <2>2, NoJudgementIs, DecidedIs
<1> HIDE DEF pairs
<1>8. /\ next.at = "record" /\ next.pairs = pairs /\ next.outcomes = judge[j].outcomes
      /\ next.start = judge[j].start /\ next.disturbed = judge[j].disturbed
  BY DEF NoJudgement
<1> HIDE DEF next
<1>9. judge'[j] = next
  BY <1>1, <1>6
<1>10. /\ OutcomesAreSound(j)' /\ Heard(j)' = Heard(j) /\ CurrentPairs(j)' = CurrentPairs(j)
  BY <1>1, <1>6, <1>8, <1>9 DEF OutcomesAreSound, Heard, Good, CurrentPairs
<1>11. Historical(Heard(j))' = Historical(Heard(j))
  BY <1>6, <1>10 DEF Historical, NewestScore
<1>12. ~judge'[j].disturbed => judge'[j].pairs = Historical(Heard(j))' \cup CurrentPairs(j)'
  BY <1>1, <1>2, <1>5, <1>8, <1>9, <1>10, <1>11 DEF Stands
<1>13. /\ judge'[j].start \in 1 .. starts'
       /\ ~judge'[j].disturbed => \A r \in scored' : r.at < judge'[j].start
  BY <1>1, <1>6, <1>8, <1>9 DEF Stands, Active
<1>14. Stands(j)'
  BY <1>4, <1>8, <1>9, <1>10, <1>12, <1>13 DEF Stands
<1> QED BY <1>6, <1>7, <1>14, OneRunMoves

-----------------------------------------------------------------------------
(* What a recorded run leaves in the histories.                            *)

\* A decision it judged has its score, the others have the score they had.
LEMMA RecordedScores ==
  ASSUME JudgeInv, NEW j \in JudgeCommands, RecordJudgeRun(j), ~judge[j].disturbed
  PROVE  /\ \A o \in Good(j) : NewestScore(o.on)' = o.score /\ \E r \in scored' : r.on = o.on
         /\ \A d \in Judged \ Heard(j) :
              /\ NewestScore(d)' = NewestScore(d)
              /\ (\E r \in scored' : r.on = d) <=> (\E r \in scored : r.on = d)
<1> DEFINE start == judge[j].start
           Row(o) == [on |-> o.on, score |-> o.score, at |-> start]
<1>1. /\ Stands(j) /\ Active(j) /\ OutcomesAreSound(j) /\ starts \in Nat /\ start \in 1 .. starts
      /\ \A r \in scored : r.at < start /\ r.at \in 1 .. starts
  BY DEF JudgeInv, JudgeTypeOK, RecordJudgeRun, Stands, Active
<1>2. scored' = scored \cup {Row(o) : o \in Good(j)}
  BY DEF RecordJudgeRun
<1>3. \A d : /\ Newest(d)' = {r \in scored' : r.on = d /\ \A q \in scored' : q.on = d => q.at <= r.at}
             /\ NewestScore(d)' = (CHOOSE r \in Newest(d)' : TRUE).score
             /\ NewestScore(d) = (CHOOSE r \in Newest(d) : TRUE).score
  BY DEF Newest, NewestScore
<1>4. \A o : Row(o).on = o.on /\ Row(o).score = o.score /\ Row(o).at = start
  OBVIOUS
<1> HIDE DEF Row, start
<1>5. ASSUME NEW o \in Good(j)
      PROVE  NewestScore(o.on)' = o.score /\ \E r \in scored' : r.on = o.on
  <2>1. Row(o) \in scored'
    BY <1>2
  <2>2. \A q \in scored' : q.on = o.on /\ q # Row(o) => q.at < start
    <3> SUFFICES ASSUME NEW q \in scored', q.on = o.on, q # Row(o) PROVE q.at < start
      OBVIOUS
    <3>1. CASE q \in scored
      BY <1>1, <3>1
    <3>2. CASE q \in {Row(u) : u \in Good(j)}
      <4>1. PICK u \in Good(j) : q = Row(u)
        BY <3>2
      <4>2. u.on = o.on
        BY <1>4, <4>1
      <4>3. u = o
        BY <1>1, <4>2 DEF Good, OutcomesAreSound
      <4> QED BY <4>1, <4>3
    <3> QED BY <1>2, <3>1, <3>2
  <2>3. start \in Nat /\ \A q \in scored' : q.at \in Nat
    BY <1>1, <1>2, <1>4
  <2>4. Newest(o.on)' = {Row(o)}
    <3>1. Row(o) \in Newest(o.on)'
      BY <1>3, <1>4, <2>1, <2>2, <2>3
    <3>2. \A r \in Newest(o.on)' : r = Row(o)
      BY <1>3, <1>4, <2>1, <2>2, <2>3
    <3> QED BY <3>1, <3>2
  <2>5. (CHOOSE r \in {Row(o)} : TRUE) = Row(o)
    OBVIOUS
  <2> QED BY <1>3, <1>4, <2>1, <2>4, <2>5
<1>6. ASSUME NEW d \in Judged \ Heard(j)
      PROVE  /\ NewestScore(d)' = NewestScore(d)
             /\ (\E r \in scored' : r.on = d) <=> (\E r \in scored : r.on = d)
  <2>1. \A r : r \in scored' /\ r.on = d <=> r \in scored /\ r.on = d
    BY <1>2, <1>4 DEF Heard
  <2>2. Newest(d)' = Newest(d)
    BY <1>3, <2>1 DEF Newest
  <2> QED BY <1>3, <2>1, <2>2
<1> QED BY <1>5, <1>6

\* Its pairs are then those that the histories show.
LEMMA RecordedPairs ==
  ASSUME JudgeInv, NEW j \in JudgeCommands, RecordJudgeRun(j), ~judge[j].disturbed
  PROVE  Projected(judge[j].pairs) = Projected(Historical({})')
<1> DEFINE pairs == judge[j].pairs
           Old(d) == [on |-> d, human |-> human[d], judge |-> NewestScore(d), fresh |-> FALSE]
           New(d) == [on |-> d, human |-> human[d], judge |-> NewestScore(d)', fresh |-> FALSE]
           Own(o) == [on |-> o.on, human |-> human[o.on], judge |-> o.score, fresh |-> TRUE]
           Of(p) == <<p.on, p.human, p.judge>>
<1>1. /\ pairs = Historical(Heard(j)) \cup CurrentPairs(j) /\ human' = human
      /\ judge[j].outcomes \subseteq Outcomes
  BY DEF JudgeInv, JudgeTypeOK, JudgeStates, RecordJudgeRun, Stands
<1>2. /\ \A o \in Good(j) : NewestScore(o.on)' = o.score /\ \E r \in scored' : r.on = o.on
      /\ \A d \in Judged \ Heard(j) :
           /\ NewestScore(d)' = NewestScore(d)
           /\ (\E r \in scored' : r.on = d) <=> (\E r \in scored : r.on = d)
  BY RecordedScores
<1>3. Historical({})' = {New(d) : d \in {d \in Judged : human[d] # 0 /\ \E r \in scored' : r.on = d}}
  BY <1>1 DEF Historical
<1>4. Historical(Heard(j))
        = {Old(d) : d \in {d \in Judged \ Heard(j) : human[d] # 0 /\ \E r \in scored : r.on = d}}
  BY DEF Historical
<1>5. CurrentPairs(j) = {Own(o) : o \in {o \in Good(j) : human[o.on] # 0}}
  BY DEF CurrentPairs
<1>6. ASSUME NEW d, NewestScore(d)' = NewestScore(d) PROVE Of(Old(d)) = Of(New(d))
  BY <1>6
<1>6a. ASSUME NEW o \in Good(j) PROVE Of(Own(o)) = Of(New(o.on))
  BY <1>2
<1>7. \A o \in Good(j) : o.on \in Judged
  BY <1>1 DEF Good, Outcomes
<1>8. \A S : Projected(S) = {Of(p) : p \in S}
  BY DEF Projected
<1> HIDE DEF Old, New, Own, Of, pairs
<1>9. ASSUME NEW p \in pairs PROVE \E q \in Historical({})' : Of(q) = Of(p)
  <2>1. CASE p \in Historical(Heard(j))
    <3>1. PICK d \in Judged \ Heard(j) : p = Old(d) /\ human[d] # 0 /\ \E r \in scored : r.on = d
      BY <1>4, <2>1
    <3>2. New(d) \in Historical({})'
      BY <1>2, <1>3, <3>1
    <3>3. Of(New(d)) = Of(p)
      BY <1>2, <1>6, <3>1
    <3> QED BY <3>2, <3>3
  <2>2. CASE p \in CurrentPairs(j)
    <3>1. PICK o \in Good(j) : p = Own(o) /\ human[o.on] # 0
      BY <1>5, <2>2
    <3>2. New(o.on) \in Historical({})'
      BY <1>2, <1>3, <1>7, <3>1
    <3>3. Of(New(o.on)) = Of(p)
      BY <1>6a, <3>1
    <3> QED BY <3>2, <3>3
  <2> QED BY <1>1, <2>1, <2>2
<1>10. ASSUME NEW q \in Historical({})' PROVE \E p \in pairs : Of(p) = Of(q)
  <2>1. PICK d \in Judged : q = New(d) /\ human[d] # 0 /\ \E r \in scored' : r.on = d
    BY <1>3
  <2>2. CASE d \in Heard(j)
    <3>1. PICK o \in Good(j) : o.on = d
      BY <2>2 DEF Heard
    <3>2. Own(o) \in pairs
      BY <1>1, <1>5, <2>1, <3>1
    <3>3. Of(Own(o)) = Of(q)
      BY <1>6a, <2>1, <3>1
    <3> QED BY <3>2, <3>3
  <2>3. CASE d \notin Heard(j)
    <3>1. Old(d) \in pairs
      BY <1>1, <1>2, <1>4, <2>1, <2>3
    <3>2. Of(Old(d)) = Of(q)
      BY <1>2, <1>6, <2>1, <2>3
    <3> QED BY <3>1, <3>2
  <2> QED BY <2>2, <2>3
<1>11. {Of(p) : p \in pairs} = {Of(q) : q \in Historical({})'}
  BY <1>9, <1>10
<1> QED BY <1>8, <1>11 DEF pairs

LEMMA DoneIs ==
  ASSUME NEW r \in JudgeStates, NEW pairs \in SUBSET Pairs, NEW disturbed \in BOOLEAN
  PROVE  [r EXCEPT !.at = "done", !.pairs = pairs, !.disturbed = disturbed] \in JudgeStates
BY DEF JudgeStates

LEMMA RecordJudgeRunStep ==
  ASSUME JudgeInv, NEW j \in JudgeCommands, RecordJudgeRun(j)
  PROVE  JudgeInv'
<1> DEFINE next == [NoJudgement EXCEPT !.at = "done", !.pairs = judge[j].pairs,
                                       !.disturbed = judge[j].disturbed]
<1>1. /\ judge[j] \in JudgeStates /\ Stands(j) /\ Active(j) /\ OutcomesAreSound(j)
      /\ judge[j].start \in 1 .. starts /\ starts \in Nat
      /\ \A r \in scored : r.on \in Judged /\ r.score \in Scores /\ r.at \in 1 .. starts
  BY DEF JudgeInv, JudgeTypeOK, RecordJudgeRun, Stands, Active
<1>2. judge[j].pairs \in SUBSET Pairs /\ judge[j].disturbed \in BOOLEAN
      /\ judge[j].outcomes \subseteq Outcomes
  BY <1>1 DEF JudgeStates
<1>3. next \in JudgeStates
  BY <1>2, NoJudgementIs, DoneIs
<1>4. /\ judge' = [Disturbs(j) EXCEPT ![j] = next]
      /\ scored' = scored \cup
           {[on |-> o.on, score |-> o.score, at |-> judge[j].start] : o \in Good(j)}
      /\ UNCHANGED <<known, human, starts, verdicts>>
  BY DEF RecordJudgeRun
<1>5. next.at = "done" /\ next.pairs = judge[j].pairs /\ next.disturbed = judge[j].disturbed
  BY DEF NoJudgement
<1> HIDE DEF next
<1>6. judge'[j] = next /\ \A k \in JudgeCommands \ {j} : judge'[k] = Disturbs(j)[k]
  BY <1>4 DEF Disturbs
<1>7. ASSUME NEW k \in JudgeCommands, k # j PROVE Stands(k)' /\ judge'[k] \in JudgeStates
  BY <1>4, <1>6, <1>7, AllAreDisturbed
<1>8. judge' \in [JudgeCommands -> JudgeStates]
  <2>1. judge' = [k \in JudgeCommands |-> judge'[k]]
    BY <1>4 DEF Disturbs
  <2> QED BY <1>3, <1>6, <1>7, <2>1
<1>9. \A r \in scored' : r.on \in Judged /\ r.score \in Scores /\ r.at \in 1 .. starts
  <2>1. \A o \in Good(j) : o.on \in Judged /\ o.score \in Scores
    BY <1>1, <1>2 DEF Good, Outcomes, OutcomesAreSound
  <2> QED BY <1>1, <1>4, <2>1
<1>10. JudgeTypeOK'
  BY <1>4, <1>8, <1>9 DEF JudgeInv, JudgeTypeOK
<1>11. ~judge[j].disturbed => Projected(judge[j].pairs) = Projected(Historical({})')
  BY RecordedPairs
<1>12. \A p, q \in judge[j].pairs : p.on = q.on => p = q
  BY <1>1 DEF Stands
<1>13. Stands(j)'
  <2>1. /\ judge'[j].at = "done" /\ judge'[j].pairs = judge[j].pairs
        /\ judge'[j].disturbed = judge[j].disturbed
    BY <1>5, <1>6
  <2>2. Projected(judge[j].pairs)' = Projected(judge[j].pairs)
    BY <2>1 DEF Projected
  <2>3. Projected(Historical({}))' = Projected(Historical({})')
    BY DEF Projected
  <2> QED BY <1>11, <1>12, <2>1, <2>2, <2>3 DEF Stands, Active
<1>14. \A k \in JudgeCommands : Stands(k)'
  BY <1>7, <1>13
<1> QED BY <1>4, <1>9, <1>10, <1>14 DEF JudgeInv

-----------------------------------------------------------------------------
(* The theorems.                                                           *)

LEMMA JudgeInitInv == JudgeInit => JudgeInv
<1> SUFFICES ASSUME JudgeInit PROVE JudgeInv
  OBVIOUS
<1>1. JudgeTypeOK
  BY NoJudgementIs DEF JudgeInit, JudgeTypeOK
<1>2. ASSUME NEW j \in JudgeCommands PROVE Stands(j)
  BY DEF JudgeInit, Stands, Active, NoJudgement
<1> QED BY <1>1, <1>2, JudgedAreNumbers DEF JudgeInv, JudgeInit

LEMMA JudgeStep == JudgeInv /\ [JudgeNext]_judgeVars => JudgeInv'
<1> SUFFICES ASSUME JudgeInv, [JudgeNext]_judgeVars PROVE JudgeInv'
  OBVIOUS
<1>1. CASE UNCHANGED judgeVars
  <2>1. JudgeTypeOK' /\ starts \in Nat
    BY <1>1 DEF judgeVars, JudgeInv, JudgeTypeOK
  <2>2. ASSUME NEW k \in JudgeCommands PROVE Stands(k)'
    BY <1>1, <2>1, OthersStand DEF judgeVars
  <2> QED BY <1>1, <2>1, <2>2 DEF judgeVars, JudgeInv
<1>2. CASE JudgeNext
  BY <1>2, DecisionArrivesStep, HumanScoresStep, StartRunStep, JudgeOneStep, DecideStep,
     RecordJudgeRunStep, JudgeRunFailsStep DEF JudgeNext
<1> QED BY <1>1, <1>2

LEMMA JudgeInvariant == JudgeSpec => []JudgeInv
BY JudgeInitInv, JudgeStep, PTL DEF JudgeSpec

\* The commands, their cases, outcomes and pairs are well typed, whatever is
\* stored while they run (eval/judge.py, judge_candidates).
THEOREM JudgeTypeCorrect == JudgeSpec => []JudgeTypeOK
<1>1. JudgeInv => JudgeTypeOK
  BY DEF JudgeInv
<1> QED BY <1>1, JudgeInvariant, PTL

\* A calibration weighs every decision once, and the run that nobody disturbed
\* reports the calibration that the next command will find in the histories
\* (_combine_calibration_pairs, judge_calibration_pairs, record_judge_run).
THEOREM CalibrationMatchesHistoryHolds == JudgeSpec => []CalibrationMatchesHistory
<1>1. JudgeInv => CalibrationMatchesHistory
  <2> SUFFICES ASSUME JudgeInv PROVE CalibrationMatchesHistory
    OBVIOUS
  <2>1. OnePairPerDecision
    BY DEF JudgeInv, Stands, OnePairPerDecision
  <2>2. ReportMatchesHistory
    BY DEF JudgeInv, Stands, Projected, ReportMatchesHistory
  <2> QED BY <2>1, <2>2 DEF CalibrationMatchesHistory
<1> QED BY <1>1, JudgeInvariant, PTL
=============================================================================
