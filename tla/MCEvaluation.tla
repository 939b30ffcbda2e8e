---------------------------- MODULE MCEvaluation ----------------------------
(***************************************************************************)
(* Small instances of the commands and views over a growing store, for     *)
(* TLC: counterfactual runs from the command line (Counterfactual.tla) and *)
(* from the live shadow worker (LiveShadow.tla), judge runs                *)
(* (JudgeRuns.tla), drift reports (DriftReport.tla), the web views         *)
(* (ReadViews.tla) and the scheduler's file (SchedulerPlist.tla).  They    *)
(* write to no table of each other, so that a behaviour is one of them,    *)
(* `part'.                                                                 *)
(***************************************************************************)
EXTENDS LiveShadow, JudgeRuns, DriftReport, ReadViews, SchedulerPlist, TLC

CONSTANTS Parts

VARIABLE part

evaluationVars == <<shadowVars, judgeVars, driftVars, viewVars, plistVars, part>>

\* Launchd's file of a machine without a scheduler is of no interest.
Init ==
  /\ part \in Parts
  /\ ShadowInit /\ JudgeInit /\ DriftInit /\ ViewInit
  /\ PlistInit /\ (part = "plist" \/ plist = NoEntry)

Next ==
  \/ /\ part = "counterfactual" /\ CounterfactualNext
     /\ UNCHANGED <<handle, caller, queue, active, working, accepted>>
     /\ UNCHANGED <<judgeVars, driftVars, viewVars, plistVars, part>>
  \/ part = "shadow" /\ ShadowNext /\ UNCHANGED <<judgeVars, driftVars, viewVars, plistVars, part>>
  \/ part = "judge" /\ JudgeNext /\ UNCHANGED <<shadowVars, driftVars, viewVars, plistVars, part>>
  \/ part = "drift" /\ DriftNext /\ UNCHANGED <<shadowVars, judgeVars, viewVars, plistVars, part>>
  \/ part = "views" /\ ViewNext /\ UNCHANGED <<shadowVars, judgeVars, driftVars, plistVars, part>>
  \/ part = "plist" /\ PlistNext /\ UNCHANGED <<shadowVars, judgeVars, driftVars, viewVars, part>>

Spec == Init /\ [][Next]_evaluationVars

\* Every variable of the components has its type.
EvaluationTypeOK == ShadowTypeOK /\ JudgeTypeOK /\ DriftTypeOK /\ ViewTypeOK /\ PlistTypeOK

\* The same values serve as handles, judge commands and operators, and so on.
Interchangeable == Permutations(Operators) \cup Permutations(Owned) \cup Permutations(Foreign)

-----------------------------------------------------------------------------
(* Samples of the drift windows, and the confidences of the queue.         *)

Sample(kind, tenths, value) == [kind |-> kind, version |-> "v1", tenths |-> tenths, value |-> value]
MCBounds == <<0, 5, 10>>
MCTraceValues == {-1, 0, 1, 3}
\* A type named "other", ties, more types than labels, a trace without a value,
\* and a type and a version without a name.
MCPast ==
  {Sample(0, 0, 0), Sample(2, 5, 1), Sample(3, 10, 1), Sample(3, 4, NoValue), Sample(1, 5, 1),
   [Sample(2, 5, 0) EXCEPT !.version = NoVersion]}
\* A type the baseline has not seen, shifts up and down, and a trace that ended
\* before it began.
MCRecent == {Sample(4, 5, 0), Sample(0, 10, 3), Sample(2, 5, -1)}
\* Two decisions at the bound of two bands.
MCTenthsOf == <<4, 5, 5, 8>>
=============================================================================
