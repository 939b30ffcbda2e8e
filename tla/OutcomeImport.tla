---------------------------- MODULE OutcomeImport ----------------------------
(***************************************************************************)
(* Deferred outcomes: `glassbox outcomes import' reads a file of observed  *)
(* outcomes line by line, labels each against the reconciliation policy,   *)
(* commits the valid ones one transaction at a time and collects the       *)
(* others in a rejects file, written under a temporary name beside the     *)
(* destination and moved over it at the end; `outcomes report' counts the  *)
(* newest label of every mature decision.  Several imports may run at once *)
(* with the same destination, be killed anywhere, and be started again.    *)
(***************************************************************************)
EXTENDS Integers, FiniteSets, Sequences

CONSTANTS
  Importers,    \* command lines
  InputOf,      \* InputOf[i]: the lines of i's input file
  PolicyOf,     \* PolicyOf[i]: the reconciliation policy i was given
  Known,        \* decision id -> [agent, type, decidedAt, recommendation]
  AsOf,         \* the instant of a report, in days
  OutcomeIds,   \* generated row ids; their order breaks ties
  NoFile        \* no entry under a name

ASSUME NamesAreDistinct == NoFile \notin Importers \cup {"stale"} /\ "stale" \notin Importers
ASSUME OutcomeIdsAreNumbers == OutcomeIds \subseteq Nat
\* The hash of a policy is computed from everything it says.
ASSUME HashNamesPolicy ==
  \A i, j \in Importers : PolicyOf[i].hash = PolicyOf[j].hash => PolicyOf[i] = PolicyOf[j]

VARIABLES
  outcomes,     \* committed rows
  tempEntry,    \* whose file the temporary name holds: NoFile, "stale" or an importer
  rejectFile,   \* [of, movedBy], or NoFile
  import,       \* import[i] = [at, next, accepted, replayed, rejected]
  crossed       \* whether an import's cleanup removed another import's file

importVars == <<outcomes, tempEntry, rejectFile, import, crossed>>

Fresh == [at |-> "idle", next |-> 1, accepted |-> 0, replayed |-> 0, rejected |-> {}]

Stopped(at) == [Fresh EXCEPT !.at = at]  \* no summary is printed

ImportInit ==
  /\ outcomes = {} /\ tempEntry = NoFile /\ rejectFile = NoFile /\ crossed = FALSE
  /\ import = [i \in Importers |-> Fresh]

-----------------------------------------------------------------------------
(* Labels.  A scalar is [kind, is]: JSON has one number type, and a Boolean *)
(* is not a number.  A JSON value is a function from pointers to scalars.   *)

JsonEqual(a, b) == a.kind = b.kind /\ a.is = b.is

MatchingRules(policy, d) ==
  {r \in policy.rules : r.agent = Known[d].agent /\ r.type = Known[d].type}

\* derive_label: a label, or the reason there is none.
DeriveLabel(policy, d, line) ==
  LET rules == {r \in MatchingRules(policy, d) : r.outcomeType = line.type}
      rule == CHOOSE r \in rules : TRUE
      predicted == \E v \in rule.positives :
                     JsonEqual(Known[d].recommendation[rule.recommendationAt], v)
      realized == JsonEqual(line.value[rule.outcomeAt], rule.positiveOutcome)
  IN IF rules = {} THEN "no_matching_rule"
     ELSE IF Cardinality(rules) > 1 THEN "ambiguous_rule"
     ELSE IF \/ rule.recommendationAt \notin DOMAIN Known[d].recommendation
             \/ rule.outcomeAt \notin DOMAIN line.value THEN "invalid_pointer"
     ELSE IF predicted THEN (IF realized THEN "tp" ELSE "fp")
     ELSE IF realized THEN "fn" ELSE "tn"

Labels == {"tp", "fp", "tn", "fn"}

Malformed == {"malformed_json", "invalid_shape", "invalid_timestamp"}
Reasons == Malformed \cup {"unknown_decision", "horizon_mismatch", "observed_before_decision",
  "observed_after_horizon", "no_matching_rule", "ambiguous_rule", "invalid_pointer",
  "source_id_conflict"}

ASSUME InputsAreLines ==
  \A i \in Importers :
    /\ Len(InputOf[i]) \in Nat
    /\ \A n \in 1 .. Len(InputOf[i]) :
         InputOf[i][n].shape \in Malformed \cup {"ok", "blank"} /\ InputOf[i][n].at \in Int

\* The checks of parse_jsonl and _record_outcome, in their order; maturity
\* counts days after the decision, both ends included.
Verdict(policy, line) ==
  IF line.shape # "ok" THEN line.shape
  ELSE IF line.decision \notin DOMAIN Known THEN "unknown_decision"
  ELSE IF line.horizon # policy.maturity THEN "horizon_mismatch"
  ELSE IF line.at < Known[line.decision].decidedAt THEN "observed_before_decision"
  ELSE IF line.at > Known[line.decision].decidedAt + policy.maturity THEN "observed_after_horizon"
  ELSE DeriveLabel(policy, line.decision, line)

Payload(policy, line) ==
  [source |-> line.source, policy |-> policy.hash, decision |-> line.decision,
   type |-> line.type, at |-> line.at, value |-> line.value,
   label |-> DeriveLabel(policy, line.decision, line)]
RowOf(id, payload) ==
  [f \in DOMAIN payload \cup {"id"} |-> IF f = "id" THEN id ELSE payload[f]]
PayloadOf(row) == [f \in DOMAIN row \ {"id"} |-> row[f]]

\* A stored source is a replay whatever it says (the mutant of SameSource).
SameSourceOnly(policy, line) ==
  IF \E r \in outcomes : r.source = line.source /\ r.policy = policy.hash
    THEN {Payload(policy, line)} ELSE {}

\* The payloads stored under the line's replay identity: none or one.
SameSource(policy, line) ==
  {PayloadOf(row) : row \in {r \in outcomes : r.source = line.source /\ r.policy = policy.hash}}

-----------------------------------------------------------------------------
(* An import.                                                              *)

Lines(i) == InputOf[i]
SetImport(i, to) == import' = [import EXCEPT ![i] = to]

\* The temporary name is opened without "x" (the mutant of StartImport).
StartOver(i) ==
  /\ import[i].at \in {"idle", "failed"}
  /\ tempEntry' = i /\ SetImport(i, [Fresh EXCEPT !.at = "reading"])
  /\ UNCHANGED <<outcomes, rejectFile, crossed>>

\* Exclusive creation of the temporary name, or FileExistsError.
StartImport(i) ==
  /\ import[i].at \in {"idle", "failed"}
  /\ IF tempEntry = NoFile
       THEN tempEntry' = i /\ SetImport(i, [Fresh EXCEPT !.at = "reading"])
       ELSE UNCHANGED tempEntry /\ SetImport(i, Stopped("failed"))
  /\ UNCHANGED <<outcomes, rejectFile, crossed>>

\* One line of the loop: blank, rejected, replayed, or committed.
ReadLine(i) ==
  /\ import[i].at = "reading" /\ import[i].next <= Len(Lines(i))
  /\ LET line == Lines(i)[import[i].next]
         policy == PolicyOf[i]
         now == [import[i] EXCEPT !.next = @ + 1]
         reject(reason) ==
           /\ SetImport(i, [now EXCEPT !.rejected = @ \cup {<<import[i].next, reason>>}])
           /\ UNCHANGED outcomes
     IN IF line.shape = "blank" THEN SetImport(i, now) /\ UNCHANGED outcomes
        ELSE IF Verdict(policy, line) \notin Labels THEN reject(Verdict(policy, line))
        ELSE IF SameSource(policy, line) = {}
          THEN /\ \E id \in OutcomeIds \ {r.id : r \in outcomes} :
                    outcomes' = outcomes \cup {RowOf(id, Payload(policy, line))}
               /\ SetImport(i, [now EXCEPT !.accepted = @ + 1])
        ELSE IF SameSource(policy, line) = {Payload(policy, line)}
          THEN SetImport(i, [now EXCEPT !.replayed = @ + 1]) /\ UNCHANGED outcomes
        ELSE reject("source_id_conflict")
  /\ UNCHANGED <<tempEntry, rejectFile, crossed>>

\* temporary.replace(reject_path) moves whatever file the name now holds; with
\* no file under it, it fails and only the cleanup is left.
Publish(i) ==
  /\ import[i].at = "reading" /\ import[i].next > Len(Lines(i))
  /\ IF tempEntry = NoFile
       THEN /\ SetImport(i, Stopped("give up"))
            /\ UNCHANGED <<tempEntry, rejectFile>>
       ELSE /\ rejectFile' = [of |-> tempEntry, movedBy |-> i]
            /\ tempEntry' = NoFile
            /\ SetImport(i, [import[i] EXCEPT !.at = "clean up"])
  /\ UNCHANGED <<outcomes, crossed>>

\* An exception between two lines: the store is busy, the disk is full.
ImportFails(i) ==
  /\ import[i].at = "reading"
  /\ SetImport(i, Stopped("give up"))
  /\ UNCHANGED <<outcomes, tempEntry, rejectFile, crossed>>

\* temporary.unlink(missing_ok=True), by name.
CleanUp(i) ==
  /\ import[i].at \in {"clean up", "give up"}
  /\ crossed' = (crossed \/ tempEntry \notin {NoFile, i})
  /\ tempEntry' = NoFile
  /\ SetImport(i, IF import[i].at = "clean up" THEN [import[i] EXCEPT !.at = "done"]
                                              ELSE Stopped("failed"))
  /\ UNCHANGED <<outcomes, rejectFile>>

\* The process is killed; its temporary file stays.
ImportKilled(i) ==
  /\ import[i].at \in {"reading", "clean up", "give up"}
  /\ SetImport(i, Stopped("failed"))
  /\ tempEntry' = IF tempEntry = i THEN "stale" ELSE tempEntry
  /\ UNCHANGED <<outcomes, rejectFile, crossed>>

\* The operator removes a temporary file that no import holds open.
Sweep ==
  /\ tempEntry = "stale"
  /\ tempEntry' = NoFile
  /\ UNCHANGED <<outcomes, rejectFile, import, crossed>>

ImportNext ==
  \/ \E i \in Importers :
       StartImport(i) \/ ReadLine(i) \/ Publish(i) \/ ImportFails(i) \/ CleanUp(i) \/ ImportKilled(i)
  \/ Sweep

ImportSpec == ImportInit /\ [][ImportNext]_importVars
-----------------------------------------------------------------------------
(* The report.                                                             *)

Newer(r, q) == r.at > q.at \/ (r.at = q.at /\ r.id > q.id)

\* The newest row of each type, under any policy (the mutant of LatestByType).
LatestUnderAnyPolicy(hash, d) ==
  {r \in outcomes : r.decision = d /\ r.policy = hash
     /\ \A q \in outcomes : q.decision = d /\ q.type = r.type /\ q # r => Newer(r, q)}

\* ranked_outcomes of reconciliation_source: rank 1 of each type, one policy.
LatestByType(hash, d) ==
  LET rows == {r \in outcomes : r.policy = hash /\ r.decision = d}
  IN {r \in rows : \A q \in rows : q.type = r.type /\ q # r => Newer(r, q)}

Mature(policy) == {d \in DOMAIN Known : Known[d].decidedAt <= AsOf - policy.maturity}

\* calculate_report: the label of a decision's newest compatible outcome, if
\* its one rule has any.
LabelOf(policy, d) ==
  LET compatible == {o \in LatestByType(policy.hash, d) :
                       \E r \in MatchingRules(policy, d) : r.outcomeType = o.type}
      latest == {o \in compatible : \A q \in compatible \ {o} : Newer(o, q)}
  IN IF latest = {} THEN "none" ELSE (CHOOSE o \in latest : TRUE).label

\* _metrics over the mature decisions; ratios are these counts' quotients.
Metrics(policy) ==
  [l \in Labels \cup {"none"} |-> Cardinality({d \in Mature(policy) : LabelOf(policy, d) = l})]

-----------------------------------------------------------------------------
(* Properties.                                                             *)

Stages == {"idle", "reading", "clean up", "give up", "done", "failed"}
Imports ==
  [at : Stages,
   next : Nat, accepted : Nat, replayed : Nat, rejected : SUBSET (Nat \X Reasons)]

ImportTypeOK ==
  /\ tempEntry \in Importers \cup {NoFile, "stale"}
  /\ rejectFile \in [of : Importers \cup {"stale"}, movedBy : Importers] \cup {NoFile}
  /\ import \in [Importers -> Imports]
  /\ crossed \in BOOLEAN
  /\ \A r \in outcomes : r.id \in OutcomeIds /\ r.label \in Labels

\* Until some import's cleanup has removed another import's file, an import
\* that is reading holds the temporary name, and the rejects file was moved
\* there by the import that wrote it (exclusive creation in import_outcomes).
ArtifactsKeptApart ==
  ~crossed =>
    /\ \A i \in Importers : import[i].at = "reading" => tempEntry = i
    /\ rejectFile # NoFile => rejectFile.of = rejectFile.movedBy

\* The same without the exception: what the comment on the exclusive creation
\* claims, that no import can disturb another caller's artifact.
ImportKeepsItsFile == \A i \in Importers : import[i].at = "reading" => tempEntry = i

\* A summary is true of the store, whatever ran at the same time and however
\* often the file was imported before: every line of a finished import is
\* blank, or rejected, or stored exactly as given, and its counts add up
\* (import_outcomes, record_outcome).
SummaryIsTrue ==
  \A i \in Importers :
    LET entries == {n \in 1..Len(Lines(i)) : Lines(i)[n].shape # "blank"}
        refused == {p[1] : p \in import[i].rejected}
    IN import[i].at = "done" =>
         /\ \A n \in entries \ refused :
              Payload(PolicyOf[i], Lines(i)[n]) \in {PayloadOf(r) : r \in outcomes}
         /\ import[i].accepted + import[i].replayed + Cardinality(refused)
              = Cardinality(entries)

\* A source's observation is stored at most once under a policy.
OncePerSource ==
  \A r, q \in outcomes : r.source = q.source /\ r.policy = q.policy => r = q

\* Both at once: what an import reports is what the store keeps.
StoredAsReported == OncePerSource /\ SummaryIsTrue

\* The report's two stages, the query's ranking and the filter over it, count
\* every mature decision once, under the label of its newest outcome for the
\* policy (reconciliation_source, calculate_report).
ReportCountsNewestLabels ==
  \A policy \in {PolicyOf[i] : i \in Importers} :
    LET mine(d) == {r \in outcomes : r.decision = d /\ r.policy = policy.hash}
        newest(d) == {r \in mine(d) : \A q \in mine(d) \ {r} : Newer(r, q)}
    IN \A l \in Labels :
         Metrics(policy)[l] =
           Cardinality({d \in Mature(policy) : \E r \in newest(d) : r.label = l})
=============================================================================
