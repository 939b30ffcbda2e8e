---------------------------- MODULE MCHistories ----------------------------
(***************************************************************************)
(* Small instances of what the store keeps for good, for TLC: the override *)
(* feedback and baseline histories (Ledger.tla), imported outcomes         *)
(* (OutcomeImport.tla), and the file itself while it is upgraded           *)
(* (SchemaMigration.tla).  They use different tables, so that a behaviour  *)
(* is one of the three, `part'; the others stay in their initial state.    *)
(***************************************************************************)
EXTENDS Ledger, OutcomeImport, SchemaMigration, TLC

CONSTANTS Parts, Yes, One

VARIABLE part

historyVars == <<ledgerVars, importVars, schemaVars, part>>

\* Records of a database that is not being opened are of no interest.
Init ==
  /\ part \in Parts
  /\ LedgerInit /\ ImportInit
  /\ SchemaInit /\ (part = "schema" \/ file.schema = 0)

Next ==
  \/ part = "ledger" /\ LedgerNext /\ UNCHANGED <<importVars, schemaVars, part>>
  \/ part = "import" /\ ImportNext /\ UNCHANGED <<ledgerVars, schemaVars, part>>
  \/ part = "schema" /\ SchemaNext /\ UNCHANGED <<ledgerVars, importVars, part>>

Spec == Init /\ [][Next]_historyVars

\* Every variable of the three components has its type.
HistoriesTypeOK == LedgerTypeOK /\ ImportTypeOK /\ SchemaTypeOK

Interchangeable ==
  Permutations(RowIds) \cup Permutations(Threads) \cup Permutations(Keys) \cup Permutations({Yes, One})

\* A corrected recommendation of true and one of 1: two texts, one value.
MCCompared == [v \in Values |-> IF v = Yes THEN One ELSE v]

-----------------------------------------------------------------------------
(* The files and policies of the imports.                                  *)

Num(n) == [kind |-> "number", is |-> n]
Bool(b) == [kind |-> "bool", is |-> b]
Hold(day, act) ==
  [agent |-> "a", type |-> "hold", decidedAt |-> day, recommendation |-> ("/act" :> act)]
\* A recommendation of 1 is not one of TRUE; the last decision is not mature.
MCKnown == "d1" :> Hold(1, Bool(TRUE)) @@ "d2" :> Hold(1, Num(1)) @@ "d3" :> Hold(3, Bool(FALSE))

Rule ==
  [agent |-> "a", type |-> "hold", outcomeType |-> "delay", recommendationAt |-> "/act",
   positives |-> {Bool(TRUE)}, outcomeAt |-> "/late", positiveOutcome |-> Num(1)]
FirstPolicy == [hash |-> "h1", maturity |-> 2, rules |-> {Rule}]
OtherPolicy == [FirstPolicy EXCEPT !.hash = "h2", !.rules = {[Rule EXCEPT !.positiveOutcome = Num(0)]}]
MCPolicyOf == "i1" :> FirstPolicy @@ "i2" :> FirstPolicy @@ "i3" :> OtherPolicy

Line(source, d, day, n) ==
  [shape |-> "ok", source |-> source, decision |-> d, type |-> "delay", at |-> day,
   horizon |-> 2, value |-> ("/late" :> Num(n))]
Bad(shape) == [Line("s0", "d1", 2, 1) EXCEPT !.shape = shape]
\* The second file repeats a source of the first for another decision, the
\* third one under another policy.
MCInputOf ==
  "i1" :> <<Line("s1", "d1", 2, 1), Line("s2", "d1", 3, 0)>>
  @@ "i2" :> <<Line("s2", "d2", 2, 1), Bad("malformed_json"), Bad("blank")>>
  @@ "i3" :> <<Line("s1", "d1", 3, 1), Line("s4", "d9", 3, 1)>>
=============================================================================
