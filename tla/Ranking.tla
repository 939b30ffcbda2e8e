------------------------------- MODULE Ranking -------------------------------
(***************************************************************************)
(* Rows in an order: ORDER BY in the repository's queries, sorted() in the *)
(* evaluation.  An order is a set of pairs, the earlier element first, that *)
(* is irreflexive, transitive and total on the set it sorts; the place of  *)
(* an element is told by how many precede it.                              *)
(***************************************************************************)
EXTENDS Naturals, Sequences, FiniteSets

Rank(before, S, d) == Cardinality({e \in S : <<e, d>> \in before})

Ranked(before, S) ==
  [i \in 1 .. Cardinality(S) |-> CHOOSE d \in S : Rank(before, S, d) = i - 1]

\* The first n of a sequence: LIMIT n.
FirstOf(n, seq) == SubSeq(seq, 1, IF Len(seq) > n THEN n ELSE Len(seq))
=============================================================================
