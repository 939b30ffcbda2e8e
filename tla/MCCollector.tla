---------------------------- MODULE MCCollector ----------------------------
(***************************************************************************)
(* Small instances of the collector for TLC.  An event is named by its     *)
(* kind and its trace.                                                     *)
(***************************************************************************)
EXTENDS CollectorProperties, TLC

CONSTANTS p1, p2, none

MCEmitters == {p1, p2}
MCTraces == {"t1", "t2"}
\* Two decisions for a lookup cache of one entry.
MCEvents == {<<"start", "t1">>, <<"decision", "t1">>, <<"end", "t1">>,
             <<"start", "t2">>, <<"decision", "t2">>, <<"evidence", "t2">>}
MCKindOf == [e \in MCEvents |-> e[1]]
MCTraceOf == [e \in MCEvents |-> e[2]]
MCDecisionOf == [e \in MCEvents |-> IF e[1] = "evidence" THEN <<"decision", e[2]>> ELSE e]

\* The agent threads are interchangeable (safety runs only).
Threads == Permutations(MCEmitters)

\* The instance of the liveness and race runs: spans, and both traces close.
SmallEvents == {<<"start", "t1">>, <<"span", "t1">>, <<"end", "t1">>,
                <<"start", "t2">>, <<"end", "t2">>}
SmallKindOf == [e \in SmallEvents |-> e[1]]
SmallTraceOf == [e \in SmallEvents |-> e[2]]
SmallDecisionOf == [e \in SmallEvents |-> e]

=============================================================================
