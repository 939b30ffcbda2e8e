------------------------------ MODULE ReadViews ------------------------------
(***************************************************************************)
(* Two read-only views of the web application over a store that others go  *)
(* on writing: the decision queue, filtered by a confidence band and read  *)
(* page by page from a cursor, each page by a connection of its own; and   *)
(* the span tree of a trace whose spans arrive in any order, with parents  *)
(* that are missing or, from a broken instrumentation, form a cycle.       *)
(***************************************************************************)
EXTENDS Naturals, Sequences, FiniteSets, Functions, Ranking

CONSTANTS
  Filed,          \* decision ids
  TenthsOf,       \* TenthsOf[d]: the confidence of a decision, in tenths
  PageSize,       \* decisions on a page (25)
  Spans,          \* span ids of one trace
  NoParent,       \* the parent of a root span
  NoCursor        \* the cursor of the first page

ASSUME FiledAreNumbers == Filed \subseteq Nat /\ NoCursor \notin Filed
ASSUME ConfidencesAreTenths == \A d \in Filed : TenthsOf[d] \in 0 .. 10
ASSUME NoParentIsNoSpan == NoParent \notin Spans
ASSUME PagesHaveRows == PageSize \in Nat \ {0}

VARIABLES
  shelf,          \* the stored decisions
  reader,         \* the planner: [at, band, began, seen, cursor]
  parentOf        \* the stored spans, each with its parent

viewVars == <<shelf, reader, parentOf>>

Bands == {"low", "medium", "high"}
Filters == Bands \cup {"all"}
NotReading == [at |-> "away", band |-> "all", began |-> {}, seen |-> <<>>, cursor |-> NoCursor]

ViewInit ==
  /\ shelf = {} /\ reader = NotReading
  /\ parentOf = [s \in {} |-> NoParent]

FileDecision(d) ==
  /\ d \notin shelf
  /\ shelf' = shelf \cup {d}
  /\ UNCHANGED <<reader, parentOf>>

-----------------------------------------------------------------------------
(* The queue.                                                              *)

\* confidence_band, which the rows show.
BandOf(tenths) == IF tenths < 5 THEN "low" ELSE IF tenths < 8 THEN "medium" ELSE "high"

\* confidence_bounds, which the query filters with: lower inclusive, upper
\* exclusive, and no upper bound for the highest band.
Within(band, tenths) ==
  /\ band = "low" => tenths < 5
  /\ band = "medium" => 5 <= tenths /\ tenths < 8
  /\ band = "high" => 8 <= tenths

\* ORDER BY confidence DESC, decision_id DESC.
Above(d, e) == TenthsOf[d] > TenthsOf[e] \/ (TenthsOf[d] = TenthsOf[e] /\ d > e)
QueueOrder == {p \in shelf \X shelf : Above(p[1], p[2])}

\* The cursor is compared by its sort value only (the mutant of Beyond).
BeyondValue(cursor, d) == cursor = NoCursor \/ TenthsOf[d] < TenthsOf[cursor]

\* The predicate of a cursor.
Beyond(cursor, d) ==
  \/ cursor = NoCursor
  \/ TenthsOf[d] < TenthsOf[cursor]
  \/ TenthsOf[d] = TenthsOf[cursor] /\ d < cursor

\* One more row than a page tells whether there is a next one.
QueueRows(band, cursor) ==
  FirstOf(PageSize + 1,
          Ranked(QueueOrder, {d \in shelf : Within(band, TenthsOf[d]) /\ Beyond(cursor, d)}))

Turned(band, began, seen, cursor) ==
  LET rows == QueueRows(band, cursor)
      visible == FirstOf(PageSize, rows)
      more == Len(rows) > Len(visible)
  IN [at |-> IF more THEN "page" ELSE "end", band |-> band, began |-> began,
      seen |-> seen \o visible, cursor |-> IF more THEN visible[Len(visible)] ELSE NoCursor]

OpenQueue(band) ==
  /\ reader.at \in {"away", "end"}
  /\ reader' = Turned(band, shelf, <<>>, NoCursor)
  /\ UNCHANGED <<shelf, parentOf>>

TurnPage ==
  /\ reader.at = "page"
  /\ reader' = Turned(reader.band, reader.began, reader.seen, reader.cursor)
  /\ UNCHANGED <<shelf, parentOf>>

-----------------------------------------------------------------------------
(* The trace view.                                                         *)

SpanArrives(s, parent) ==
  /\ s \notin DOMAIN parentOf
  /\ parentOf' = [t \in DOMAIN parentOf \cup {s} |-> IF t = s THEN parent ELSE parentOf[t]]
  /\ UNCHANGED <<shelf, reader>>

Arrived == DOMAIN parentOf

\* Where a walk from a span to its parent, and so on, gets to.
Walk(s) ==
  LET up[n \in 0 .. Cardinality(Arrived)] ==
        IF n = 0 THEN s
        ELSE IF up[n - 1] \in Arrived THEN parentOf[up[n - 1]] ELSE NoParent
  IN {up[n] : n \in 1 .. Cardinality(Arrived)}

\* _cycle_ids: the spans a walk from parent to parent comes back to.
CycleIds == {s \in Arrived : s \in Walk(s)}
Missing == {s \in Arrived : parentOf[s] \notin Arrived \cup {NoParent}}

\* Those, and by the closure loop every span below one.
InvalidIds ==
  LET bad == CycleIds \cup Missing
  IN bad \cup {s \in Arrived : Walk(s) \cap bad # {}}

\* make_view renders the roots and, below each span, the children listed for it.
Children(s) == {c \in Arrived \ InvalidIds : parentOf[c] = s}
Roots == {s \in Arrived \ InvalidIds : parentOf[s] = NoParent}
Rendered ==
  LET below[n \in 0 .. Cardinality(Arrived)] ==
        IF n = 0 THEN Roots ELSE UNION {Children(s) : s \in below[n - 1]}
  IN UNION {below[n] : n \in 0 .. Cardinality(Arrived)}

ViewNext ==
  \/ \E d \in Filed : FileDecision(d)
  \/ \E band \in Filters : OpenQueue(band)
  \/ TurnPage
  \/ \E s \in Spans, parent \in Spans \cup {NoParent} : SpanArrives(s, parent)

ViewSpec == ViewInit /\ [][ViewNext]_viewVars

-----------------------------------------------------------------------------
(* Properties.                                                             *)

ViewTypeOK ==
  /\ shelf \subseteq Filed
  /\ reader.at \in {"away", "page", "end"} /\ reader.band \in Filters
  /\ reader.began \subseteq Filed /\ reader.seen \in Seq(Filed)
  /\ reader.cursor \in Filed \cup {NoCursor}
  /\ DOMAIN parentOf \subseteq Spans

\* A planner who turns the pages to the end has seen, once and in order, every
\* decision stored when she began whose row shows the band she filtered by,
\* although decisions with equal confidence straddle pages and others arrive
\* between them; no row shows another band.
PagingIsComplete ==
  /\ \A i, k \in DOMAIN reader.seen : i < k => Above(reader.seen[i], reader.seen[k])
  /\ reader.band # "all" =>
       \A d \in Range(reader.seen) : BandOf(TenthsOf[d]) = reader.band
  /\ reader.at = "end" =>
       {d \in reader.began : reader.band \in {"all", BandOf(TenthsOf[d])}} \subseteq Range(reader.seen)

\* Every stored span is shown once, in the tree or in the list of invalid ones,
\* and rendering follows no cycle.
EverySpanIsShown ==
  /\ Rendered = Arrived \ InvalidIds
  /\ \A s \in Rendered : parentOf[s] \in Rendered \cup {NoParent}

\* Both at once: nothing stored is hidden from a planner.
ViewsShowEverything == PagingIsComplete /\ EverySpanIsShown
=============================================================================
