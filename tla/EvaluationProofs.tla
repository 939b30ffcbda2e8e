--------------------------- MODULE EvaluationProofs ---------------------------
(***************************************************************************)
(* Proofs about the commands and views over a growing store                *)
(* (MCEvaluation.tla): the scheduler's managed file (SchedulerPlist.tla),  *)
(* the web views (ReadViews.tla), drift reports (DriftReport.tla), and     *)
(* their composition with counterfactual runs (ShadowProofs.tla) and judge *)
(* runs (JudgeProofs.tla).                                                 *)
(***************************************************************************)
EXTENDS MCEvaluation, ShadowProofs, JudgeProofs

-----------------------------------------------------------------------------
(***************************************************************************)
(* The scheduler: the commands are well typed, and whatever number of them *)
(* is at work on whatever files, none destroys a file of another program.  *)
(* The invariant says what a command keeps under its private name at each  *)
(* of its steps: nothing, the new file, or, only after a swap or a         *)
(* capture, a file it has not looked at yet.                               *)
(***************************************************************************)
\* Steps at which a command has nothing under its private name.
EmptyHanded == {"idle", "bootout", "recheck", "bootstrap", "failed bootstrap",
                "query", "unload", "confirm", "capture"}

\* Steps at which it holds the new file, and those at which it holds a file it
\* has not looked at.
Holding == {"link", "check", "swap"}
Unread == {"displaced", "rejected", "verify"}

PrivateName(p) ==
  /\ command[p].at \in EmptyHanded => aside[p] = NoEntry
  /\ command[p].at \in Holding => aside[p] = command[p].data
  /\ command[p].at \in Unread => aside[p] \in Entries

PlistInv == PlistTypeOK /\ \A p \in Operators : PrivateName(p)

\* What a step of one command may do to the rest of the state: the other
\* commands and their private names are not touched.
LEMMA OneCommandMoves ==
  ASSUME PlistInv, NEW p \in Operators,
         NEW entry \in Entries \cup {NoEntry},
         NEW next \in [at : CommandSteps, previous : Owned \cup {NoEntry},
                       data : Owned \cup {NoEntry}],
         aside' = [aside EXCEPT ![p] = entry],
         command' = [command EXCEPT ![p] = next],
         plist' \in Entries \cup {NoEntry}, litter' \subseteq Entries,
         job' \in Entries \cup {NoEntry},
         next.at \in EmptyHanded => entry = NoEntry,
         next.at \in Holding => entry = next.data,
         next.at \in Unread => entry \in Entries
  PROVE  PlistInv'
<1>1. PlistTypeOK'
  BY DEF PlistInv, PlistTypeOK
<1>2. ASSUME NEW q \in Operators PROVE PrivateName(q)'
  BY <1>2 DEF PlistInv, PlistTypeOK, PrivateName
<1>3. QED
  BY <1>1, <1>2 DEF PlistInv

\* Initially no command is at work.
LEMMA PlistInitInv == PlistInit => PlistInv
BY DEF PlistInit, PlistInv, PlistTypeOK, PrivateName, NoCommand, CommandSteps, EmptyHanded,
       Holding, Unread, Entries

-----------------------------------------------------------------------------
(* Steps.                                                                  *)

\* No foreign file is lost by a step.
Kept == \A f \in Foreign : f \in Somewhere => f \in Somewhere'

\* A command disturbs two names only, the managed one and its own, so it loses
\* nothing if what these held is still there.
LEMMA OneCommandKeeps ==
  ASSUME PlistInv, NEW p \in Operators, NEW entry \in Entries \cup {NoEntry},
         aside' = [aside EXCEPT ![p] = entry],
         \A f \in Foreign : f \in litter \cup {plist, aside[p]} => f \in litter' \cup {plist', entry}
  PROVE  Kept
<1> SUFFICES ASSUME NEW f \in Foreign, f \in Somewhere PROVE f \in Somewhere'
  BY DEF Kept
<1>1. f # NoEntry
  BY ForeignIsNotOwned
<1>2. aside'[p] = entry /\ \A q \in Operators : q # p => aside'[q] = aside[q]
  BY DEF PlistInv, PlistTypeOK
<1>3. CASE \E q \in Operators : q # p /\ aside[q] = f
  BY <1>1, <1>2, <1>3 DEF Somewhere
<1>4. CASE f \in litter \cup {plist, aside[p]}
  BY <1>1, <1>2, <1>4 DEF Somewhere
<1> QED BY <1>3, <1>4 DEF Somewhere

\* Both together, for a step of one command.
LEMMA CommandStepKeeps ==
  ASSUME PlistInv, NEW p \in Operators, CommandStep(p)
  PROVE  PlistInv' /\ Kept
<1> DEFINE Safe(entry, next) ==
      /\ entry \in Entries \cup {NoEntry}
      /\ next \in [at : CommandSteps, previous : Owned \cup {NoEntry}, data : Owned \cup {NoEntry}]
      /\ aside' = [aside EXCEPT ![p] = entry]
      /\ command' = [command EXCEPT ![p] = next]
      /\ plist' \in Entries \cup {NoEntry} /\ litter' \subseteq Entries
      /\ job' \in Entries \cup {NoEntry}
      /\ next.at \in EmptyHanded => entry = NoEntry
      /\ next.at \in Holding => entry = next.data
      /\ next.at \in Unread => entry \in Entries
      /\ \A f \in Foreign : f \in litter \cup {plist, aside[p]} => f \in litter' \cup {plist', entry}
<1>1. SUFFICES \E entry, next : Safe(entry, next)
  BY OneCommandMoves, OneCommandKeeps
<1> DEFINE c == command[p]
           To(step) == [c EXCEPT !.at = step]
<1>2. /\ c \in [at : CommandSteps, previous : Owned \cup {NoEntry}, data : Owned \cup {NoEntry}]
      /\ aside[p] \in Entries \cup {NoEntry}
      /\ aside = [aside EXCEPT ![p] = aside[p]]
      /\ plist \in Entries \cup {NoEntry} /\ litter \subseteq Entries /\ job \in Entries \cup {NoEntry}
      /\ c.at \in EmptyHanded => aside[p] = NoEntry
      /\ c.at \in Holding => aside[p] = c.data
      /\ c.at \in Unread => aside[p] \in Entries
      /\ c.data \in Owned \cup {NoEntry} /\ c.previous \in Owned \cup {NoEntry}
  BY DEF PlistInv, PlistTypeOK, PrivateName
<1>3. /\ NoCommand \in [at : CommandSteps, previous : Owned \cup {NoEntry}, data : Owned \cup {NoEntry}]
      /\ NoCommand.at \in EmptyHanded
      /\ NoCommand.at \notin Holding \cup Unread
  BY DEF NoCommand, CommandSteps, EmptyHanded, Holding, Unread
<1>4. \A step \in CommandSteps : /\ To(step) \in [at : CommandSteps, previous : Owned \cup {NoEntry},
                                                 data : Owned \cup {NoEntry}]
                                 /\ To(step).at = step /\ To(step).data = c.data
  BY <1>2
<1>5. \A step \in CommandSteps : Goes(p, step) <=> command' = [command EXCEPT ![p] = To(step)]
  BY DEF Goes
<1> HIDE DEF To
<1>6. \A f \in Foreign : f # NoEntry /\ f \notin Owned
  BY ForeignIsNotOwned
<1>7. \A f \in Foreign : /\ f # c.data /\ f # c.previous
                         /\ c.at \in Holding \cup EmptyHanded => f # aside[p]
  BY <1>2, <1>6
<1>9. CASE \E data \in Owned, replace \in BOOLEAN : Install(p, data, replace)
  <2> PICK data \in Owned, replace \in BOOLEAN : Install(p, data, replace)
    BY <1>9
  <2> DEFINE next == [at |-> IF plist = NoEntry THEN "link" ELSE "bootout",
                      previous |-> plist, data |-> data]
  <2>1. Safe(IF plist = NoEntry THEN data ELSE aside[p], next)
    BY <1>2 DEF Install, Keeps, At, CommandSteps, EmptyHanded, Holding, Unread, Entries
  <2> QED BY <2>1
<1>10. CASE Link(p)
  <2>1. CASE plist = NoEntry
    <3>1. Safe(NoEntry, To("bootstrap"))
      BY <1>2, <1>4, <1>5, <1>6, <1>7, <1>10, <2>1
         DEF Link, Keeps, At, CommandSteps, EmptyHanded, Holding, Unread, Entries
    <3> QED BY <3>1
  <2>2. CASE plist # NoEntry
    <3>1. Safe(NoEntry, NoCommand)
      BY <1>2, <1>3, <1>6, <1>7, <1>10, <2>2
         DEF Link, Keeps, Ends, At, CommandSteps, EmptyHanded, Holding, Unread, Entries
    <3> QED BY <3>1
  <2> QED BY <2>1, <2>2
<1>11. CASE Bootout(p)
  <2>1. Safe(aside[p], To("recheck")) \/ Safe(aside[p], NoCommand)
    BY <1>2, <1>3, <1>4, <1>5, <1>11
       DEF Bootout, Ends, At, CommandSteps, EmptyHanded, Holding, Unread, Entries
  <2> QED BY <2>1
<1>12. CASE Recheck(p)
  <2>1. CASE plist = c.previous
    <3>1. Safe(c.data, To("check"))
      BY <1>2, <1>3, <1>4, <1>5, <1>6, <1>7, <1>12, <2>1
         DEF Recheck, Keeps, Ends, At, CommandSteps, EmptyHanded, Holding, Unread, Entries
    <3> QED BY <3>1
  <2>2. CASE ~(plist = c.previous)
    <3>1. Safe(aside[p], NoCommand)
      BY <1>2, <1>3, <1>4, <1>5, <1>6, <1>7, <1>12, <2>2
         DEF Recheck, Keeps, Ends, At, CommandSteps, EmptyHanded, Holding, Unread, Entries
    <3> QED BY <3>1
  <2> QED BY <2>1, <2>2
<1>13. CASE CheckBeforeSwap(p)
  <2>1. CASE plist = c.previous
    <3>1. Safe(aside[p], To("swap"))
      BY <1>2, <1>3, <1>4, <1>5, <1>6, <1>7, <1>13, <2>1
         DEF CheckBeforeSwap, Keeps, Ends, At, CommandSteps, EmptyHanded, Holding, Unread, Entries
    <3> QED BY <3>1
  <2>2. CASE ~(plist = c.previous)
    <3>1. Safe(NoEntry, NoCommand)
      BY <1>2, <1>3, <1>4, <1>5, <1>6, <1>7, <1>13, <2>2
         DEF CheckBeforeSwap, Keeps, Ends, At, CommandSteps, EmptyHanded, Holding, Unread, Entries
    <3> QED BY <3>1
  <2> QED BY <2>1, <2>2
<1>14. CASE Swap(p)
  <2>1. CASE plist # NoEntry
    <3>1. Safe(plist, To("displaced"))
      BY <1>2, <1>3, <1>4, <1>5, <1>6, <1>7, <1>14, <2>1
         DEF Swap, Keeps, Ends, At, CommandSteps, EmptyHanded, Holding, Unread, Entries
    <3> QED BY <3>1
  <2>2. CASE ~(plist # NoEntry)
    <3>1. Safe(NoEntry, NoCommand)
      BY <1>2, <1>3, <1>4, <1>5, <1>6, <1>7, <1>14, <2>2
         DEF Swap, Keeps, Ends, At, CommandSteps, EmptyHanded, Holding, Unread, Entries
    <3> QED BY <3>1
  <2> QED BY <2>1, <2>2
<1>15. CASE Displaced(p)
  <2>1. CASE aside[p] = c.previous
    <3>1. /\ plist' = plist /\ litter' = litter /\ job' = job
          /\ aside' = [aside EXCEPT ![p] = NoEntry]
          /\ Goes(p, "bootstrap")
      BY <1>15, <2>1 DEF Displaced, Keeps
    <3>2. command' = [command EXCEPT ![p] = To("bootstrap")]
      BY <1>5, <3>1 DEF CommandSteps
    <3>3. \A f \in Foreign : f # aside[p]
      BY <1>7, <2>1
    <3>4. Safe(NoEntry, To("bootstrap"))
      BY <1>2, <1>4, <3>1, <3>2, <3>3 DEF CommandSteps, EmptyHanded, Holding, Unread
    <3> QED BY <3>4
  <2>2. CASE aside[p] # c.previous /\ plist # NoEntry
    <3>1. Safe(plist, To("rejected"))
      BY <1>2, <1>4, <1>5, <1>15, <2>2
         DEF Displaced, Keeps, At, CommandSteps, EmptyHanded, Holding, Unread, Entries
    <3> QED BY <3>1
  <2>3. CASE aside[p] # c.previous /\ plist = NoEntry
    <3>1. Safe(NoEntry, NoCommand)
      BY <1>2, <1>3, <1>6, <1>7, <1>15, <2>3
         DEF Displaced, Keeps, Ends, At, CommandSteps, EmptyHanded, Holding, Unread, Entries
    <3> QED BY <3>1
  <2> QED BY <2>1, <2>2, <2>3
<1>16. CASE Rejected(p)
  <2>1. Safe(NoEntry, NoCommand)
    BY <1>2, <1>3, <1>6, <1>7, <1>16
       DEF Rejected, Keeps, Ends, At, CommandSteps, EmptyHanded, Holding, Unread, Entries
  <2> QED BY <2>1
<1>17. CASE Bootstrap(p)
  <2>1. Safe(aside[p], NoCommand) \/ Safe(aside[p], To("failed bootstrap"))
    BY <1>2, <1>3, <1>4, <1>5, <1>17
       DEF Bootstrap, Ends, At, CommandSteps, EmptyHanded, Holding, Unread, Entries
  <2> QED BY <2>1
<1>18. CASE FailedBootstrap(p)
  <2>1. Safe(aside[p], NoCommand) \/ Safe(aside[p], To("capture"))
    BY <1>2, <1>3, <1>4, <1>5, <1>18
       DEF FailedBootstrap, Ends, At, CommandSteps, EmptyHanded, Holding, Unread, Entries
  <2> QED BY <2>1
<1>19. CASE Remove(p)
  <2>1. Safe(aside[p], [at |-> "query", previous |-> plist, data |-> plist])
    BY <1>2, <1>19 DEF Remove, At, CommandSteps, EmptyHanded, Holding, Unread, Entries
  <2> QED BY <2>1
<1>20. CASE Query(p)
  <2>1. \E step \in {"confirm", "unload"} : Safe(aside[p], To(step)) \/ Safe(aside[p], NoCommand)
    BY <1>2, <1>3, <1>4, <1>5, <1>20
       DEF Query, Ends, At, CommandSteps, EmptyHanded, Holding, Unread, Entries
  <2> QED BY <2>1
<1>21. CASE Unload(p)
  <2>1. Safe(aside[p], NoCommand) \/ Safe(aside[p], To("confirm"))
    BY <1>2, <1>3, <1>4, <1>5, <1>21
       DEF Unload, Ends, At, CommandSteps, EmptyHanded, Holding, Unread, Entries
  <2> QED BY <2>1
<1>22. CASE Confirm(p)
  <2>1. Safe(aside[p], NoCommand) \/ Safe(aside[p], To("capture"))
    BY <1>2, <1>3, <1>4, <1>5, <1>22
       DEF Confirm, Ends, At, CommandSteps, EmptyHanded, Holding, Unread, Entries
  <2> QED BY <2>1
<1>23. CASE Capture(p)
  <2>1. CASE plist # NoEntry
    <3>1. Safe(plist, To("verify"))
      BY <1>2, <1>3, <1>4, <1>5, <1>6, <1>7, <1>23, <2>1
         DEF Capture, Keeps, Ends, At, CommandSteps, EmptyHanded, Holding, Unread, Entries
    <3> QED BY <3>1
  <2>2. CASE ~(plist # NoEntry)
    <3>1. Safe(aside[p], NoCommand)
      BY <1>2, <1>3, <1>4, <1>5, <1>6, <1>7, <1>23, <2>2
         DEF Capture, Keeps, Ends, At, CommandSteps, EmptyHanded, Holding, Unread, Entries
    <3> QED BY <3>1
  <2> QED BY <2>1, <2>2
<1>24. CASE Verify(p)
  <2>1. Safe(NoEntry, NoCommand)
    BY <1>2, <1>3, <1>6, <1>7, <1>24
       DEF Verify, Keeps, Ends, At, CommandSteps, EmptyHanded, Holding, Unread, Entries
  <2> QED BY <2>1
<1>25. CASE CommandKilled(p)
  <2>1. Safe(NoEntry, NoCommand)
    BY <1>2, <1>3, <1>6, <1>7, <1>25
       DEF CommandKilled, Keeps, Ends, At, CommandSteps, EmptyHanded, Holding, Unread, Entries
  <2> QED BY <2>1
<1> QED
  BY <1>9, <1>10, <1>11, <1>12, <1>13, <1>14, <1>15, <1>16, <1>17, <1>18, <1>19, <1>20, <1>21,
     <1>22, <1>23, <1>24, <1>25 DEF CommandStep

\* Another program changes the managed name only.
LEMMA IntrusionKeeps ==
  ASSUME PlistInv, NEW f \in Foreign, Intrude(f)
  PROVE  PlistInv' /\ aside' = aside
BY DEF Intrude, PlistInv, PlistTypeOK, PrivateName, Entries

\* Every step keeps the invariant and loses no foreign file but at the hand of
\* its own program.
LEMMA PlistStep ==
  ASSUME PlistInv, [PlistNext]_plistVars
  PROVE  /\ PlistInv'
         /\ \A f \in Foreign :
              f \in Somewhere /\ f \notin Somewhere' => plist = f /\ aside' = aside
<1>1. CASE \E p \in Operators : CommandStep(p)
  BY <1>1, CommandStepKeeps DEF Kept
<1>2. ASSUME NEW g \in Foreign, Intrude(g)
      PROVE  \A f \in Foreign : f \in Somewhere /\ f \notin Somewhere' => plist = f
  <2> SUFFICES ASSUME NEW f \in Foreign, f \in Somewhere, f \notin Somewhere', plist # f
               PROVE  FALSE
    OBVIOUS
  <2> QED BY <1>2 DEF Intrude, Somewhere
<1>3. CASE \E g \in Foreign : Intrude(g)
  BY <1>2, <1>3, IntrusionKeeps
<1>4. CASE UNCHANGED plistVars
  BY <1>4 DEF plistVars, PlistInv, PlistTypeOK, PrivateName, Somewhere
<1> QED BY <1>1, <1>3, <1>4 DEF PlistNext

-----------------------------------------------------------------------------
(* Theorems.                                                               *)

\* The invariant holds, and with it the types of the command's files.
THEOREM PlistTypeCorrect == PlistSpec => []PlistTypeOK
<1>1. PlistInv /\ [PlistNext]_plistVars => PlistInv'
  BY PlistStep
<1>2. PlistInv => PlistTypeOK
  BY DEF PlistInv
<1> QED BY PlistInitInv, <1>1, <1>2, PTL DEF PlistSpec

\* For any number of commands, files and intruders: no command destroys a file
\* that is not its own (_write_atomic, _discard_owned).
THEOREM ForeignFilesSurviveHolds == PlistSpec => ForeignFilesSurvive
<1>1. PlistInv /\ [PlistNext]_plistVars => PlistInv'
  BY PlistStep
<1>2. PlistInv /\ [PlistNext]_plistVars =>
        [\A f \in Foreign : f \in Somewhere /\ f \notin Somewhere' => plist = f /\ aside' = aside]_plistVars
  BY PlistStep
<1> QED BY PlistInitInv, <1>1, <1>2, PTL DEF PlistSpec, ForeignFilesSurvive

-----------------------------------------------------------------------------
(***************************************************************************)
(* The queue: pages follow each other in the order of the queue, whatever  *)
(* is stored between them.  Until the last page, what the reader has not   *)
(* seen of the decisions she began with is beyond her cursor.              *)
(***************************************************************************)
InBand(band, d) == band \in {"all", BandOf(TenthsOf[d])}

\* What a reader has seen, and what is left for her.
ReaderOK(r) ==
  /\ r.at \in {"away", "page", "end"} /\ r.band \in Filters
  /\ r.began \subseteq shelf /\ r.seen \in Seq(Filed) /\ r.cursor \in Filed \cup {NoCursor}
  /\ \A i, k \in 1 .. Len(r.seen) : i < k => Above(r.seen[i], r.seen[k])
  /\ \A i \in 1 .. Len(r.seen) : r.seen[i] \in shelf /\ InBand(r.band, r.seen[i])
  /\ r.at = "page" => Len(r.seen) # 0 /\ r.cursor = r.seen[Len(r.seen)]
  /\ \A d \in r.began : InBand(r.band, d) =>
       \/ \E i \in 1 .. Len(r.seen) : r.seen[i] = d
       \/ r.at = "page" /\ Above(r.cursor, d)
       \/ r.at = "away"

ViewInv ==
  /\ shelf \subseteq Filed /\ IsFiniteSet(shelf) /\ ReaderOK(reader)
  /\ DOMAIN parentOf \subseteq Spans

LEMMA AboveOrders ==
  /\ \A d \in Filed : ~Above(d, d)
  /\ \A c, d, e \in Filed : Above(c, d) /\ Above(d, e) => Above(c, e)
  /\ \A d, e \in Filed : d # e => Above(d, e) \/ Above(e, d)
<1>1. \A d \in Filed : d \in Nat /\ TenthsOf[d] \in Nat
  BY FiledAreNumbers, ConfidencesAreTenths
<1> QED BY <1>1 DEF Above

\* The query's bounds are those of the band its rows show.
LEMMA WithinIsInBand ==
  ASSUME NEW band \in Filters, NEW d \in Filed
  PROVE  Within(band, TenthsOf[d]) <=> InBand(band, d)
<1>1. TenthsOf[d] \in 0 .. 10
  BY ConfidencesAreTenths
<1> QED BY <1>1 DEF Filters, Bands, Within, InBand, BandOf

LEMMA BeyondIsBelow ==
  ASSUME NEW c \in Filed, NEW d \in Filed
  PROVE  Beyond(c, d) <=> Above(c, d)
BY FiledAreNumbers, ConfidencesAreTenths DEF Beyond, Above

\* Rows of the store in the order of the queue.
LEMMA ListedAre ==
  ASSUME ViewInv, NEW S \in SUBSET shelf
  PROVE  /\ Ranked(QueueOrder, S) \in Seq(S)
         /\ \A i, k \in 1 .. Len(Ranked(QueueOrder, S)) :
              i < k => Above(Ranked(QueueOrder, S)[i], Ranked(QueueOrder, S)[k])
         /\ \A d \in S : \E i \in 1 .. Len(Ranked(QueueOrder, S)) : Ranked(QueueOrder, S)[i] = d
<1>1. IsFiniteSet(S) /\ S \subseteq Filed
  BY FS_Subset DEF ViewInv
<1>2. Orders(QueueOrder, S)
  <2>1. \A d, e \in S : <<d, e>> \in QueueOrder <=> Above(d, e)
    BY DEF QueueOrder
  <2> QED BY <1>1, <2>1, AboveOrders DEF Orders
<1>3. /\ Ranked(QueueOrder, S) \in Seq(S) /\ Len(Ranked(QueueOrder, S)) = Cardinality(S)
      /\ \A i, k \in 1 .. Cardinality(S) :
           i < k => <<Ranked(QueueOrder, S)[i], Ranked(QueueOrder, S)[k]>> \in QueueOrder
      /\ \A d \in S : \E i \in 1 .. Cardinality(S) : Ranked(QueueOrder, S)[i] = d
  BY <1>1, <1>2, RankedIs, Zenon
<1>4. \A p \in QueueOrder : Above(p[1], p[2])
  BY DEF QueueOrder
<1>5. \A d, e : <<d, e>> \in QueueOrder => Above(d, e)
  BY <1>4
<1> QED BY <1>3, <1>5

\* One page: rows of the band beyond the cursor, in order, and when there are
\* more of them, every other one is beyond the new cursor.
LEMMA PageIs ==
  ASSUME ViewInv, NEW band \in Filters, NEW cursor \in Filed \cup {NoCursor}
  PROVE  LET rows == QueueRows(band, cursor)
             visible == FirstOf(PageSize, rows)
             more == Len(rows) > Len(visible)
             S == {d \in shelf : InBand(band, d) /\ (cursor = NoCursor \/ Above(cursor, d))}
         IN  /\ visible \in Seq(S)
             /\ \A i, k \in 1 .. Len(visible) : i < k => Above(visible[i], visible[k])
             /\ \A d \in S : \/ \E i \in 1 .. Len(visible) : visible[i] = d
                             \/ more /\ Above(visible[Len(visible)], d)
             /\ more => Len(visible) # 0
<1> DEFINE S == {d \in shelf : InBand(band, d) /\ (cursor = NoCursor \/ Above(cursor, d))}
           visible == FirstOf(PageSize, QueueRows(band, cursor))
           more == Len(QueueRows(band, cursor)) > Len(visible)
<1> DEFINE all == Ranked(QueueOrder, S)
           rows == FirstOf(PageSize + 1, all)
<1>1. shelf \subseteq Filed /\ IsFiniteSet(S) /\ S \subseteq Filed
  BY FS_Subset DEF ViewInv
<1>2. S = {d \in shelf : Within(band, TenthsOf[d]) /\ Beyond(cursor, d)}
  <2>1. ASSUME NEW d \in shelf
        PROVE  (InBand(band, d) /\ (cursor = NoCursor \/ Above(cursor, d)))
                 <=> (Within(band, TenthsOf[d]) /\ Beyond(cursor, d))
    <3>1. d \in Filed
      BY <1>1
    <3>2. Within(band, TenthsOf[d]) <=> InBand(band, d)
      BY <3>1, WithinIsInBand
    <3>3. Beyond(cursor, d) <=> cursor = NoCursor \/ Above(cursor, d)
      <4>1. CASE cursor = NoCursor
        BY <4>1 DEF Beyond
      <4>2. CASE cursor # NoCursor
        BY <3>1, <4>2, BeyondIsBelow
      <4> QED BY <4>1, <4>2
    <3> QED BY <3>2, <3>3
  <2> QED BY <2>1
<1>3. S \in SUBSET shelf
  BY <1>1
<1>4. /\ all \in Seq(S) /\ \A d \in S : \E i \in 1 .. Len(all) : all[i] = d
      /\ \A i, k \in 1 .. Len(all) : i < k => Above(all[i], all[k])
  BY <1>3, ListedAre
<1> HIDE DEF all
<1>6. PageSize \in Nat /\ PageSize # 0 /\ PageSize + 1 \in Nat
  BY PagesHaveRows
<1>7. QueueRows(band, cursor) = rows
  BY <1>2 DEF QueueRows, all
<1> HIDE DEF rows, S
<1>8. /\ rows \in Seq(S) /\ Len(rows) = IF Len(all) > PageSize + 1 THEN PageSize + 1 ELSE Len(all)
      /\ \A i \in 1 .. Len(rows) : rows[i] = all[i]
  BY <1>4, <1>6, FirstOfIs DEF rows
<1>9. /\ visible \in Seq(S) /\ Len(visible) = IF Len(rows) > PageSize THEN PageSize ELSE Len(rows)
      /\ \A i \in 1 .. Len(visible) : visible[i] = rows[i]
  <2>1. visible = FirstOf(PageSize, rows)
    BY <1>7
  <2> HIDE DEF visible
  <2> QED BY <1>6, <1>8, <2>1, FirstOfIs, Zenon
<1>0. more <=> Len(rows) > Len(visible)
  BY <1>7
<1> HIDE DEF visible, more
<1>10. /\ Len(all) \in Nat /\ Len(visible) = IF Len(all) > PageSize THEN PageSize ELSE Len(all)
       /\ more <=> Len(all) > PageSize
  <2>1. Len(all) \in Nat /\ Len(rows) \in Nat
    BY <1>4, <1>8
  <2>2. Len(rows) = IF Len(all) > PageSize + 1 THEN PageSize + 1 ELSE Len(all)
    BY <1>8
  <2>3. Len(visible) = IF Len(rows) > PageSize THEN PageSize ELSE Len(rows)
    BY <1>9
  <2>4. Len(visible) = IF Len(all) > PageSize THEN PageSize ELSE Len(all)
    BY <1>6, <2>1, <2>2, <2>3
  <2>5. Len(rows) > Len(visible) <=> Len(all) > PageSize
    BY <1>6, <2>1, <2>2, <2>4
  <2> QED BY <1>0, <2>1, <2>4, <2>5
<1>11. \A i \in 1 .. Len(visible) : visible[i] = all[i] /\ i \in 1 .. Len(all)
  BY <1>4, <1>6, <1>8, <1>9, <1>10
<1>12. \A i, k \in 1 .. Len(visible) : i < k => Above(visible[i], visible[k])
  BY <1>4, <1>11
<1>13. ASSUME NEW d \in S, \A i \in 1 .. Len(visible) : visible[i] # d
       PROVE  more /\ Above(visible[Len(visible)], d)
  <2>1. PICK i \in 1 .. Len(all) : all[i] = d
    BY <1>4
  <2>2. i > Len(visible)
    BY <1>10, <1>11, <1>13, <2>1
  <2>3. more /\ Len(visible) = PageSize /\ Len(visible) \in 1 .. Len(visible)
    BY <1>6, <1>10, <2>1, <2>2
  <2>4. Above(all[Len(visible)], all[i])
    BY <1>4, <1>10, <1>11, <2>2, <2>3
  <2> QED BY <1>11, <2>1, <2>3, <2>4
<1>14. more => Len(visible) # 0
  BY <1>6, <1>10
<1> QED BY <1>9, <1>12, <1>13, <1>14 DEF S, visible, more

\* A turned page keeps what the reader is promised.
LEMMA TurnedIs ==
  ASSUME ViewInv, NEW band \in Filters, NEW began \in SUBSET shelf, NEW seen \in Seq(Filed),
         NEW cursor \in Filed \cup {NoCursor},
         \A i, k \in 1 .. Len(seen) : i < k => Above(seen[i], seen[k]),
         \A i \in 1 .. Len(seen) : seen[i] \in shelf /\ InBand(band, seen[i]),
         IF Len(seen) = 0 THEN cursor = NoCursor ELSE cursor = seen[Len(seen)],
         \A d \in began : InBand(band, d) =>
           \/ \E i \in 1 .. Len(seen) : seen[i] = d
           \/ cursor = NoCursor \/ Above(cursor, d)
  PROVE  ReaderOK(Turned(band, began, seen, cursor))
<1> DEFINE rows == QueueRows(band, cursor)
           visible == FirstOf(PageSize, rows)
           more == Len(rows) > Len(visible)
           S == {d \in shelf : InBand(band, d) /\ (cursor = NoCursor \/ Above(cursor, d))}
           now == seen \o visible
           r == Turned(band, began, seen, cursor)
<1>1. /\ r.at = (IF more THEN "page" ELSE "end") /\ r.band = band /\ r.began = began
      /\ r.seen = now
      /\ r.cursor = (IF more THEN visible[Len(visible)] ELSE NoCursor)
  BY DEF Turned
<1>2. /\ visible \in Seq(S) /\ \A i, k \in 1 .. Len(visible) : i < k => Above(visible[i], visible[k])
      /\ \A d \in S : \/ \E i \in 1 .. Len(visible) : visible[i] = d
                      \/ more /\ Above(visible[Len(visible)], d)
      /\ more => Len(visible) # 0
  BY PageIs
<1>3. S \subseteq Filed /\ NoCursor \notin Filed /\ shelf \subseteq Filed
  BY FiledAreNumbers DEF ViewInv
<1>4. visible \in Seq(Filed) /\ Len(visible) \in Nat /\ Len(seen) \in Nat
      /\ \A i \in 1 .. Len(visible) : visible[i] \in S
  BY <1>2, <1>3
<1> HIDE DEF visible, more, rows, r
<1>5. /\ now \in Seq(Filed) /\ Len(now) = Len(seen) + Len(visible)
      /\ \A i \in 1 .. Len(seen) : now[i] = seen[i]
      /\ \A i \in 1 .. Len(visible) : now[Len(seen) + i] = visible[i]
      /\ \A i \in 1 .. Len(now) :
           i \in 1 .. Len(seen) \/ \E n \in 1 .. Len(visible) : i = Len(seen) + n
  <2>1. now \in Seq(Filed) /\ Len(now) = Len(seen) + Len(visible)
    BY <1>4
  <2>2. \A i \in 1 .. Len(seen) : now[i] = seen[i]
    BY <1>4
  <2>3. \A i \in 1 .. Len(visible) : now[Len(seen) + i] = visible[i]
    BY <1>4
  <2>4. ASSUME NEW i \in 1 .. Len(now), i \notin 1 .. Len(seen)
        PROVE  \E n \in 1 .. Len(visible) : i = Len(seen) + n
    <3>1. i - Len(seen) \in 1 .. Len(visible) /\ i = Len(seen) + (i - Len(seen))
      BY <1>4, <2>1, <2>4
    <3> QED BY <3>1
  <2> QED BY <2>1, <2>2, <2>3, <2>4
<1> HIDE DEF now
<1>6. ASSUME NEW i \in 1 .. Len(seen), NEW d \in S PROVE Above(seen[i], d)
  <2>1. cursor = seen[Len(seen)] /\ Above(cursor, d) /\ cursor \in Filed
    BY <1>3, <1>4, <1>6
  <2>2. CASE i = Len(seen)
    BY <2>1, <2>2
  <2>3. CASE i # Len(seen)
    <3>1. Above(seen[i], cursor)
      BY <1>4, <2>1, <2>3
    <3>2. seen[i] \in Filed /\ d \in Filed
      BY <1>3
    <3> QED BY <2>1, <3>1, <3>2, AboveOrders
  <2> QED BY <2>2, <2>3
<1>7. ASSUME NEW i \in 1 .. Len(now), NEW k \in 1 .. Len(now), i < k
      PROVE  Above(now[i], now[k])
  <2>1. CASE k \in 1 .. Len(seen)
    BY <1>4, <1>5, <1>7, <2>1
  <2>2. CASE k \notin 1 .. Len(seen)
    <3>1. PICK n \in 1 .. Len(visible) : k = Len(seen) + n
      BY <1>5, <2>2
    <3>2. now[k] = visible[n] /\ visible[n] \in S
      BY <1>4, <1>5, <3>1
    <3>3. CASE i \in 1 .. Len(seen)
      BY <1>5, <1>6, <3>2, <3>3
    <3>4. CASE i \notin 1 .. Len(seen)
      <4>1. PICK m \in 1 .. Len(visible) : i = Len(seen) + m
        BY <1>5, <3>4
      <4>2. m < n
        BY <1>4, <1>7, <3>1, <4>1
      <4>3. now[i] = visible[m]
        BY <1>5, <4>1
      <4> QED BY <1>2, <3>2, <4>2, <4>3
    <3> QED BY <3>3, <3>4
  <2> QED BY <2>1, <2>2
<1>8. ASSUME NEW i \in 1 .. Len(now) PROVE now[i] \in shelf /\ InBand(band, now[i])
  <2>1. CASE i \in 1 .. Len(seen)
    BY <1>5, <2>1
  <2>2. CASE i \notin 1 .. Len(seen)
    <3>1. PICK n \in 1 .. Len(visible) : i = Len(seen) + n
      BY <1>5, <2>2
    <3>2. now[i] \in S
      BY <1>4, <1>5, <3>1
    <3> QED BY <3>2
  <2> QED BY <2>1, <2>2
<1>9. more => Len(now) # 0 /\ visible[Len(visible)] = now[Len(now)] /\ visible[Len(visible)] \in Filed
  <2> SUFFICES ASSUME more
               PROVE  Len(now) # 0 /\ visible[Len(visible)] = now[Len(now)]
                      /\ visible[Len(visible)] \in Filed
    OBVIOUS
  <2>1. Len(visible) \in 1 .. Len(visible)
    BY <1>2, <1>4
  <2>2. now[Len(seen) + Len(visible)] = visible[Len(visible)]
    BY <1>5, <2>1
  <2>3. visible[Len(visible)] \in Filed
    BY <1>3, <1>4, <2>1
  <2>4. Len(now) # 0
    BY <1>4, <1>5, <2>1
  <2> QED BY <1>5, <2>2, <2>3, <2>4
<1>10. ASSUME NEW d \in began, InBand(band, d)
       PROVE  \/ \E i \in 1 .. Len(now) : now[i] = d
              \/ more /\ Above(visible[Len(visible)], d)
  <2>1. CASE \E i \in 1 .. Len(seen) : seen[i] = d
    <3>1. PICK i \in 1 .. Len(seen) : seen[i] = d
      BY <2>1
    <3>2. i \in 1 .. Len(now) /\ now[i] = d
      BY <1>4, <1>5, <3>1
    <3> QED BY <3>2
  <2>2. CASE d \in S
    <3>1. CASE \E i \in 1 .. Len(visible) : visible[i] = d
      <4>1. PICK i \in 1 .. Len(visible) : visible[i] = d
        BY <3>1
      <4>2. Len(seen) + i \in 1 .. Len(now) /\ now[Len(seen) + i] = d
        BY <1>4, <1>5, <4>1
      <4> QED BY <4>2
    <3> QED BY <1>2, <2>2, <3>1
  <2>3. d \in S \/ \E i \in 1 .. Len(seen) : seen[i] = d
    BY <1>10
  <2> QED BY <2>1, <2>2, <2>3
<1>11. r.at \in {"away", "page", "end"} /\ r.cursor \in Filed \cup {NoCursor}
  BY <1>1, <1>9
<1> HIDE DEF S
<1>12. ReaderOK(r)
  BY <1>1, <1>5, <1>7, <1>8, <1>9, <1>10, <1>11 DEF ReaderOK
<1> QED BY <1>12 DEF r

-----------------------------------------------------------------------------
(***************************************************************************)
(* The span tree: more steps from parent to parent than there are spans    *)
(* come back to one of them, so that a walk that meets no cycle and no     *)
(* missing parent ends at a root, and the tree below the roots reaches the *)
(* span it started from.                                                   *)
(***************************************************************************)
SpansInv ==
  /\ Arrived \subseteq Spans /\ IsFiniteSet(Arrived)
  /\ parentOf \in [Arrived -> Spans \cup {NoParent}]

Number == Cardinality(Arrived)
Valid == Arrived \ InvalidIds

\* The walk from parent to parent, and the levels of the tree.
IsWalk(up, s) ==
  up = [n \in 0 .. Number |->
          IF n = 0 THEN s ELSE IF up[n - 1] \in Arrived THEN parentOf[up[n - 1]] ELSE NoParent]
Up(s) == CHOOSE up : IsWalk(up, s)

AreLevels(below) ==
  below = [n \in 0 .. Number |->
             IF n = 0 THEN Roots ELSE UNION {Children(s) : s \in below[n - 1]}]
Levels == CHOOSE below : AreLevels(below)

LEMMA NumberIs ==
  ASSUME SpansInv
  PROVE  Number \in Nat /\ \A s \in Arrived : Number >= 1
<1>1. Number \in Nat /\ (Number = 0 <=> Arrived = {})
  BY FS_CardinalityType, FS_EmptySet DEF SpansInv, Number
<1> QED BY <1>1

LEMMA UpIs ==
  ASSUME SpansInv, NEW s \in Spans
  PROVE  /\ Up(s)[0] = s /\ Walk(s) = {Up(s)[n] : n \in 1 .. Number}
         /\ \A n \in 1 .. Number :
              Up(s)[n] = IF Up(s)[n - 1] \in Arrived THEN parentOf[Up(s)[n - 1]] ELSE NoParent
         /\ \A n \in 0 .. Number : Up(s)[n] \in Spans \cup {NoParent}
<1> DEFINE X == Spans \cup {NoParent}
           step == [q \in (1 .. Number) \X X |->
                      IF q[2] \in Arrived THEN parentOf[q[2]] ELSE NoParent]
<1>1. Number \in Nat
  BY NumberIs
<1>2. step \in [(1 .. Number) \X X -> X]
  BY DEF SpansInv
<1>3. \E f : IsWalk(f, s)
  <2>1. s \in X
    OBVIOUS
  <2>2. PICK f \in [0 .. Number -> X] : IsPath(f, Number, s, step)
    <3> HIDE DEF X, step
    <3> QED BY <1>1, <1>2, <2>1, PathExists
  <2>3. ASSUME NEW n \in 0 .. Number, n # 0
        PROVE  step[<<n, f[n - 1]>>]
                 = IF f[n - 1] \in Arrived THEN parentOf[f[n - 1]] ELSE NoParent
    <3>1. n \in 1 .. Number /\ n - 1 \in 0 .. Number
      BY <1>1, <2>3
    <3>2. <<n, f[n - 1]>> \in (1 .. Number) \X X
      BY <3>1
    <3> QED BY <3>2
  <2>4. IsWalk(f, s)
    <3> HIDE DEF step
    <3> QED BY <2>2, <2>3 DEF IsPath, IsWalk
  <2> QED BY <2>4
<1>4. IsWalk(Up(s), s)
  BY <1>3 DEF Up
<1> HIDE DEF step
<1>5. Up(s)[0] = s
  BY <1>1, <1>4 DEF IsWalk
<1>6. ASSUME NEW n \in 1 .. Number
      PROVE  Up(s)[n] = IF Up(s)[n - 1] \in Arrived THEN parentOf[Up(s)[n - 1]] ELSE NoParent
  <2>1. n \in 0 .. Number /\ n # 0
    BY <1>1
  <2> QED BY <1>4, <2>1 DEF IsWalk
<1>7. Walk(s) = {Up(s)[n] : n \in 1 .. Number}
  BY DEF Walk, Up, IsWalk, Number
<1>8. 0 .. Number \subseteq {n \in 0 .. Number : Up(s)[n] \in X}
  <2> DEFINE good == {n \in 0 .. Number : Up(s)[n] \in X}
  <2>1. 0 \in good
    BY <1>1, <1>5
  <2>2. ASSUME NEW n \in 1 .. Number, n - 1 \in good PROVE n \in good
    BY <1>1, <1>6, <2>2 DEF SpansInv
  <2> HIDE DEF good
  <2> QED BY <1>1, <2>1, <2>2, IntervalInducts DEF good
<1> QED BY <1>5, <1>6, <1>7, <1>8

\* A walk goes on from each place as it would begin there.
LEMMA UpGoesOn ==
  ASSUME SpansInv, NEW s \in Spans, NEW i \in 0 .. Number, Up(s)[i] \in Spans,
         NEW m \in 0 .. Number - i
  PROVE  Up(Up(s)[i])[m] = Up(s)[i + m]
<1> DEFINE t == Up(s)[i]
           good == {k \in 0 .. Number - i : Up(t)[k] = Up(s)[i + k]}
<1>1. Number \in Nat /\ i \in Nat /\ Number - i \in Nat
  BY NumberIs
<1>2. 0 \in good
  BY <1>1, UpIs
<1>3. ASSUME NEW k \in 1 .. Number - i, k - 1 \in good PROVE k \in good
  <2>1. k \in 1 .. Number /\ i + k \in 1 .. Number /\ (i + k) - 1 = i + (k - 1) /\ k \in 0 .. Number - i
    BY <1>1
  <2>2. Up(t)[k] = IF Up(t)[k - 1] \in Arrived THEN parentOf[Up(t)[k - 1]] ELSE NoParent
    BY <2>1, UpIs
  <2>3. Up(s)[i + k]
          = IF Up(s)[i + (k - 1)] \in Arrived THEN parentOf[Up(s)[i + (k - 1)]] ELSE NoParent
    BY <2>1, UpIs
  <2>4. Up(t)[k - 1] = Up(s)[i + (k - 1)]
    BY <1>3
  <2> HIDE DEF t
  <2> QED BY <2>1, <2>2, <2>3, <2>4
<1> HIDE DEF good
<1>4. 0 .. Number - i \subseteq good
  BY <1>1, <1>2, <1>3, IntervalInducts
<1> QED BY <1>4 DEF good

\* A walk that is among the spans at some step has been there all along.
LEMMA UpStaysOut ==
  ASSUME SpansInv, NEW s \in Spans, Up(s)[Number] \in Arrived
  PROVE  \A n \in 0 .. Number : Up(s)[n] \in Arrived
<1> DEFINE good == {k \in 0 .. Number : Up(s)[Number - k] \in Arrived}
<1>1. Number \in Nat
  BY NumberIs
<1>2. 0 \in good
  BY <1>1
<1>3. ASSUME NEW k \in 1 .. Number, k - 1 \in good PROVE k \in good
  <2>1. Number - (k - 1) \in 1 .. Number /\ (Number - (k - 1)) - 1 = Number - k
        /\ k \in 0 .. Number
    BY <1>1
  <2>2. Up(s)[Number - (k - 1)] \in Arrived /\ NoParent \notin Arrived
    BY <1>3, NoParentIsNoSpan DEF SpansInv
  <2>3. Up(s)[Number - (k - 1)]
          = IF Up(s)[Number - k] \in Arrived THEN parentOf[Up(s)[Number - k]] ELSE NoParent
    BY <2>1, UpIs
  <2> QED BY <2>1, <2>2, <2>3
<1> HIDE DEF good
<1>4. 0 .. Number \subseteq good
  BY <1>1, <1>2, <1>3, IntervalInducts
<1>5. ASSUME NEW n \in 0 .. Number PROVE Up(s)[n] \in Arrived
  <2>1. Number - n \in good /\ Number - (Number - n) = n
    BY <1>1, <1>4
  <2> QED BY <2>1 DEF good
<1> QED BY <1>5

\* The walk of a valid span ends.
LEMMA WalkEnds ==
  ASSUME SpansInv, NEW s \in Valid
  PROVE  Up(s)[Number] \notin Arrived
<1> SUFFICES ASSUME Up(s)[Number] \in Arrived PROVE FALSE
  OBVIOUS
<1> DEFINE f == [n \in 0 .. Number |-> Up(s)[n]]
<1>1. Number \in Nat /\ s \in Arrived /\ s \in Spans
  BY NumberIs DEF Valid, SpansInv
<1>2. f \in [0 .. Number -> Arrived]
  BY <1>1, UpStaysOut
<1>3. PICK x, y \in 0 .. Number : x < y /\ f[x] = f[y]
  <2>1. IsFiniteSet(0 .. Number) /\ Cardinality(0 .. Number) = Number + 1
    BY <1>1, FS_Interval
  <2>2. IsFiniteSet(Arrived) /\ Cardinality(Arrived) < Cardinality(0 .. Number)
    BY <1>1, <2>1 DEF SpansInv, Number
  <2> HIDE DEF f
  <2>3. \E x, y \in 0 .. Number : x # y /\ f[x] = f[y]
    BY <1>2, <2>1, <2>2, FS_PigeonHole
  <2> QED BY <1>1, <2>3
<1> DEFINE t == Up(s)[x]
<1>4. t \in Arrived /\ t \in Spans /\ Up(s)[y] = t
  BY <1>2, <1>3 DEF SpansInv
<1>5. t \in Walk(t)
  <2>1. y - x \in 1 .. Number /\ y - x \in 0 .. Number - x /\ x + (y - x) = y
    BY <1>1, <1>3
  <2>2. Up(t)[y - x] = t
    BY <1>1, <1>4, <2>1, UpGoesOn
  <2> QED BY <1>4, <2>1, <2>2, UpIs
<1>6. t \in CycleIds
  BY <1>4, <1>5 DEF CycleIds
<1>7. CASE x = 0
  BY <1>1, <1>6, <1>7, UpIs DEF Valid, InvalidIds
<1>8. CASE x # 0
  <2>1. x \in 1 .. Number
    BY <1>1, <1>8
  <2>2. t \in Walk(s)
    BY <1>1, <2>1, UpIs
  <2> QED BY <1>1, <1>6, <2>2 DEF Valid, InvalidIds
<1> QED BY <1>7, <1>8

\* The parent of a valid span is one.
LEMMA ParentsAreValid ==
  ASSUME SpansInv, NEW s \in Valid, parentOf[s] # NoParent
  PROVE  parentOf[s] \in Valid /\ \A k \in 1 .. Number : Up(parentOf[s])[k - 1] = Up(s)[k]
<1> DEFINE p == parentOf[s]
           bad == CycleIds \cup Missing
<1>1. /\ Number \in Nat /\ Number >= 1 /\ s \in Arrived /\ s \in Spans
      /\ Walk(s) \cap bad = {} /\ s \notin bad /\ bad \subseteq Arrived
  BY NumberIs DEF Valid, InvalidIds, SpansInv, CycleIds, Missing
<1>2. p \in Arrived /\ p \in Spans
  BY <1>1 DEF Missing, SpansInv
<1>3. Up(s)[1] = p
  <2>1. 1 \in 1 .. Number /\ 1 - 1 = 0
    BY <1>1
  <2> QED BY <1>1, <2>1, UpIs
<1>4. p \in Walk(s)
  <2>1. 1 \in 1 .. Number
    BY <1>1
  <2> QED BY <1>1, <1>3, <2>1, UpIs
<1>5. ASSUME NEW k \in 1 .. Number PROVE Up(p)[k - 1] = Up(s)[k]
  <2>1. k - 1 \in 0 .. Number - 1 /\ 1 + (k - 1) = k /\ 1 \in 0 .. Number
    BY <1>1
  <2> QED BY <1>1, <1>2, <1>3, <2>1, UpGoesOn
<1>6. ASSUME NEW n \in 1 .. Number PROVE Up(p)[n] \notin bad
  <2>1. CASE n = Number
    <3>1. Up(p)[n - 1] \notin Arrived
      BY <1>5, <2>1, WalkEnds
    <3>2. Up(p)[n] = NoParent
      BY <1>2, <3>1, UpIs
    <3> QED BY <1>1, <3>2, NoParentIsNoSpan DEF SpansInv
  <2>2. CASE n # Number
    <3>1. n + 1 \in 1 .. Number /\ (n + 1) - 1 = n
      BY <1>1, <2>2
    <3>2. Up(p)[n] = Up(s)[n + 1]
      BY <1>5, <3>1
    <3>3. Up(s)[n + 1] \in Walk(s)
      BY <1>1, <3>1, UpIs
    <3> QED BY <1>1, <3>2, <3>3
  <2> QED BY <2>1, <2>2
<1>7. Walk(p) \cap bad = {}
  BY <1>2, <1>6, UpIs
<1>8. p \in Valid
  BY <1>1, <1>2, <1>4, <1>7 DEF Valid, InvalidIds
<1> QED BY <1>5, <1>8

LEMMA LevelsAre ==
  ASSUME SpansInv
  PROVE  /\ Levels[0] = Roots /\ Rendered = UNION {Levels[n] : n \in 0 .. Number}
         /\ \A n \in 1 .. Number : Levels[n] = UNION {Children(s) : s \in Levels[n - 1]}
<1> DEFINE X == SUBSET Arrived
           step == [q \in (1 .. Number) \X X |-> UNION {Children(s) : s \in q[2]}]
<1>1. Number \in Nat
  BY NumberIs
<1>2. step \in [(1 .. Number) \X X -> X]
  BY DEF Children
<1>3. \E f : AreLevels(f)
  <2>1. Roots \in X
    BY DEF Roots
  <2>2. PICK f \in [0 .. Number -> X] : IsPath(f, Number, Roots, step)
    <3> HIDE DEF X, step
    <3> QED BY <1>1, <1>2, <2>1, PathExists
  <2>3. ASSUME NEW n \in 0 .. Number, n # 0
        PROVE  step[<<n, f[n - 1]>>] = UNION {Children(s) : s \in f[n - 1]}
    <3>1. n \in 1 .. Number /\ n - 1 \in 0 .. Number
      BY <1>1, <2>3
    <3>2. <<n, f[n - 1]>> \in (1 .. Number) \X X
      BY <3>1
    <3> QED BY <3>2
  <2>4. AreLevels(f)
    <3> HIDE DEF step
    <3> QED BY <2>2, <2>3 DEF IsPath, AreLevels
  <2> QED BY <2>4
<1>4. AreLevels(Levels)
  BY <1>3 DEF Levels
<1>5. Levels[0] = Roots
  BY <1>1, <1>4 DEF AreLevels
<1>6. ASSUME NEW n \in 1 .. Number
      PROVE  Levels[n] = UNION {Children(s) : s \in Levels[n - 1]}
  <2>1. n \in 0 .. Number /\ n # 0
    BY <1>1
  <2> QED BY <1>4, <2>1 DEF AreLevels
<1>7. Rendered = UNION {Levels[n] : n \in 0 .. Number}
  BY DEF Rendered, Levels, AreLevels, Number
<1> QED BY <1>5, <1>6, <1>7

\* A walk that has ended after k steps started less than k levels below a root.
LEMMA ValidAreReached ==
  ASSUME SpansInv, NEW s \in Valid
  PROVE  \E i \in 0 .. Number : s \in Levels[i]
<1> DEFINE Reached(t, k) == \E i \in 0 .. Number : i < k /\ t \in Levels[i]
           good == {k \in 0 .. Number : \A t \in Valid : Up(t)[k] \notin Arrived => Reached(t, k)}
<1>1. Number \in Nat /\ \A t \in Valid : t \in Spans /\ t \in Arrived
  BY NumberIs DEF Valid, SpansInv
<1>2. 0 \in good
  BY <1>1, UpIs
<1>3. ASSUME NEW k \in 1 .. Number, k - 1 \in good PROVE k \in good
  <2> SUFFICES ASSUME NEW t \in Valid, Up(t)[k] \notin Arrived PROVE Reached(t, k)
    BY <1>1
  <2>1. CASE parentOf[t] = NoParent
    <3>1. t \in Levels[0]
      BY <1>1, <2>1, LevelsAre DEF Roots, Valid
    <3>2. 0 \in 0 .. Number /\ 0 < k
      BY <1>1
    <3> QED BY <3>1, <3>2
  <2>2. CASE parentOf[t] # NoParent
    <3>1. parentOf[t] \in Valid /\ Up(parentOf[t])[k - 1] = Up(t)[k]
      BY <2>2, ParentsAreValid
    <3>2. PICK i \in 0 .. Number : i < k - 1 /\ parentOf[t] \in Levels[i]
      BY <1>3, <3>1
    <3>3. i + 1 \in 1 .. Number /\ i + 1 \in 0 .. Number /\ i + 1 < k /\ (i + 1) - 1 = i
      BY <1>1, <3>2
    <3>4. t \in Children(parentOf[t])
      BY DEF Children, Valid
    <3>5. t \in Levels[i + 1]
      BY <3>2, <3>3, <3>4, LevelsAre
    <3> QED BY <3>3, <3>5
  <2> QED BY <2>1, <2>2
<1> HIDE DEF good
<1>4. 0 .. Number \subseteq good
  BY <1>1, <1>2, <1>3, IntervalInducts
<1>5. Number \in good
  BY <1>1, <1>4
<1> QED BY <1>5, WalkEnds DEF good

LEMMA EverySpanIsShownHere ==
  ASSUME SpansInv
  PROVE  EverySpanIsShown
<1>1. ASSUME NEW s \in Rendered PROVE s \in Valid
  <2>1. PICK n \in 0 .. Number : s \in Levels[n]
    BY LevelsAre
  <2>2. CASE n = 0
    BY <2>1, <2>2, LevelsAre DEF Roots, Valid
  <2>3. CASE n # 0
    <3>1. n \in 1 .. Number
      BY <2>3, NumberIs
    <3> QED BY <2>1, <3>1, LevelsAre DEF Children, Valid
  <2> QED BY <2>2, <2>3
<1>2. ASSUME NEW s \in Valid PROVE s \in Rendered
  BY <1>2, ValidAreReached, LevelsAre
<1>3. ASSUME NEW s \in Rendered PROVE parentOf[s] \in Rendered \cup {NoParent}
  BY <1>1, <1>2, <1>3, ParentsAreValid
<1> QED BY <1>1, <1>2, <1>3 DEF EverySpanIsShown, Valid

-----------------------------------------------------------------------------
(* The views' steps and theorems.                                          *)

ReadViewsInv == ViewInv /\ SpansInv

LEMMA ViewInitInv == ViewInit => ReadViewsInv
<1> SUFFICES ASSUME ViewInit PROVE ReadViewsInv
  OBVIOUS
<1>1. reader.at = "away" /\ reader.seen = <<>> /\ reader.began = {} /\ reader.band = "all"
      /\ reader.cursor = NoCursor
  BY DEF ViewInit, NotReading
<1>2. ReaderOK(reader)
  BY <1>1 DEF ReaderOK, Filters
<1>3. Arrived = {} /\ parentOf \in [Arrived -> Spans \cup {NoParent}]
  BY DEF ViewInit, Arrived
<1> QED BY <1>2, <1>3, FS_EmptySet DEF ViewInit, ReadViewsInv, ViewInv, SpansInv, Arrived

LEMMA ViewStep == ReadViewsInv /\ [ViewNext]_viewVars => ReadViewsInv'
<1> SUFFICES ASSUME ReadViewsInv, [ViewNext]_viewVars PROVE ReadViewsInv'
  OBVIOUS
<1>1. /\ shelf \subseteq Filed /\ IsFiniteSet(shelf) /\ ReaderOK(reader) /\ ViewInv
      /\ DOMAIN parentOf \subseteq Spans /\ SpansInv
  BY DEF ReadViewsInv, ViewInv
<1>2. CASE UNCHANGED viewVars
  <2>1. ReaderOK(reader)' /\ SpansInv'
    BY <1>1, <1>2 DEF viewVars, ReaderOK, SpansInv, Arrived
  <2> QED BY <1>1, <1>2, <2>1 DEF viewVars, ReadViewsInv, ViewInv
<1>3. ASSUME NEW d \in Filed, FileDecision(d) PROVE ReadViewsInv'
  <2>1. shelf' = shelf \cup {d} /\ reader' = reader /\ parentOf' = parentOf
    BY <1>3 DEF FileDecision
  <2>2. ReaderOK(reader)'
    BY <1>1, <2>1 DEF ReaderOK
  <2>3. IsFiniteSet(shelf')
    BY <1>1, <2>1, FS_AddElement
  <2>4. SpansInv'
    BY <1>1, <2>1 DEF SpansInv, Arrived
  <2> QED BY <1>1, <2>1, <2>2, <2>3, <2>4 DEF ReadViewsInv, ViewInv
<1>4. ASSUME UNCHANGED <<shelf, parentOf>>, ReaderOK(reader') PROVE ReadViewsInv'
  <2>1. ReaderOK(reader)'
    BY <1>4 DEF ReaderOK
  <2>2. SpansInv'
    BY <1>1, <1>4 DEF SpansInv, Arrived
  <2> QED BY <1>1, <1>4, <2>1, <2>2 DEF ReadViewsInv, ViewInv
<1>5. ASSUME NEW band \in Filters, OpenQueue(band) PROVE ReadViewsInv'
  <2>1. reader' = Turned(band, shelf, <<>>, NoCursor) /\ UNCHANGED <<shelf, parentOf>>
    BY <1>5 DEF OpenQueue
  <2>2. <<>> \in Seq(Filed) /\ Len(<<>>) = 0
    OBVIOUS
  <2>3. PICK none \in Seq(Filed) : none = <<>> /\ Len(none) = 0
    BY <2>2, Zenon
  <2>4. /\ \A i, k \in 1 .. Len(none) : i < k => Above(none[i], none[k])
        /\ \A i \in 1 .. Len(none) : none[i] \in shelf /\ InBand(band, none[i])
        /\ shelf \in SUBSET shelf /\ NoCursor \in Filed \cup {NoCursor}
    BY <2>3
  <2>5. ReaderOK(Turned(band, shelf, none, NoCursor))
    BY <1>1, <2>3, <2>4, TurnedIs
  <2> QED BY <1>4, <2>1, <2>3, <2>5
<1>6. ASSUME TurnPage PROVE ReadViewsInv'
  <2>1. /\ reader.at = "page" /\ UNCHANGED <<shelf, parentOf>>
        /\ reader' = Turned(reader.band, reader.began, reader.seen, reader.cursor)
    BY <1>6 DEF TurnPage
  <2>2. /\ reader.band \in Filters /\ reader.began \in SUBSET shelf /\ reader.seen \in Seq(Filed)
        /\ reader.cursor \in Filed \cup {NoCursor}
        /\ \A i, k \in 1 .. Len(reader.seen) : i < k => Above(reader.seen[i], reader.seen[k])
        /\ \A i \in 1 .. Len(reader.seen) :
             reader.seen[i] \in shelf /\ InBand(reader.band, reader.seen[i])
    BY <1>1 DEF ReaderOK
  <2>3. Len(reader.seen) # 0 /\ reader.cursor = reader.seen[Len(reader.seen)]
    BY <1>1, <2>1 DEF ReaderOK
  <2>4. \A d \in reader.began : InBand(reader.band, d) =>
          \/ \E i \in 1 .. Len(reader.seen) : reader.seen[i] = d
          \/ reader.cursor = NoCursor \/ Above(reader.cursor, d)
    BY <1>1, <2>1 DEF ReaderOK
  <2>5. ReaderOK(Turned(reader.band, reader.began, reader.seen, reader.cursor))
    BY <1>1, <2>2, <2>3, <2>4, TurnedIs
  <2> QED BY <1>4, <2>1, <2>5
<1>7. ASSUME NEW s \in Spans, NEW parent \in Spans \cup {NoParent}, SpanArrives(s, parent)
      PROVE  ReadViewsInv'
  <2>1. /\ Arrived' = Arrived \cup {s} /\ UNCHANGED <<shelf, reader>>
        /\ parentOf' = [t \in Arrived \cup {s} |-> IF t = s THEN parent ELSE parentOf[t]]
    BY <1>7 DEF SpanArrives, Arrived
  <2>2. IsFiniteSet(Arrived')
    BY <1>1, <2>1, FS_AddElement DEF SpansInv
  <2>3. parentOf' \in [Arrived' -> Spans \cup {NoParent}]
    BY <1>1, <2>1 DEF SpansInv
  <2>4. SpansInv'
    BY <1>1, <2>1, <2>2, <2>3 DEF SpansInv
  <2>5. ReaderOK(reader)' /\ Arrived' = DOMAIN parentOf'
    BY <1>1, <2>1 DEF ReaderOK, Arrived
  <2> QED BY <1>1, <2>1, <2>4, <2>5 DEF ReadViewsInv, ViewInv, SpansInv
<1> QED BY <1>2, <1>3, <1>5, <1>6, <1>7 DEF ViewNext

LEMMA ViewInvariant == ViewSpec => []ReadViewsInv
BY ViewInitInv, ViewStep, PTL DEF ViewSpec

\* The queue's reader and the spans are well typed (web/read_models.py).
THEOREM ViewTypeCorrect == ViewSpec => []ViewTypeOK
<1>1. ReadViewsInv => ViewTypeOK
  BY DEF ReadViewsInv, ViewInv, ReaderOK, ViewTypeOK
<1> QED BY <1>1, ViewInvariant, PTL

\* A planner who turns the pages to the end has seen, once and in order, every
\* decision of her band that was stored when she began, and every stored span is
\* shown once, whatever arrives between the requests (queue, _cycle_ids,
\* make_view).
THEOREM ViewsShowEverythingHolds == ViewSpec => []ViewsShowEverything
<1>1. ReadViewsInv => ViewsShowEverything
  <2> SUFFICES ASSUME ReadViewsInv PROVE ViewsShowEverything
    OBVIOUS
  <2>1. ReaderOK(reader) /\ DOMAIN reader.seen = 1 .. Len(reader.seen)
    BY DEF ReadViewsInv, ViewInv, ReaderOK
  <2>2. \A d : d \in Range(reader.seen) <=> \E i \in 1 .. Len(reader.seen) : reader.seen[i] = d
    BY <2>1 DEF Range
  <2>3. \A i, k \in DOMAIN reader.seen : i < k => Above(reader.seen[i], reader.seen[k])
    BY <2>1 DEF ReaderOK
  <2>4. reader.band # "all" => \A d \in Range(reader.seen) : BandOf(TenthsOf[d]) = reader.band
    BY <2>1, <2>2 DEF ReaderOK, InBand
  <2>5. reader.at = "end" =>
          {d \in reader.began : reader.band \in {"all", BandOf(TenthsOf[d])}} \subseteq Range(reader.seen)
    BY <2>1, <2>2 DEF ReaderOK, InBand
  <2>6. EverySpanIsShown
    BY EverySpanIsShownHere DEF ReadViewsInv
  <2> QED BY <2>3, <2>4, <2>5, <2>6 DEF ViewsShowEverything, PagingIsComplete
<1> QED BY <1>1, ViewInvariant, PTL

-----------------------------------------------------------------------------
(***************************************************************************)
(* Drift: what a window of samples makes of itself, for any samples.       *)
(***************************************************************************)
LEMMA WindowIs ==
  ASSUME NEW seq \in Seq(Samples)
  PROVE  /\ DOMAIN seq = 1 .. Len(seq) /\ Len(seq) \in Nat
         /\ IsFiniteSet(DOMAIN seq) /\ Cardinality(DOMAIN seq) = Len(seq)
         /\ \A i \in DOMAIN seq : /\ seq[i].kind \in Kinds /\ seq[i].tenths \in Tenths
                                  /\ seq[i].value \in TraceValues \cup {NoValue}
<1>1. DOMAIN seq = 1 .. Len(seq) /\ Len(seq) \in Nat
  OBVIOUS
<1>2. \A i \in DOMAIN seq : seq[i] \in Samples
  OBVIOUS
<1>3. \A s \in Samples : s.kind \in Kinds /\ s.tenths \in Tenths /\ s.value \in TraceValues \cup {NoValue}
  BY DEF Samples
<1>4. IsFiniteSet(1 .. Len(seq)) /\ Cardinality(1 .. Len(seq)) = Len(seq)
  BY <1>1, FS_Interval
<1> QED BY <1>1, <1>2, <1>3, <1>4

LEMMA SampleAtIs ==
  ASSUME NEW seq \in Seq(Samples), NEW s \in Samples, NEW i \in 1 .. Len(seq) + 1
  PROVE  SampleAt(seq, i, s) \in Seq(Samples)
<1>1. SubSeq(seq, 1, i - 1) \in Seq(Samples)
  OBVIOUS
<1>2. SubSeq(seq, i, Len(seq)) \in Seq(Samples)
  OBVIOUS
<1>3. <<s>> \in Seq(Samples)
  OBVIOUS
<1> QED BY <1>1, <1>2, <1>3 DEF SampleAt

\* How many samples of a window are of a kind.
OfKind(seq, k) == Cardinality({i \in DOMAIN seq : seq[i].kind = k})

LEMMA OfKindIs ==
  ASSUME NEW seq \in Seq(Samples), NEW k
  PROVE  OfKind(seq, k) \in Nat
<1>1. IsFiniteSet({i \in DOMAIN seq : seq[i].kind = k})
  BY WindowIs, FS_Subset
<1> QED BY <1>1, FS_CardinalityType DEF OfKind

LEMMA KindOrderIs ==
  ASSUME NEW seq \in Seq(Samples)
  PROVE  /\ \A k, l \in Kinds : <<k, l>> \in KindOrder(seq) <=>
              \/ OfKind(seq, k) > OfKind(seq, l)
              \/ OfKind(seq, k) = OfKind(seq, l) /\ k < l
         /\ Orders(KindOrder(seq), Kinds)
<1>1. KindOrder(seq) = {p \in Kinds \X Kinds :
         \/ OfKind(seq, p[1]) > OfKind(seq, p[2])
         \/ OfKind(seq, p[1]) = OfKind(seq, p[2]) /\ p[1] < p[2]}
  BY DEF KindOrder, OfKind, CountOf
<1>2. \A k, l \in Kinds : <<k, l>> \in KindOrder(seq) <=>
        \/ OfKind(seq, k) > OfKind(seq, l)
        \/ OfKind(seq, k) = OfKind(seq, l) /\ k < l
  BY <1>1
<1>3. \A k \in Kinds : k \in Nat /\ OfKind(seq, k) \in Nat
  BY OfKindIs, KindsAreNumbers
<1>4. \A k \in Kinds : <<k, k>> \notin KindOrder(seq)
  BY <1>2, <1>3
<1>5. \A k, l, m \in Kinds :
        <<k, l>> \in KindOrder(seq) /\ <<l, m>> \in KindOrder(seq) => <<k, m>> \in KindOrder(seq)
  BY <1>2, <1>3
<1>6. \A k, l \in Kinds : k # l => <<k, l>> \in KindOrder(seq) \/ <<l, k>> \in KindOrder(seq)
  BY <1>2, <1>3
<1> QED BY <1>2, <1>4, <1>5, <1>6 DEF Orders

\* The labels: kinds in their order, none of them "other", and then "other".
LabelsOK(seq, labels) ==
  /\ labels \in Seq(Kinds) /\ Len(labels) \in 1 .. MaxLabels + 1
  /\ labels[Len(labels)] = 0
  /\ \A i \in 1 .. Len(labels) - 1 : labels[i] # 0
  /\ \A i, j \in 1 .. Len(labels) - 1 : i < j => <<labels[i], labels[j]>> \in KindOrder(seq)

LEMMA KindLabelsAre ==
  ASSUME NEW seq \in Seq(Samples)
  PROVE  LabelsOK(seq, KindLabels(seq))
<1> DEFINE S == {seq[i].kind : i \in DOMAIN seq} \ {0}
           ranked == Ranked(KindOrder(seq), S)
           first == FirstOf(MaxLabels, ranked)
<1>1. S \subseteq Kinds /\ 0 \notin S /\ 0 \in Kinds /\ MaxLabels \in Nat
  BY WindowIs, KindsAreNumbers, SettingsAreNatural
<1>2. IsFiniteSet(S)
  <2> DEFINE kind == [i \in DOMAIN seq |-> seq[i].kind]
             A == {seq[i].kind : i \in DOMAIN seq}
  <2>1. kind \in Surjection(DOMAIN seq, A)
    BY DEF Surjection
  <2>2. IsFiniteSet(DOMAIN seq)
    BY WindowIs
  <2> HIDE DEF A, kind
  <2>3. IsFiniteSet(A)
    BY <2>1, <2>2, FS_Surjection
  <2>4. S \subseteq A
    BY DEF A
  <2> QED BY <2>3, <2>4, FS_Subset
<1>3. Orders(KindOrder(seq), S)
  BY <1>1, KindOrderIs DEF Orders
<1> HIDE DEF S
<1>4. /\ ranked \in Seq(S)
      /\ \A i, k \in 1 .. Len(ranked) : i < k => <<ranked[i], ranked[k]>> \in KindOrder(seq)
  BY <1>2, <1>3, RankedIs
<1> HIDE DEF ranked
<1>5. /\ first \in Seq(S) /\ Len(first) <= MaxLabels /\ Len(first) <= Len(ranked)
      /\ \A i \in 1 .. Len(first) : first[i] = ranked[i]
  <2>1. /\ first \in Seq(S)
        /\ Len(first) = IF Len(ranked) > MaxLabels THEN MaxLabels ELSE Len(ranked)
        /\ \A i \in 1 .. Len(first) : first[i] = ranked[i]
    BY <1>1, <1>4, FirstOfIs
  <2>2. Len(ranked) \in Nat /\ MaxLabels \in Nat
    BY <1>1, <1>4
  <2> HIDE DEF first
  <2> QED BY <2>1, <2>2
<1>6. KindLabels(seq) = first \o <<0>>
  BY DEF KindLabels, first, ranked, S
<1> HIDE DEF first
<1> DEFINE labels == first \o <<0>>
<1>7. /\ labels \in Seq(Kinds) /\ Len(labels) = Len(first) + 1 /\ labels[Len(labels)] = 0
      /\ \A i \in 1 .. Len(first) : labels[i] = first[i]
  BY <1>1, <1>5
<1> HIDE DEF labels
<1>8. Len(first) \in Nat /\ Len(ranked) \in Nat /\ \A i \in 1 .. Len(first) : first[i] \in S
  BY <1>4, <1>5
<1>9. \A i \in 1 .. Len(first) : labels[i] # 0
  BY <1>1, <1>7, <1>8
<1>10. ASSUME NEW i \in 1 .. Len(first), NEW j \in 1 .. Len(first), i < j
       PROVE  <<labels[i], labels[j]>> \in KindOrder(seq)
  <2>1. i \in 1 .. Len(ranked) /\ j \in 1 .. Len(ranked)
    BY <1>5, <1>8
  <2>2. <<ranked[i], ranked[j]>> \in KindOrder(seq)
    BY <1>4, <1>10, <2>1
  <2> QED BY <1>5, <1>7, <2>2
<1>11. Len(labels) - 1 = Len(first) /\ Len(labels) \in 1 .. MaxLabels + 1
  BY <1>1, <1>5, <1>7, <1>8
<1>12. LabelsOK(seq, labels)
  BY <1>7, <1>9, <1>10, <1>11 DEF LabelsOK
<1> QED BY <1>6, <1>12 DEF labels

\* No label is repeated, and what has no label of its own is under "other".
LabelOf(labels, k) == IF k \in Range(labels) THEN k ELSE 0

LEMMA LabelsDiffer ==
  ASSUME NEW seq \in Seq(Samples), NEW labels, LabelsOK(seq, labels)
  PROVE  /\ \A i, j \in 1 .. Len(labels) : labels[i] = labels[j] => i = j
         /\ Cardinality(Range(labels)) = Len(labels)
         /\ \A k \in Kinds : \E i \in 1 .. Len(labels) : labels[i] = LabelOf(labels, k)
<1> DEFINE n == Len(labels)
<1>1. /\ labels \in Seq(Kinds) /\ n \in Nat /\ n >= 1 /\ labels[n] = 0
      /\ DOMAIN labels = 1 .. n
  BY SettingsAreNatural DEF LabelsOK
<1> HIDE DEF n
<1>2. ASSUME NEW i \in 1 .. n, NEW j \in 1 .. n, i < j PROVE labels[i] # labels[j]
  <2>1. i \in 1 .. n - 1
    BY <1>1, <1>2
  <2>2. labels[i] # 0
    BY <2>1 DEF LabelsOK, n
  <2>3. CASE j = n
    BY <1>1, <2>2, <2>3
  <2>4. CASE j # n
    <3>1. j \in 1 .. n - 1
      BY <1>1, <2>4
    <3>2. <<labels[i], labels[j]>> \in KindOrder(seq)
      BY <1>2, <2>1, <3>1 DEF LabelsOK, n
    <3>3. labels[i] \in Kinds /\ labels[j] \in Kinds
      BY <1>1
    <3> QED BY <3>2, <3>3, KindOrderIs DEF Orders
  <2> QED BY <2>3, <2>4
<1>3. \A i, j \in 1 .. n : labels[i] = labels[j] => i = j
  BY <1>1, <1>2
<1>4. Cardinality(Range(labels)) = n
  <2>1. \A x \in Range(labels) : \E i \in 1 .. n : labels[i] = x
    BY <1>1 DEF Range
  <2>2. \A i \in 1 .. n : labels[i] \in Range(labels)
    BY <1>1 DEF Range
  <2>3. labels \in [1 .. n -> Range(labels)]
    BY <1>1, <2>2
  <2>4. labels \in Surjection(1 .. n, Range(labels)) /\ labels \in Injection(1 .. n, Range(labels))
    BY <1>3, <2>1, <2>3 DEF Injection, Surjection, IsInjective
  <2>5. IsFiniteSet(1 .. n) /\ Cardinality(1 .. n) = n
    BY <1>1, FS_Interval
  <2> QED BY <2>4, <2>5, FS_Surjection
<1>5. ASSUME NEW k \in Kinds PROVE \E i \in 1 .. n : labels[i] = LabelOf(labels, k)
  <2>1. n \in 1 .. n
    BY <1>1
  <2> QED BY <1>1, <2>1 DEF LabelOf, Range
<1> QED BY <1>3, <1>4, <1>5 DEF n

\* Every sample of a window is counted once in each histogram, under the labels
\* of any baseline, and a kind with a label of its own is counted as such.
LEMMA KindCountsAre ==
  ASSUME NEW past0 \in Seq(Samples), NEW labels, LabelsOK(past0, labels),
         NEW seq \in Seq(Samples)
  PROVE  /\ DOMAIN KindCounts(labels, seq) = 1 .. Len(labels)
         /\ Len(KindCounts(labels, seq)) = Len(labels)
         /\ Total(KindCounts(labels, seq)) = Len(seq)
         /\ \A i \in 1 .. Len(labels) - 1 : KindCounts(labels, seq)[i] = OfKind(seq, labels[i])
<1> DEFINE n == Len(labels)
           D == DOMAIN seq
           place == [d \in D |-> CHOOSE i \in 1 .. n : labels[i] = LabelOf(labels, seq[d].kind)]
<1>1. n \in Nat /\ DOMAIN labels = 1 .. n /\ IsFiniteSet(1 .. n)
  BY FS_Interval DEF LabelsOK
<1>2. KindCounts(labels, seq) =
        [i \in 1 .. n |-> Cardinality({d \in D : labels[i] = LabelOf(labels, seq[d].kind)})]
  BY <1>1 DEF KindCounts, CountOf, LabelOf
<1>3. IsFiniteSet(D) /\ Cardinality(D) = Len(seq) /\ \A d \in D : seq[d].kind \in Kinds
  BY WindowIs
<1>4. ASSUME NEW d \in D
      PROVE  place[d] \in 1 .. n /\ labels[place[d]] = LabelOf(labels, seq[d].kind)
  <2>1. \E i \in 1 .. n : labels[i] = LabelOf(labels, seq[d].kind)
    BY <1>3, LabelsDiffer
  <2> QED BY <2>1
<1>5. \A i \in 1 .. n, d \in D : labels[i] = LabelOf(labels, seq[d].kind) <=> place[d] = i
  <2> HIDE DEF place, n
  <2> QED BY <1>4, LabelsDiffer DEF n
<1>6. place \in [D -> 1 .. n]
  BY <1>4
<1> HIDE DEF place, D, n
<1>7. \A i \in 1 .. n :
        {d \in D : labels[i] = LabelOf(labels, seq[d].kind)} = {d \in D : place[d] = i}
  BY <1>5
<1>8. KindCounts(labels, seq) = [i \in 1 .. n |-> Cardinality({d \in D : place[d] = i})]
  BY <1>2, <1>7
<1>9. Total(KindCounts(labels, seq)) = Len(seq)
  <2>1. SumFunction([i \in 1 .. n |-> Cardinality({d \in D : place[d] = i})]) = Cardinality(D)
    <3> DEFINE I == 1 .. n
    <3>1. IsFiniteSet(D) /\ IsFiniteSet(I) /\ place \in [D -> I]
      BY <1>1, <1>3, <1>6
    <3> HIDE DEF I
    <3>2. SumFunction([i \in I |-> Cardinality({d \in D : place[d] = i})]) = Cardinality(D)
      BY <3>1, CountsAddUp
    <3> QED BY <3>2 DEF I
  <2> QED BY <1>3, <1>8, <2>1 DEF Total
<1>10. ASSUME NEW i \in 1 .. n - 1 PROVE KindCounts(labels, seq)[i] = OfKind(seq, labels[i])
  <2>1. i \in 1 .. n /\ labels[i] # 0 /\ labels[i] \in Range(labels)
    BY <1>1, <1>10 DEF LabelsOK, Range, n
  <2>2. \A k : labels[i] = LabelOf(labels, k) <=> k = labels[i]
    BY <2>1 DEF LabelOf
  <2>3. {d \in D : labels[i] = LabelOf(labels, seq[d].kind)} = {d \in D : seq[d].kind = labels[i]}
    BY <2>2
  <2> QED BY <1>2, <2>1, <2>3 DEF OfKind, D
<1>11. DOMAIN KindCounts(labels, seq) = 1 .. n
  BY <1>2
<1> QED BY <1>1, <1>9, <1>10, <1>11 DEF n

\* The bin of a confidence is one of the bins.
LEMMA ConfidenceBinIs ==
  ASSUME NEW v \in Tenths
  PROVE  ConfidenceBin(v) \in 1 .. Len(Bounds) - 1
<1> DEFINE low == {i \in DOMAIN Bounds : Bounds[i] <= v}
           n == Cardinality(low)
           m == Len(Bounds) - 1
<1>1. /\ DOMAIN Bounds = 1 .. Len(Bounds) /\ Len(Bounds) \in Nat /\ Len(Bounds) >= 2
      /\ Bounds[1] = 0 /\ v \in 0 .. 10
  BY BoundsIncrease, ValuesAreNumbers
<1>2. 1 \in low
  BY <1>1
<1>3. IsFiniteSet(low)
  <2>1. IsFiniteSet(1 .. Len(Bounds)) /\ low \subseteq 1 .. Len(Bounds)
    BY <1>1, FS_Interval
  <2> QED BY <2>1, FS_Subset
<1> HIDE DEF low
<1>4. n \in Nat /\ n # 0
  BY <1>2, <1>3, FS_CardinalityType, FS_EmptySet
<1>5. m \in Nat /\ m >= 1
  BY <1>1
<1>6. ConfidenceBin(v) = Min({n, m})
  BY DEF ConfidenceBin, n, m, low
<1> HIDE DEF n, m
<1>7. \E x \in {n, m} : \A y \in {n, m} : x <= y
  <2>1. CASE n <= m
    BY <1>4, <1>5, <2>1
  <2>2. CASE m <= n
    BY <1>4, <1>5, <2>2
  <2> QED BY <1>4, <1>5, <2>1, <2>2
<1>8. Min({n, m}) \in {n, m} /\ Min({n, m}) <= m
  BY <1>7 DEF Min
<1> QED BY <1>4, <1>5, <1>6, <1>8 DEF m

LEMMA ConfidenceCountsAre ==
  ASSUME NEW seq \in Seq(Samples)
  PROVE  /\ Len(ConfidenceCounts(seq)) = Len(Bounds) - 1
         /\ Total(ConfidenceCounts(seq)) = Len(seq)
<1> DEFINE n == Len(Bounds) - 1
           D == DOMAIN seq
           bin == [d \in D |-> ConfidenceBin(seq[d].tenths)]
<1>1. n \in Nat /\ IsFiniteSet(1 .. n)
  BY BoundsIncrease, FS_Interval
<1>2. ConfidenceCounts(seq) =
        [b \in 1 .. n |-> Cardinality({d \in D : ConfidenceBin(seq[d].tenths) = b})]
  BY DEF ConfidenceCounts, CountOf
<1>3. IsFiniteSet(D) /\ Cardinality(D) = Len(seq) /\ \A d \in D : seq[d].tenths \in Tenths
  BY WindowIs
<1>4. bin \in [D -> 1 .. n]
  BY <1>3, ConfidenceBinIs
<1>5. \A b \in 1 .. n :
        {d \in D : ConfidenceBin(seq[d].tenths) = b} = {d \in D : bin[d] = b}
  OBVIOUS
<1>6. Len(ConfidenceCounts(seq)) = n
  BY <1>1, <1>2
<1> HIDE DEF bin, D, n
<1>7. ConfidenceCounts(seq) = [b \in 1 .. n |-> Cardinality({d \in D : bin[d] = b})]
  BY <1>2, <1>5
<1>8. Total(ConfidenceCounts(seq)) = Len(seq)
  <2>1. SumFunction([b \in 1 .. n |-> Cardinality({d \in D : bin[d] = b})]) = Cardinality(D)
    BY <1>1, <1>3, <1>4, CountsAddUp
  <2> QED BY <1>3, <1>7, <2>1 DEF Total
<1> QED BY <1>6, <1>8 DEF n

\* Every sample of a window is counted once under its version.
LEMMA VersionCountsAre ==
  ASSUME NEW seq \in Seq(Samples)
  PROVE  Total(VersionCounts(seq)) = Len(seq)
<1> DEFINE D == DOMAIN seq
           I == {seq[d].version : d \in D}
           f == [d \in D |-> seq[d].version]
<1>1. IsFiniteSet(D) /\ Cardinality(D) = Len(seq)
  BY WindowIs
<1>2. f \in Surjection(D, I)
  BY DEF Surjection
<1>3. \A v \in I : {d \in D : seq[d].version = v} = {d \in D : f[d] = v}
  OBVIOUS
<1>4. VersionCounts(seq) = [v \in I |-> Cardinality({d \in D : seq[d].version = v})]
  BY DEF VersionCounts, CountOf
<1>5. f \in [D -> I]
  OBVIOUS
<1> HIDE DEF D, I, f
<1>6. IsFiniteSet(I)
  BY <1>1, <1>2, FS_Surjection
<1>7. SumFunction([v \in I |-> Cardinality({d \in D : f[d] = v})]) = Cardinality(D)
  BY <1>1, <1>5, <1>6, CountsAddUp
<1>8. VersionCounts(seq) = [v \in I |-> Cardinality({d \in D : f[d] = v})]
  BY <1>3, <1>4
<1> QED BY <1>1, <1>7, <1>8 DEF Total

\* The values of a window, of the samples that have one; none is negative where
\* all can be measured.
LEMMA ValuesAre ==
  ASSUME NEW seq \in Seq(Samples)
  PROVE  /\ ValuesOf(seq) \in Seq(Int) /\ Len(ValuesOf(seq)) <= Len(seq)
         /\ Measurable(seq) => ValuesOf(seq) \in Seq(Nat)
<1> DEFINE measured == {i \in DOMAIN seq : seq[i].value # NoValue}
           before == {p \in measured \X measured : p[1] < p[2]}
           place == Ranked(before, measured)
<1>1. /\ IsFiniteSet(measured) /\ Cardinality(measured) \in Nat
      /\ Cardinality(measured) <= Len(seq)
  <2>1. IsFiniteSet(DOMAIN seq) /\ Cardinality(DOMAIN seq) = Len(seq) /\ measured \subseteq DOMAIN seq
    BY WindowIs
  <2> HIDE DEF measured
  <2> QED BY <2>1, FS_Subset, FS_CardinalityType
<1>2. ASSUME NEW i \in measured
      PROVE  i \in Nat /\ seq[i].value \in Int /\ (Measurable(seq) => seq[i].value >= 0)
  <2>1. i \in 1 .. Len(seq) /\ Len(seq) \in Nat /\ i \in DOMAIN seq /\ seq[i].value # NoValue
    BY <1>2, WindowIs
  <2>2. seq[i].value \in TraceValues \cup {NoValue}
    BY <2>1, WindowIs
  <2>3. seq[i].value \in Int
    BY <2>1, <2>2, ValuesAreNumbers
  <2>4. i \in Nat
    BY <2>1
  <2>5. Measurable(seq) => seq[i].value >= 0
    BY <2>1 DEF Measurable
  <2> QED BY <2>3, <2>4, <2>5
<1>3. ValuesOf(seq) = [k \in DOMAIN place |-> seq[place[k]].value]
  BY DEF ValuesOf
<1> HIDE DEF measured
<1>4. Orders(before, measured)
  <2>1. \A i, j \in measured : <<i, j>> \in before <=> i < j
    OBVIOUS
  <2> HIDE DEF before
  <2>2. \A i \in measured : <<i, i>> \notin before
    BY <1>2, <2>1
  <2>3. \A i, j, k \in measured : <<i, j>> \in before /\ <<j, k>> \in before => <<i, k>> \in before
    BY <1>2, <2>1
  <2>4. \A i, j \in measured : i # j => <<i, j>> \in before \/ <<j, i>> \in before
    BY <1>2, <2>1
  <2> QED BY <2>2, <2>3, <2>4 DEF Orders
<1> HIDE DEF before
<1>5. place \in Seq(measured) /\ Len(place) = Cardinality(measured)
  BY <1>1, <1>4, RankedIs
<1> HIDE DEF place
<1>6. DOMAIN place = 1 .. Len(place) /\ \A k \in DOMAIN place : place[k] \in measured
  BY <1>5
<1>7. ValuesOf(seq) = [k \in 1 .. Len(place) |-> seq[place[k]].value]
  BY <1>3, <1>6
<1>8. \A k \in 1 .. Len(place) : seq[place[k]].value \in Int
  BY <1>2, <1>6
<1>9. ValuesOf(seq) \in Seq(Int) /\ Len(ValuesOf(seq)) = Len(place)
  BY <1>1, <1>5, <1>7, <1>8
<1>10. ASSUME Measurable(seq) PROVE ValuesOf(seq) \in Seq(Nat)
  <2>1. \A k \in 1 .. Len(place) : seq[place[k]].value \in Nat
    BY <1>2, <1>6, <1>10
  <2> QED BY <1>1, <1>5, <1>7, <2>1
<1> QED BY <1>1, <1>5, <1>9, <1>10

LEMMA GreatestIs ==
  ASSUME NEW S, S \subseteq Int, \E m \in S : \A x \in S : x <= m
  PROVE  Max(S) \in S /\ \A x \in S : x <= Max(S)
<1>1. PICK m \in S : \A x \in S : m >= x
  OBVIOUS
<1>2. Max(S) \in S /\ \A x \in S : Max(S) >= x
  BY <1>1 DEF Max
<1> QED BY <1>2

LEMMA DeviationIs ==
  ASSUME NEW values \in Seq(Int), Len(values) >= 2
  PROVE  Deviation(values) \in Nat
<1> DEFINE R == Range(values)
           n == Len(values)
<1>1. DOMAIN values = 1 .. n /\ n \in Nat
  OBVIOUS
<1>2. R \subseteq Int /\ values[1] \in R
  BY DEF Range
<1>3. IsFiniteSet(R)
  <2>1. values \in Surjection(1 .. n, R)
    <3>1. R = {values[i] : i \in 1 .. n}
      BY <1>1 DEF Range
    <3>2. values \in [1 .. n -> R]
      BY <3>1
    <3> HIDE DEF R, n
    <3> QED BY <3>1, <3>2 DEF Surjection
  <2>2. IsFiniteSet(1 .. n)
    BY <1>1, FS_Interval
  <2> HIDE DEF R, n
  <2> QED BY <2>1, <2>2, FS_Surjection
<1>4. Deviation(values) = Max(R) - Min(R)
  BY DEF Deviation
<1> HIDE DEF R
<1>5. /\ \E m \in R : \A x \in R : x <= m
      /\ \E m \in R : \A x \in R : m <= x
  <2>1. R # {}
    BY <1>2
  <2> QED BY <1>2, <1>3, <2>1, ExtremesExist
<1>6. Max(R) \in R
  BY <1>2, <1>5, GreatestIs
<1>7. Min(R) \in R
  BY <1>5 DEF Min
<1>8. Max(R) \in Int /\ Min(R) \in Int /\ Min(R) <= Max(R)
  BY <1>2, <1>5, <1>6, <1>7, GreatestIs
<1> QED BY <1>4, <1>8

\* What a report needs of a stored baseline besides: numbers.
MaterialOK(m) ==
  /\ \E seq \in Seq(Samples) : LabelsOK(seq, m.labels)
  /\ m.count \in Nat /\ m.sum \in Int /\ m.deviation \in Int \cup {NoValue}
  /\ ReadsBack(m) \/ Nameless(m) \/ m.count = 1

LEMMA TotalIs ==
  ASSUME NEW values \in Seq(Int)
  PROVE  Total(values) \in Int
<1>1. values \in [1 .. Len(values) -> Int] /\ IsFiniteSet(1 .. Len(values))
  BY FS_Interval
<1>2. DOMAIN values = 1 .. Len(values)
  OBVIOUS
<1>3. SumFunction(values) = Sums(values)[1 .. Len(values)]
  BY <1>1, <1>2, SumsAre
<1> QED BY <1>1, <1>3, SumsAreIntegers DEF Total

LEMMA TotalOfNaturals ==
  ASSUME NEW values \in Seq(Nat)
  PROVE  Total(values) \in Nat
<1> DEFINE D == 1 .. Len(values)
<1>1. values \in [D -> Nat] /\ IsFiniteSet(D)
  BY FS_Interval
<1> HIDE DEF D
<1>2. CASE D = {}
  <2>1. values = [d \in D |-> 0]
    BY <1>1, <1>2
  <2> QED BY <1>1, <2>1, SumOfZeros DEF Total
<1>3. CASE D # {}
  BY <1>1, <1>3, SumAddsOne DEF Total
<1> QED BY <1>2, <1>3

\* What create_baseline stores, a report reads, but for names and a single value.
LEMMA MaterialReadsBack ==
  ASSUME NEW seq \in Seq(Samples), Measurable(seq), Len(ValuesOf(seq)) >= MinBaseline
  PROVE  MaterialOK(Material(seq))
<1> DEFINE m == Material(seq)
           labels == KindLabels(seq)
           values == ValuesOf(seq)
<1>1. /\ m.bins = ConfidenceCounts(seq) /\ m.labels = labels
      /\ m.kinds = KindCounts(labels, seq) /\ m.count = Len(values)
      /\ m.sum = Total(values) /\ m.deviation = Deviation(values)
      /\ m.versions = VersionCounts(seq)
  BY DEF Material
<1> HIDE DEF m, labels, values
<1>2. MinBaseline \in Nat /\ MinBaseline >= 1
  BY MinimumIsPositive
<1>3. /\ values \in Seq(Int) /\ values \in Seq(Nat)
      /\ Len(values) <= Len(seq) /\ Len(values) >= MinBaseline
  BY ValuesAre DEF values
<1>4. Len(values) \in Nat /\ Len(seq) \in Nat /\ Len(values) >= 1 /\ Len(seq) >= MinBaseline
  BY <1>2, <1>3
<1>5. /\ Total(values) \in Nat /\ NoValue \notin Int
      /\ Len(values) = 1 \/ Deviation(values) \in Nat
      /\ Len(values) = 1 => Deviation(values) = NoValue
  <2>1. Len(values) = 1 \/ Len(values) >= 2
    <3>1. \A n \in Nat : n >= 1 => n = 1 \/ n >= 2
      OBVIOUS
    <3> QED BY <1>4, <3>1
  <2>2. Len(values) = 1 => Deviation(values) = NoValue
    BY DEF Deviation
  <2> QED BY <1>3, <2>1, <2>2, TotalOfNaturals, DeviationIs, ValuesAreNumbers
<1>6. LabelsOK(seq, labels)
  BY KindLabelsAre DEF labels
<1>7. /\ Len(m.kinds) = Len(labels) /\ Total(m.kinds) = Len(seq)
      /\ \A i \in 1 .. Len(labels) - 1 : m.kinds[i] = OfKind(seq, labels[i])
  BY <1>1, <1>6, KindCountsAre
<1>8. Len(m.bins) = Len(Bounds) - 1 /\ Total(m.bins) = Len(seq)
  BY <1>1, ConfidenceCountsAre
<1>9. \A n \in {Total(m.bins), Total(m.kinds), m.count} : n >= MinBaseline
  BY <1>1, <1>3, <1>4, <1>7, <1>8
<1>10. ASSUME NEW i \in 1 .. Len(labels) - 1, NEW j \in 1 .. Len(labels) - 1, i < j
       PROVE  \/ m.kinds[i] > m.kinds[j]
              \/ m.kinds[i] = m.kinds[j] /\ labels[i] < labels[j]
  <2>1. labels[i] \in Kinds /\ labels[j] \in Kinds
    BY <1>6, <1>10 DEF LabelsOK
  <2>2. <<labels[i], labels[j]>> \in KindOrder(seq)
    BY <1>6, <1>10 DEF LabelsOK
  <2> QED BY <1>7, <2>1, <2>2, KindOrderIs
<1>11. Cardinality(Range(labels)) = Len(labels)
  BY <1>6, LabelsDiffer
<1>12. Len(labels) <= MaxLabels + 1 /\ labels[Len(labels)] = 0
  BY <1>6, SettingsAreNatural DEF LabelsOK
<1>13. Total(m.versions) = Len(seq)
  BY <1>1, VersionCountsAre
<1>14. ASSUME ~Nameless(m), Len(values) # 1 PROVE ReadsBack(m)
  <2>1. m.deviation # NoValue /\ m.deviation >= 0 /\ m.sum >= 0
    BY <1>1, <1>5, <1>14
  <2>2. NoType \notin Range(m.labels) /\ NoVersion \notin DOMAIN m.versions
    BY <1>14 DEF Nameless
  <2> QED BY <1>1, <1>3, <1>7, <1>8, <1>9, <1>10, <1>11, <1>12, <1>13, <2>1, <2>2 DEF ReadsBack
<1>15. MaterialOK(m)
  BY <1>1, <1>4, <1>5, <1>6, <1>14 DEF MaterialOK
<1> QED BY <1>15 DEF m

-----------------------------------------------------------------------------
(* The CUSUM of a signal is the largest shift of any run of its values.    *)

\* What a run of values adds up to beyond the baseline, and beyond the slack of
\* each of them, upwards and downwards.
Over(m, values, i, j) == Total([n \in 1 .. j - i + 1 |-> Residual(m, values[i + n - 1])])
Rise(m, values, i, j) == Over(m, values, i, j) - (j - i + 1) * Slack(m)
Fall(m, values, i, j) == -Over(m, values, i, j) - (j - i + 1) * Slack(m)

LEMMA GreatestOfTwo ==
  ASSUME NEW a \in Int, NEW b \in Int
  PROVE  /\ Max({a, b}) = IF a >= b THEN a ELSE b
         /\ Min({a, b}) = IF a <= b THEN a ELSE b
<1>1. \E x \in {a, b} : \A y \in {a, b} : x >= y
  <2>1. CASE a >= b
    BY <2>1
  <2>2. CASE b >= a
    BY <2>2
  <2> QED BY <2>1, <2>2
<1>2. \E x \in {a, b} : \A y \in {a, b} : x <= y
  <2>1. CASE a <= b
    BY <2>1
  <2>2. CASE b <= a
    BY <2>2
  <2> QED BY <2>1, <2>2
<1>3. Max({a, b}) \in {a, b} /\ \A y \in {a, b} : Max({a, b}) >= y
  BY <1>1 DEF Max
<1>4. Min({a, b}) \in {a, b} /\ \A y \in {a, b} : Min({a, b}) <= y
  BY <1>2 DEF Min
<1> QED BY <1>3, <1>4

LEMMA GreatestOfThree ==
  ASSUME NEW a \in Int, NEW b \in Int, NEW c \in Int
  PROVE  /\ Max({a, b, c}) \in {a, b, c} /\ Max({a, b, c}) \in Int
         /\ Max({a, b, c}) >= a /\ Max({a, b, c}) >= b /\ Max({a, b, c}) >= c
<1>1. \E x \in {a, b, c} : \A y \in {a, b, c} : x >= y
  <2>1. CASE a >= b /\ a >= c
    BY <2>1
  <2>2. CASE b >= a /\ b >= c
    BY <2>2
  <2>3. CASE c >= a /\ c >= b
    BY <2>3
  <2> QED BY <2>1, <2>2, <2>3
<1>2. Max({a, b, c}) \in {a, b, c} /\ \A y \in {a, b, c} : Max({a, b, c}) >= y
  BY <1>1 DEF Max
<1> QED BY <1>2

\* Numbers of a baseline.
Numeric(m) == m.count \in Nat /\ m.sum \in Int /\ m.deviation \in Int

LEMMA ResidualIs ==
  ASSUME NEW m, Numeric(m), NEW v \in Int
  PROVE  Residual(m, v) \in Int /\ Slack(m) \in Int
<1>1. m.count * v \in Int
  BY DEF Numeric
<1>2. HalfReference * m.count \in Int
  BY SettingsAreNatural DEF Numeric
<1>3. (HalfReference * m.count) * m.deviation \in Int
  BY <1>2 DEF Numeric
<1> QED BY <1>1, <1>3 DEF Numeric, Residual, Slack

\* A run grows by one value.
LEMMA OverGrows ==
  ASSUME NEW m, Numeric(m), NEW values \in Seq(Int),
         NEW i \in 1 .. Len(values), NEW j \in i .. Len(values)
  PROVE  /\ Over(m, values, i, j) \in Int /\ Over(m, values, i, i - 1) = 0
         /\ Over(m, values, i, j) = Over(m, values, i, j - 1) + Residual(m, values[j])
<1> DEFINE n == j - i + 1
           f == [k \in 1 .. n |-> Residual(m, values[i + k - 1])]
           e == [k \in 1 .. n - 1 |-> Residual(m, values[i + k - 1])]
<1>1. Len(values) \in Nat /\ n \in Nat /\ n >= 1 /\ n \in 1 .. n
  OBVIOUS
<1>2. \A k \in 1 .. n : i + k - 1 \in 1 .. Len(values)
  BY <1>1
<1>3. ASSUME NEW k \in 1 .. Len(values) PROVE Residual(m, values[k]) \in Int
  <2>1. values[k] \in Int
    OBVIOUS
  <2> QED BY <2>1, ResidualIs
<1>4. f \in [1 .. n -> Int]
  BY <1>2, <1>3
<1>5. (1 .. n) \ {n} = 1 .. n - 1
  BY <1>1
<1>6. f[n] = Residual(m, values[j])
  <2>1. i + n - 1 = j
    OBVIOUS
  <2> QED BY <1>1, <2>1
<1>7. e = [k \in (1 .. n) \ {n} |-> f[k]]
  BY <1>5
<1>8. Over(m, values, i, j) = SumFunction(f)
  BY DEF Over, Total
<1>9. Over(m, values, i, j - 1) = SumFunction(e)
  <2>1. (j - 1) - i + 1 = n - 1
    OBVIOUS
  <2> HIDE DEF n
  <2> QED BY <2>1 DEF Over, Total
<1>10. SumFunction(f) \in Int /\ SumFunction(f) = f[n] + SumFunction([k \in (1 .. n) \ {n} |-> f[k]])
  <2>1. IsFiniteSet(1 .. n)
    BY <1>1, FS_Interval
  <2> HIDE DEF f, n
  <2> QED BY <1>1, <1>4, <2>1, SumWithout
<1>11. Over(m, values, i, i - 1) = 0
  <2> DEFINE none == [k \in {} |-> 0]
  <2>1. (i - 1) - i + 1 = 0 /\ 1 .. 0 = {}
    OBVIOUS
  <2>2. Over(m, values, i, i - 1) = SumFunction(none)
    BY <2>1 DEF Over, Total
  <2> QED BY <2>2, SumOfZeros, FS_EmptySet
<1>12. SumFunction(e) \in Int
  <2>1. e \in [1 .. n - 1 -> Int]
    BY <1>1, <1>2, <1>3
  <2>2. IsFiniteSet(1 .. n - 1)
    BY <1>1, FS_Interval
  <2> HIDE DEF e, n
  <2>3. DOMAIN e = 1 .. n - 1
    BY <2>1
  <2>4. SumFunction(e) = Sums(e)[1 .. n - 1]
    BY <2>1, <2>2, <2>3, SumsAre
  <2> QED BY <2>1, <2>2, <2>4, SumsAreIntegers
<1>13. f[n] \in Int
  BY <1>1, <1>4
<1> HIDE DEF e, f
<1> QED BY <1>6, <1>7, <1>8, <1>9, <1>10, <1>11, <1>12, <1>13

LEMMA RunsGrow ==
  ASSUME NEW m, Numeric(m), NEW values \in Seq(Int),
         NEW i \in 1 .. Len(values), NEW j \in i .. Len(values)
  PROVE  /\ Rise(m, values, i, j) \in Int /\ Fall(m, values, i, j) \in Int
         /\ Rise(m, values, i, j) =
              (IF j = i THEN 0 ELSE Rise(m, values, i, j - 1)) + (Residual(m, values[j]) - Slack(m))
         /\ Fall(m, values, i, j) =
              (IF j = i THEN 0 ELSE Fall(m, values, i, j - 1)) + (-Residual(m, values[j]) - Slack(m))
<1> DEFINE S == Slack(m)
           r == Residual(m, values[j])
           n == j - i
           o == Over(m, values, i, j)
           p == Over(m, values, i, j - 1)
<1>1. values[j] \in Int /\ n \in Nat
  OBVIOUS
<1>2. S \in Int /\ r \in Int
  BY <1>1, ResidualIs
<1>3. o \in Int /\ o = p + r /\ (j = i => p = 0)
  BY OverGrows
<1>4. p \in Int
  <2>1. CASE j = i
    BY <1>3, <2>1
  <2>2. CASE j # i
    <3>1. j - 1 \in i .. Len(values)
      BY <2>2
    <3> QED BY <3>1, OverGrows
  <2> QED BY <2>1, <2>2
<1>5. j - i + 1 = n + 1 /\ (j - 1) - i + 1 = n /\ (j = i <=> n = 0)
  OBVIOUS
<1>6. /\ Rise(m, values, i, j) = o - (n + 1) * S /\ Fall(m, values, i, j) = -o - (n + 1) * S
      /\ Rise(m, values, i, j - 1) = p - n * S /\ Fall(m, values, i, j - 1) = -p - n * S
  BY <1>5 DEF Rise, Fall
<1> HIDE DEF S, r, n, o, p
<1>7. (n + 1) * S = n * S + S /\ n * S \in Int /\ (n = 0 => n * S = 0)
  BY <1>1, <1>2
<1> DEFINE nS == n * S
<1> HIDE DEF nS
<1>8. /\ Rise(m, values, i, j) = o - (nS + S) /\ Fall(m, values, i, j) = -o - (nS + S)
      /\ Rise(m, values, i, j - 1) = p - nS /\ Fall(m, values, i, j - 1) = -p - nS
      /\ nS \in Int /\ (n = 0 => nS = 0)
  BY <1>6, <1>7 DEF nS
<1>9. CASE j = i
  <2>1. nS = 0 /\ p = 0
    BY <1>3, <1>5, <1>8, <1>9
  <2>2. /\ Rise(m, values, i, j) = r - S /\ Fall(m, values, i, j) = -r - S
        /\ r - S = 0 + (r - S) /\ -r - S = 0 + (-r - S)
    BY <1>2, <1>3, <1>8, <2>1
  <2>3. r - S \in Int /\ -r - S \in Int
    BY <1>2
  <2> QED BY <1>9, <2>2, <2>3 DEF r, S
<1>10. CASE j # i
  <2>1. /\ Rise(m, values, i, j) = Rise(m, values, i, j - 1) + (r - S)
        /\ Fall(m, values, i, j) = Fall(m, values, i, j - 1) + (-r - S)
        /\ Rise(m, values, i, j) \in Int /\ Fall(m, values, i, j) \in Int
    BY <1>2, <1>3, <1>4, <1>8
  <2> QED BY <1>10, <2>1 DEF r, S
<1> QED BY <1>9, <1>10

\* One step of the sum over the runs that end at a value, when it restarts at
\* zero: it is the greatest of theirs, or zero.
IsTop(top, u, n) ==
  /\ top \in Int /\ top >= 0 /\ \A i \in 1 .. n : u[i] <= top
  /\ top = 0 \/ \E i \in 1 .. n : u[i] = top

LEMMA TopGrows ==
  ASSUME NEW n \in Nat, NEW u, NEW v, NEW x \in Int, NEW top, IsTop(top, u, n),
         \A i \in 1 .. n : u[i] \in Int /\ v[i] = u[i] + x,
         v[n + 1] = 0 + x
  PROVE  IsTop(Max({0, top + x}), v, n + 1)
<1> DEFINE next == Max({0, top + x})
<1>1. top \in Int /\ top >= 0
  BY DEF IsTop
<1>2. next = IF 0 >= top + x THEN 0 ELSE top + x
  BY <1>1, GreatestOfTwo
<1> HIDE DEF next
<1>3. next \in Int /\ next >= 0 /\ next >= top + x
  BY <1>1, <1>2
<1>4. ASSUME NEW i \in 1 .. n + 1 PROVE v[i] <= next
  <2>1. CASE i = n + 1
    BY <1>1, <1>3, <2>1
  <2>2. CASE i # n + 1
    <3>1. i \in 1 .. n
      BY <2>2
    <3>2. u[i] \in Int /\ v[i] = u[i] + x /\ u[i] <= top
      BY <3>1 DEF IsTop
    <3> QED BY <1>1, <1>3, <3>2
  <2> QED BY <2>1, <2>2
<1>5. next = 0 \/ \E i \in 1 .. n + 1 : v[i] = next
  <2> SUFFICES ASSUME next = top + x PROVE \E i \in 1 .. n + 1 : v[i] = next
    BY <1>2
  <2>1. CASE top = 0
    <3>1. n + 1 \in 1 .. n + 1 /\ v[n + 1] = next
      BY <2>1
    <3> QED BY <3>1
  <2>2. CASE top # 0
    <3>1. PICK i \in 1 .. n : u[i] = top
      BY <2>2 DEF IsTop
    <3>2. i \in 1 .. n + 1 /\ v[i] = next
      BY <3>1
    <3> QED BY <3>2
  <2> QED BY <2>1, <2>2
<1> QED BY <1>3, <1>4, <1>5 DEF IsTop, next

\* The path of the two sums.
CusumStates == [up : Int, down : Int, peak : Int]
CusumStart == [up |-> 0, down |-> 0, peak |-> 0]
IsCusum(path, m, values) ==
  path = [k \in 0 .. Len(values) |->
            IF k = 0 THEN CusumStart ELSE CusumStep(m, path[k - 1], values[k])]
CusumPath(m, values) == CHOOSE path : IsCusum(path, m, values)

LEMMA CusumStepIs ==
  ASSUME NEW m, Numeric(m), NEW v \in Int, NEW at \in CusumStates
  PROVE  LET up == Max({0, at.up + (Residual(m, v) - Slack(m))})
             fall == Max({0, -at.down + (-Residual(m, v) - Slack(m))})
             next == CusumStep(m, at, v)
         IN /\ next \in CusumStates /\ next.up = up /\ next.down = -fall
            /\ next.peak \in {at.peak, up, fall}
            /\ next.peak >= at.peak /\ next.peak >= up /\ next.peak >= fall
<1> DEFINE r == Residual(m, v)
           S == Slack(m)
           up == Max({0, at.up + (r - S)})
           fall == Max({0, -at.down + (-r - S)})
           down == Min({0, at.down + r + S})
           peak == Max({at.peak, up, -down})
<1>1. r \in Int /\ S \in Int /\ at.up \in Int /\ at.down \in Int /\ at.peak \in Int
  BY ResidualIs DEF CusumStates
<1>2. at.up + r - S = at.up + (r - S)
  BY <1>1
<1>3. CusumStep(m, at, v) = [up |-> up, down |-> down, peak |-> peak]
  <2> HIDE DEF r, S
  <2> QED BY <1>2 DEF CusumStep, r, S
<1> HIDE DEF r, S
<1>4. up \in Int
  BY <1>1, GreatestOfTwo
<1>5. down \in Int /\ fall \in Int /\ -down = fall
  <2>1. fall = IF 0 >= -at.down + (-r - S) THEN 0 ELSE -at.down + (-r - S)
    BY <1>1, GreatestOfTwo
  <2>2. 0 \in Int /\ at.down + r + S \in Int
    BY <1>1
  <2>3. down = IF 0 <= at.down + r + S THEN 0 ELSE at.down + r + S
    BY <2>2, GreatestOfTwo, Zenon
  <2> HIDE DEF fall, down
  <2> QED BY <1>1, <2>1, <2>3
<1> HIDE DEF up, down, fall
<1>6. /\ peak \in {at.peak, up, fall} /\ peak \in Int
      /\ peak >= at.peak /\ peak >= up /\ peak >= fall
  BY <1>1, <1>4, <1>5, GreatestOfThree
<1> HIDE DEF peak
<1>7. CusumStep(m, at, v) \in CusumStates
  BY <1>3, <1>4, <1>5, <1>6 DEF CusumStates
<1>8. /\ CusumStep(m, at, v).up = up /\ CusumStep(m, at, v).peak = peak
      /\ CusumStep(m, at, v).down = -fall
  BY <1>3, <1>5
<1> QED BY <1>6, <1>7, <1>8 DEF up, fall, r, S

LEMMA CusumPathIs ==
  ASSUME NEW m, Numeric(m), NEW values \in Seq(Int)
  PROVE  LET path == CusumPath(m, values) IN
         /\ Cusum(m, values) = path[Len(values)].peak
         /\ \A k \in 0 .. Len(values) : path[k] \in CusumStates
         /\ path[0] = CusumStart
         /\ \A k \in 1 .. Len(values) : path[k] = CusumStep(m, path[k - 1], values[k])
<1> DEFINE N == Len(values)
           X == CusumStates
           step == [q \in (1 .. N) \X X |-> CusumStep(m, q[2], values[q[1]])]
           path == CusumPath(m, values)
<1>1. N \in Nat /\ CusumStart \in X /\ \A k \in 1 .. N : values[k] \in Int
  BY DEF CusumStates, CusumStart
<1>2. step \in [(1 .. N) \X X -> X]
  <2>1. ASSUME NEW q \in (1 .. N) \X X PROVE CusumStep(m, q[2], values[q[1]]) \in X
    <3>1. q[2] \in X /\ values[q[1]] \in Int
      BY <1>1
    <3> QED BY <3>1, CusumStepIs
  <2> QED BY <2>1
<1>3. PICK f \in [0 .. N -> X] : IsPath(f, N, CusumStart, step)
  <2> HIDE DEF X, step, N
  <2> QED BY <1>1, <1>2, PathExists
<1>4. ASSUME NEW k \in 0 .. N, k # 0
      PROVE  step[<<k, f[k - 1]>>] = CusumStep(m, f[k - 1], values[k])
  <2>1. k \in 1 .. N /\ k - 1 \in 0 .. N
    BY <1>1, <1>4
  <2>2. <<k, f[k - 1]>> \in (1 .. N) \X X
    BY <2>1
  <2> QED BY <2>2
<1>5. IsCusum(f, m, values)
  <2> HIDE DEF step
  <2> QED BY <1>3, <1>4 DEF IsPath, IsCusum
<1>6. IsCusum(path, m, values)
  BY <1>5 DEF CusumPath
<1>7. Cusum(m, values) = path[N].peak
  BY DEF Cusum, CusumPath, IsCusum, CusumStart
<1> HIDE DEF path, step
<1>8. path = [k \in 0 .. N |-> IF k = 0 THEN CusumStart ELSE CusumStep(m, path[k - 1], values[k])]
  BY <1>6 DEF IsCusum
<1>9. path[0] = CusumStart /\ \A k \in 1 .. N : path[k] = CusumStep(m, path[k - 1], values[k])
  <2>1. 0 \in 0 .. N /\ \A k \in 1 .. N : k \in 0 .. N /\ k # 0
    BY <1>1
  <2> QED BY <1>8, <2>1
<1>10. \A k \in 0 .. N : path[k] \in X
  <2> DEFINE good == {k \in 0 .. N : path[k] \in X}
  <2>1. 0 \in good
    BY <1>1, <1>9
  <2>2. ASSUME NEW k \in 1 .. N, k - 1 \in good PROVE k \in good
    <3>1. path[k - 1] \in CusumStates /\ values[k] \in Int
      BY <1>1, <2>2
    <3>2. CusumStep(m, path[k - 1], values[k]) \in X
      BY <3>1, CusumStepIs
    <3> QED BY <1>1, <1>9, <3>2
  <2>3. 0 .. N \subseteq good
    <3> HIDE DEF good, N
    <3> QED BY <1>1, <2>1, <2>2, IntervalInducts
  <2> QED BY <2>3
<1> QED BY <1>7, <1>9, <1>10 DEF path

\* After k values, the sums are the greatest of the runs that end here, and the
\* peak the greatest of all.
Rises(m, values, k) == [i \in 1 .. k |-> Rise(m, values, i, k)]
Falls(m, values, k) == [i \in 1 .. k |-> Fall(m, values, i, k)]
PeakOK(m, values, peak, k) ==
  /\ peak \in Int /\ peak >= 0
  /\ \A i \in 1 .. k : \A j \in i .. k : Rise(m, values, i, j) <= peak /\ Fall(m, values, i, j) <= peak
  /\ peak = 0 \/ \E i \in 1 .. k : \E j \in i .. k :
                   peak = Rise(m, values, i, j) \/ peak = Fall(m, values, i, j)
CusumOK(m, values, at, k) ==
  /\ IsTop(at.up, Rises(m, values, k), k)
  /\ IsTop(-at.down, Falls(m, values, k), k)
  /\ PeakOK(m, values, at.peak, k)

LEMMA CusumGoesOn ==
  ASSUME NEW m, Numeric(m), NEW values \in Seq(Int), NEW k \in 1 .. Len(values),
         NEW at \in CusumStates, CusumOK(m, values, at, k - 1)
  PROVE  CusumOK(m, values, CusumStep(m, at, values[k]), k)
<1> DEFINE r == Residual(m, values[k])
           S == Slack(m)
           next == CusumStep(m, at, values[k])
           up == Max({0, at.up + (r - S)})
           fall == Max({0, -at.down + (-r - S)})
           n == k - 1
<1>1. values[k] \in Int /\ n \in Nat /\ n + 1 = k /\ Len(values) \in Nat
  OBVIOUS
<1>2. r \in Int /\ S \in Int /\ r - S \in Int /\ -r - S \in Int
  <2>1. r \in Int /\ S \in Int
    BY <1>1, ResidualIs
  <2> HIDE DEF r, S
  <2> QED BY <2>1
<1>3. /\ next \in CusumStates /\ next.up = up /\ next.down = -fall
      /\ next.peak \in {at.peak, up, fall}
      /\ next.peak >= at.peak /\ next.peak >= up /\ next.peak >= fall
  BY <1>1, CusumStepIs
<1> HIDE DEF next
<1>4. \A i \in 1 .. n : /\ Rises(m, values, n)[i] \in Int /\ Falls(m, values, n)[i] \in Int
                       /\ Rises(m, values, k)[i] = Rises(m, values, n)[i] + (r - S)
                       /\ Falls(m, values, k)[i] = Falls(m, values, n)[i] + (-r - S)
  <2> SUFFICES ASSUME NEW i \in 1 .. n
               PROVE  /\ Rise(m, values, i, n) \in Int /\ Fall(m, values, i, n) \in Int
                      /\ Rise(m, values, i, k) = Rise(m, values, i, n) + (r - S)
                      /\ Fall(m, values, i, k) = Fall(m, values, i, n) + (-r - S)
    BY <1>1 DEF Rises, Falls
  <2>1. i \in 1 .. Len(values) /\ k \in i .. Len(values) /\ n \in i .. Len(values) /\ k # i
    BY <1>1
  <2> QED BY <2>1, RunsGrow
<1>5. Rises(m, values, k)[n + 1] = 0 + (r - S) /\ Falls(m, values, k)[n + 1] = 0 + (-r - S)
  <2>1. k \in 1 .. Len(values) /\ k \in k .. Len(values) /\ k \in 1 .. k
    BY <1>1
  <2>2. Rise(m, values, k, k) = 0 + (r - S) /\ Fall(m, values, k, k) = 0 + (-r - S)
    BY <2>1, RunsGrow
  <2> QED BY <1>1, <2>1, <2>2 DEF Rises, Falls
<1>6. IsTop(at.up, Rises(m, values, n), n) /\ IsTop(-at.down, Falls(m, values, n), n)
      /\ PeakOK(m, values, at.peak, n)
  BY DEF CusumOK
<1> HIDE DEF r, S
<1>7. IsTop(up, Rises(m, values, k), k)
  <2>1. at.up \in Int
    BY <1>6 DEF IsTop
  <2>2. IsTop(up, Rises(m, values, k), n + 1)
    <3> HIDE DEF n
    <3> QED BY <1>1, <1>2, <1>4, <1>5, <1>6, <2>1, TopGrows
  <2> QED BY <1>1, <2>2
<1>8. IsTop(fall, Falls(m, values, k), k)
  <2>1. -at.down \in Int
    BY <1>6 DEF IsTop
  <2>2. IsTop(fall, Falls(m, values, k), n + 1)
    <3> HIDE DEF n
    <3> QED BY <1>1, <1>2, <1>4, <1>5, <1>6, <2>1, TopGrows
  <2> QED BY <1>1, <2>2
<1> HIDE DEF up, fall
<1>9. /\ up \in Int /\ up >= 0 /\ fall \in Int /\ fall >= 0
      /\ at.peak \in Int /\ at.peak >= 0
  BY <1>6, <1>7, <1>8 DEF IsTop, PeakOK
<1>10. -next.down = fall
  BY <1>3, <1>9
<1>11. PeakOK(m, values, next.peak, k)
  <2>1. next.peak \in Int /\ next.peak >= 0
    BY <1>3, <1>9
  <2>2. ASSUME NEW i \in 1 .. k, NEW j \in i .. k
        PROVE  Rise(m, values, i, j) <= next.peak /\ Fall(m, values, i, j) <= next.peak
    <3>1. i \in 1 .. Len(values) /\ j \in i .. Len(values)
      BY <1>1
    <3>2. Rise(m, values, i, j) \in Int /\ Fall(m, values, i, j) \in Int
      BY <3>1, RunsGrow
    <3>3. CASE j = k
      <4>1. Rise(m, values, i, k) <= up /\ Fall(m, values, i, k) <= fall
        BY <1>7, <1>8 DEF IsTop, Rises, Falls
      <4> QED BY <1>3, <1>9, <2>1, <3>2, <3>3, <4>1
    <3>4. CASE j # k
      <4>1. i \in 1 .. n /\ j \in i .. n
        BY <1>1, <3>4
      <4>2. Rise(m, values, i, j) <= at.peak /\ Fall(m, values, i, j) <= at.peak
        BY <1>6, <4>1 DEF PeakOK
      <4>3. next.peak >= at.peak
        BY <1>3
      <4> QED BY <1>9, <2>1, <3>2, <4>2, <4>3
    <3> QED BY <3>3, <3>4
  <2>3. next.peak = 0 \/ \E i \in 1 .. k : \E j \in i .. k :
          next.peak = Rise(m, values, i, j) \/ next.peak = Fall(m, values, i, j)
    <3>1. CASE next.peak = up
      <4>1. up = 0 \/ \E i \in 1 .. k : Rise(m, values, i, k) = up
        BY <1>7 DEF IsTop, Rises
      <4>2. \A i \in 1 .. k : k \in i .. k
        BY <1>1
      <4> QED BY <3>1, <4>1, <4>2
    <3>2. CASE next.peak = fall
      <4>1. fall = 0 \/ \E i \in 1 .. k : Fall(m, values, i, k) = fall
        BY <1>8 DEF IsTop, Falls
      <4>2. \A i \in 1 .. k : k \in i .. k
        BY <1>1
      <4> QED BY <3>2, <4>1, <4>2
    <3>3. CASE next.peak = at.peak
      <4>1. \A i \in 1 .. n : i \in 1 .. k /\ \A j \in i .. n : j \in i .. k
        BY <1>1
      <4> QED BY <1>6, <3>3, <4>1 DEF PeakOK
    <3> QED BY <1>3, <3>1, <3>2, <3>3
  <2> QED BY <2>1, <2>2, <2>3 DEF PeakOK
<1> QED BY <1>3, <1>7, <1>8, <1>10, <1>11 DEF CusumOK, next

LEMMA CusumIsPeak ==
  ASSUME NEW m, Numeric(m), NEW values \in Seq(Int)
  PROVE  PeakOK(m, values, Cusum(m, values), Len(values))
<1> DEFINE N == Len(values)
           path == CusumPath(m, values)
           good == {k \in 0 .. N : CusumOK(m, values, path[k], k)}
<1>1. N \in Nat
  OBVIOUS
<1>2. /\ Cusum(m, values) = path[N].peak
      /\ \A k \in 0 .. N : path[k] \in CusumStates
      /\ path[0] = CusumStart
      /\ \A k \in 1 .. N : path[k] = CusumStep(m, path[k - 1], values[k])
  BY CusumPathIs
<1> HIDE DEF path
<1>3. 0 \in good
  <2>1. CusumStart.up = 0 /\ CusumStart.peak = 0 /\ CusumStart.down = 0
    BY DEF CusumStart
  <2>2. -CusumStart.down = 0 /\ 1 .. 0 = {}
    <3>1. \A d \in Int : d <= 0 /\ d >= 0 => -d \in Int /\ -d <= 0 /\ -d >= 0
      OBVIOUS
    <3>2. \A e \in Int : e <= 0 /\ e >= 0 => e = 0
      OBVIOUS
    <3>3. CusumStart.down \in Int /\ CusumStart.down <= 0 /\ CusumStart.down >= 0
      BY <2>1
    <3>4. -CusumStart.down = 0
      BY <3>1, <3>2, <3>3, Zenon
    <3> QED BY <3>4
  <2>3. CusumOK(m, values, CusumStart, 0)
    BY <2>1, <2>2 DEF CusumOK, IsTop, PeakOK
  <2> QED BY <1>1, <1>2, <2>3
<1>4. ASSUME NEW k \in 1 .. N, k - 1 \in good PROVE k \in good
  <2>1. path[k - 1] \in CusumStates /\ CusumOK(m, values, path[k - 1], k - 1)
    BY <1>2, <1>4
  <2>2. CusumOK(m, values, CusumStep(m, path[k - 1], values[k]), k)
    BY <2>1, CusumGoesOn
  <2>3. k \in 0 .. N /\ path[k] = CusumStep(m, path[k - 1], values[k])
    BY <1>1, <1>2
  <2> QED BY <2>2, <2>3
<1>5. 0 .. N \subseteq good
  <2> HIDE DEF good, N
  <2> QED BY <1>1, <1>3, <1>4, IntervalInducts
<1>6. CusumOK(m, values, path[N], N)
  BY <1>1, <1>5
<1> QED BY <1>2, <1>6 DEF CusumOK

\* The largest shift of any run is what the sums have seen.
LEMMA CusumIsLargestShift ==
  ASSUME NEW m, Numeric(m), NEW values \in Seq(Int)
  PROVE  Cusum(m, values) = LargestShift(m, values)
<1> DEFINE N == Len(values)
           peak == Cusum(m, values)
           distance(n) == IF n < 0 THEN -n ELSE n
           Shift(p) == distance(Over(m, values, p[1], p[2])) - (p[2] - p[1] + 1) * Slack(m)
           P == {p \in (1 .. N) \X (1 .. N) : p[1] <= p[2]}
           X == {0} \cup {Shift(p) : p \in P}
<1>1. PeakOK(m, values, peak, N)
  BY CusumIsPeak
<1>2. LargestShift(m, values) = Max(X)
  BY DEF LargestShift, Over
<1>3. ASSUME NEW p \in P
      PROVE  /\ p[1] \in 1 .. N /\ p[2] \in p[1] .. N
             /\ Shift(p) \in Int /\ Shift(p) <= peak
             /\ Rise(m, values, p[1], p[2]) <= Shift(p) /\ Fall(m, values, p[1], p[2]) <= Shift(p)
  <2> DEFINE i == p[1]
             j == p[2]
             o == Over(m, values, i, j)
             s == (j - i + 1) * Slack(m)
  <2>1. i \in 1 .. N /\ j \in i .. N
    BY <1>3
  <2>2. o \in Int
    BY <2>1, OverGrows
  <2>3. /\ Rise(m, values, i, j) \in Int /\ Fall(m, values, i, j) \in Int
        /\ Rise(m, values, i, j) = o - s /\ Fall(m, values, i, j) = -o - s
    BY <2>1, RunsGrow DEF Rise, Fall
  <2>4. s \in Int
    <3>1. Slack(m) \in Int
      <4>1. 0 \in Int
        OBVIOUS
      <4> QED BY <4>1, ResidualIs
    <3>2. j - i + 1 \in Int
      BY <2>1
    <3> QED BY <3>1, <3>2
  <2>5. Shift(p) = (IF o < 0 THEN -o ELSE o) - s
    OBVIOUS
  <2>6. peak \in Int /\ Rise(m, values, i, j) <= peak /\ Fall(m, values, i, j) <= peak
    BY <1>1, <2>1 DEF PeakOK
  <2> HIDE DEF o, s, i, j, peak
  <2>7. /\ Shift(p) \in Int /\ Shift(p) <= peak
        /\ Rise(m, values, i, j) <= Shift(p) /\ Fall(m, values, i, j) <= Shift(p)
    <3> HIDE DEF Shift
    <3> QED BY <2>2, <2>3, <2>4, <2>5, <2>6
  <2> QED BY <2>1, <2>7 DEF i, j
<1>4. peak \in Int /\ peak >= 0
  BY <1>1 DEF PeakOK
<1>5. peak \in X
  <2>1. CASE peak = 0
    BY <2>1
  <2>2. CASE peak # 0
    <3>1. PICK i \in 1 .. N : \E j \in i .. N :
            peak = Rise(m, values, i, j) \/ peak = Fall(m, values, i, j)
      BY <1>1, <2>2 DEF PeakOK
    <3>2. PICK j \in i .. N : peak = Rise(m, values, i, j) \/ peak = Fall(m, values, i, j)
      BY <3>1
    <3> DEFINE p == <<i, j>>
    <3>3. p \in P /\ p[1] = i /\ p[2] = j
      BY <3>1, <3>2
    <3> HIDE DEF p, P, Shift
    <3>4. Shift(p) = peak
      BY <1>3, <1>4, <3>2, <3>3
    <3> QED BY <3>3, <3>4
  <2> QED BY <2>1, <2>2
<1>6. X \subseteq Int /\ \A x \in X : x <= peak
  <2> HIDE DEF Shift, P, peak
  <2> QED BY <1>3, <1>4
<1> HIDE DEF X, peak
<1>7. Max(X) \in X /\ \A x \in X : x <= Max(X)
  BY <1>5, <1>6, GreatestIs
<1>8. Max(X) \in Int /\ Max(X) <= peak /\ peak <= Max(X)
  BY <1>5, <1>6, <1>7
<1>9. Max(X) = peak
  BY <1>4, <1>8
<1> QED BY <1>2, <1>9 DEF peak

-----------------------------------------------------------------------------
(* The drift invariant: what is stored reads back, if its names are not    *)
(* empty and its values more than one, and what was reported               *)
(* still follows from it, for a new sample or baseline retires the report. *)

DriftInv ==
  /\ past \in Seq(Samples) /\ recent \in Seq(Samples)
  /\ baseline # NoValue => MaterialOK(baseline)
  /\ report # NoValue => report.status \in DriftStatuses \cup {"insufficient_data"}
  /\ VerdictShowsWorstShift

LEMMA DriftInitInv == DriftInit => DriftInv
<1> SUFFICES ASSUME DriftInit PROVE DriftInv
  OBVIOUS
<1>1. past = <<>> /\ recent = <<>> /\ baseline = NoValue /\ report = NoValue
  BY DEF DriftInit
<1>2. <<>> \in Seq(Samples)
  OBVIOUS
<1> QED BY <1>1, <1>2 DEF DriftInv, VerdictShowsWorstShift

LEMMA EvaluatedIs ==
  ASSUME NEW seq \in Seq(Samples)
  PROVE  Evaluated(seq) \in Seq(Int)
<1> DEFINE values == ValuesOf(seq)
           a == Len(values) - EvaluationSamples + 1
           from == Max({1, a})
<1>1. values \in Seq(Int)
  BY ValuesAre
<1>2. Evaluated(seq) = SubSeq(values, from, Len(values))
  BY DEF Evaluated
<1> HIDE DEF values
<1>3. a \in Int
  BY <1>1, SettingsAreNatural
<1> HIDE DEF a
<1>4. from = IF 1 >= a THEN 1 ELSE a
  BY <1>3, GreatestOfTwo
<1> HIDE DEF from
<1>5. from \in Int /\ from >= 1
  BY <1>3, <1>4
<1>6. SubSeq(values, from, Len(values)) \in Seq(Int)
  BY <1>1, <1>5
<1> QED BY <1>2, <1>6

LEMMA ReportStep ==
  ASSUME DriftInv, NEW confidence \in DriftStatuses, NEW kind \in DriftStatuses,
         Report(confidence, kind)
  PROVE  DriftInv'
<1> DEFINE bins == ConfidenceCounts(recent)
           kinds == KindCounts(baseline.labels, recent)
           trace == StatusOfMetric(baseline, Cusum(baseline, Evaluated(recent)))
           reasons == {HistogramReason, TraceReason}
           shift == StatusOfMetric(baseline, LargestShift(baseline, Evaluated(recent)))
<1>1. /\ past \in Seq(Samples) /\ recent \in Seq(Samples)
      /\ baseline # NoValue /\ MaterialOK(baseline)
      /\ past' = past /\ recent' = recent /\ baseline' = baseline
  BY DEF DriftInv, Report
<1>2. /\ report'.bins = bins /\ report'.kinds = kinds /\ report'.histograms = {confidence, kind}
      /\ report'.status = IF reasons # {"none"} THEN "insufficient_data"
                          ELSE Aggregate({confidence, kind, trace})
  BY DEF Report
<1> HIDE DEF reasons
<1>3. Numeric(baseline) /\ Evaluated(recent) \in Seq(Int)
  <2>1. ReadsBack(baseline) /\ baseline.deviation # NoValue
    BY DEF Report, ReadsBack
  <2> QED BY <1>1, <2>1, EvaluatedIs DEF MaterialOK, Numeric
<1>4. trace = shift
  BY <1>3, CusumIsLargestShift
<1>5. {Total(bins), Total(kinds)} = {Len(recent)}
  <2>1. PICK seq \in Seq(Samples) : LabelsOK(seq, baseline.labels)
    BY <1>1 DEF MaterialOK
  <2>2. Total(kinds) = Len(recent)
    BY <1>1, <2>1, KindCountsAre
  <2>3. Total(bins) = Len(recent)
    BY <1>1, ConfidenceCountsAre
  <2> QED BY <2>2, <2>3
<1> HIDE DEF bins, kinds, trace
<1>6. report'.status \in DriftStatuses \cup {"insufficient_data"}
  BY <1>2 DEF Aggregate, DriftStatuses
<1>7. ASSUME report'.status \in DriftStatuses
      PROVE  report'.status = Aggregate({confidence, kind} \cup {shift})
  <2>1. "insufficient_data" \notin DriftStatuses
    BY DEF DriftStatuses
  <2>2. report'.status = Aggregate({confidence, kind, trace})
    BY <1>2, <1>7, <2>1
  <2>3. {confidence, kind, trace} = {confidence, kind} \cup {shift}
    BY <1>4
  <2> QED BY <2>2, <2>3
<1>8. VerdictShowsWorstShift'
  <2>1. shift' = shift
    BY <1>1 DEF StatusOfMetric, LargestShift, Scale, Slack, Residual, Evaluated, ValuesOf, Total
  <2> QED
    BY <1>1, <1>2, <1>5, <1>7, <2>1 DEF VerdictShowsWorstShift, Aggregate
<1> QED BY <1>1, <1>6, <1>8 DEF DriftInv

LEMMA DriftStep == DriftInv /\ [DriftNext]_driftVars => DriftInv'
<1> SUFFICES ASSUME DriftInv, [DriftNext]_driftVars PROVE DriftInv'
  OBVIOUS
<1>1. /\ past \in Seq(Samples) /\ recent \in Seq(Samples)
      /\ baseline # NoValue => MaterialOK(baseline)
  BY DEF DriftInv
<1>2. ASSUME past' \in Seq(Samples), recent' \in Seq(Samples), report' = NoValue,
             baseline' # NoValue => MaterialOK(baseline')
      PROVE  DriftInv'
  BY <1>2 DEF DriftInv, VerdictShowsWorstShift, MaterialOK, LabelsOK, ReadsBack, Nameless
<1>3. ASSUME NEW s \in PastSamples, NEW i \in 1 .. MaxSamples, PastSample(i, s) PROVE DriftInv'
  <2>1. s \in Samples /\ i \in 1 .. Len(past) + 1
    BY <1>3, SamplesAreSamples DEF PastSample, RoomAt
  <2>2. /\ past' = SampleAt(past, i, s) /\ report' = NoValue
        /\ recent' = recent /\ baseline' = baseline
    BY <1>3 DEF PastSample
  <2>3. past' \in Seq(Samples)
    BY <1>1, <2>1, <2>2, SampleAtIs
  <2> QED BY <1>1, <1>2, <2>2, <2>3
<1>4. ASSUME NEW s \in RecentSamples, NEW i \in 1 .. MaxSamples, RecentSample(i, s) PROVE DriftInv'
  <2>1. s \in Samples /\ i \in 1 .. Len(recent) + 1
    BY <1>4, SamplesAreSamples DEF RecentSample, RoomAt
  <2>2. /\ recent' = SampleAt(recent, i, s) /\ report' = NoValue
        /\ past' = past /\ baseline' = baseline
    BY <1>4 DEF RecentSample
  <2>3. recent' \in Seq(Samples)
    BY <1>1, <2>1, <2>2, SampleAtIs
  <2> QED BY <1>1, <1>2, <2>2, <2>3
<1>5. CASE CreateBaseline
  <2>1. /\ baseline' = Material(past) /\ Material(past).count >= MinBaseline
        /\ report' = NoValue /\ past' = past /\ recent' = recent /\ Measurable(past)
    BY <1>5 DEF CreateBaseline
  <2>2. Len(ValuesOf(past)) >= MinBaseline
    BY <2>1 DEF Material
  <2>3. MaterialOK(Material(past))
    BY <1>1, <2>1, <2>2, MaterialReadsBack
  <2>4. MaterialOK(baseline')
    BY <2>1, <2>3
  <2> QED BY <1>1, <1>2, <2>1, <2>4
<1>6. CASE UNCHANGED driftVars
  <2>1. past' = past /\ recent' = recent /\ baseline' = baseline /\ report' = report
    BY <1>6 DEF driftVars
  <2>2. StatusOfMetric(baseline, LargestShift(baseline, Evaluated(recent)))'
          = StatusOfMetric(baseline, LargestShift(baseline, Evaluated(recent)))
    BY <2>1 DEF StatusOfMetric, LargestShift, Scale, Slack, Residual, Evaluated, ValuesOf, Total
  <2>3. VerdictShowsWorstShift'
    BY <2>1, <2>2 DEF DriftInv, VerdictShowsWorstShift
  <2>4. baseline' # NoValue => MaterialOK(baseline')
    BY <1>1, <2>1
  <2> QED BY <1>1, <2>1, <2>3, <2>4 DEF DriftInv
<1> QED BY <1>3, <1>4, <1>5, <1>6, ReportStep DEF DriftNext

LEMMA DriftInvariant == DriftSpec => []DriftInv
BY DriftInitInv, DriftStep, PTL DEF DriftSpec

\* The windows, the stored baseline and the report are well typed (eval/drift.py).
THEOREM DriftTypeCorrect == DriftSpec => []DriftTypeOK
<1>1. DriftInv => DriftTypeOK
  BY DEF DriftInv, MaterialOK, LabelsOK, DriftTypeOK
<1> QED BY <1>1, DriftInvariant, PTL

\* Whatever samples a baseline is made of, the reader's checks accept what the
\* writer stored, but for an empty type or version among its names and for the
\* deviation of a single value (calculate_baseline, _material_from_record).
THEOREM BaselineReadsBackHolds == DriftSpec => []BaselineReadsBack
<1>1. DriftInv => BaselineReadsBack
  BY DEF DriftInv, MaterialOK, BaselineReadsBack
<1> QED BY <1>1, DriftInvariant, PTL

\* A verdict is that of its worst signal, each histogram counts every recent
\* decision once, and the CUSUM's two running sums find the largest shift of any
\* run of the evaluated values (calculate_report, _cusum_path).
THEOREM VerdictShowsWorstShiftHolds == DriftSpec => []VerdictShowsWorstShift
<1>1. DriftInv => VerdictShowsWorstShift
  BY DEF DriftInv
<1> QED BY <1>1, DriftInvariant, PTL

-----------------------------------------------------------------------------
(***************************************************************************)
(* All of them over one store: each goes its own way, and a behaviour's    *)
(* counterfactual runs are those of the command line or of the worker.     *)
(***************************************************************************)
\* Judge runs, drift reports, the views and the scheduler's commands behave in
\* the composition as they do alone: they write to no table of each other.
THEOREM EvaluationsAreIndependent == Spec => JudgeSpec /\ DriftSpec /\ ViewSpec /\ PlistSpec
<1>1. Init => JudgeInit /\ DriftInit /\ ViewInit /\ PlistInit
  BY DEF Init
<1>2. ASSUME [Next]_evaluationVars
      PROVE  /\ [JudgeNext]_judgeVars /\ [DriftNext]_driftVars
             /\ [ViewNext]_viewVars /\ [PlistNext]_plistVars
  <2>1. CASE UNCHANGED evaluationVars
    BY <2>1 DEF evaluationVars, judgeVars, driftVars, viewVars, plistVars
  <2>2. CASE JudgeNext /\ UNCHANGED <<driftVars, viewVars, plistVars>>
    BY <2>2
  <2>3. CASE DriftNext /\ UNCHANGED <<judgeVars, viewVars, plistVars>>
    BY <2>3
  <2>4. CASE ViewNext /\ UNCHANGED <<judgeVars, driftVars, plistVars>>
    BY <2>4
  <2>5. CASE PlistNext /\ UNCHANGED <<judgeVars, driftVars, viewVars>>
    BY <2>5
  <2>6. CASE UNCHANGED <<judgeVars, driftVars, viewVars, plistVars>>
    BY <2>6
  <2> QED BY <1>2, <2>1, <2>2, <2>3, <2>4, <2>5, <2>6 DEF Next
<1> QED BY <1>1, <1>2, PTL DEF Spec, JudgeSpec, DriftSpec, ViewSpec, PlistSpec

\* The executor's invariant holds under the runs of the command line too, which
\* share its store and leave its queue alone.
LEMMA RunnersInvariant == Spec => []ShadowInv
<1>1. Init => ShadowInv
  BY ShadowInitInv DEF Init
<1>2. ASSUME ShadowInv, [Next]_evaluationVars PROVE ShadowInv'
  <2>1. CASE [ShadowNext]_shadowVars
    BY <1>2, <2>1, ShadowStep
  <2>2. CASE CounterfactualNext /\ UNCHANGED <<handle, caller, queue, active, working, accepted>>
    <3>1. RunsInv'
      BY <1>2, <2>2, CommandRunStep DEF ShadowInv
    <3>2. ExecutorOK'
      BY <1>2, <2>2 DEF ShadowInv, ExecutorOK
    <3>3. ASSUME NEW h \in Handles PROVE HandleOK(h)'
      BY <1>2, <2>2 DEF ShadowInv, HandleOK, Has, Asking
    <3> QED BY <3>1, <3>2, <3>3 DEF ShadowInv
  <2>3. CASE UNCHANGED shadowVars
    BY <2>1, <2>3
  <2> QED BY <1>2, <2>1, <2>2, <2>3 DEF Next, evaluationVars
<1> QED BY <1>1, <1>2, PTL DEF Spec

\* Every table, window and command keeps its type while the components work.
THEOREM EvaluationTypeCorrect == Spec => []EvaluationTypeOK
<1>1. ShadowTypeOK /\ JudgeTypeOK /\ DriftTypeOK /\ ViewTypeOK /\ PlistTypeOK => EvaluationTypeOK
  BY DEF EvaluationTypeOK
<1> QED BY <1>1, ShadowIsTyped, EvaluationsAreIndependent, RunnersInvariant, JudgeTypeCorrect,
           DriftTypeCorrect, ViewTypeCorrect, PlistTypeCorrect, PTL

\* Over one store, whichever of its parts a behaviour is, every command and view
\* keeps what it promises.
THEOREM EvaluationKeepsItsPromises ==
  Spec => /\ [](RunsKeepTheirWord /\ ShadowKeepsBooks /\ CalibrationMatchesHistory)
          /\ [](BaselineReadsBack /\ VerdictShowsWorstShift /\ ViewsShowEverything)
          /\ ForeignFilesSurvive
<1>1. ShadowInv => RunsKeepTheirWord /\ ShadowKeepsBooks
  BY WordIsKept, BooksAreKept DEF ShadowInv
<1> QED BY <1>1, EvaluationsAreIndependent, RunnersInvariant, CalibrationMatchesHistoryHolds,
           BaselineReadsBackHolds, VerdictShowsWorstShiftHolds, ViewsShowEverythingHolds,
           ForeignFilesSurviveHolds, PTL
=============================================================================
