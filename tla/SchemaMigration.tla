--------------------------- MODULE SchemaMigration ---------------------------
(***************************************************************************)
(* Opening the event store: several processes open one database file at    *)
(* once, and the first to get SQLite's write lock moves it one release     *)
(* forward.  An opener reads the fingerprint of the schema without a lock, *)
(* chooses the transition that starts there, and reads the fingerprint     *)
(* again under the lock before it rewrites anything: the file may have     *)
(* been upgraded meanwhile.  A transition is one transaction; a rebuild    *)
(* renames tables, copies their rows and drops the old ones with the       *)
(* connection's foreign keys off.                                          *)
(***************************************************************************)
EXTENDS Naturals

CONSTANTS
  Openers,      \* processes, each opening the file for itself
  Releases,     \* the number of released schemas: 1 .. Releases
  Rebuilds,     \* the releases that are left by rebuilding tables
  Checked,      \* the transitions out of which foreign keys are checked
  Records,      \* what the tables hold
  Loose,        \* records with a loose timestamp, fit for release 1 only
  Orphans,      \* records whose parent is gone
  Unknown,      \* the fingerprint of a schema that was never released
  Nobody        \* nobody holds the write lock

\* The newest release is not the one an empty file is left for, and nothing is
\* rebuilt out of it.
ASSUME ReleasesAreNumbers ==
  /\ Releases \in Nat \ {0, 1}
  /\ Rebuilds \subseteq 0 .. Releases - 1
ASSUME OthersAreOthers == Unknown \notin 0 .. Releases /\ Nobody \notin Openers

VARIABLES
  file,         \* the committed file: [schema, rows, old], schema 0 when empty
  draft,        \* what the holder of the write lock would commit
  locked,       \* the opener in a write transaction, or Nobody
  opener,       \* opener[o] = [at, seen, keys]: step, fingerprint, foreign keys on
  recorded      \* ghost: every record committed so far

schemaVars == <<file, draft, locked, opener, recorded>>

OpenSteps == {"closed", "probe", "begin", "probe again", "create", "copy", "check",
              "drop", "commit", "open", "reading", "refused", "busy", "unsupported", "bad rows"}
Fingerprints == 0 .. Releases \cup {Unknown}
Files == [schema : Fingerprints, rows : SUBSET Records, old : SUBSET Records]

\* Any release, with records that release could hold.
SchemaInit ==
  /\ file \in {f \in Files : /\ f.old = {}
                             /\ f.schema \notin {1, Unknown} => f.rows \cap Loose = {}
                             /\ f.schema = 0 => f.rows = {}}
  /\ draft = file
  /\ locked = Nobody
  /\ opener = [o \in Openers |-> [at |-> "closed", seen |-> 0, keys |-> FALSE]]
  /\ recorded = file.rows

MovesTo(o, at) == opener' = [opener EXCEPT ![o].at = at]

\* Every way out of a transition restores the connection's foreign keys.
Leaves(o, at) == opener' = [opener EXCEPT ![o].at = at, ![o].keys = TRUE]

Unlocks(o) == locked' = IF locked = o THEN Nobody ELSE locked

-----------------------------------------------------------------------------
(* Database.open.                                                          *)

Open(o) ==
  /\ opener[o].at = "closed"
  /\ opener' = [opener EXCEPT ![o] = [at |-> "probe", seen |-> 0, keys |-> TRUE]]
  /\ UNCHANGED <<file, draft, locked, recorded>>

\* The current release is not told from the others (the mutant of Probe).
ProbeWithoutCurrent(o) ==
  /\ opener[o].at = "probe"
  /\ opener' = [opener EXCEPT ![o] =
       [at |-> IF file.schema = Unknown THEN "unsupported" ELSE "begin",
        seen |-> file.schema,
        keys |-> opener[o].keys /\ file.schema \notin Rebuilds]]
  /\ UNCHANGED <<file, draft, locked, recorded>>

\* One turn of _initialize_schema: the fingerprint chooses the transition.
Probe(o) ==
  /\ opener[o].at = "probe"
  /\ opener' = [opener EXCEPT ![o] =
       [at |-> IF file.schema = Releases THEN "open"
               ELSE IF file.schema = Unknown THEN "unsupported" ELSE "begin",
        seen |-> file.schema,
        keys |-> opener[o].keys /\ file.schema \notin Rebuilds]]
  /\ UNCHANGED <<file, draft, locked, recorded>>

Begin(o) ==
  /\ opener[o].at = "begin"
  /\ locked = Nobody
  /\ locked' = o
  /\ draft' = file
  /\ MovesTo(o, "probe again")
  /\ UNCHANGED <<file, recorded>>

\* The busy timeout passes first.
BeginTimesOut(o) ==
  /\ opener[o].at = "begin"
  /\ locked # Nobody
  /\ Leaves(o, "busy")
  /\ UNCHANGED <<file, draft, locked, recorded>>

\* The transition chosen without the lock is applied (two mutants of ProbeAgain).
TrustFirstProbe(o) ==
  /\ opener[o].at = "probe again"
  /\ MovesTo(o, "create")
  /\ UNCHANGED <<file, draft, locked, recorded>>

OnlyThePredecessor(o) ==
  /\ opener[o].at = "probe again"
  /\ IF file.schema = opener[o].seen
       THEN MovesTo(o, "create") /\ UNCHANGED locked
       ELSE Leaves(o, "unsupported") /\ Unlocks(o)
  /\ UNCHANGED <<file, draft, recorded>>

\* _migration_needed: a later release means that another opener did the work.
ProbeAgain(o) ==
  /\ opener[o].at = "probe again"
  /\ IF file.schema = opener[o].seen
       THEN MovesTo(o, "create") /\ UNCHANGED locked
       ELSE /\ Leaves(o, IF file.schema \in opener[o].seen + 1 .. Releases
                            THEN "probe" ELSE "unsupported")
            /\ Unlocks(o)
  /\ UNCHANGED <<file, draft, recorded>>

\* The new tables: an ordinary migration only adds some, a rebuild renames.
\* Release 0 is an empty file, which release 2 is created in.
Create(o) ==
  /\ opener[o].at = "create"
  /\ LET s == opener[o].seen IN
     /\ draft' = [schema |-> IF s = 0 THEN 2 ELSE s + 1,
                  rows |-> IF s \in Rebuilds THEN {} ELSE file.rows,
                  old |-> IF s \in Rebuilds THEN file.rows ELSE {}]
     /\ MovesTo(o, IF s \in Rebuilds THEN "copy" ELSE "commit")
  /\ UNCHANGED <<file, locked, recorded>>

\* The rows are dropped with the renamed tables (the mutant of Copy).
CopyNothing(o) ==
  /\ opener[o].at = "copy"
  /\ MovesTo(o, "check")
  /\ UNCHANGED <<file, draft, locked, recorded>>

\* Every row is copied, or none: a strict table refuses a loose timestamp.
Copy(o) ==
  /\ opener[o].at = "copy"
  /\ draft.old \cap Loose = {}
  /\ draft' = [draft EXCEPT !.rows = @ \cup draft.old]
  /\ MovesTo(o, "check")
  /\ UNCHANGED <<file, locked, recorded>>

ForeignKeyCheck(o) ==
  /\ opener[o].at = "check"
  /\ opener[o].seen \in Checked => draft.rows \cap Orphans = {}
  /\ MovesTo(o, "drop")
  /\ UNCHANGED <<file, draft, locked, recorded>>

Drop(o) ==
  /\ opener[o].at = "drop"
  /\ draft' = [draft EXCEPT !.old = {}]
  /\ MovesTo(o, "commit")
  /\ UNCHANGED <<file, locked, recorded>>

Commit(o) ==
  /\ opener[o].at = "commit"
  /\ file' = draft
  /\ locked' = Nobody
  /\ Leaves(o, "probe")
  /\ UNCHANGED <<draft, recorded>>

\* Rows the new schema does not take: ROLLBACK, and the error closes the
\* connection.
MigrationFails(o) ==
  /\ \/ opener[o].at = "copy" /\ draft.old \cap Loose # {}
     \/ opener[o].at = "check" /\ opener[o].seen \in Checked /\ draft.rows \cap Orphans # {}
  /\ Unlocks(o)
  /\ Leaves(o, "bad rows")
  /\ UNCHANGED <<file, draft, recorded>>

\* A process is killed: SQLite rolls its transaction back.
OpenerKilled(o) ==
  /\ opener[o].at # "closed"
  /\ opener' = [opener EXCEPT ![o] = [at |-> "closed", seen |-> 0, keys |-> FALSE]]
  /\ Unlocks(o)
  /\ UNCHANGED <<file, draft, recorded>>

-----------------------------------------------------------------------------
(* Database.open_read_only, and the writes of an open connection.          *)

OpenReadOnly(o) ==
  /\ opener[o].at = "closed"
  /\ file.schema # 0
  /\ MovesTo(o, IF file.schema = Releases THEN "reading" ELSE "refused")
  /\ UNCHANGED <<file, draft, locked, recorded>>

\* A connection with foreign keys on takes no orphan, the strict schema no
\* loose timestamp.
Write(o, r) ==
  /\ opener[o].at = "open" /\ locked = Nobody
  /\ r \notin file.rows \cup Loose
  /\ opener[o].keys => r \notin Orphans
  /\ file' = [file EXCEPT !.rows = @ \cup {r}]
  /\ recorded' = recorded \cup {r}
  /\ UNCHANGED <<draft, locked, opener>>

SchemaNext ==
  \E o \in Openers :
    \/ Open(o) \/ Probe(o) \/ Begin(o) \/ BeginTimesOut(o) \/ ProbeAgain(o)
    \/ Create(o) \/ Copy(o) \/ ForeignKeyCheck(o) \/ Drop(o) \/ Commit(o)
    \/ MigrationFails(o) \/ OpenerKilled(o) \/ OpenReadOnly(o)
    \/ \E r \in Records : Write(o, r)

SchemaSpec == SchemaInit /\ [][SchemaNext]_schemaVars

-----------------------------------------------------------------------------
SchemaTypeOK ==
  /\ file \in Files /\ draft \in Files
  /\ locked \in Openers \cup {Nobody}
  /\ opener \in [Openers -> [at : OpenSteps, seen : Fingerprints, keys : BOOLEAN]]
  /\ recorded \subseteq Records

\* However many processes open the file, whichever is killed or refused, the
\* committed schema only moves to the next release: no transition is applied
\* twice, skipped or undone.
SchemaOnlyAdvances ==
  [][file'.schema = file.schema \/ file'.schema = (IF file.schema = 0 THEN 2 ELSE file.schema + 1)]_schemaVars

\* No committed file has lost a record or carries a half-finished rebuild.
EveryRecordIsKept == file.rows = recorded /\ file.old = {}

\* An opened connection works on the current schema with its foreign keys on.
OpenedIsCurrent ==
  \A o \in Openers :
    /\ opener[o].at \in {"open", "reading"} => file.schema = Releases
    /\ opener[o].at = "open" => opener[o].keys

\* An open fails as unsupported only for a schema that was never released, and
\* for its rows only when the file has such rows: never because of the others.
FailuresAreDeserved ==
  \A o \in Openers :
    /\ opener[o].at = "unsupported" => file.schema = Unknown
    /\ opener[o].at = "bad rows" => file.rows \cap (Loose \cup Orphans) # {}

\* Both at once: however an open ends, it ends for the right reason.
OpensEndRight == OpenedIsCurrent /\ FailuresAreDeserved
=============================================================================
