--------------------------- MODULE SchedulerPlist ---------------------------
(***************************************************************************)
(* The drift scheduler's LaunchAgent file.  `schedule install' publishes   *)
(* the file under its managed name and loads it into launchd, `schedule    *)
(* remove' unloads and deletes it; both leave files they do not own alone. *)
(* Between any two of their system calls another operator, or a program    *)
(* that is not Glassbox, may change what the name holds.  A file is its    *)
(* bytes: two installs with the same settings write the same file.         *)
(***************************************************************************)
CONSTANTS
  Operators,    \* schedule commands at work
  Owned,        \* the files Glassbox renders: its label and its marker
  Foreign,      \* files (or links) of other programs
  NoEntry       \* no directory entry

ASSUME ForeignIsNotOwned ==
  /\ Owned \cap Foreign = {}
  /\ NoEntry \notin Owned \cup Foreign

VARIABLES
  plist,        \* what the managed name holds
  aside,        \* aside[p]: what p's own temporary or quarantine name holds
  litter,       \* what ended or killed commands left under private names
  job,          \* the definition launchd has loaded, or NoEntry
  command       \* command[p] = [at, previous, data]

plistVars == <<plist, aside, litter, job, command>>

Entries == Owned \cup Foreign
CommandSteps ==
  {"idle", "link", "bootout", "recheck", "check", "swap", "displaced", "rejected",
   "bootstrap", "failed bootstrap", "query", "unload", "confirm", "capture", "verify"}
NoCommand == [at |-> "idle", previous |-> NoEntry, data |-> NoEntry]

PlistInit ==
  /\ plist \in {NoEntry} \cup Entries
  /\ aside = [p \in Operators |-> NoEntry]
  /\ litter = {}
  /\ job \in {NoEntry, plist} \ Foreign
  /\ command = [p \in Operators |-> NoCommand]

At(p, step) == command[p].at = step
Goes(p, step) == command' = [command EXCEPT ![p].at = step]
Ends(p) == command' = [command EXCEPT ![p] = NoCommand]
Keeps(p, entry) == aside' = [aside EXCEPT ![p] = entry]

-----------------------------------------------------------------------------
(* install_drift_schedule and _write_atomic.                               *)

\* The first _owned: a foreign file, or an own one without --replace, ends the
\* command; with no file the new one is linked, with an own one it is swapped.
Install(p, data, replace) ==
  /\ At(p, "idle")
  /\ plist \in {NoEntry} \cup (IF replace THEN Owned ELSE {})
  /\ IF plist = NoEntry THEN Keeps(p, data) ELSE UNCHANGED aside
  /\ command' = [command EXCEPT ![p] =
       [at |-> IF plist = NoEntry THEN "link" ELSE "bootout", previous |-> plist, data |-> data]]
  /\ UNCHANGED <<plist, litter, job>>

\* os.link refuses a name that is taken; the temporary file is removed.
Link(p) ==
  /\ At(p, "link")
  /\ Keeps(p, NoEntry)
  /\ IF plist = NoEntry
       THEN plist' = command[p].data /\ Goes(p, "bootstrap")
       ELSE UNCHANGED plist /\ Ends(p)
  /\ UNCHANGED <<litter, job>>

\* launchctl bootout of the file about to be replaced; a failure ends the command.
Bootout(p) ==
  /\ At(p, "bootout")
  /\ \/ job' = NoEntry /\ Goes(p, "recheck")
     \/ UNCHANGED job /\ Ends(p)
  /\ UNCHANGED <<plist, aside, litter>>

\* The file is read again after launchctl, then the new one is written aside.
Recheck(p) ==
  /\ At(p, "recheck")
  /\ IF plist = command[p].previous
       THEN Keeps(p, command[p].data) /\ Goes(p, "check")
       ELSE UNCHANGED aside /\ Ends(p)
  /\ UNCHANGED <<plist, litter, job>>

\* And once more before the swap; otherwise the temporary file is removed.
CheckBeforeSwap(p) ==
  /\ At(p, "check")
  /\ IF plist = command[p].previous
       THEN UNCHANGED aside /\ Goes(p, "swap")
       ELSE Keeps(p, NoEntry) /\ Ends(p)
  /\ UNCHANGED <<plist, litter, job>>

\* RENAME_SWAP exchanges two existing names; it fails when one is missing.
Swap(p) ==
  /\ At(p, "swap")
  /\ IF plist # NoEntry
       THEN plist' = aside[p] /\ Keeps(p, plist) /\ Goes(p, "displaced")
       ELSE UNCHANGED plist /\ Keeps(p, NoEntry) /\ Ends(p)
  /\ UNCHANGED <<litter, job>>

\* The displaced file is deleted without another look (the mutant of Displaced).
DisplacedUnread(p) ==
  /\ At(p, "displaced")
  /\ UNCHANGED <<plist, litter, job>> /\ Keeps(p, NoEntry) /\ Goes(p, "bootstrap")

\* The private name now holds what the swap displaced: the file that was read,
\* which is deleted, or an arrival, which is swapped back.  If the name has
\* become empty the swap back fails, and the arrival stays under the private one.
Displaced(p) ==
  /\ At(p, "displaced")
  /\ UNCHANGED job
  /\ IF aside[p] = command[p].previous
       THEN UNCHANGED <<plist, litter>> /\ Keeps(p, NoEntry) /\ Goes(p, "bootstrap")
     ELSE IF plist # NoEntry
       THEN plist' = aside[p] /\ Keeps(p, plist) /\ Goes(p, "rejected") /\ UNCHANGED litter
       ELSE /\ litter' = litter \cup {aside[p]} /\ Keeps(p, NoEntry) /\ Ends(p)
            /\ UNCHANGED plist

\* What the swap back brought is deleted only when it is the new file.
Rejected(p) ==
  /\ At(p, "rejected")
  /\ litter' = IF aside[p] = command[p].data THEN litter ELSE litter \cup {aside[p]}
  /\ Keeps(p, NoEntry) /\ Ends(p)
  /\ UNCHANGED <<plist, job>>

\* launchctl bootstrap loads the file the name holds now, or fails.
Bootstrap(p) ==
  /\ At(p, "bootstrap")
  /\ \/ plist # NoEntry /\ job' = plist /\ Ends(p)
     \/ UNCHANGED job /\ Goes(p, "failed bootstrap")
  /\ UNCHANGED <<plist, aside, litter>>

\* A file that could not be loaded is discarded if the name still holds it.
FailedBootstrap(p) ==
  /\ At(p, "failed bootstrap")
  /\ IF plist = command[p].data THEN Goes(p, "capture") ELSE Ends(p)
  /\ UNCHANGED <<plist, aside, litter, job>>

-----------------------------------------------------------------------------
(* remove_drift_schedule and _discard_owned.                               *)

Remove(p) ==
  /\ At(p, "idle") /\ plist \in Owned
  /\ command' = [command EXCEPT ![p] =
       [at |-> "query", previous |-> plist, data |-> plist]]
  /\ UNCHANGED <<plist, aside, litter, job>>

\* launchctl print: loaded, not loaded, or no answer, which ends the command.
\* The file is read again before anything is unloaded.
Query(p) ==
  /\ At(p, "query")
  /\ \/ plist = command[p].previous
        /\ IF job = NoEntry THEN Goes(p, "confirm") ELSE Goes(p, "unload")
     \/ Ends(p)
  /\ UNCHANGED <<plist, aside, litter, job>>

Unload(p) ==
  /\ At(p, "unload")
  /\ \/ job' = NoEntry /\ Goes(p, "confirm")
     \/ UNCHANGED job /\ Ends(p)
  /\ UNCHANGED <<plist, aside, litter>>

Confirm(p) ==
  /\ At(p, "confirm")
  /\ IF plist = command[p].previous THEN Goes(p, "capture") ELSE Ends(p)
  /\ UNCHANGED <<plist, aside, litter, job>>

\* The entry is moved to a quarantine name, whatever it has become.
Capture(p) ==
  /\ At(p, "capture")
  /\ IF plist # NoEntry
       THEN plist' = NoEntry /\ Keeps(p, plist) /\ Goes(p, "verify")
       ELSE UNCHANGED <<plist, aside>> /\ Ends(p)
  /\ UNCHANGED <<litter, job>>

\* The captured file is deleted if it is the expected one; anything else goes
\* back to the name if that is free, and stays in quarantine if it is not.
Verify(p) ==
  /\ At(p, "verify")
  /\ IF aside[p] = command[p].data THEN UNCHANGED <<plist, litter>>
     ELSE IF plist = NoEntry THEN plist' = aside[p] /\ UNCHANGED litter
     ELSE litter' = litter \cup {aside[p]} /\ UNCHANGED plist
  /\ Keeps(p, NoEntry) /\ Ends(p)
  /\ UNCHANGED job

-----------------------------------------------------------------------------
(* Everybody else.                                                         *)

\* Another program creates its file under the managed name, over an own file,
\* or takes its own away.
Intrude(f) ==
  /\ \/ plist \notin Foreign /\ plist' = f
     \/ plist = f /\ plist' = NoEntry
  /\ f \notin litter /\ \A p \in Operators : aside[p] # f
  /\ UNCHANGED <<aside, litter, job, command>>

\* A command is killed; what it kept aside stays there.
CommandKilled(p) ==
  /\ ~At(p, "idle")
  /\ litter' = litter \cup ({aside[p]} \ {NoEntry})
  /\ Keeps(p, NoEntry) /\ Ends(p)
  /\ UNCHANGED <<plist, job>>

CommandStep(p) ==
  \/ \E data \in Owned, replace \in BOOLEAN : Install(p, data, replace)
  \/ Link(p) \/ Bootout(p) \/ Recheck(p) \/ CheckBeforeSwap(p) \/ Swap(p)
  \/ Displaced(p) \/ Rejected(p) \/ Bootstrap(p) \/ FailedBootstrap(p)
  \/ Remove(p) \/ Query(p) \/ Unload(p) \/ Confirm(p) \/ Capture(p) \/ Verify(p)
  \/ CommandKilled(p)

PlistNext == (\E p \in Operators : CommandStep(p)) \/ \E f \in Foreign : Intrude(f)

PlistSpec == PlistInit /\ [][PlistNext]_plistVars

-----------------------------------------------------------------------------
(* Properties.                                                             *)

PlistTypeOK ==
  /\ plist \in Entries \cup {NoEntry}
  /\ aside \in [Operators -> Entries \cup {NoEntry}]
  /\ litter \subseteq Entries
  /\ job \in Entries \cup {NoEntry}
  /\ command \in [Operators -> [at : CommandSteps, previous : Owned \cup {NoEntry},
                                data : Owned \cup {NoEntry}]]

Somewhere == ({plist} \cup litter \cup {aside[p] : p \in Operators}) \ {NoEntry}

\* No command destroys a file that is not Glassbox's, whatever arrives under
\* the managed name between its checks and its renames, and whoever is killed:
\* only its own program makes a foreign file disappear (_write_atomic,
\* _discard_owned).
ForeignFilesSurvive ==
  [][\A f \in Foreign : f \in Somewhere /\ f \notin Somewhere' => plist = f /\ aside' = aside]_plistVars

=============================================================================
