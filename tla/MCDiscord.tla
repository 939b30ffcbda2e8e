----------------------------- MODULE MCDiscord -----------------------------
(***************************************************************************)
(* Small instances of the alerts' delivery for TLC: two kinds of           *)
(* behaviours of DiscordDelivery.tla.  A few invocations meet everything   *)
(* that goes wrong while time passes; more of them, for the limits of the  *)
(* recovery, meet nothing but requests that Discord does not accept.       *)
(***************************************************************************)
EXTENDS DiscordProperties

CONSTANT Few    \* the invocations of the first kind

VARIABLE calm

discordVars == <<vars, calm>>

Present == IF calm THEN Invocations ELSE Few

CalmOrNotInit == Init /\ calm \in BOOLEAN

\* In a calm behaviour no answer to an accepted request is lost.
GoesOn(i) == Continue(i) /\ (calm => unacknowledged' = {}) /\ UNCHANGED calm

Troubled(i) == ~calm /\ (StoreFails(i) \/ Crash(i)) /\ UNCHANGED calm

CalmOrNotNext ==
  \/ \E i \in Present : GoesOn(i) \/ Troubled(i) \/ (Persist(i) /\ UNCHANGED calm)
  \/ ~calm /\ Tick /\ UNCHANGED calm
  \/ (\A i \in Present : proc[i].at = "done") /\ UNCHANGED discordVars

CalmOrNotSpec ==
  CalmOrNotInit /\ [][CalmOrNotNext]_discordVars /\ \A i \in Invocations : WF_discordVars(GoesOn(i))
=============================================================================
