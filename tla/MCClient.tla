------------------------------- MODULE MCClient -------------------------------
(***************************************************************************)
(* Three parts of the desktop client in one run: the consent loop, the     *)
(* connection loop and the microphone.  They do not share state; each      *)
(* behaviour is one of one of them, which is chosen at the beginning.      *)
(***************************************************************************)
EXTENDS ConsentLoop

\* Those of SyncClient and of Microphone.
CONSTANTS Campaign, MaxCommands, MaxFaults, MaxExponent, MaxChanges, MaxLosses

VARIABLES
  part,
  pc, commands, given, subscriptions, session, socket, attempt, knows, faults, unheard, unsaid,
  userMuted, gateHeld, push, flag, room, device, joining, client, changes, losses, behind, missed

Connection == INSTANCE SyncClient WITH app <- knows
Mic == INSTANCE Microphone

connectionVars ==
  <<pc, commands, given, subscriptions, session, socket, attempt, knows, faults, unheard, unsaid>>
micVars == <<userMuted, gateHeld, push, flag, room, device, joining, client, changes, losses, behind, missed>>

InitClient ==
  /\ part \in {"consent", "connection", "microphone"}
  /\ Init /\ Connection!Init /\ Mic!Init

ConsentStep    == part = "consent" /\ Next /\ UNCHANGED <<part, connectionVars, micVars>>
ConnectionStep == part = "connection" /\ Connection!Next /\ UNCHANGED <<part, vars, micVars>>
MicStep        == part = "microphone" /\ Mic!Next /\ UNCHANGED <<part, vars, connectionVars>>

NextClient == ConsentStep \/ ConnectionStep \/ MicStep

ClientSpec == InitClient /\ [][NextClient]_<<part, vars, connectionVars, micVars>>

\* Only the connection loop is under a fairness assumption.
FairClientSpec == ClientSpec /\ (part = "connection" => Connection!Fairness)

-----------------------------------------------------------------------------

\* See SyncClient.FollowsTheApp.
FollowsTheApp == Connection!FollowsTheApp

\* See SyncClient.AppKnows.
AppKnows == Connection!AppKnows

\* See SyncClient.IsResumed.
IsResumed == part = "connection" => Connection!IsResumed

\* See Microphone.MicFollows.
MicFollows == Mic!MicFollows
=============================================================================
