------------------------------ MODULE SyncClient ------------------------------
(***************************************************************************)
(* The connection loop of the desktop client: SyncClient (rust-sync        *)
(* client.rs, backoff.rs) around the pure Session (session.rs), with the   *)
(* commands the app may give at any time and a server that accepts or      *)
(* refuses.                                                                *)
(*                                                                         *)
(* Where the cursor of a campaign stands is left to ReplaySync: here a     *)
(* campaign is followed and resumed, or not.                               *)
(***************************************************************************)
EXTENDS Integers, Sequences

CONSTANTS
  Campaign,
  MaxCommands,  \* bound: commands of the app
  MaxFaults,    \* bound: failures of the provider, the network or a socket
  MaxExponent   \* where the delay of the backoff stops growing (16 in the code)

VARIABLES
  pc,             \* where `run' is
  commands,       \* the channel of commands
  given,          \* how many were given
  subscriptions,  \* what `run' remembers
  session,        \* what the Session remembers, across sockets
  socket,         \* what the server got on this socket
  attempt,        \* Backoff.attempt
  app,            \* what the app heard last
  faults,         \* how much went wrong
  unheard,        \* ghost: campaigns left while there was no socket
  unsaid          \* ghost: the socket was given up without a word to the app

vars == <<pc, commands, given, subscriptions, session, socket, attempt, app, faults, unheard, unsaid>>

Command == [op : {"subscribe", "unsubscribe"}, id : Campaign] \cup [op : {"send", "stop"}]

NoSession == [made |-> FALSE, campaigns |-> {}, authenticated |-> FALSE]
NoSocket == [auth |-> FALSE, resumed |-> {}]

\* What the variables hold, and: a connection that has signed in is open and was announced.
TypeOK ==
  /\ pc \in {"provider", "connect", "open", "wait again", "wait", "ended"}
  /\ commands \in Seq(Command) /\ given \in 0..MaxCommands
  /\ subscriptions \subseteq Campaign /\ unheard \subseteq Campaign /\ unsaid \in BOOLEAN
  /\ session \in [made : BOOLEAN, campaigns : SUBSET Campaign, authenticated : BOOLEAN]
  /\ socket \in [auth : BOOLEAN, resumed : SUBSET Campaign]
  /\ attempt \in 0..MaxExponent /\ faults \in 0..MaxFaults
  /\ app \in {"nothing", "connected", "disconnected", "revoked", "incompatible"}
  /\ pc # "open" => socket = NoSocket

Init ==
  /\ pc = "provider" /\ commands = <<>> /\ given = 0
  /\ subscriptions = {} /\ session = NoSession /\ socket = NoSocket
  /\ attempt = 0 /\ app = "nothing" /\ faults = 0
  /\ unheard = {} /\ unsaid = FALSE

-----------------------------------------------------------------------------

\* Something goes wrong.
Fault == faults < MaxFaults /\ faults' = faults + 1

\* Backoff.next_delay: it doubles up to its limit.
NextAttempt == attempt' = IF attempt < MaxExponent THEN attempt + 1 ELSE attempt

\* The socket is gone, and the loop waits before it tries again.
Retry == pc' = "wait" /\ socket' = NoSocket /\ NextAttempt

Emit(event) == app' = event /\ unsaid' = FALSE

\* subscribe, unsubscribe, send, stop
Give(command) ==
  /\ given < MaxCommands /\ pc # "ended"
  /\ given' = given + 1 /\ commands' = Append(commands, command)
  /\ UNCHANGED <<pc, subscriptions, session, socket, attempt, app, faults, unheard, unsaid>>

-----------------------------------------------------------------------------
(* Between connections.                                                    *)

\* The session is made once, with the first token; what was subscribed to meanwhile is followed.
\* Mutant: it is not.
Unfollowed == [session EXCEPT !.made = TRUE]
Followed == [session EXCEPT !.made = TRUE, !.campaigns = @ \cup subscriptions]

ProviderAnswers ==
  /\ pc = "provider" /\ pc' = "connect"
  /\ session' = Followed
  /\ UNCHANGED <<commands, given, subscriptions, socket, attempt, app, faults, unheard, unsaid>>

\* An error of the provider is waited for here, and once more by the loop.
ProviderFails ==
  /\ pc = "provider" /\ Fault /\ pc' = "wait again" /\ NextAttempt
  /\ UNCHANGED <<commands, given, subscriptions, session, socket, app, unheard, unsaid>>

ConnectFails ==
  /\ pc = "connect" /\ Fault /\ Retry
  /\ UNCHANGED <<commands, given, subscriptions, session, app, unheard, unsaid>>

\* on_open, and `auth' is sent unless the socket fails again.
Connect ==
  /\ pc = "connect"
  /\ session' = [session EXCEPT !.authenticated = FALSE]
  /\ \/ /\ pc' = "open" /\ socket' = [NoSocket EXCEPT !.auth = TRUE]
        /\ UNCHANGED <<attempt, faults>>
     \/ Fault /\ Retry
  /\ UNCHANGED <<commands, given, subscriptions, app, unheard, unsaid>>

\* wait
Waiting == pc \in {"wait", "wait again"}

WaitIsOver ==
  /\ \/ pc = "wait again" /\ pc' = "wait" /\ NextAttempt
     \/ pc = "wait" /\ pc' = "provider" /\ UNCHANGED attempt
  /\ UNCHANGED <<commands, given, subscriptions, session, socket, app, faults, unheard, unsaid>>

\* A command in the meantime is remembered, but the session does not hear of it.
Remembered(c) ==
  CASE c.op = "subscribe" -> subscriptions \cup {c.id}
    [] c.op = "unsubscribe" -> subscriptions \ {c.id}
    [] OTHER -> subscriptions

WaitCommand ==
  /\ Waiting /\ commands # <<>>
  /\ LET c == Head(commands) IN
     /\ commands' = Tail(commands)
     /\ subscriptions' = Remembered(c)
     /\ pc' = IF c.op = "stop" THEN "ended" ELSE pc
     /\ unheard' = IF c.op = "unsubscribe" THEN unheard \cup (session.campaigns \cap {c.id})
                   ELSE unheard \ subscriptions'
  /\ UNCHANGED <<given, session, socket, attempt, app, faults, unsaid>>

-----------------------------------------------------------------------------
(* While the socket is open.                                               *)

\* A frame cannot be sent: the socket is given up, and nobody is told.
SendFails ==
  /\ Fault /\ Retry
  /\ unsaid' = (app = "connected") /\ UNCHANGED app

Stays == UNCHANGED <<pc, socket, attempt, faults, app, unsaid>>

OpenCommand ==
  /\ pc = "open" /\ commands # <<>>
  /\ commands' = Tail(commands)
  /\ LET c == Head(commands) IN
     /\ subscriptions' = Remembered(c)
     /\ \/ /\ c.op = "subscribe"
           /\ session' = [session EXCEPT !.campaigns = @ \cup {c.id}]
           /\ unheard' = unheard \ {c.id}
           /\ IF session.authenticated /\ c.id \notin session.campaigns
              THEN \/ /\ socket' = [socket EXCEPT !.resumed = @ \cup {c.id}]
                      /\ UNCHANGED <<pc, attempt, faults, app, unsaid>>
                   \/ SendFails
              ELSE Stays
        \/ /\ c.op = "unsubscribe"
           /\ session' = [session EXCEPT !.campaigns = @ \ {c.id}]
           /\ unheard' = unheard \ {c.id}
           /\ Stays
        \/ /\ c.op = "send"
           /\ Stays \/ (session.authenticated /\ SendFails)
           /\ UNCHANGED <<session, unheard>>
        \/ /\ c.op = "stop"
           /\ pc' = "ended" /\ socket' = NoSocket /\ Emit("disconnected")
           /\ UNCHANGED <<session, unheard, attempt, faults>>
  /\ UNCHANGED given

\* auth.ok: the app is told, then every campaign is resumed, one after the other.
\* Mutant: none is.
ToResumeNone == {}
ToResume == session.campaigns
AuthOk ==
  /\ pc = "open" /\ ~session.authenticated
  /\ session' = [session EXCEPT !.authenticated = TRUE]
  /\ app' = "connected"
  /\ \/ /\ socket' = [socket EXCEPT !.resumed = ToResume]
        /\ attempt' = 0 /\ unsaid' = FALSE /\ UNCHANGED <<pc, faults>>
     \/ /\ ToResume # {} /\ Fault
        /\ pc' = "wait" /\ socket' = NoSocket /\ attempt' = 1
        /\ unsaid' = TRUE
  /\ UNCHANGED <<commands, given, subscriptions, unheard>>

\* on_close: the connection breaks, is closed, or says nothing for 90 s.
\* Mutant: the app is not told.
Unspoken(event) == UNCHANGED <<app, unsaid>>
Says(event) == Emit(event)
Lost ==
  /\ pc = "open" /\ Fault /\ Retry /\ Says("disconnected")
  /\ session' = [session EXCEPT !.authenticated = FALSE]
  /\ UNCHANGED <<commands, given, subscriptions, unheard>>

\* auth.revoked or close code 4401; a frame of another version or 4400.
GivesUp(event) ==
  /\ pc = "open" /\ pc' = "ended" /\ socket' = NoSocket /\ Emit(event)
  /\ session' \in {[session EXCEPT !.authenticated = FALSE], session}
  /\ UNCHANGED <<commands, given, subscriptions, attempt, faults, unheard>>

-----------------------------------------------------------------------------

Work ==
  \/ ProviderAnswers \/ Connect \/ WaitIsOver \/ WaitCommand \/ OpenCommand \/ AuthOk

Next ==
  \/ \E c \in Command : Give(c)
  \/ Work \/ ProviderFails \/ ConnectFails \/ Lost
  \/ GivesUp("revoked") \/ GivesUp("incompatible")

Spec == Init /\ [][Next]_vars

\* The loop runs; the provider, the network and the server answer, failures aside.
Fairness ==
  /\ WF_vars(ProviderAnswers) /\ WF_vars(Connect) /\ WF_vars(WaitIsOver)
  /\ WF_vars(OpenCommand) /\ WF_vars(AuthOk)

FairSpec == Spec /\ Fairness

-----------------------------------------------------------------------------

Live == pc = "open" /\ session.authenticated

\* session.rs:48, client.rs:120: on a connection that has signed in, whatever is subscribed to is
\* followed and was resumed; what is followed besides was left while there was no socket.
FollowsTheApp ==
  /\ Live => session.campaigns \subseteq socket.resumed
  /\ pc = "open" => /\ subscriptions \subseteq session.campaigns
                    /\ session.campaigns \subseteq subscriptions \cup unheard

\* session.rs:24: the app thinks that it is connected when it is, unless a frame could not be sent.
AppKnows ==
  /\ Live => app = "connected"
  /\ app = "connected" => Live \/ unsaid

\* client.rs:48: a campaign that is subscribed to is resumed, again and again, until it is not any
\* more or the client ends.
IsResumed ==
  \A c \in Campaign :
    c \in subscriptions ~> (Live /\ c \in socket.resumed) \/ c \notin subscriptions \/ pc = "ended"

=============================================================================
