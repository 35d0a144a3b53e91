---------------------------- MODULE ClientProofs ----------------------------
(* Proofs about the client: its connection loop, its microphone and its consent loop, for any      *)
(* campaigns, commands, recordings, pauses, failures, changes and losses of the room.               *)
EXTENDS MCClient, SequenceTheorems, TLAPS

-----------------------------------------------------------------------------
(* The connection loop.                                                    *)

\* The records that the loop looks into.
Sessions == [made : BOOLEAN, campaigns : SUBSET Campaign, authenticated : BOOLEAN]
Sockets  == [auth : BOOLEAN, resumed : SUBSET Campaign]
Remembers == session \in Sessions /\ socket \in Sockets /\ subscriptions \subseteq Campaign

\* What is subscribed to is followed from the answer of the provider to the end of the socket: a
\* command in between is one of the socket, which tells the session.  What is followed besides was left
\* while there was none.
Follows ==
  /\ pc \in {"connect", "open"} => subscriptions \subseteq session.campaigns
  /\ session.campaigns \subseteq subscriptions \cup unheard
  /\ Connection!Live => session.campaigns \subseteq socket.resumed

Sure == Remembers /\ Follows /\ Connection!AppKnows

LEMMA NoSocketTyped ==
  /\ Connection!NoSocket \in Sockets /\ [Connection!NoSocket EXCEPT !.auth = TRUE] \in Sockets
  /\ Connection!NoSocket.resumed = {}
  BY DEF Sockets, Connection!NoSocket

LEMMA ConnectionBegins == Connection!Init => Sure
  BY DEF Connection!Init, Connection!NoSession, Connection!NoSocket, Connection!Live, Connection!AppKnows,
         Follows, Remembers, Sessions, Sockets, Sure

\* Between two sockets nothing is live, and the only step to an open one is Connect.
LEMMA WaitingSure ==
  ASSUME Sure,
         \/ Connection!ProviderAnswers \/ Connection!ProviderFails \/ Connection!WaitIsOver
         \/ Connection!ConnectFails \/ Connection!Connect
  PROVE  Sure'
<1>1. CASE Connection!ProviderAnswers \/ Connection!ProviderFails \/ Connection!WaitIsOver
  BY <1>1 DEF Sure, Remembers, Sessions, Follows, Connection!AppKnows, Connection!Live, Connection!ProviderAnswers,
              Connection!ProviderFails, Connection!WaitIsOver, Connection!Followed
<1>2. CASE Connection!ConnectFails \/ Connection!Connect
  <2>1. /\ pc = "connect" /\ pc' \in {"open", "wait"}
        /\ UNCHANGED <<subscriptions, knows, unheard, unsaid>>
        /\ socket' \in {Connection!NoSocket, [Connection!NoSocket EXCEPT !.auth = TRUE]}
        /\ pc' = "open" => session' = [session EXCEPT !.authenticated = FALSE]
        /\ session' \in {session, [session EXCEPT !.authenticated = FALSE]}
    BY <1>2 DEF Connection!ConnectFails, Connection!Connect, Connection!Retry
  <2>2. /\ session' \in Sessions /\ socket' \in Sockets /\ session'.campaigns = session.campaigns
        /\ pc' = "open" => ~session'.authenticated
    BY <2>1, NoSocketTyped DEF Sure, Remembers, Sessions, Sockets
  <2>. QED BY <2>1, <2>2 DEF Sure, Remembers, Follows, Connection!AppKnows, Connection!Live
<1>. QED BY <1>1, <1>2

\* A frame that cannot be sent: the socket is gone, and the app was told of it or `unsaid' is set.
LEMMA Silenced ==
  ASSUME Connection!SendFails
  PROVE  /\ pc' = "wait" /\ socket' = Connection!NoSocket /\ knows' = knows
         /\ knows = "connected" => unsaid'
  BY DEF Connection!SendFails, Connection!Retry

\* A command changes what is subscribed to by its campaign.
LEMMA CommandsSure ==
  ASSUME Sure, Connection!WaitCommand \/ Connection!OpenCommand, commands \in Seq(Connection!Command)
  PROVE  Sure'
<1>. DEFINE c == Head(commands)
<1>1. /\ c \in Connection!Command
      /\ subscriptions' = Connection!Remembered(c)
  BY DEF Connection!WaitCommand, Connection!OpenCommand
<1>2. /\ c.op = "subscribe" => c.id \in Campaign /\ subscriptions' = subscriptions \cup {c.id}
      /\ c.op = "unsubscribe" => c.id \in Campaign /\ subscriptions' = subscriptions \ {c.id}
      /\ c.op \in {"send", "stop"} => subscriptions' = subscriptions
      /\ c.op \in {"subscribe", "unsubscribe", "send", "stop"}
  BY <1>1 DEF Connection!Command, Connection!Remembered
<1>. HIDE DEF c
<1>. Connection!NoSocket \in Sockets
  BY NoSocketTyped DEF Sure, Remembers
<1>3. CASE Connection!WaitCommand
  <2>1. /\ Connection!Waiting /\ UNCHANGED <<session, socket, knows, unsaid>>
        /\ pc' \in {pc, "ended"}
        /\ unheard' = IF c.op = "unsubscribe" THEN unheard \cup (session.campaigns \cap {c.id})
                      ELSE unheard \ subscriptions'
    BY <1>3 DEF Connection!WaitCommand, c
  <2>. QED BY <1>2, <2>1 DEF Sure, Remembers, Follows, Connection!AppKnows, Connection!Live, Connection!Waiting
<1>4. CASE Connection!OpenCommand
  <2>. pc = "open"
    BY <1>4 DEF Connection!OpenCommand
  <2>1. CASE c.op = "subscribe"
    <3>1. /\ session' = [session EXCEPT !.campaigns = @ \cup {c.id}]
          /\ unheard' = unheard \ {c.id}
          /\ \/ Connection!Stays /\ ~(session.authenticated /\ c.id \notin session.campaigns)
             \/ /\ socket' = [socket EXCEPT !.resumed = @ \cup {c.id}]
                /\ UNCHANGED <<pc, knows, unsaid>>
             \/ Connection!SendFails
      BY <1>4, <2>1 DEF Connection!OpenCommand, c
    <3>2. /\ session' \in Sessions /\ session'.campaigns = session.campaigns \cup {c.id}
          /\ session'.authenticated = session.authenticated
      BY <1>2, <2>1, <3>1 DEF Sure, Remembers, Sessions
    <3>3. CASE Connection!Stays /\ ~(session.authenticated /\ c.id \notin session.campaigns)
      BY <1>2, <2>1, <3>1, <3>2, <3>3 DEF Sure, Remembers, Follows, Connection!AppKnows, Connection!Live, Connection!Stays
    <3>4. CASE socket' = [socket EXCEPT !.resumed = @ \cup {c.id}] /\ UNCHANGED <<pc, knows, unsaid>>
      <4>1. socket' \in Sockets /\ socket'.resumed = socket.resumed \cup {c.id}
        BY <1>2, <2>1, <3>4 DEF Sure, Remembers, Sockets
      <4>. QED BY <1>2, <2>1, <3>1, <3>2, <3>4, <4>1 DEF Sure, Remembers, Follows, Connection!AppKnows, Connection!Live
    <3>5. CASE Connection!SendFails
      BY <1>2, <2>1, <3>1, <3>2, <3>5, Silenced
      DEF Sure, Remembers, Follows, Connection!AppKnows, Connection!Live
    <3>. QED BY <3>1, <3>3, <3>4, <3>5
  <2>2. CASE c.op = "unsubscribe"
    <3>1. /\ session' = [session EXCEPT !.campaigns = @ \ {c.id}]
          /\ unheard' = unheard \ {c.id} /\ Connection!Stays
      BY <1>4, <2>2 DEF Connection!OpenCommand, c
    <3>2. /\ session' \in Sessions /\ session'.campaigns = session.campaigns \ {c.id}
          /\ session'.authenticated = session.authenticated
      BY <1>2, <2>2, <3>1 DEF Sure, Remembers, Sessions
    <3>. QED BY <1>2, <2>2, <3>1, <3>2 DEF Sure, Remembers, Follows, Connection!AppKnows, Connection!Live, Connection!Stays
  <2>3. CASE c.op = "send"
    <3>1. (Connection!Stays \/ Connection!SendFails) /\ UNCHANGED <<session, unheard>>
      BY <1>4, <2>3 DEF Connection!OpenCommand, c
    <3>. QED BY <1>2, <2>3, <3>1, Silenced
         DEF Sure, Remembers, Follows, Connection!AppKnows, Connection!Live, Connection!Stays
  <2>4. CASE c.op = "stop"
    <3>1. /\ pc' = "ended" /\ socket' = Connection!NoSocket /\ Connection!Emit("disconnected")
          /\ UNCHANGED <<session, unheard>>
      BY <1>4, <2>4 DEF Connection!OpenCommand, c
    <3>. QED BY <1>2, <2>4, <3>1
         DEF Sure, Remembers, Follows, Connection!AppKnows, Connection!Live, Connection!Emit
  <2>. QED BY <1>2, <2>1, <2>2, <2>3, <2>4
<1>. QED BY <1>3, <1>4

\* auth.ok resumes everything that is followed; whatever ends the socket says so.
LEMMA SocketSure ==
  ASSUME Sure,
         \/ Connection!AuthOk \/ Connection!Lost
         \/ Connection!GivesUp("revoked") \/ Connection!GivesUp("incompatible")
  PROVE  Sure'
<1>. Connection!NoSocket \in Sockets /\ session \in Sessions
  BY NoSocketTyped DEF Sure, Remembers
<1>1. CASE Connection!AuthOk
  <2>1. session' \in Sessions /\ session'.campaigns = session.campaigns /\ session'.authenticated
    BY <1>1 DEF Connection!AuthOk, Sessions
  <2>2. /\ knows' = "connected" /\ pc = "open" /\ UNCHANGED <<subscriptions, unheard>>
        /\ \/ socket' = [socket EXCEPT !.resumed = session.campaigns] /\ pc' = pc
           \/ pc' = "wait" /\ socket' = Connection!NoSocket /\ unsaid' = TRUE
    BY <1>1 DEF Connection!AuthOk, Connection!ToResume
  <2>3. socket' \in Sockets /\ (pc' = "open" => socket'.resumed = session.campaigns)
    BY <2>2, NoSocketTyped DEF Sure, Remembers, Sessions, Sockets
  <2>. QED BY <2>1, <2>2, <2>3 DEF Sure, Remembers, Follows, Connection!AppKnows, Connection!Live
<1>2. ASSUME NEW e \in {"disconnected", "revoked", "incompatible"},
             pc' # "open" /\ pc' # "connect" /\ socket' = Connection!NoSocket /\ knows' = e,
             session' \in {session, [session EXCEPT !.authenticated = FALSE]},
             UNCHANGED <<subscriptions, unheard>>
      PROVE  Sure'
  <2>1. session' \in Sessions /\ session'.campaigns = session.campaigns
    BY <1>2 DEF Sessions
  <2>. QED BY <1>2, <2>1 DEF Sure, Remembers, Follows, Connection!AppKnows, Connection!Live
<1>3. CASE Connection!Lost
  BY <1>2, <1>3 DEF Connection!Lost, Connection!Retry, Connection!Says, Connection!Emit
<1>4. CASE Connection!GivesUp("revoked") \/ Connection!GivesUp("incompatible")
  BY <1>2, <1>4 DEF Connection!GivesUp, Connection!Emit
<1>. QED BY <1>1, <1>3, <1>4

\* Commands come through the channel as they were given.
Channel == commands \in Seq(Connection!Command)

LEMMA ChannelHolds ==
  ASSUME Channel, Connection!Next
  PROVE  Channel'
<1>1. ASSUME NEW c \in Connection!Command, Connection!Give(c) PROVE Channel'
  BY <1>1 DEF Channel, Connection!Give
<1>2. CASE Connection!WaitCommand \/ Connection!OpenCommand
  BY <1>2 DEF Channel, Connection!WaitCommand, Connection!OpenCommand
<1>3. CASE \/ Connection!ProviderAnswers \/ Connection!Connect \/ Connection!WaitIsOver \/ Connection!AuthOk
           \/ Connection!ProviderFails \/ Connection!ConnectFails \/ Connection!Lost
           \/ Connection!GivesUp("revoked") \/ Connection!GivesUp("incompatible")
  BY <1>3 DEF Channel, Connection!ProviderAnswers, Connection!Connect, Connection!WaitIsOver, Connection!AuthOk,
              Connection!ProviderFails, Connection!ConnectFails, Connection!Lost, Connection!GivesUp
<1>. QED BY <1>1, <1>2, <1>3 DEF Connection!Next, Connection!Work

LEMMA ConnectionSure ==
  ASSUME Sure, Channel, Connection!Next
  PROVE  Sure'
<1>1. ASSUME NEW c \in Connection!Command, Connection!Give(c) PROVE Sure'
  BY <1>1 DEF Connection!Give, Sure, Remembers, Follows, Connection!AppKnows, Connection!Live
<1>. QED BY <1>1, WaitingSure, CommandsSure, SocketSure DEF Channel, Connection!Next, Connection!Work

LEMMA ClientConnected ==
  /\ InitClient => Sure /\ Channel
  /\ Sure /\ Channel /\ [NextClient]_<<part, vars, connectionVars, micVars>> => Sure' /\ Channel'
<1>1. InitClient => Sure /\ Channel
  BY ConnectionBegins DEF InitClient, Channel, Connection!Init
<1>2. ASSUME Sure, Channel, UNCHANGED connectionVars PROVE Sure' /\ Channel'
  BY <1>2 DEF connectionVars, Sure, Channel, Remembers, Follows, Connection!AppKnows, Connection!Live
<1>3. ASSUME Sure, Channel, [NextClient]_<<part, vars, connectionVars, micVars>> PROVE Sure' /\ Channel'
  BY <1>2, <1>3, ConnectionSure, ChannelHolds DEF NextClient, ConsentStep, ConnectionStep, MicStep
<1>. QED BY <1>1, <1>3

\* session.rs:48, client.rs:120: once a connection has signed in, every campaign that the app is
\* subscribed to is followed and was resumed on this socket, whatever commands came while there was
\* none, however often sockets were lost, and whichever frame could not be sent.
THEOREM SubscribedIsFollowed == ClientSpec => []FollowsTheApp
<1>1. Sure => FollowsTheApp
  BY DEF Sure, Follows, FollowsTheApp, Connection!FollowsTheApp
<1>. QED BY <1>1, ClientConnected, PTL DEF ClientSpec

\* session.rs:24: what the app heard last of its connection is so, but for a frame that could not be
\* sent, with which the socket ends without a word.
THEOREM AppIsTold == ClientSpec => []AppKnows
<1>1. Sure => AppKnows
  BY DEF Sure, AppKnows
<1>. QED BY <1>1, ClientConnected, PTL DEF ClientSpec

-----------------------------------------------------------------------------
(* The microphone.                                                         *)

Mute == Mic!EffectiveMute(userMuted, gateHeld)
Pending == \E s \in Mic!Side : push[s] # Mic!NoPush

\* What the variables hold; there is an active room exactly when the supervisor has joined.
MicTyped ==
  /\ userMuted \in BOOLEAN /\ gateHeld \in BOOLEAN /\ flag \in BOOLEAN /\ device \in BOOLEAN
  /\ client \in BOOLEAN /\ behind \in BOOLEAN /\ missed \in BOOLEAN
  /\ push \in [Mic!Side -> {Mic!NoPush, "due", "mute", "unmute"}]
  /\ room \in [active : BOOLEAN, muted : BOOLEAN]
  /\ joining \in [at : {"joined", "wait", "join", "publish", "applied", "ended"}, muted : BOOLEAN]

\* From the button to the room: the newest result is the flag, or somebody has still to push it; the
\* device does what the flag says, and so does the track, from the application of the flag on.
Carried ==
  /\ room.active <=> joining.at = "joined"
  /\ ~client => joining.at = "ended" /\ ~device
  /\ client /\ ~behind /\ ~Pending => (flag <=> Mute)
  /\ client => (device <=> ~flag)
  /\ joining.at = "applied" /\ ~missed => (joining.muted <=> flag)
  /\ joining.at = "joined" /\ ~missed => (room.muted <=> flag)

MicSure == MicTyped /\ Carried

LEMMA MicBegins == Mic!Init => MicSure
<1>. SUFFICES ASSUME Mic!Init PROVE MicSure
  OBVIOUS
<1>1. MicTyped
  BY DEF Mic!Init, MicTyped, Mic!NoRoom
<1>2. ~client /\ ~room.active /\ ~device /\ joining.at = "ended"
  BY DEF Mic!Init, Mic!NoRoom
<1>. QED BY <1>1, <1>2 DEF MicSure, Carried

\* A change leaves its result with the side that made it.
LEMMA ChangesCarried ==
  ASSUME MicSure, NEW s \in Mic!Side, NEW u \in BOOLEAN, NEW g \in BOOLEAN, Mic!Changes(s, u, g)
  PROVE  MicSure'
<1>1. push'[s] \in {"mute", "unmute"} /\ push' \in [Mic!Side -> {Mic!NoPush, "due", "mute", "unmute"}]
  BY DEF Mic!Changes, Mic!Pushing, MicSure, MicTyped
<1>2. Pending'
  BY <1>1 DEF Pending, Mic!NoPush
<1>. QED BY <1>1, <1>2 DEF Mic!Changes, MicSure, MicTyped, Carried

LEMMA GateCarried ==
  ASSUME MicSure, Mic!SignOut
  PROVE  MicSure'
<1>1. MicTyped' /\ (Pending' <=> Pending)
  BY DEF Mic!SignOut, MicSure, MicTyped, Pending
<1>2. ~behind' => ~behind /\ Mute /\ Mute'
  BY DEF Mic!SignOut, MicSure, MicTyped, Mute, Mic!EffectiveMute
<1>. QED BY <1>1, <1>2 DEF Mic!SignOut, MicSure, Carried

\* Who joins has the mute still to compute and to push.
LEMMA JoinerCarried ==
  ASSUME MicSure, Mic!Connect \/ Mic!Compute \/ Mic!Disconnect
  PROVE  MicSure'
<1>1. "joiner" \in Mic!Side /\ Mic!NoPush \notin {"due", "mute", "unmute"}
  BY DEF Mic!Side, Mic!NoPush
<1>2. CASE Mic!Connect \/ Mic!Compute
  <2>1. /\ push' \in [Mic!Side -> {Mic!NoPush, "due", "mute", "unmute"}]
        /\ push'["joiner"] \in {"due", "mute", "unmute"}
    BY <1>1, <1>2 DEF Mic!Connect, Mic!Compute, Mic!Pushing, MicSure, MicTyped
  <2>2. Pending'
    BY <1>1, <2>1 DEF Pending
  <2>3. CASE Mic!Connect
    BY <2>1, <2>2, <2>3 DEF Mic!Connect, MicSure, MicTyped, Carried
  <2>4. CASE Mic!Compute
    BY <2>1, <2>2, <2>4 DEF Mic!Compute, MicSure, MicTyped, Carried
  <2>. QED BY <1>2, <2>3, <2>4
<1>3. CASE Mic!Disconnect
  BY <1>3 DEF Mic!Disconnect, Mic!NoRoom, MicSure, MicTyped, Carried
<1>. QED BY <1>2, <1>3

\* set_microphone_muted takes a result to the flag, the device and the track that is there.
LEMMA PushCarried ==
  ASSUME MicSure, NEW s \in Mic!Side, Mic!Push(s)
  PROVE  MicSure'
<1>. DEFINE m == push[s] = "mute"
<1>1. m \in BOOLEAN
  OBVIOUS
<1>2. /\ push' \in [Mic!Side -> {Mic!NoPush, "due", "mute", "unmute"}]
      /\ IF ~client THEN UNCHANGED <<flag, room, device>>
         ELSE /\ (flag' <=> m) /\ flag' \in BOOLEAN /\ device' \in BOOLEAN
              /\ room' = IF room.active THEN [room EXCEPT !.muted = m] ELSE room
              /\ (device' <=> ~m)
      /\ behind' \in BOOLEAN /\ missed' \in BOOLEAN
      /\ (behind' <=> (m # Mute))
      /\ (missed' <=> (missed \/ (joining.at = "applied" /\ joining.muted # m)))
      /\ UNCHANGED <<userMuted, gateHeld, joining, client>>
  BY DEF Mic!Push, Mic!FlagSet, MicSure, MicTyped, Mute
<1>3. Mute \in BOOLEAN /\ Mute' = Mute
  BY <1>2 DEF MicSure, MicTyped, Mute, Mic!EffectiveMute
<1>. HIDE DEF m
<1>4. /\ room' \in [active : BOOLEAN, muted : BOOLEAN] /\ (room'.active <=> room.active)
      /\ client /\ room.active => (room'.muted <=> m)
  BY <1>1, <1>2 DEF MicSure, MicTyped
<1>5. MicTyped'
  BY <1>2, <1>4 DEF MicSure, MicTyped
<1>6. joining.muted \in BOOLEAN
  BY DEF MicSure, MicTyped
<1>7. Carried'
  BY <1>1, <1>2, <1>3, <1>4, <1>5, <1>6 DEF MicSure, MicTyped, Carried
<1>. QED BY <1>5, <1>7 DEF MicSure

\* A new track is unmuted until the flag is applied, and active after that.
LEMMA RoomCarried ==
  ASSUME MicSure, Mic!LoseRoom \/ Mic!Rejoins \/ Mic!ApplyToNew \/ Mic!Activate
  PROVE  MicSure'
<1>1. /\ UNCHANGED <<userMuted, gateHeld, push, flag, client, behind>>
      /\ client
  BY DEF Mic!LoseRoom, Mic!Rejoins, Mic!ApplyToNew, Mic!Activate, MicSure, MicTyped, Carried
<1>2. (Pending' <=> Pending) /\ Mute' = Mute
  BY <1>1 DEF Pending, Mute, Mic!EffectiveMute
<1>3. CASE Mic!LoseRoom
  <2>1. /\ joining'.at \in {"wait", "join"} /\ room' = Mic!NoRoom /\ missed' = FALSE /\ device' = device
        /\ joining' \in [at : {"joined", "wait", "join", "publish", "applied", "ended"}, muted : BOOLEAN]
    BY <1>3 DEF Mic!LoseRoom, MicSure, MicTyped
  <2>2. room' \in [active : BOOLEAN, muted : BOOLEAN] /\ ~room'.active
    BY <2>1 DEF Mic!NoRoom
  <2>. QED BY <1>1, <1>2, <2>1, <2>2 DEF MicSure, MicTyped, Carried
<1>4. CASE Mic!Rejoins
  <2>1. /\ UNCHANGED <<room, device, missed>> /\ joining.at \in {"wait", "join"}
        /\ \/ \E next \in {"wait", "join"} : joining' = [joining EXCEPT !.at = next]
           \/ joining' = [at |-> "publish", muted |-> FALSE]
    BY <1>4 DEF Mic!Rejoins
  <2>2. /\ joining'.at \in {"wait", "join", "publish"}
        /\ joining' \in [at : {"joined", "wait", "join", "publish", "applied", "ended"}, muted : BOOLEAN]
    <3>. joining \in [at : {"joined", "wait", "join", "publish", "applied", "ended"}, muted : BOOLEAN]
      BY DEF MicSure, MicTyped
    <3>1. CASE joining' = [at |-> "publish", muted |-> FALSE]
      BY <3>1
    <3>2. ASSUME NEW next \in {"wait", "join"}, joining' = [joining EXCEPT !.at = next]
          PROVE  /\ joining'.at \in {"wait", "join", "publish"}
                 /\ joining' \in [at : {"joined", "wait", "join", "publish", "applied", "ended"}, muted : BOOLEAN]
      BY <3>2
    <3>. QED BY <2>1, <3>1, <3>2
  <2>3. joining.at # "joined"
    BY <2>1
  <2>. QED BY <1>1, <1>2, <2>1, <2>2, <2>3 DEF MicSure, MicTyped, Carried
<1>5. CASE Mic!ApplyToNew
  BY <1>1, <1>2, <1>5 DEF Mic!ApplyToNew, Mic!Applied, MicSure, MicTyped, Carried
<1>6. CASE Mic!Activate
  BY <1>1, <1>2, <1>6 DEF Mic!Activate, MicSure, MicTyped, Carried
<1>. QED BY <1>3, <1>4, <1>5, <1>6

LEMMA ClientSpeaks ==
  /\ InitClient => MicSure
  /\ MicSure /\ [NextClient]_<<part, vars, connectionVars, micVars>> => MicSure'
<1>1. InitClient => MicSure
  BY MicBegins DEF InitClient
<1>2. ASSUME MicSure, Mic!Next PROVE MicSure'
  <2>. "shell" \in Mic!Side /\ userMuted \in BOOLEAN /\ gateHeld \in BOOLEAN
    BY <1>2 DEF Mic!Side, MicSure, MicTyped
  <2>1. ASSUME NEW b \in BOOLEAN, Mic!SetGate(b) PROVE MicSure'
    <3>1. Mic!Changes("shell", userMuted, b)
      BY <2>1 DEF Mic!SetGate
    <3>. QED BY <1>2, <3>1, ChangesCarried
  <2>2. ASSUME NEW b \in BOOLEAN, NEW s \in Mic!Side, Mic!SetUserMuted(s, b) PROVE MicSure'
    <3>1. Mic!Changes(s, b, gateHeld)
      BY <2>2 DEF Mic!SetUserMuted
    <3>. QED BY <1>2, <3>1, ChangesCarried
  <2>. QED BY <1>2, <2>1, <2>2, GateCarried, JoinerCarried, PushCarried, RoomCarried DEF Mic!Next
<1>3. ASSUME MicSure, UNCHANGED micVars PROVE MicSure'
  BY <1>3 DEF micVars, MicSure, MicTyped, Carried, Pending, Mute, Mic!EffectiveMute
<1>. QED BY <1>1, <1>2, <1>3 DEF NextClient, ConsentStep, ConnectionStep, MicStep

\* lib.rs:333: when nothing is left to push and the room is joined, audio flows exactly when neither the
\* player nor the gate holds the microphone closed, across any number of losses of the room: unless an
\* older result was pushed last, or one while a track was about to become active.
THEOREM MicrophoneObeys == ClientSpec => []MicFollows
<1>1. MicSure => MicFollows
  <2>. SUFFICES ASSUME MicSure, Mic!Quiet, ~behind, ~missed
                PROVE  Mic!Flows <=> ~userMuted /\ ~gateHeld
    BY DEF MicFollows, Mic!MicFollows
  <2>1. client /\ room.active /\ ~Pending
    BY DEF MicSure, MicTyped, Carried, Mic!Quiet, Pending
  <2>2. (flag <=> Mute) /\ (device <=> ~flag) /\ (room.muted <=> flag)
    BY <2>1 DEF MicSure, Carried, Mic!Quiet
  <2>. QED BY <2>1, <2>2 DEF Mic!Flows, Mute, Mic!EffectiveMute
<1>. QED BY <1>1, ClientSpeaks, PTL DEF ClientSpec

-----------------------------------------------------------------------------
(* The consent loop.                                                       *)

\* What is in a sequence.
Elems(s) == {s[i] : i \in 1..Len(s)}

\* Sending adds a message, receiving takes at most the first.
LEMMA Sends ==
  ASSUME NEW S, NEW s \in Seq(S), NEW e \in S
  PROVE  /\ Append(s, e) \in Seq(S) /\ Append(s, e) # <<>>
         /\ Elems(Append(s, e)) = Elems(s) \cup {e}
         /\ Append(s, e)[Len(Append(s, e))] = e
<1>1. /\ Append(s, e) \in Seq(S) /\ Append(s, e) # <<>> /\ Len(Append(s, e)) = Len(s) + 1
      /\ \A i \in 1..Len(s) : Append(s, e)[i] = s[i]
      /\ Append(s, e)[Len(s) + 1] = e
  BY AppendProperties
<1>2. Len(s) \in Nat
  BY LenProperties
<1>. QED BY <1>1, <1>2 DEF Elems

LEMMA Receives ==
  ASSUME NEW S, NEW s \in Seq(S), s # <<>>
  PROVE  /\ Head(s) \in S /\ Head(s) = s[1] /\ Tail(s) \in Seq(S)
         /\ Elems(s) = {Head(s)} \cup Elems(Tail(s))
         /\ s[Len(s)] = IF Tail(s) = <<>> THEN Head(s) ELSE Tail(s)[Len(Tail(s))]
<1>1. /\ Head(s) \in S /\ Tail(s) \in Seq(S) /\ Len(Tail(s)) = Len(s) - 1
      /\ \A i \in 1..Len(Tail(s)) : Tail(s)[i] = s[i + 1]
  BY HeadTailProperties
<1>2. Len(s) \in Nat \ {0} /\ Len(Tail(s)) \in Nat /\ (Tail(s) # <<>> => Len(Tail(s)) # 0)
  BY <1>1, LenProperties, EmptySeq
<1>3. Head(s) = s[1]
  OBVIOUS
<1>4. Elems(s) \subseteq {Head(s)} \cup Elems(Tail(s))
  <2>. SUFFICES ASSUME NEW i \in 1..Len(s), i # 1 PROVE s[i] \in Elems(Tail(s))
    BY <1>3 DEF Elems
  <2>1. i - 1 \in 1..Len(Tail(s)) /\ s[i] = Tail(s)[i - 1]
    BY <1>1, <1>2
  <2>. QED BY <2>1 DEF Elems
<1>5. {Head(s)} \cup Elems(Tail(s)) \subseteq Elems(s)
  BY <1>1, <1>2, <1>3 DEF Elems
<1>6. s[Len(s)] = IF Tail(s) = <<>> THEN Head(s) ELSE Tail(s)[Len(Tail(s))]
  <2>1. CASE Tail(s) = <<>>
    <3>1. Len(Tail(s)) = 0 /\ Len(Tail(s)) = Len(s) - 1 /\ Len(s) \in Nat
      BY <1>1, <2>1, EmptySeq, LenProperties
    <3>2. Len(s) = 1
      BY <3>1
    <3>3. s[Len(s)] = Head(s)
      BY <1>3, <3>2
    <3>. QED BY <2>1, <3>3
  <2>2. CASE Tail(s) # <<>>
    BY <1>1, <1>2, <2>2
  <2>. QED BY <2>1, <2>2
<1>. QED BY <1>1, <1>3, <1>4, <1>5, <1>6

LEMMA NothingSent == Elems(<<>>) = {}
  BY DEF Elems

\* What is left of a message sequence when the connection breaks.
LEMMA Cuts ==
  ASSUME NEW S, NEW s \in Seq(S), NEW n \in 0..Len(s)
  PROVE  SubSeq(s, 1, n) \in Seq(S)
<1>1. \A i \in 1..n : s[i] \in S
  BY LenProperties, ElementOfSeq
<1>. QED BY <1>1, SubSeqProperties, LenProperties

-----------------------------------------------------------------------------
(* Types.                                                                  *)

Recs == [id : 0..MaxRecordings, status : {"off", "on", "paused"}]
Shells == [cue : {"none", "start", "other"}, pending : 0..MaxRecordings, known : BOOLEAN]

LiveIsNamed(r) == r.status # "off" => r.id \in Recording
CueIsNamed(s)  == s.cue = "start" => s.pending \in Recording

\* The parts of TypeOK, one group of variables at a time.
LEMMA Parts ==
  ASSUME TypeOK
  PROVE  /\ rec \in Recs /\ LiveIsNamed(rec)
         /\ acks \in SUBSET Recording /\ heard \in SUBSET Recording
         /\ excused \in SUBSET Recording /\ skipped \in SUBSET Recording
         /\ conn \in {"down", "signed in", "subscribed", "joined"}
         /\ wire \in Seq(Frame) /\ sent \in Seq(Recording)
         /\ shell \in Shells /\ CueIsNamed(shell)
         /\ pauses \in 0..MaxPauses /\ mishaps \in 0..MaxMishaps
  BY DEF TypeOK, Recs, Shells, LiveIsNamed, CueIsNamed

LEMMA IdsAreRecordings ==
  /\ Recording \subseteq 0..MaxRecordings /\ Recording \subseteq Nat
  /\ \A n \in 0..MaxRecordings : n # 0 => n \in Recording
  BY ConsentAssumption DEF Recording

\* What the server says of the recording when a connection is resumed is a frame.
LEMMA SnapshotTyped ==
  ASSUME TypeOK
  PROVE  RecordingSnapshot \in Frame
<1>1. rec \in Recs /\ LiveIsNamed(rec)
  BY Parts
<1>2. CASE rec.status = "off"
  BY <1>2 DEF RecordingSnapshot, Frame
<1>3. CASE rec.status # "off"
  <2>1. rec.id \in Recording /\ rec.status \in {"on", "paused"}
    BY <1>1, <1>3 DEF Recs, LiveIsNamed
  <2>2. RecordingSnapshot = [of |-> "state", id |-> rec.id, status |-> rec.status, acked |-> rec.id \in acks]
    BY <1>3 DEF RecordingSnapshot
  <2>3. \A b \in BOOLEAN : [of |-> "state", id |-> rec.id, status |-> rec.status, acked |-> b] \in Frame
    BY <2>1 DEF Frame
  <2>4. (rec.id \in acks) \in BOOLEAN
    OBVIOUS
  <2>. QED BY <2>2, <2>3, <2>4, Zenon
<1>. QED BY <1>2, <1>3

\* Nothing is on, and nobody is asked, when the server and the app begin.
LEMMA InitTyped == Init => TypeOK
<1>. SUFFICES ASSUME Init PROVE TypeOK
  OBVIOUS
<1>1. 0 \in 0..MaxRecordings /\ 0 \in 0..MaxPauses /\ 0 \in 0..MaxMishaps
  BY ConsentAssumption
<1>2. rec \in Recs /\ LiveIsNamed(rec)
  BY <1>1 DEF Init, NotRecording, Recs, LiveIsNamed
<1>3. shell \in Shells /\ CueIsNamed(shell)
  BY <1>1 DEF Init, NewShell, Shells, CueIsNamed
<1>4. wire \in Seq(Frame) /\ sent \in Seq(Recording)
  BY EmptySeq DEF Init
<1>. QED BY <1>1, <1>2, <1>3, <1>4 DEF Init, TypeOK, Recs, Shells, LiveIsNamed, CueIsNamed

\* A change of the recording state that the DM may ask for, what it leaves and what it announces.
MayChange(status, event) ==
  /\ <<status, event>> \in {<<"on", "started">>, <<"paused", "paused">>, <<"on", "resumed">>, <<"off", "stopped">>}
  /\ event = "started" => rec.id < MaxRecordings
  /\ event # "started" => rec.status # "off"
  /\ Changes(status, event)

LEMMA ChangeIsNamed ==
  ASSUME TypeOK, NEW status, NEW event, MayChange(status, event)
  PROVE  /\ rec' \in Recs /\ rec'.id \in Recording /\ rec'.status = status
         /\ [of |-> "status", id |-> rec'.id, status |-> event] \in Frame
<1>1. rec.id \in 0..MaxRecordings /\ LiveIsNamed(rec)
  BY Parts DEF Recs
<1>2. rec' = [id |-> IF event = "started" THEN rec.id + 1 ELSE rec.id, status |-> status]
  BY DEF MayChange, Changes
<1>3. status \in {"off", "on", "paused"} /\ event \in {"started", "paused", "resumed", "stopped"}
  BY DEF MayChange
<1>4. CASE event = "started"
  <2>1. rec.id + 1 \in Recording /\ rec.id + 1 \in 0..MaxRecordings
    BY <1>1, <1>4, ConsentAssumption DEF MayChange, Recording
  <2>. QED BY <1>2, <1>3, <1>4, <2>1 DEF Recs, Frame
<1>5. CASE event # "started"
  <2>1. rec.id \in Recording
    BY <1>1, <1>5 DEF MayChange, LiveIsNamed
  <2>. QED BY <1>1, <1>2, <1>3, <1>5, <2>1 DEF Recs, Frame
<1>. QED BY <1>4, <1>5

\* What the DM does is such a change.
LEMMA DMChanges ==
  ASSUME Start \/ Pause \/ Resume \/ Stop
  PROVE  \E status, event : MayChange(status, event)
  BY DEF Start, Pause, Resume, Stop, MayChange

LEMMA ChangesTyped ==
  ASSUME TypeOK, NEW status, NEW event, MayChange(status, event), pauses' \in 0..MaxPauses
  PROVE  TypeOK'
<1>1. rec' \in Recs /\ rec'.id \in Recording
  BY ChangeIsNamed
<1>2. wire' \in Seq(Frame)
  <2>1. [of |-> "status", id |-> rec'.id, status |-> event] \in Frame
    BY ChangeIsNamed
  <2>2. wire \in Seq(Frame)
    BY Parts
  <2>. QED BY <2>1, <2>2, Sends DEF MayChange, Changes
<1>3. UNCHANGED <<acks, conn, sent, running, shell, gate, indicator, mishaps, heard, excused, skipped, cut>>
  BY DEF MayChange, Changes, app, ghosts
<1>. QED BY <1>1, <1>2, <1>3 DEF TypeOK, Recs

\* A connection that breaks, and a counted mishap.
LEMMA BreaksTyped ==
  ASSUME TypeOK, Breaks
  PROVE  conn' = "down" /\ wire' \in Seq(Frame) /\ sent' = <<>>
<1>1. wire \in Seq(Frame)
  BY Parts
<1>. QED BY <1>1, Cuts DEF Breaks

LEMMA MishapTyped ==
  ASSUME TypeOK, Mishap
  PROVE  mishaps' \in 0..MaxMishaps
<1>1. mishaps \in 0..MaxMishaps
  BY Parts
<1>. QED BY <1>1, ConsentAssumption DEF Mishap

\* What the shell makes of a frame.
LEMMA DecideTyped ==
  ASSUME NEW f \in Frame, f.of # "revoked"
  PROVE  /\ Decide(f) \in {"none", "start", "other"}
         /\ Shown(f) \in {"off", "on", "paused"}
         /\ f.id \in 0..MaxRecordings
         /\ Decide(f) = "start" => f.id \in Recording
         /\ f.of = "state" /\ f.status = "paused" => f.id \in Recording
<1>1. CASE f \in [of : {"status"}, id : Recording, status : {"started", "paused", "resumed", "stopped"}]
  BY <1>1, IdsAreRecordings DEF Decide, Shown
<1>2. CASE f \in [of : {"state"}, id : {0}, status : {"off"}, acked : {FALSE}]
  BY <1>2, ConsentAssumption DEF Decide, Shown
<1>3. CASE f \in [of : {"state"}, id : Recording, status : {"on", "paused"}, acked : BOOLEAN]
  BY <1>3, IdsAreRecordings DEF Decide, Shown
<1>. QED BY <1>1, <1>2, <1>3 DEF Frame

LEMMA NewShellTyped == NewShell \in Shells /\ CueIsNamed(NewShell)
  BY ConsentAssumption DEF NewShell, Shells, CueIsNamed

\* A step that changes no more than it says.
LEMMA DMTyped ==
  ASSUME TypeOK, Start \/ Pause \/ Resume \/ Stop
  PROVE  TypeOK'
<1>1. pauses' \in 0..MaxPauses
  <2>1. pauses \in 0..MaxPauses
    BY Parts
  <2>. QED BY <2>1, ConsentAssumption DEF Start, Pause, Resume, Stop
<1>2. PICK status, event : MayChange(status, event)
  BY DMChanges
<1>. QED BY <1>1, <1>2, ChangesTyped

LEMMA HubTyped ==
  ASSUME TypeOK, Connect \/ Subscribe \/ SendState
  PROVE  TypeOK'
<1>1. CASE Connect \/ Subscribe
  <2>1. /\ conn' \in {"down", "signed in", "subscribed", "joined"}
        /\ UNCHANGED <<rec, acks, wire, sent, app, pauses, mishaps, ghosts>>
    BY <1>1 DEF Connect, Subscribe
  <2>. QED BY <2>1 DEF TypeOK, app, ghosts
<1>2. CASE SendState
  <2>1. wire' \in Seq(Frame) /\ conn' \in {"down", "signed in", "subscribed", "joined"}
    BY <1>2, SnapshotTyped, Sends, Parts DEF SendState
  <2>2. UNCHANGED <<rec, acks, sent, app, pauses, mishaps, ghosts>>
    BY <1>2 DEF SendState
  <2>. QED BY <2>1, <2>2 DEF TypeOK, app, ghosts
<1>. QED BY <1>1, <1>2

LEMMA AcksTyped ==
  ASSUME TypeOK, RecordingAck \/ \E id \in Recording : AckExpires(id)
  PROVE  TypeOK'
<1>1. CASE RecordingAck
  <2>1. /\ sent \in Seq(Recording) /\ sent # <<>> /\ acks \in SUBSET Recording
        /\ sent' = Tail(sent)
    BY <1>1, Parts DEF RecordingAck
  <2>2. Head(sent) \in Recording /\ sent' \in Seq(Recording)
    BY <2>1, Receives
  <2>3. acks' \in SUBSET Recording
    <3>1. acks' \subseteq acks \cup {Head(sent)}
      BY <1>1 DEF RecordingAck, Acknowledged
    <3>. QED BY <2>1, <2>2, <3>1
  <2>4. UNCHANGED <<rec, conn, wire, app, pauses, mishaps, ghosts>>
    BY <1>1 DEF RecordingAck
  <2>. QED BY <2>2, <2>3, <2>4, ZenonT(60) DEF TypeOK, app, ghosts
<1>2. ASSUME NEW id \in Recording, AckExpires(id)
      PROVE  TypeOK'
  <2>1. /\ acks' = acks \ {id} /\ excused' = excused \cup {id} /\ Mishap
        /\ UNCHANGED <<rec, conn, wire, sent, app, pauses, heard, skipped, cut>>
    BY <1>2 DEF AckExpires
  <2>2. mishaps' \in 0..MaxMishaps
    BY <2>1, MishapTyped
  <2>3. acks' \in SUBSET Recording /\ excused' \in SUBSET Recording
    BY <2>1, Parts
  <2>. QED BY <2>1, <2>2, <2>3, ZenonT(60) DEF TypeOK, app
<1>. QED BY <1>1, <1>2

LEMMA FaultsTyped ==
  ASSUME TypeOK, Drop \/ Restart \/ Revoke
  PROVE  TypeOK'
<1>1. sent' \in Seq(Recording) /\ conn' = "down" /\ mishaps' \in 0..MaxMishaps
  BY EmptySeq, MishapTyped, BreaksTyped DEF Drop, Restart, Revoke
<1>2. CASE Drop
  <2>1. wire' \in Seq(Frame) /\ UNCHANGED <<rec, acks, app, pauses, ghosts>>
    BY <1>2, BreaksTyped DEF Drop
  <2>. QED BY <1>1, <2>1 DEF TypeOK, app, ghosts
<1>3. CASE Restart
  <2>1. rec' \in Recs /\ LiveIsNamed(rec')
    BY <1>3, Parts DEF Restart, Recs, LiveIsNamed
  <2>2. wire' \in Seq(Frame) /\ acks' = {} /\ UNCHANGED <<app, pauses, ghosts>>
    BY <1>3, BreaksTyped DEF Restart
  <2>. QED BY <1>1, <2>1, <2>2 DEF TypeOK, app, ghosts, Recs, LiveIsNamed
<1>4. CASE Revoke
  <2>1. wire' \in Seq(Frame)
    <3>1. [of |-> "revoked"] \in Frame
      BY DEF Frame
    <3>. QED BY <1>4, <3>1, Sends, Parts DEF Revoke
  <2>2. running' \in BOOLEAN /\ UNCHANGED <<rec, acks, shell, gate, indicator, pauses, ghosts>>
    BY <1>4 DEF Revoke
  <2>. QED BY <1>1, <2>1, <2>2 DEF TypeOK, ghosts
<1>. QED BY <1>2, <1>3, <1>4

LEMMA EventTyped ==
  ASSUME TypeOK, NEW f \in Frame, f.of # "revoked", OnServerEvent(f)
  PROVE  /\ shell' \in Shells /\ CueIsNamed(shell') /\ gate' \in BOOLEAN
         /\ indicator' \in {"off", "on", "paused"} /\ skipped' \in SUBSET Recording
         /\ running' \in BOOLEAN
<1>1. /\ Decide(f) \in {"none", "start", "other"} /\ Shown(f) \in {"off", "on", "paused"}
      /\ Decide(f) = "start" => f.id \in Recording
      /\ f.of = "state" /\ f.status = "paused" => f.id \in Recording
  BY DecideTyped
<1>2. shell' \in Shells /\ CueIsNamed(shell')
  <2>1. shell' = [cue |-> Decide(f), pending |-> IF Decide(f) = "start" THEN f.id ELSE 0,
                  known |-> f.status \notin {"off", "stopped"}]
    BY DEF OnServerEvent
  <2>2. 0 \in 0..MaxRecordings /\ f.id \in 0..MaxRecordings
    BY DecideTyped, ConsentAssumption
  <2>3. shell' \in Shells
    <3>1. \A b \in BOOLEAN : [cue |-> Decide(f), pending |-> IF Decide(f) = "start" THEN f.id ELSE 0,
                             known |-> b] \in Shells
      BY <1>1, <2>2 DEF Shells
    <3>2. (f.status \notin {"off", "stopped"}) \in BOOLEAN
      OBVIOUS
    <3>. QED BY <2>1, <3>1, <3>2, Zenon
  <2>4. shell'.cue = Decide(f) /\ (Decide(f) = "start" => shell'.pending = f.id)
    BY <2>1
  <2>. QED BY <1>1, <2>3, <2>4 DEF CueIsNamed
<1>3. gate' \in BOOLEAN /\ running' \in BOOLEAN
  BY DEF OnServerEvent, TypeOK
<1>4. indicator' \in {"off", "on", "paused"} /\ skipped' \in SUBSET Recording
  BY <1>1, Parts DEF OnServerEvent
<1>. QED BY <1>2, <1>3, <1>4

LEMMA HandleTyped ==
  ASSUME TypeOK, Handle
  PROVE  TypeOK'
<1>1. wire \in Seq(Frame) /\ wire # <<>> /\ wire' = Tail(wire)
  BY Parts DEF Handle
<1>2. Head(wire) \in Frame /\ wire' \in Seq(Frame)
  BY <1>1, Receives
<1>3. /\ shell' \in Shells /\ CueIsNamed(shell') /\ gate' \in BOOLEAN
      /\ indicator' \in {"off", "on", "paused"} /\ skipped' \in SUBSET Recording
      /\ running' \in BOOLEAN
  <2>1. CASE Head(wire).of = "revoked"
    <3>1. SignedOut
      BY <2>1 DEF Handle
    <3>. QED BY <3>1, NewShellTyped DEF SignedOut, TypeOK
  <2>2. CASE Head(wire).of # "revoked"
    <3>1. OnServerEvent(Head(wire))
      BY <2>2 DEF Handle
    <3>. QED BY <1>2, <2>2, <3>1, EventTyped
  <2>. QED BY <2>1, <2>2
<1>4. UNCHANGED <<rec, acks, conn, pauses, sent, mishaps, heard, excused, cut>>
  BY DEF Handle, server
<1>. QED BY <1>2, <1>3, <1>4 DEF TypeOK, Shells, CueIsNamed

LEMMA CueTyped ==
  ASSUME TypeOK, CueFinished \/ CueFailed
  PROVE  TypeOK'
<1>1. shell \in Shells /\ (shell.pending # 0 => shell.pending \in Recording)
  BY Parts, IdsAreRecordings DEF Shells
<1>2. shell' \in Shells /\ CueIsNamed(shell')
  <2>1. shell' = [shell EXCEPT !.cue = "none", !.pending = 0]
    BY DEF CueFinished, CueFailed
  <2>2. 0 \in 0..MaxRecordings
    BY ConsentAssumption
  <2>. QED BY <1>1, <2>1, <2>2 DEF Shells, CueIsNamed
<1>3. CASE CueFinished
  <2>1. /\ sent' \in Seq(Recording) /\ heard' \in SUBSET Recording
        /\ excused' \in SUBSET Recording /\ skipped' \in SUBSET Recording /\ gate' \in BOOLEAN
    <3>1. /\ sent \in Seq(Recording) /\ heard \in SUBSET Recording
          /\ excused \in SUBSET Recording /\ skipped \in SUBSET Recording /\ gate \in BOOLEAN
      BY Parts DEF TypeOK
    <3>2. CASE shell.pending = 0
      BY <1>3, <3>1, <3>2 DEF CueFinished
    <3>3. CASE shell.pending # 0
      <4>1. Append(sent, shell.pending) \in Seq(Recording)
        BY <1>1, <3>1, <3>3, Sends
      <4>. QED BY <1>1, <1>3, <3>1, <3>3, <4>1 DEF CueFinished
    <3>. QED BY <3>2, <3>3
  <2>2. UNCHANGED <<rec, acks, conn, pauses, wire, running, indicator, mishaps, cut>>
    BY <1>3 DEF CueFinished, server
  <2>. QED BY <1>2, <2>1, <2>2 DEF TypeOK, Shells, CueIsNamed
<1>4. CASE CueFailed
  <2>1. mishaps' \in 0..MaxMishaps
    BY <1>4, MishapTyped DEF CueFailed
  <2>2. gate' \in BOOLEAN /\ excused' \in SUBSET Recording
    <3>1. gate \in BOOLEAN /\ excused \in SUBSET Recording
      BY Parts DEF TypeOK
    <3>. QED BY <1>1, <1>4, <3>1 DEF CueFailed, GateAfterFailure
  <2>3. UNCHANGED <<rec, acks, conn, pauses, wire, sent, running, indicator, heard, skipped, cut>>
    BY <1>4 DEF CueFailed, server
  <2>. QED BY <1>2, <2>1, <2>2, <2>3 DEF TypeOK, Shells, CueIsNamed
<1>. QED BY <1>3, <1>4

LEMMA PlayerTyped ==
  ASSUME TypeOK, SignIn \/ SignOut
  PROVE  TypeOK'
<1>1. /\ conn' = "down" /\ wire' = <<>> /\ sent' = <<>> /\ shell' = NewShell
      /\ mishaps' \in 0..MaxMishaps
  BY MishapTyped DEF SignIn, SignOut, StopActive
<1>2. running' \in BOOLEAN /\ gate' \in BOOLEAN /\ cut' \in BOOLEAN /\ indicator' \in {"off", "on", "paused"}
  BY DEF SignIn, SignOut, TypeOK
<1>3. UNCHANGED <<rec, acks, pauses, heard, excused, skipped>>
  BY DEF SignIn, SignOut
<1>4. wire' \in Seq(Frame) /\ sent' \in Seq(Recording)
  BY <1>1, EmptySeq
<1>. QED BY <1>1, <1>2, <1>3, <1>4, NewShellTyped DEF TypeOK, Shells, CueIsNamed

\* Whatever happens, the variables keep their types, what is on has an id and so has the start cue that
\* plays.
THEOREM TypeCorrect == Spec => []TypeOK
<1>1. TypeOK /\ [Next]_vars => TypeOK'
  <2>1. TypeOK /\ UNCHANGED vars => TypeOK'
    BY DEF TypeOK, vars
  <2>. QED BY <2>1, DMTyped, HubTyped, AcksTyped, FaultsTyped, HandleTyped, CueTyped, PlayerTyped DEF Next
<1>. QED BY <1>1, InitTyped, PTL DEF Spec

-----------------------------------------------------------------------------
(* Acknowledgements.                                                       *)

\* Nothing that is acknowledged, or about to be, is unheard.
Heard == acks \subseteq heard /\ Elems(sent) \subseteq heard

LEMMA HeardInductive ==
  ASSUME TypeOK, Heard, [Next]_vars
  PROVE  Heard'
<1>. USE DEF Heard
<1>1. CASE Start \/ Pause \/ Resume \/ Stop
  BY <1>1 DEF Start, Pause, Resume, Stop, Changes, ghosts
<1>2. CASE Connect \/ Subscribe \/ SendState
  BY <1>2 DEF Connect, Subscribe, SendState, ghosts
<1>3. CASE RecordingAck
  <2>1. sent' = Tail(sent) /\ Elems(sent) = {Head(sent)} \cup Elems(Tail(sent))
    BY <1>3, Receives, Parts DEF RecordingAck
  <2>2. acks' \subseteq acks \cup {Head(sent)} /\ heard' = heard
    BY <1>3 DEF RecordingAck, Acknowledged, ghosts
  <2>. QED BY <2>1, <2>2
<1>4. CASE \E id \in Recording : AckExpires(id)
  BY <1>4 DEF AckExpires
<1>5. CASE Drop \/ Restart \/ Revoke
  BY <1>5, NothingSent DEF Drop, Restart, Revoke, Breaks, ghosts
<1>6. CASE Handle \/ CueFailed
  BY <1>6 DEF Handle, CueFailed, server
<1>7. CASE CueFinished
  <2>1. acks' = acks /\ shell \in Shells /\ sent \in Seq(Recording)
    BY <1>7, Parts DEF CueFinished, server
  <2>2. CASE shell.pending = 0
    BY <1>7, <2>1, <2>2 DEF CueFinished
  <2>3. CASE shell.pending # 0
    <3>1. Elems(Append(sent, shell.pending)) = Elems(sent) \cup {shell.pending}
      BY <2>1, <2>3, Sends, IdsAreRecordings DEF Shells
    <3>. QED BY <1>7, <2>1, <2>3, <3>1 DEF CueFinished
  <2>. QED BY <2>2, <2>3
<1>8. CASE SignIn \/ SignOut
  BY <1>8, NothingSent DEF SignIn, SignOut, StopActive
<1>9. CASE UNCHANGED vars
  BY <1>9 DEF vars
<1>. QED BY <1>1, <1>2, <1>3, <1>4, <1>5, <1>6, <1>7, <1>8, <1>9 DEF Next

\* An acknowledgement in the store is of a recording whose own start cue the player heard to its end
\* (recording.rs:113, hub.ts:359), for any number of recordings and mishaps.
THEOREM AcksAreHeard == Spec => []AckedIsHeard
<1>1. Init => Heard
  BY NothingSent DEF Init, Heard
<1>2. Heard => AckedIsHeard
  BY DEF Heard, AckedIsHeard
<1>. QED BY <1>1, <1>2, HeardInductive, TypeCorrect, PTL DEF Spec

-----------------------------------------------------------------------------
(* The indicator.                                                          *)

\* The end of what the app has not handled yet, or else what it shows, is how the recording stands.
Announced ==
  conn = "joined" =>
    IF wire = <<>> THEN indicator = rec.status
    ELSE wire[Len(wire)].of # "revoked" /\ Shown(wire[Len(wire)]) = rec.status

LEMMA ChangesAnnounced ==
  ASSUME TypeOK, NEW status, NEW event, MayChange(status, event)
  PROVE  Announced'
<1>. SUFFICES ASSUME conn' = "joined"
              PROVE  wire' # <<>> /\ wire'[Len(wire')].of # "revoked" /\ Shown(wire'[Len(wire')]) = rec'.status
  BY DEF Announced, Shown
<1>. DEFINE f == [of |-> "status", id |-> rec'.id, status |-> event]
<1>1. wire' = Append(wire, f)
  BY DEF MayChange, Changes, Subscribed
<1>2. wire \in Seq(Frame)
  BY Parts
<1>3. f \in Frame /\ rec'.status = status
  BY ChangeIsNamed
<1>4. wire' # <<>> /\ wire'[Len(wire')] = f
  BY <1>1, <1>2, <1>3, Sends
<1>5. f.of = "status" /\ Shown(f) = status
  BY DEF Shown, MayChange
<1>. QED BY <1>3, <1>4, <1>5

LEMMA AnnouncedInductive ==
  ASSUME TypeOK, TypeOK', Announced, [Next]_vars
  PROVE  Announced'
<1>1. CASE Start \/ Pause \/ Resume \/ Stop
  BY <1>1, DMChanges, ChangesAnnounced
<1>2. CASE SendState
  <2>1. wire' = Append(wire, RecordingSnapshot) /\ rec' = rec
    BY <1>2 DEF SendState
  <2>2. wire' # <<>> /\ wire'[Len(wire')] = RecordingSnapshot
    <3>1. wire \in Seq(Frame) /\ RecordingSnapshot \in Frame
      BY SnapshotTyped, Parts
    <3>. QED BY <2>1, <3>1, Sends
  <2>3. RecordingSnapshot.of = "state" /\ Shown(RecordingSnapshot) = rec.status
    BY Parts DEF RecordingSnapshot, Shown, Recs
  <2>. QED BY <2>1, <2>2, <2>3 DEF Announced, Shown
<1>3. CASE Handle
  <2>1. /\ conn' = conn /\ rec' = rec /\ wire' = Tail(wire) /\ wire # <<>>
        /\ wire[Len(wire)] = IF wire' = <<>> THEN Head(wire) ELSE wire'[Len(wire')]
    BY <1>3, Receives, Parts DEF Handle, server
  <2>2. CASE wire' # <<>>
    BY <2>1, <2>2 DEF Announced, Shown
  <2>3. CASE wire' = <<>>
    <3>1. Head(wire).of # "revoked" => indicator' = Shown(Head(wire))
      BY <1>3 DEF Handle, OnServerEvent
    <3>. QED BY <2>1, <2>3, <3>1 DEF Announced
  <2>. QED BY <2>2, <2>3
<1>4. CASE RecordingAck \/ CueFinished \/ CueFailed \/ UNCHANGED vars \/ \E id \in Recording : AckExpires(id)
  <2>1. UNCHANGED <<rec, conn, wire, indicator>>
    BY <1>4 DEF RecordingAck, CueFinished, CueFailed, AckExpires, vars, server, app
  <2>. QED BY <2>1 DEF Announced, Shown
<1>5. CASE Connect \/ Subscribe \/ Drop \/ Restart \/ Revoke \/ SignIn \/ SignOut
  <2>1. conn' # "joined"
    BY <1>5 DEF Connect, Subscribe, Drop, Restart, Revoke, SignIn, SignOut, Breaks, StopActive
  <2>. QED BY <2>1 DEF Announced
<1>. QED BY <1>1, <1>2, <1>3, <1>4, <1>5 DEF Next

\* Once the app has handled what it was told, the indicator is right (recording.rs:18), however often
\* the connection and the server were lost.
THEOREM IndicatorIsRight == Spec => []IndicatorIsTrue
<1>1. Init => Announced
  BY DEF Init, Announced
<1>2. Announced => IndicatorIsTrue
  BY DEF Announced, IndicatorIsTrue
<1>. QED BY <1>1, <1>2, AnnouncedInductive, TypeCorrect, PTL DEF Spec

-----------------------------------------------------------------------------
(* The capture gate.                                                       *)

LEMMA GateInductive ==
  ASSUME TypeOK, GateIsLetGo, [Next]_vars
  PROVE  GateIsLetGo'
<1>. USE DEF GateIsLetGo
<1>1. CASE Handle
  <2>1. cut' = cut /\ shell.cue = "none"
    BY <1>1 DEF Handle
  <2>2. CASE SignedOut
    BY <2>1, <2>2 DEF SignedOut, NewShell
  <2>3. ASSUME NEW f, OnServerEvent(f) PROVE GateIsLetGo'
    <3>1. shell'.cue = Decide(f)
      BY <2>3 DEF OnServerEvent
    <3>2. gate' \in IF Decide(f) = "start" THEN {TRUE} ELSE {gate, FALSE}
      BY <2>3 DEF OnServerEvent
    <3>. QED BY <2>1, <3>1, <3>2
  <2>. QED BY <1>1, <2>2, <2>3 DEF Handle
<1>2. CASE CueFinished \/ CueFailed
  <2>1. cut' = cut /\ shell'.cue = "none" /\ shell \in Shells /\ CueIsNamed(shell)
    BY <1>2, Parts DEF CueFinished, CueFailed, Shells
  <2>2. shell.pending # 0 => ~gate'
    BY <1>2 DEF CueFinished, CueFailed, GateAfterFailure
  <2>3. shell.pending = 0 => gate' = gate /\ shell.cue # "start"
    BY <1>2, <2>1, ConsentAssumption DEF CueFinished, CueFailed, GateAfterFailure, CueIsNamed, Recording
  <2>. QED BY <2>1, <2>2, <2>3
<1>3. CASE SignIn \/ SignOut
  <2>1. shell'.cue = "none"
    BY <1>3 DEF SignIn, SignOut, StopActive, NewShell
  <2>2. CASE SignIn
    <3>1. gate' = gate /\ cut' = (cut \/ shell.cue = "start")
      BY <2>2 DEF SignIn
    <3>. QED BY <2>1, <3>1
  <2>3. CASE SignOut
    BY <2>1, <2>3 DEF SignOut
  <2>. QED BY <1>3, <2>2, <2>3
<1>4. CASE ~(Handle \/ CueFinished \/ CueFailed \/ SignIn \/ SignOut)
  <2>1. UNCHANGED <<shell, gate, cut>>
    BY <1>4 DEF Next, vars, Start, Pause, Resume, Stop, Changes, Connect, Subscribe, SendState, RecordingAck,
                AckExpires, Drop, Restart, Revoke, app, ghosts
  <2>. QED BY <2>1
<1>. QED BY <1>1, <1>2, <1>3, <1>4

\* The gate is closed while a start cue plays, and nobody is locked out of voice by one that is over
\* (recording.rs:119).
THEOREM GateOpensAgain == Spec => []GateIsLetGo
<1>1. Init => GateIsLetGo
  BY DEF Init, GateIsLetGo, NewShell
<1>. QED BY <1>1, GateInductive, TypeCorrect, PTL DEF Spec

-----------------------------------------------------------------------------
(* Everybody is asked.                                                     *)

\* A frame after which the app plays the start cue of a recording, or finds it paused.
Asks(f, id) ==
  /\ f.of # "revoked" /\ f.id = id
  /\ f.of = "status" => f.status = "started"
  /\ f.of = "state" => ~f.acked

\* Whoever is connected has acknowledged what is recorded, is doing so, hears the cue or will.
Owed ==
  conn = "joined" /\ rec.status # "off" =>
    \/ rec.id \in acks \cup excused \cup skipped \cup Elems(sent)
    \/ shell.cue = "start" /\ shell.pending = rec.id
    \/ \E f \in Elems(wire) : Asks(f, rec.id)

LEMMA ChangesOwed ==
  ASSUME TypeOK, Owed, NEW status, NEW event, MayChange(status, event)
  PROVE  Owed'
<1>. SUFFICES ASSUME conn' = "joined", rec'.status # "off"
              PROVE  \/ (rec.id \in acks \cup excused \cup skipped \cup Elems(sent))'
                     \/ (shell.cue = "start" /\ shell.pending = rec.id)'
                     \/ \E f \in Elems(wire') : Asks(f, rec'.id)
  BY DEF Owed
<1>. DEFINE f == [of |-> "status", id |-> rec'.id, status |-> event]
<1>1. wire \in Seq(Frame) /\ f \in Frame
  BY Parts, ChangeIsNamed
<1>2. /\ UNCHANGED <<acks, excused, skipped, sent, shell, conn>>
      /\ wire' = Append(wire, f)
      /\ event # "started" => rec'.id = rec.id /\ rec.status # "off"
  BY DEF MayChange, Changes, app, ghosts, Subscribed
<1>3. Elems(wire') = Elems(wire) \cup {f}
  BY <1>1, <1>2, Sends
<1>4. CASE event = "started"
  <2>1. Asks(f, rec'.id)
    BY <1>4 DEF Asks
  <2>. QED BY <1>3, <2>1
<1>5. CASE event # "started"
  BY <1>2, <1>3, <1>5 DEF Owed
<1>. QED BY <1>4, <1>5

\* The frame that the app handles was the one it owed, or leaves the debt as it was.
LEMMA HandleOwed ==
  ASSUME TypeOK, Owed, Handle
  PROVE  Owed'
<1>. SUFFICES ASSUME conn = "joined", rec.status # "off"
              PROVE  \/ rec.id \in acks \cup excused \cup skipped' \cup Elems(sent)
                     \/ shell'.cue = "start" /\ shell'.pending = rec.id
                     \/ \E f \in Elems(wire') : Asks(f, rec.id)
  BY DEF Owed, Handle, server
<1>1. wire \in Seq(Frame) /\ wire # <<>> /\ wire' = Tail(wire) /\ shell.cue = "none"
  BY Parts DEF Handle
<1>2. Head(wire) \in Frame /\ Elems(wire) = {Head(wire)} \cup Elems(wire')
  BY <1>1, Receives
<1>3. skipped \subseteq skipped'
  BY DEF Handle, SignedOut, OnServerEvent
<1>4. CASE Asks(Head(wire), rec.id)
  <2>1. Head(wire).of # "revoked" /\ OnServerEvent(Head(wire)) /\ Head(wire).id = rec.id
    BY <1>4 DEF Asks, Handle
  <2>2. rec.id \in Recording
    BY Parts DEF LiveIsNamed
  <2>3. CASE Head(wire).of = "status"
    <3>1. Decide(Head(wire)) = "start"
      BY <1>4, <2>3 DEF Asks, Decide
    <3>. QED BY <2>1, <3>1 DEF OnServerEvent
  <2>4. CASE Head(wire).of = "state"
    <3>1. Head(wire).status \in {"on", "paused"} /\ ~Head(wire).acked
      <4>1. ~Head(wire).acked /\ Head(wire).id # 0
        BY <1>4, <2>1, <2>2, <2>4 DEF Asks, Recording
      <4>. QED BY <1>2, <2>1, <2>4, <4>1 DEF Frame
    <3>2. Head(wire).status = "on" => Decide(Head(wire)) = "start"
      BY <2>4, <3>1 DEF Decide
    <3>. QED BY <2>1, <2>4, <3>1, <3>2 DEF OnServerEvent
  <2>. QED BY <1>2, <2>1, <2>3, <2>4 DEF Frame
<1>5. CASE ~Asks(Head(wire), rec.id)
  BY <1>1, <1>2, <1>3, <1>5 DEF Owed
<1>. QED BY <1>4, <1>5

\* A cue that is over becomes an acknowledgement on its way, or an excuse.
LEMMA CueOwed ==
  ASSUME TypeOK, Owed, CueFinished \/ CueFailed
  PROVE  Owed'
<1>. SUFFICES ASSUME conn = "joined", rec.status # "off"
              PROVE  \/ rec.id \in acks \cup excused' \cup skipped' \cup Elems(sent')
                     \/ \E f \in Elems(wire) : Asks(f, rec.id)
  BY DEF Owed, CueFinished, CueFailed, server
<1>1. rec.id \in Recording /\ rec.id # 0
  BY Parts, IdsAreRecordings, ConsentAssumption DEF LiveIsNamed, Recording
<1>2. \/ rec.id \in acks \cup excused \cup skipped \cup Elems(sent)
      \/ shell.pending = rec.id
      \/ \E f \in Elems(wire) : Asks(f, rec.id)
  BY DEF Owed
<1>3. CASE CueFinished
  <2>1. CASE shell.pending = 0
    BY <1>1, <1>2, <1>3, <2>1 DEF CueFinished
  <2>2. CASE shell.pending # 0
    <3>1. sent \in Seq(Recording) /\ shell.pending \in Recording
      <4>1. sent \in Seq(Recording) /\ shell.pending \in 0..MaxRecordings
        BY Parts DEF Shells
      <4>. QED BY <2>2, <4>1, IdsAreRecordings
    <3>2. Elems(sent') = Elems(sent) \cup {shell.pending}
      <4>1. sent' = Append(sent, shell.pending)
        BY <1>3, <2>2 DEF CueFinished
      <4>. QED BY <3>1, <4>1, Sends
    <3>3. excused' = excused \ {shell.pending} /\ skipped' = skipped \ {shell.pending}
      BY <1>3, <2>2 DEF CueFinished
    <3>. QED BY <1>2, <3>2, <3>3
  <2>. QED BY <2>1, <2>2
<1>4. CASE CueFailed
  <2>1. /\ sent' = sent /\ skipped' = skipped
        /\ excused' = IF shell.pending # 0 THEN excused \cup {shell.pending} ELSE excused
    BY <1>4 DEF CueFailed
  <2>. QED BY <1>1, <1>2, <2>1
<1>. QED BY <1>3, <1>4

LEMMA OwedInductive ==
  ASSUME TypeOK, Owed, [Next]_vars
  PROVE  Owed'
<1>1. CASE Start \/ Pause \/ Resume \/ Stop
  BY <1>1, DMChanges, ChangesOwed
<1>2. CASE SendState
  <2>1. UNCHANGED <<rec, acks, excused, skipped, sent, shell>> /\ wire' = Append(wire, RecordingSnapshot)
    BY <1>2 DEF SendState, app, ghosts
  <2>2. wire \in Seq(Frame) /\ RecordingSnapshot \in Frame
    BY SnapshotTyped, Parts
  <2>3. RecordingSnapshot \in Elems(wire')
    BY <2>1, <2>2, Sends
  <2>4. rec.status # "off" /\ rec.id \notin acks => Asks(RecordingSnapshot, rec.id)
    BY DEF RecordingSnapshot, Asks
  <2>. QED BY <2>1, <2>3, <2>4 DEF Owed
<1>3. CASE RecordingAck
  <2>1. UNCHANGED <<rec, conn, wire, shell, excused, skipped>> /\ sent # <<>> /\ sent' = Tail(sent)
    BY <1>3 DEF RecordingAck, app, ghosts
  <2>2. Elems(sent) = {Head(sent)} \cup Elems(sent')
    BY <2>1, Receives, Parts
  <2>3. /\ acks \subseteq acks'
        /\ conn = "joined" /\ rec.status # "off" /\ Head(sent) = rec.id => rec.id \in acks'
    BY <1>3 DEF RecordingAck, Acknowledged, Subscribed
  <2>. QED BY <2>1, <2>2, <2>3 DEF Owed
<1>4. ASSUME NEW id \in Recording, AckExpires(id) PROVE Owed'
  <2>1. /\ UNCHANGED <<rec, conn, wire, sent, shell, skipped>>
        /\ acks' = acks \ {id} /\ excused' = excused \cup {id}
    BY <1>4 DEF AckExpires, app
  <2>. QED BY <2>1 DEF Owed
<1>5. CASE Handle
  BY <1>5, HandleOwed
<1>6. CASE CueFinished \/ CueFailed
  BY <1>6, CueOwed
<1>7. CASE Connect \/ Subscribe \/ Drop \/ Restart \/ Revoke \/ SignIn \/ SignOut
  <2>1. conn' # "joined"
    BY <1>7 DEF Connect, Subscribe, Drop, Restart, Revoke, SignIn, SignOut, Breaks, StopActive
  <2>. QED BY <2>1 DEF Owed
<1>8. CASE UNCHANGED vars
  BY <1>8 DEF vars, Owed
<1>. QED BY <1>1, <1>2, <1>3, <1>4, <1>5, <1>6, <1>7, <1>8 DEF Next

\* While a recording is on, everybody whose app has caught up with the server has acknowledged it, or has
\* one of the excuses (policy.rs:6), however often they came and went.
THEOREM NobodyIsForgotten == Spec => []EveryoneIsAsked
<1>1. Init => Owed
  BY DEF Init, Owed
<1>2. Owed => EveryoneIsAsked
  <2>1. Elems(<<>>) = {}
    BY NothingSent
  <2>. QED BY <2>1 DEF Owed, EveryoneIsAsked, Settled
<1>. QED BY <1>1, <1>2, OwedInductive, TypeCorrect, PTL DEF Spec

===============================================================================
