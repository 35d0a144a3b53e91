------------------------------- MODULE Presence -------------------------------
(***************************************************************************)
(* Who is there: PresenceTracker (realtime/presence.ts) and the handlers   *)
(* of the hub that keep it and tell the campaign (hub.ts: resume,          *)
(* audioState, speaking, stats, closed, drop).                             *)
(*                                                                         *)
(* The frames of one connection are handled one after the other, but a     *)
(* handler that awaits the database or the buffer lets the others run, and *)
(* goes on when its own connection has closed meanwhile.  What is sent     *)
(* arrives in order, so that a connection's `view' is what the frames sent *)
(* to it say.  `muted' is left out, it is set and told with `inVoice'.     *)
(***************************************************************************)
EXTENDS Integers, FiniteSets

CONSTANTS
  User, Conn,
  Of,         \* whose each connection is
  MaxQueued,  \* bound: frames of a connection that wait
  MaxFrames,  \* bound: frames in all
  MaxFaults   \* bound: calls of the database or the buffer that fail

ASSUME PresenceAssumption ==
  /\ Of \in [Conn -> User] /\ MaxQueued \in Nat /\ MaxFrames \in Nat /\ MaxFaults \in Nat

VARIABLES
  presence,    \* PresenceTracker.campaigns, of this campaign
  conn,        \* ConnState: the socket, its subscription, the frames that wait and the one handled
  view,        \* what each connection was told about everybody, nothing before its snapshot
  frames,      \* how many frames came
  faults,      \* how many calls failed
  late,        \* ghost: connections that were told something since their snapshot was begun
  torn,        \* ghost: connections whose snapshot has undone what they were told before it came
  unannounced, \* ghost: users whose `online' was not sent, for a call failed before it
  misled,      \* ghost: users whose `online' was sent when they had gone
  outlived     \* ghost: connections that a resume subscribed after they had closed

ghosts == <<late, torn, unannounced, misled, outlived>>
vars == <<presence, conn, view, frames, faults, ghosts>>

\* An entry and the entry that there is not.
Entry == [conns : SUBSET Conn, inVoice : BOOLEAN, speaking : BOOLEAN, stats : BOOLEAN]
NoEntry == [conns |-> {}, inVoice |-> FALSE, speaking |-> FALSE, stats |-> FALSE]

\* What a snapshot says of a user.
Seen == [online : BOOLEAN, inVoice : BOOLEAN, speaking : BOOLEAN]
Shown(e) == [online |-> e.conns # {}, inVoice |-> e.inVoice, speaking |-> e.speaking]

Nothing == [u \in {} |-> Shown(NoEntry)]
Views == {Nothing} \cup [User -> Seen]

\* A connection that has signed in (see Sessions).
NewConn == [open |-> TRUE, queued |-> 0, at |-> "idle", subscribed |-> FALSE, newly |-> FALSE, live |-> Nothing]

\* What the variables hold, and: of whoever has gone nothing is kept.
TypeOK ==
  /\ presence \in [User -> Entry] /\ view \in [Conn -> Views]
  /\ \A u \in User : presence[u].conns = {} => presence[u] = NoEntry
  /\ frames \in 0..MaxFrames /\ faults \in 0..MaxFaults
  /\ late \cup torn \cup outlived \subseteq Conn /\ unannounced \subseteq User /\ misled \subseteq User
  /\ conn \in [Conn -> [open : BOOLEAN, queued : 0..MaxQueued,
                        at : {"idle", "member", "since", "list", "fill", "ack", "dms"},
                        subscribed : BOOLEAN, newly : BOOLEAN, live : Views]]

Init ==
  /\ presence = [u \in User |-> NoEntry]
  /\ conn = [k \in Conn |-> NewConn] /\ view = [k \in Conn |-> Nothing]
  /\ frames = 0 /\ faults = 0 /\ late = {} /\ torn = {} /\ unannounced = {} /\ misled = {}
  /\ outlived = {}

-----------------------------------------------------------------------------
(* PresenceTracker.                                                        *)

Connected(u, k) == [presence EXCEPT ![u].conns = @ \cup {k}]

\* Whoever has no connection left is forgotten.
\* Mutant: everybody is at once.
Forgotten(u, k) == [presence EXCEPT ![u] = NoEntry]
Disconnected(u, k) ==
  IF presence[u].conns \subseteq {k} THEN [presence EXCEPT ![u] = NoEntry]
  ELSE [presence EXCEPT ![u].conns = @ \ {k}]

\* Leaving the voice ends speaking and the statistics.
\* Mutant: the statistics stay.
AudioOnly(u, inVoice) ==
  [presence EXCEPT ![u].inVoice = inVoice, ![u].speaking = inVoice /\ @]
SetAudio(u, inVoice) ==
  [presence EXCEPT ![u].inVoice = inVoice, ![u].speaking = inVoice /\ @, ![u].stats = inVoice /\ @]

-----------------------------------------------------------------------------
(* Sending.                                                                *)

\* Hub.broadcast reaches the connections there are that have subscribed.
Hears(k) == conn[k].open /\ conn[k].subscribed

Tell(ks, u, change) ==
  /\ view' = [k \in Conn |->
       IF k \in ks /\ u \in DOMAIN view[k] THEN [view[k] EXCEPT ![u] = change[@]] ELSE view[k]]
  /\ late' = late \cup {k \in ks : conn[k].at = "fill"}

Others(k) == {j \in Conn \ {k} : Hears(j)}
Hearers == {k \in Conn : Hears(k)}

\* What the frames change in a view: presence.state, audio.state and speaking.
Comes           == [s \in Seen |-> [s EXCEPT !.online = TRUE]]
Goes            == [s \in Seen |-> Shown(NoEntry)]
Voice(inVoice)  == [s \in Seen |-> [s EXCEPT !.inVoice = inVoice, !.speaking = inVoice /\ @]]
Talks(speaking) == [s \in Seen |-> [s EXCEPT !.speaking = speaking]]

-----------------------------------------------------------------------------
(* Connections and their frames.                                           *)

\* receive
Arrive(k) ==
  /\ conn[k].open /\ conn[k].queued < MaxQueued /\ frames < MaxFrames
  /\ frames' = frames + 1
  /\ conn' = [conn EXCEPT ![k].queued = @ + 1]
  /\ UNCHANGED <<presence, view, faults, ghosts>>

\* closed, and drop, which calls it: leave for the campaign if it is subscribed.
Close(k) ==
  LET u == Of[k] last == presence[u].conns = {k} IN
  /\ conn[k].open
  /\ conn' = [conn EXCEPT ![k].open = FALSE, ![k].subscribed = FALSE]
  /\ IF ~conn[k].subscribed THEN UNCHANGED <<presence, view, late, unannounced>>
     ELSE /\ presence' = Disconnected(u, k)
          /\ IF last THEN Tell(Others(k), u, Goes) ELSE UNCHANGED <<view, late>>
          /\ unannounced' = IF last THEN unannounced \ {u} ELSE unannounced
  /\ UNCHANGED <<frames, faults, torn, misled, outlived>>

\* The next frame that waits is handled.
Next1(k, frame) == conn' = [conn EXCEPT ![k] = [frame EXCEPT !.queued = @ - 1]]
Handles(k) == conn[k].at = "idle" /\ conn[k].queued > 0

\* Chat, acknowledgements, and what is refused: nothing here changes.
OtherFrame(k) ==
  /\ Handles(k) /\ Next1(k, conn[k])
  /\ UNCHANGED <<presence, view, frames, faults, ghosts>>

AudioState(k, inVoice) ==
  /\ Handles(k) /\ conn[k].subscribed /\ Next1(k, conn[k])
  /\ presence' = SetAudio(Of[k], inVoice)
  /\ Tell(Hearers, Of[k], Voice(inVoice))
  /\ UNCHANGED <<frames, faults, torn, unannounced, misled, outlived>>

\* speaking.set is told when it changes something, of somebody in the voice room.
MaySpeak(u, speaking) == presence[u].inVoice /\ presence[u].speaking # speaking

Speaking(k, speaking) ==
  LET u == Of[k] IN
  /\ Handles(k) /\ conn[k].subscribed /\ MaySpeak(u, speaking) /\ Next1(k, conn[k])
  /\ presence' = [presence EXCEPT ![u].speaking = speaking]
  /\ Tell(Hearers, u, Talks(speaking))
  /\ UNCHANGED <<frames, faults, torn, unannounced, misled, outlived>>

\* stats.report: who is the DM is asked before it is told them (the view leaves it out).
Stats(k) ==
  /\ Handles(k) /\ conn[k].subscribed /\ presence[Of[k]].inVoice
  /\ Next1(k, [conn[k] EXCEPT !.at = "dms"])
  /\ presence' = [presence EXCEPT ![Of[k]].stats = TRUE]
  /\ UNCHANGED <<view, frames, faults, ghosts>>

StatsTold(k) ==
  /\ conn[k].at = "dms"
  /\ conn' = [conn EXCEPT ![k].at = "idle"]
  /\ UNCHANGED <<presence, view, frames, faults, ghosts>>

-----------------------------------------------------------------------------
(* resume, call by call.                                                   *)

Resume(k) ==
  /\ Handles(k) /\ Next1(k, [conn[k] EXCEPT !.at = "member"])
  /\ UNCHANGED <<presence, view, frames, faults, ghosts>>

\* Not a member: an error is all.
Forbidden(k) ==
  /\ conn[k].at = "member"
  /\ conn' = [conn EXCEPT ![k].at = "idle"]
  /\ UNCHANGED <<presence, view, frames, faults, ghosts>>

\* A member is connected and subscribed, whether the socket is still open or not; the gap is asked for,
\* or the members for a snapshot.
Subscribe(k) ==
  LET u == Of[k] IN
  /\ conn[k].at = "member"
  /\ \E next \in {"since", "list"} :
       conn' = [conn EXCEPT ![k].at = next, ![k].subscribed = TRUE,
                            ![k].newly = ~conn[k].subscribed /\ presence[u].conns = {}]
  /\ presence' = IF conn[k].subscribed THEN presence ELSE Connected(u, k)
  /\ misled' = IF presence[u].conns = {} THEN misled \ {u} ELSE misled
  /\ outlived' = IF conn[k].open THEN outlived ELSE outlived \cup {k}
  /\ UNCHANGED <<view, frames, faults, late, torn, unannounced>>

\* `resumed', or the gap is too large.
Since(k) ==
  /\ conn[k].at = "since"
  /\ \E next \in {"ack", "list"} : conn' = [conn EXCEPT ![k].at = next]
  /\ UNCHANGED <<presence, view, frames, faults, ghosts>>

\* listMemberships is answered and the presence of that moment kept, while users and characters are
\* read one by one.
Listed(k) ==
  /\ conn[k].at = "list"
  /\ conn' = [conn EXCEPT ![k].at = "fill", ![k].live = [u \in User |-> Shown(presence[u])]]
  /\ UNCHANGED <<presence, view, frames, faults, ghosts>>

SendSnapshot(k) ==
  /\ conn[k].at = "fill"
  /\ conn' = [conn EXCEPT ![k].at = "ack", ![k].live = Nothing]
  /\ view' = [view EXCEPT ![k] = IF Hears(k) THEN conn[k].live ELSE Nothing]
  /\ torn' = IF k \in late THEN torn \cup {k} ELSE torn \ {k}
  /\ late' = late \ {k}
  /\ UNCHANGED <<presence, frames, faults, unannounced, misled, outlived>>

\* recording.state is sent; the others are told last.
\* Mutant: without those who are waiting for their snapshot.
AnnouncedTo(k) == {j \in Others(k) : conn[j].at = "idle"}
AnnounceTo(k) == Others(k)
Announce(k) ==
  /\ conn[k].at = "ack"
  /\ conn' = [conn EXCEPT ![k].at = "idle", ![k].newly = FALSE]
  /\ IF conn[k].newly
     THEN /\ Tell(AnnounceTo(k), Of[k], Comes)
          /\ misled' = IF presence[Of[k]].conns = {} THEN misled \cup {Of[k]} ELSE misled
     ELSE UNCHANGED <<view, late, misled>>
  /\ UNCHANGED <<presence, frames, faults, torn, unannounced, outlived>>

\* A call is rejected: the handler is left, and the error logged.
Fail(k) ==
  /\ conn[k].at # "idle" /\ faults < MaxFaults
  /\ faults' = faults + 1
  /\ conn' = [conn EXCEPT ![k].at = "idle", ![k].newly = FALSE, ![k].live = Nothing]
  /\ unannounced' = IF conn[k].newly /\ presence[Of[k]].conns # {} THEN unannounced \cup {Of[k]} ELSE unannounced
  /\ late' = late \ {k}
  /\ UNCHANGED <<presence, view, frames, torn, misled, outlived>>

-----------------------------------------------------------------------------

Step(k) ==
  \/ OtherFrame(k) \/ Speaking(k, TRUE) \/ Speaking(k, FALSE) \/ Stats(k) \/ StatsTold(k)
  \/ AudioState(k, TRUE) \/ AudioState(k, FALSE)
  \/ Resume(k) \/ Forbidden(k) \/ Subscribe(k) \/ Since(k) \/ Listed(k) \/ SendSnapshot(k) \/ Announce(k)

Next == \E k \in Conn : Arrive(k) \/ Close(k) \/ Step(k) \/ Fail(k)

Spec == Init /\ [][Next]_vars

-----------------------------------------------------------------------------

\* presence.ts:10: the connections that count for somebody's being online are those of theirs that
\* get the broadcasts, open and subscribed, and no others.  The code has one exception: a resume that
\* outlives its connection still subscribes it (hub.ts:253-262, `closed' has gone by at line 127), and
\* that connection counts for good although it is closed and gets nothing.
HearersAreOnline ==
  \A k \in Conn, u \in User : k \in presence[u].conns \ outlived <=> Hears(k) /\ Of[k] = u

\* presence.ts:67: who speaks, or has statistics, is in the voice room.
NoStaleVoice == \A u \in User : presence[u].speaking \/ presence[u].stats => presence[u].inVoice

\* Somebody who is online, whom the others are still to be told of.
Announcing(u) == \E k \in Conn : Of[k] = u /\ conn[k].newly

\* hub.ts:262-287, 365: what a connection was told is so, except what its snapshot has undone, and a
\* user whose coming is announced late, never, or after they have gone.
ViewIsTrue ==
  \A k \in Conn, u \in User :
    Hears(k) /\ u \in DOMAIN view[k] /\ k \notin torn =>
      \/ view[k][u] = Shown(presence[u])
      \/ Announcing(u) \/ u \in unannounced \/ u \in misled

=============================================================================
