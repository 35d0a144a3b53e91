---------------------------- MODULE PresenceProofs ----------------------------
(* Proofs about Presence, for any users, connections, frames and faults.                           *)
EXTENDS Presence, TLAPS

Link == [open : BOOLEAN, queued : 0..MaxQueued,
         at : {"idle", "member", "since", "list", "fill", "ack", "dms"},
         subscribed : BOOLEAN, newly : BOOLEAN, live : Views]

\* What the presence and the connections hold.
Typed == presence \in [User -> Entry] /\ conn \in [Conn -> Link]

\* A frame that is taken from the queue leaves a connection, and its subscription.
LEMMA FrameTyped ==
  ASSUME Typed, NEW k \in Conn, conn[k].queued > 0,
         NEW at \in {"idle", "member", "since", "list", "fill", "ack", "dms"}
  PROVE  /\ [[conn[k] EXCEPT !.at = at] EXCEPT !.queued = @ - 1] \in Link
         /\ [[conn[k] EXCEPT !.at = at] EXCEPT !.queued = @ - 1].subscribed = conn[k].subscribed
         /\ [[conn[k] EXCEPT !.at = at] EXCEPT !.queued = @ - 1].open = conn[k].open
<1>1. conn[k] \in Link
  BY DEF Typed
<1>2. conn[k].queued - 1 \in 0..MaxQueued
  BY <1>1, PresenceAssumption DEF Link
<1>. QED BY <1>1, <1>2 DEF Link

\* Every step but Close and Subscribe keeps who is open and subscribed.
SameHearers ==
  /\ conn' \in [Conn -> Link]
  /\ \A k \in Conn : conn'[k].subscribed = conn[k].subscribed /\ conn'[k].open = conn[k].open

\* Whatever it is that a connection goes on to do, its subscription stays.
LEMMA GoesOn ==
  ASSUME Typed, NEW k \in Conn, NEW l \in Link,
         l.subscribed = conn[k].subscribed, l.open = conn[k].open, conn' = [conn EXCEPT ![k] = l]
  PROVE  SameHearers
  BY DEF Typed, SameHearers

\* What a snapshot shows can be seen.
LEMMA ViewsTyped ==
  ASSUME Typed
  PROVE  Nothing \in Views /\ [u \in User |-> Shown(presence[u])] \in Views
<1>1. \A u \in User : Shown(presence[u]) \in Seen
  BY DEF Typed, Entry, Shown, Seen
<1>. QED BY <1>1 DEF Views

-----------------------------------------------------------------------------
(* The connections that a step leaves subscribed as they were.             *)

LEMMA FrameSteps ==
  ASSUME Typed, NEW k \in Conn, Handles(k),
         OtherFrame(k) \/ Stats(k) \/ Resume(k)
           \/ \E b \in BOOLEAN : Speaking(k, b) \/ AudioState(k, b)
  PROVE  SameHearers
<1>1. conn[k] \in Link /\ conn[k].queued > 0
  BY DEF Typed, Handles
<1>2. PICK at \in {"idle", "member", "dms"} :
        conn' = [conn EXCEPT ![k] = [[conn[k] EXCEPT !.at = at] EXCEPT !.queued = @ - 1]]
  <2>1. conn[k].at = "idle" /\ [conn[k] EXCEPT !.at = "idle"] = conn[k]
    BY <1>1 DEF Handles, Link
  <2>2. CASE OtherFrame(k) \/ \E b \in BOOLEAN : Speaking(k, b) \/ AudioState(k, b)
    <3>1. conn' = [conn EXCEPT ![k] = [conn[k] EXCEPT !.queued = @ - 1]]
      BY <2>2 DEF OtherFrame, Speaking, AudioState, Next1
    <3>. QED BY <2>1, <3>1
  <2>3. CASE Stats(k)
    BY <2>3 DEF Stats, Next1
  <2>4. CASE Resume(k)
    BY <2>4 DEF Resume, Next1
  <2>. QED BY <2>2, <2>3, <2>4
<1>. QED BY <1>1, <1>2, FrameTyped, GoesOn

LEMMA HandlerSteps ==
  ASSUME Typed, NEW k \in Conn,
         Arrive(k) \/ StatsTold(k) \/ Forbidden(k) \/ Since(k) \/ Listed(k) \/ SendSnapshot(k) \/ Announce(k)
           \/ Fail(k)
  PROVE  SameHearers /\ presence' = presence
<1>1. conn[k] \in Link /\ Nothing \in Views /\ [u \in User |-> Shown(presence[u])] \in Views
  BY ViewsTyped DEF Typed
<1>2. presence' = presence
  BY DEF Arrive, StatsTold, Forbidden, Since, Listed, SendSnapshot, Announce, Fail
<1>3. CASE Arrive(k)
  <2>1. conn[k].queued + 1 \in 0..MaxQueued
    BY <1>1, <1>3, PresenceAssumption DEF Arrive, Link
  <2>2. /\ [conn[k] EXCEPT !.queued = @ + 1] \in Link
        /\ [conn[k] EXCEPT !.queued = @ + 1].subscribed = conn[k].subscribed
        /\ [conn[k] EXCEPT !.queued = @ + 1].open = conn[k].open
    BY <1>1, <2>1 DEF Link
  <2>3. conn' = [conn EXCEPT ![k] = [conn[k] EXCEPT !.queued = @ + 1]]
    BY <1>3 DEF Arrive, Typed
  <2>. QED BY <1>2, <2>2, <2>3, GoesOn
<1>4. CASE ~Arrive(k)
  <2>1. PICK at \in {"idle", "fill", "ack", "list"}, newly \in BOOLEAN, live \in Views :
          conn' = [conn EXCEPT ![k] = [conn[k] EXCEPT !.at = at, !.newly = newly, !.live = live]]
    <3>1. conn[k].newly \in BOOLEAN /\ conn[k].live \in Views
      BY <1>1 DEF Link
    <3>2. CASE StatsTold(k) \/ Forbidden(k)
      <4>1. conn' = [conn EXCEPT ![k] = [conn[k] EXCEPT !.at = "idle", !.newly = conn[k].newly, !.live = conn[k].live]]
        BY <1>1, <3>2 DEF StatsTold, Forbidden, Link, Typed
      <4>. QED BY <3>1, <4>1
    <3>3. CASE Since(k)
      <4>1. PICK next \in {"ack", "list"} : conn' = [conn EXCEPT ![k].at = next]
        BY <3>3 DEF Since
      <4>2. conn' = [conn EXCEPT ![k] = [conn[k] EXCEPT !.at = next, !.newly = conn[k].newly, !.live = conn[k].live]]
        BY <1>1, <4>1 DEF Link, Typed
      <4>. QED BY <3>1, <4>2
    <3>4. CASE Listed(k)
      <4>1. conn' = [conn EXCEPT ![k] = [conn[k] EXCEPT !.at = "fill", !.newly = conn[k].newly,
                                           !.live = [u \in User |-> Shown(presence[u])]]]
        BY <1>1, <3>4 DEF Listed, Link, Typed
      <4>. QED BY <1>1, <3>1, <4>1
    <3>5. CASE SendSnapshot(k)
      <4>1. conn' = [conn EXCEPT ![k] = [conn[k] EXCEPT !.at = "ack", !.newly = conn[k].newly, !.live = Nothing]]
        BY <1>1, <3>5 DEF SendSnapshot, Link, Typed
      <4>. QED BY <1>1, <3>1, <4>1
    <3>6. CASE Announce(k)
      <4>1. conn' = [conn EXCEPT ![k] = [conn[k] EXCEPT !.at = "idle", !.newly = FALSE, !.live = conn[k].live]]
        BY <1>1, <3>6 DEF Announce, Link, Typed
      <4>. QED BY <3>1, <4>1
    <3>7. CASE Fail(k)
      <4>1. conn' = [conn EXCEPT ![k] = [conn[k] EXCEPT !.at = "idle", !.newly = FALSE, !.live = Nothing]]
        BY <1>1, <3>7 DEF Fail, Link, Typed
      <4>. QED BY <1>1, <4>1
    <3>. QED BY <1>4, <3>2, <3>3, <3>4, <3>5, <3>6, <3>7
  <2>2. /\ [conn[k] EXCEPT !.at = at, !.newly = newly, !.live = live] \in Link
        /\ [conn[k] EXCEPT !.at = at, !.newly = newly, !.live = live].subscribed = conn[k].subscribed
        /\ [conn[k] EXCEPT !.at = at, !.newly = newly, !.live = live].open = conn[k].open
    BY <1>1 DEF Link
  <2>. QED BY <1>2, <2>1, <2>2, GoesOn
<1>. QED BY <1>3, <1>4

-----------------------------------------------------------------------------
(* The entries.                                                            *)

\* An entry whose connections are these, and which keeps to the voice room.
InRoom(e) == e.speaking \/ e.stats => e.inVoice

\* A step that changes one entry, but not its connections.
LEMMA EntryChanges ==
  ASSUME Typed, NoStaleVoice, NEW u \in User, NEW e \in Entry, e.conns = presence[u].conns, InRoom(e),
         presence' = [presence EXCEPT ![u] = e]
  PROVE  /\ presence' \in [User -> Entry] /\ NoStaleVoice'
         /\ \A v \in User : presence'[v].conns = presence[v].conns
<1>1. presence' \in [User -> Entry] /\ \A v \in User : presence'[v] = IF v = u THEN e ELSE presence[v]
  BY DEF Typed
<1>. QED BY <1>1 DEF NoStaleVoice, InRoom

LEMMA VoiceSteps ==
  ASSUME Typed, NoStaleVoice, NEW k \in Conn,
         OtherFrame(k) \/ Stats(k) \/ Resume(k)
           \/ \E b \in BOOLEAN : Speaking(k, b) \/ AudioState(k, b)
  PROVE  /\ presence' \in [User -> Entry] /\ NoStaleVoice'
         /\ \A v \in User : presence'[v].conns = presence[v].conns
<1>. DEFINE u == Of[k]
<1>1. u \in User /\ presence[u] \in Entry /\ InRoom(presence[u])
  BY PresenceAssumption DEF Typed, NoStaleVoice, InRoom
<1>2. CASE OtherFrame(k) \/ Resume(k)
  <2>1. presence' = presence
    BY <1>2 DEF OtherFrame, Resume
  <2>. QED BY <2>1 DEF Typed, NoStaleVoice
<1>3. CASE Stats(k)
  <2>. DEFINE e == [presence[u] EXCEPT !.stats = TRUE]
  <2>1. e \in Entry /\ e.conns = presence[u].conns
    BY <1>1 DEF Entry
  <2>2. presence[u].inVoice /\ presence' = [presence EXCEPT ![u] = e]
    BY <1>1, <1>3 DEF Stats, Typed
  <2>3. e.inVoice = presence[u].inVoice
    BY <1>1 DEF Entry
  <2>4. InRoom(e)
    BY <2>2, <2>3 DEF InRoom
  <2>. QED BY <1>1, <2>1, <2>2, <2>4, EntryChanges
<1>4. ASSUME NEW b \in BOOLEAN, Speaking(k, b)
      PROVE  /\ presence' \in [User -> Entry] /\ NoStaleVoice'
             /\ \A v \in User : presence'[v].conns = presence[v].conns
  <2>. DEFINE e == [presence[u] EXCEPT !.speaking = b]
  <2>1. e \in Entry /\ e.conns = presence[u].conns
    BY <1>1 DEF Entry
  <2>2. presence[u].inVoice /\ presence' = [presence EXCEPT ![u] = e]
    BY <1>1, <1>4 DEF Speaking, MaySpeak, Typed
  <2>3. e.inVoice = presence[u].inVoice
    BY <1>1 DEF Entry
  <2>4. InRoom(e)
    BY <2>2, <2>3 DEF InRoom
  <2>. QED BY <1>1, <2>1, <2>2, <2>4, EntryChanges
<1>5. ASSUME NEW b \in BOOLEAN, AudioState(k, b)
      PROVE  /\ presence' \in [User -> Entry] /\ NoStaleVoice'
             /\ \A v \in User : presence'[v].conns = presence[v].conns
  <2>1. presence' = SetAudio(u, b)
    BY <1>5 DEF AudioState
  <2>2. /\ presence' \in [User -> Entry] /\ presence'[u].conns = presence[u].conns
        /\ presence'[u].inVoice = b /\ (presence'[u].speaking \/ presence'[u].stats => b)
        /\ \A v \in User : v # u => presence'[v] = presence[v]
    BY <1>1, <2>1 DEF SetAudio, Typed, Entry
  <2>. QED BY <1>1, <2>2 DEF NoStaleVoice
<1>. QED BY <1>2, <1>3, <1>4, <1>5

-----------------------------------------------------------------------------
(* The steps that change who hears the campaign.                           *)

\* The connections that count as online are the subscribed ones.
Subscribers == \A k \in Conn, u \in User : k \in presence[u].conns <=> conn[k].subscribed /\ Of[k] = u

Inv == Typed /\ Subscribers /\ NoStaleVoice

LEMMA CloseKeeps ==
  ASSUME Inv, NEW k \in Conn, Close(k)
  PROVE  Inv'
<1>. DEFINE u == Of[k]
<1>1. u \in User /\ presence[u] \in Entry /\ conn[k] \in Link /\ NoEntry \in Entry
  BY PresenceAssumption DEF Inv, Typed, Entry, NoEntry
<1>2. /\ conn' \in [Conn -> Link] /\ ~conn'[k].subscribed
      /\ \A j \in Conn : j # k => conn'[j].subscribed = conn[j].subscribed
  <2>1. [conn[k] EXCEPT !.open = FALSE, !.subscribed = FALSE] \in Link
        /\ ~[conn[k] EXCEPT !.open = FALSE, !.subscribed = FALSE].subscribed
    BY <1>1 DEF Link
  <2>2. conn' = [conn EXCEPT ![k] = [conn[k] EXCEPT !.open = FALSE, !.subscribed = FALSE]]
    BY DEF Close, Inv, Typed
  <2>. QED BY <2>1, <2>2 DEF Inv, Typed
<1>3. \A j \in Conn, v \in User : j \in presence[v].conns <=> conn[j].subscribed /\ Of[j] = v
  BY DEF Inv, Subscribers
<1>4. CASE ~conn[k].subscribed
  <2>1. presence' = presence
    BY <1>4 DEF Close
  <2>. QED BY <1>2, <1>3, <1>4, <2>1 DEF Inv, Typed, Subscribers, NoStaleVoice
<1>5. CASE conn[k].subscribed
  <2>1. presence' = Disconnected(u, k)
    BY <1>5 DEF Close
  <2>2. /\ presence' \in [User -> Entry] /\ presence'[u].conns = presence[u].conns \ {k}
        /\ presence'[u] = NoEntry \/ /\ presence'[u].inVoice = presence[u].inVoice
                                     /\ presence'[u].speaking = presence[u].speaking
                                     /\ presence'[u].stats = presence[u].stats
    <3>1. CASE presence[u].conns \subseteq {k}
      <4>1. presence' = [presence EXCEPT ![u] = NoEntry]
        BY <2>1, <3>1 DEF Disconnected
      <4>. QED BY <1>1, <3>1, <4>1 DEF Inv, Typed, NoEntry
    <3>2. CASE ~(presence[u].conns \subseteq {k})
      <4>1. presence' = [presence EXCEPT ![u].conns = @ \ {k}]
        BY <2>1, <3>2 DEF Disconnected
      <4>. QED BY <1>1, <4>1 DEF Inv, Typed, Entry
    <3>. QED BY <3>1, <3>2
  <2>3. \A v \in User : v # u => presence'[v] = presence[v]
    BY <2>1 DEF Disconnected, Inv, Typed
  <2>4. NoStaleVoice'
    BY <1>1, <2>2, <2>3 DEF Inv, NoStaleVoice, NoEntry
  <2>5. Subscribers'
    <3>. SUFFICES ASSUME NEW j \in Conn, NEW v \in User
                  PROVE  j \in presence'[v].conns <=> conn'[j].subscribed /\ Of[j] = v
      BY DEF Subscribers
    <3>1. CASE j = k
      <4>1. k \in presence[v].conns => v = u
        BY <1>3
      <4>2. k \notin presence'[v].conns
        BY <2>2, <2>3, <4>1
      <4>. QED BY <1>2, <3>1, <4>2
    <3>2. CASE j # k
      BY <1>2, <1>3, <2>2, <2>3, <3>2
    <3>. QED BY <3>1, <3>2
  <2>. QED BY <1>2, <2>2, <2>4, <2>5 DEF Inv, Typed
<1>. QED BY <1>4, <1>5

LEMMA SubscribeKeeps ==
  ASSUME Inv, NEW k \in Conn, Subscribe(k)
  PROVE  Inv'
<1>. DEFINE u == Of[k]
<1>1. u \in User /\ presence[u] \in Entry /\ conn[k] \in Link
  BY PresenceAssumption DEF Inv, Typed
<1>2. /\ conn' \in [Conn -> Link] /\ conn'[k].subscribed
      /\ \A j \in Conn : j # k => conn'[j].subscribed = conn[j].subscribed
  <2>. DEFINE newly == ~conn[k].subscribed /\ presence[u].conns = {}
  <2>1. PICK next \in {"since", "list"} :
          conn' = [conn EXCEPT ![k].at = next, ![k].subscribed = TRUE, ![k].newly = newly]
    BY DEF Subscribe
  <2>2. \A b \in BOOLEAN :
          /\ [conn[k] EXCEPT !.at = next, !.subscribed = TRUE, !.newly = b] \in Link
          /\ [conn[k] EXCEPT !.at = next, !.subscribed = TRUE, !.newly = b].subscribed
    BY <1>1 DEF Link
  <2>3. newly \in BOOLEAN
    OBVIOUS
  <2>4. conn' = [conn EXCEPT ![k] = [conn[k] EXCEPT !.at = next, !.subscribed = TRUE, !.newly = newly]]
    BY <2>1 DEF Inv, Typed
  <2>5. PICK l \in Link : l.subscribed /\ conn' = [conn EXCEPT ![k] = l]
    BY <2>2, <2>3, <2>4, Zenon
  <2>. QED BY <2>5 DEF Inv, Typed
<1>3. \A j \in Conn, v \in User : j \in presence[v].conns <=> conn[j].subscribed /\ Of[j] = v
  BY DEF Inv, Subscribers
<1>4. CASE conn[k].subscribed
  <2>1. presence' = presence
    BY <1>4 DEF Subscribe
  <2>. QED BY <1>2, <1>3, <1>4, <2>1 DEF Inv, Typed, Subscribers, NoStaleVoice
<1>5. CASE ~conn[k].subscribed
  <2>. DEFINE e == [presence[u] EXCEPT !.conns = @ \cup {k}]
  <2>1. e \in Entry /\ e.conns = presence[u].conns \cup {k} /\ e.inVoice = presence[u].inVoice
        /\ e.speaking = presence[u].speaking /\ e.stats = presence[u].stats
    BY <1>1 DEF Entry
  <2>2. presence' = [presence EXCEPT ![u] = e]
    BY <1>5 DEF Subscribe, Connected, Inv, Typed
  <2>3. presence' \in [User -> Entry] /\ \A v \in User : presence'[v] = IF v = u THEN e ELSE presence[v]
    BY <2>1, <2>2 DEF Inv, Typed
  <2>4. NoStaleVoice'
    BY <1>1, <2>1, <2>3 DEF Inv, NoStaleVoice
  <2>5. Subscribers'
    <3>. SUFFICES ASSUME NEW j \in Conn, NEW v \in User
                  PROVE  j \in presence'[v].conns <=> conn'[j].subscribed /\ Of[j] = v
      BY DEF Subscribers
    <3>1. CASE j = k
      <4>1. k \notin presence[v].conns
        BY <1>3, <1>5
      <4>2. k \in presence'[v].conns <=> v = u
        BY <2>1, <2>3, <4>1
      <4>. QED BY <1>2, <3>1, <4>2
    <3>2. CASE j # k
      <4>1. j \in presence'[v].conns <=> j \in presence[v].conns
        BY <2>1, <2>3, <3>2
      <4>. QED BY <1>2, <1>3, <3>2, <4>1
    <3>. QED BY <3>1, <3>2
  <2>. QED BY <1>2, <2>3, <2>4, <2>5 DEF Inv, Typed
<1>. QED BY <1>4, <1>5

-----------------------------------------------------------------------------

LEMMA InitInv == Init => Inv
<1>. SUFFICES ASSUME Init PROVE Inv
  OBVIOUS
<1>1. NoEntry \in Entry /\ Nothing \in Views
  BY DEF NoEntry, Entry, Views
<1>2. NewConn \in Link /\ ~NewConn.subscribed
  BY <1>1, PresenceAssumption DEF NewConn, Link
<1>. QED BY <1>1, <1>2 DEF Init, Inv, Typed, Subscribers, NoStaleVoice, NoEntry

LEMMA Inductive ==
  ASSUME Inv, [Next]_vars
  PROVE  Inv'
<1>1. Typed /\ NoStaleVoice
  BY DEF Inv
<1>2. ASSUME SameHearers, presence' \in [User -> Entry], NoStaleVoice',
             \A v \in User : presence'[v].conns = presence[v].conns
      PROVE  Inv'
  BY <1>2 DEF Inv, Typed, Subscribers, SameHearers
<1>3. CASE UNCHANGED vars
  <2>1. UNCHANGED <<presence, conn>>
    BY <1>3 DEF vars
  <2>. QED BY <2>1 DEF Inv, Typed, Subscribers, NoStaleVoice
<1>4. ASSUME NEW k \in Conn,
             OtherFrame(k) \/ Stats(k) \/ Resume(k)
               \/ \E b \in BOOLEAN : Speaking(k, b) \/ AudioState(k, b)
      PROVE  Inv'
  <2>1. Handles(k)
    BY <1>4 DEF OtherFrame, Stats, Resume, Speaking, AudioState
  <2>. QED BY <1>1, <1>2, <1>4, <2>1, FrameSteps, VoiceSteps
<1>5. ASSUME NEW k \in Conn,
             Arrive(k) \/ StatsTold(k) \/ Forbidden(k) \/ Since(k) \/ Listed(k) \/ SendSnapshot(k)
               \/ Announce(k) \/ Fail(k)
      PROVE  Inv'
  <2>1. SameHearers /\ presence' = presence
    BY <1>1, <1>5, HandlerSteps
  <2>2. presence' \in [User -> Entry] /\ NoStaleVoice' /\ \A v \in User : presence'[v].conns = presence[v].conns
    BY <1>1, <2>1 DEF Typed, NoStaleVoice
  <2>. QED BY <1>2, <2>1, <2>2
<1>. QED BY <1>3, <1>4, <1>5, CloseKeeps, SubscribeKeeps DEF Next, Step

LEMMA AlwaysInv == Spec => []Inv
  BY InitInv, Inductive, PTL DEF Spec

\* A resume that outlives its connection is the only thing that subscribes a closed one, and nothing
\* takes it back.
Late == \A k \in Conn : k \in outlived <=> conn[k].subscribed /\ ~conn[k].open

LEMMA LateInductive ==
  ASSUME Typed, Late, [Next]_vars
  PROVE  Late'
<1>1. ASSUME SameHearers, outlived' = outlived PROVE Late'
  BY <1>1 DEF Late, SameHearers
<1>2. CASE UNCHANGED vars
  BY <1>2 DEF Late, vars, ghosts
<1>3. ASSUME NEW k \in Conn,
             OtherFrame(k) \/ Stats(k) \/ Resume(k)
               \/ \E b \in BOOLEAN : Speaking(k, b) \/ AudioState(k, b)
      PROVE  Late'
  <2>1. Handles(k) /\ outlived' = outlived
    BY <1>3 DEF OtherFrame, Stats, Resume, Speaking, AudioState, ghosts
  <2>. QED BY <1>1, <1>3, <2>1, FrameSteps
<1>4. ASSUME NEW k \in Conn,
             Arrive(k) \/ StatsTold(k) \/ Forbidden(k) \/ Since(k) \/ Listed(k) \/ SendSnapshot(k)
               \/ Announce(k) \/ Fail(k)
      PROVE  Late'
  <2>1. outlived' = outlived
    BY <1>4 DEF Arrive, StatsTold, Forbidden, Since, Listed, SendSnapshot, Announce, Fail, ghosts
  <2>. QED BY <1>1, <1>4, <2>1, HandlerSteps
<1>5. ASSUME NEW k \in Conn, Close(k) PROVE Late'
  <2>1. /\ conn[k].open /\ outlived' = outlived
        /\ conn' = [conn EXCEPT ![k] = [conn[k] EXCEPT !.open = FALSE, !.subscribed = FALSE]]
    BY <1>5 DEF Close, Typed
  <2>2. ~[conn[k] EXCEPT !.open = FALSE, !.subscribed = FALSE].subscribed
    BY DEF Typed, Link
  <2>. QED BY <2>1, <2>2 DEF Late, Typed
<1>6. ASSUME NEW k \in Conn, Subscribe(k) PROVE Late'
  <2>. DEFINE newly == ~conn[k].subscribed /\ presence[Of[k]].conns = {}
  <2>1. PICK next \in {"since", "list"} :
          conn' = [conn EXCEPT ![k].at = next, ![k].subscribed = TRUE, ![k].newly = newly]
    BY <1>6 DEF Subscribe
  <2>. HIDE DEF newly
  <2>2. /\ [conn[k] EXCEPT !.at = next, !.subscribed = TRUE, !.newly = newly].subscribed
        /\ [conn[k] EXCEPT !.at = next, !.subscribed = TRUE, !.newly = newly].open = conn[k].open
    BY DEF Typed, Link
  <2>3. conn'[k].subscribed /\ conn'[k].open = conn[k].open /\ \A j \in Conn : j # k => conn'[j] = conn[j]
    BY <2>1, <2>2 DEF Typed
  <2>4. outlived' = IF conn[k].open THEN outlived ELSE outlived \cup {k}
    BY <1>6 DEF Subscribe
  <2>. QED BY <2>3, <2>4 DEF Late
<1>. QED BY <1>2, <1>3, <1>4, <1>5, <1>6 DEF Next, Step

LEMMA AlwaysLate == Spec => []Late
<1>1. Init => Late
  BY DEF Init, Late, NewConn
<1>2. Inv => Typed
  BY DEF Inv
<1>. QED BY <1>1, <1>2, AlwaysInv, LateInductive, PTL DEF Spec

\* The connections that count for somebody's being online are those of theirs that get the broadcasts,
\* open and subscribed, and no others, whatever is awaited, fails or closes in the middle; except those
\* that a resume subscribed after they had closed (presence.ts:10, hub.ts:262).
THEOREM OnlineHear == Spec => []HearersAreOnline
<1>1. Inv /\ Late => HearersAreOnline
  BY DEF Inv, Late, Subscribers, HearersAreOnline, Hears
<1>. QED BY <1>1, AlwaysInv, AlwaysLate, PTL

\* Who speaks or has statistics is in the voice room (presence.ts:67).
THEOREM VoiceIsCurrent == Spec => []NoStaleVoice
<1>1. Inv => NoStaleVoice
  BY DEF Inv
<1>. QED BY <1>1, AlwaysInv, PTL


-----------------------------------------------------------------------------
(* What the connections are told.                                          *)

\* The voice of a user is shown as it is, and whether they are online, but for one whose coming is still to
\* be told, was never told, or was told when they had gone.
Agrees(shown, u) ==
  /\ shown.inVoice = presence[u].inVoice /\ shown.speaking = presence[u].speaking
  /\ \/ shown.online <=> presence[u].conns # {}
     \/ presence[u].conns # {} /\ (Announcing(u) \/ u \in unannounced)
     \/ u \in misled

\* The views and the snapshots that are not late agree; a connection sees its own user online from the
\* beginning, and has no view before it is subscribed.
ViewsAgree ==
  \A k \in Conn : Hears(k) /\ k \notin torn => \A u \in DOMAIN view[k] : Agrees(view[k][u], u)
SnapshotsAgree ==
  \A k \in Conn : Hears(k) /\ conn[k].at = "fill" /\ k \notin late =>
    \A u \in User : Agrees(conn[k].live[u], u)
SeesItself ==
  \A k \in Conn : Hears(k) =>
    /\ Of[k] \in DOMAIN view[k] => view[k][Of[k]].online
    /\ conn[k].at = "fill" => conn[k].live[Of[k]].online
Orderly ==
  /\ view \in [Conn -> Views]
  /\ \A k \in Conn : /\ conn[k].at = "fill" => conn[k].live \in [User -> Seen]
                     /\ conn[k].open /\ ~conn[k].subscribed => view[k] = Nothing
                     /\ conn[k].newly => conn[k].at \in {"since", "list", "fill", "ack"}

Told == ViewsAgree /\ SnapshotsAgree /\ SeesItself /\ Orderly

LEMMA NothingSeen == Nothing \in Views /\ DOMAIN Nothing = {}
  BY DEF Nothing, Views

LEMMA ChangesTyped ==
  /\ Comes \in [Seen -> Seen] /\ \A s \in Seen : Comes[s] = [s EXCEPT !.online = TRUE]
  /\ Goes \in [Seen -> Seen] /\ \A s \in Seen : Goes[s] = [online |-> FALSE, inVoice |-> FALSE, speaking |-> FALSE]
  /\ \A b \in BOOLEAN :
       /\ Voice(b) \in [Seen -> Seen] /\ \A s \in Seen : Voice(b)[s] = [s EXCEPT !.inVoice = b, !.speaking = b /\ @]
       /\ Talks(b) \in [Seen -> Seen] /\ \A s \in Seen : Talks(b)[s] = [s EXCEPT !.speaking = b]
<1>1. \A s \in Seen : [s EXCEPT !.online = TRUE] \in Seen
  BY DEF Seen
<1>2. Shown(NoEntry) = [online |-> FALSE, inVoice |-> FALSE, speaking |-> FALSE] /\ Shown(NoEntry) \in Seen
  BY DEF Shown, NoEntry, Seen
<1>3. ASSUME NEW b \in BOOLEAN, NEW s \in Seen
      PROVE  [s EXCEPT !.inVoice = b, !.speaking = b /\ @] \in Seen /\ [s EXCEPT !.speaking = b] \in Seen
  BY <1>3 DEF Seen
<1>. QED BY <1>1, <1>2, <1>3 DEF Comes, Goes, Voice, Talks

LEMMA ShownFields ==
  ASSUME NEW e \in Entry
  PROVE  /\ Shown(e) \in Seen /\ (Shown(e).online <=> e.conns # {})
         /\ Shown(e).inVoice = e.inVoice /\ Shown(e).speaking = e.speaking
  BY DEF Shown, Seen, Entry

\* Those who are told see the change, of that user, and nothing else.
LEMMA ViewsTold ==
  ASSUME view \in [Conn -> Views], NEW ks, NEW u \in User, NEW change \in [Seen -> Seen], Tell(ks, u, change)
  PROVE  /\ view' \in [Conn -> Views]
         /\ \A j \in Conn : /\ DOMAIN view'[j] = DOMAIN view[j] /\ DOMAIN view[j] \subseteq User
                            /\ view[j] = Nothing => view'[j] = Nothing
         /\ \A j \in Conn : \A v \in DOMAIN view[j] :
              /\ view[j][v] \in Seen
              /\ j \notin ks \/ v # u => view'[j][v] = view[j][v]
<1>1. ASSUME NEW j \in Conn
      PROVE  /\ view'[j] \in Views /\ DOMAIN view'[j] = DOMAIN view[j] /\ DOMAIN view[j] \subseteq User
             /\ view[j] = Nothing => view'[j] = Nothing
             /\ \A v \in DOMAIN view[j] :
                  /\ view[j][v] \in Seen
                  /\ j \notin ks \/ v # u => view'[j][v] = view[j][v]
  <2>1. view'[j] = IF j \in ks /\ u \in DOMAIN view[j] THEN [view[j] EXCEPT ![u] = change[@]] ELSE view[j]
    BY DEF Tell
  <2>2. CASE view[j] = Nothing
    BY <2>1, <2>2, NothingSeen
  <2>3. CASE view[j] \in [User -> Seen]
    <3>1. view'[j] \in [User -> Seen]
      BY <2>1, <2>3
    <3>2. view[j] = Nothing => User = {}
      BY <2>3, NothingSeen
    <3>. QED BY <2>1, <2>3, <3>1, <3>2 DEF Views
  <2>. QED BY <2>2, <2>3 DEF Views
<1>2. view' \in [Conn -> Views]
  BY <1>1 DEF Tell
<1>. QED BY <1>1, <1>2

-----------------------------------------------------------------------------
(* What the steps do to the connections.                                   *)

\* The other connections stay, and this one is as open and as subscribed as it was.
Stays(k) ==
  /\ \A j \in Conn \ {k} : conn'[j] = conn[j]
  /\ conn'[k].open = conn[k].open /\ conn'[k].subscribed = conn[k].subscribed

LEMMA FrameFields ==
  ASSUME Typed, NEW k \in Conn,
         OtherFrame(k) \/ Stats(k) \/ Resume(k)
           \/ \E b \in BOOLEAN : Speaking(k, b) \/ AudioState(k, b)
  PROVE  /\ Stays(k) /\ conn[k].at = "idle" /\ conn'[k].at \in {"idle", "member", "dms"}
         /\ conn'[k].newly = conn[k].newly
<1>1. Handles(k) /\ conn[k] \in Link
  BY DEF OtherFrame, Stats, Resume, Speaking, AudioState, Typed
<1>2. CASE OtherFrame(k) \/ \E b \in BOOLEAN : Speaking(k, b) \/ AudioState(k, b)
  <2>1. conn' = [conn EXCEPT ![k] = [conn[k] EXCEPT !.queued = @ - 1]]
    BY <1>2 DEF OtherFrame, Speaking, AudioState, Next1
  <2>. QED BY <1>1, <2>1 DEF Typed, Link, Handles, Stays
<1>3. CASE Stats(k) \/ Resume(k)
  <2>1. PICK at \in {"member", "dms"} :
          conn' = [conn EXCEPT ![k] = [[conn[k] EXCEPT !.at = at] EXCEPT !.queued = @ - 1]]
    BY <1>3 DEF Stats, Resume, Next1
  <2>. QED BY <1>1, <2>1 DEF Typed, Link, Handles, Stays
<1>. QED BY <1>2, <1>3

LEMMA HandlerFields ==
  ASSUME Typed, NEW k \in Conn,
         Arrive(k) \/ StatsTold(k) \/ Forbidden(k) \/ Since(k) \/ Listed(k) \/ SendSnapshot(k) \/ Announce(k)
           \/ Fail(k)
  PROVE  /\ Stays(k)
         /\ Arrive(k) => conn'[k].at = conn[k].at /\ conn'[k].newly = conn[k].newly /\ conn'[k].live = conn[k].live
         /\ StatsTold(k) \/ Forbidden(k) => conn'[k].at = "idle" /\ conn'[k].newly = conn[k].newly
         /\ Since(k) => conn'[k].at \in {"ack", "list"} /\ conn'[k].newly = conn[k].newly
         /\ Listed(k) => /\ conn'[k].at = "fill" /\ conn'[k].newly = conn[k].newly
                         /\ conn'[k].live = [u \in User |-> Shown(presence[u])]
         /\ SendSnapshot(k) => conn'[k].at = "ack" /\ conn'[k].newly = conn[k].newly
         /\ Announce(k) \/ Fail(k) => conn'[k].at = "idle" /\ ~conn'[k].newly
<1>1. conn \in [Conn -> Link] /\ conn[k] \in Link
  BY DEF Typed
<1>. QED BY <1>1 DEF Arrive, StatsTold, Forbidden, Since, Listed, SendSnapshot, Announce, Fail, Link, Stays

LEMMA CloseFields ==
  ASSUME Typed, NEW k \in Conn, Close(k)
  PROVE  /\ \A j \in Conn \ {k} : conn'[j] = conn[j]
         /\ ~conn'[k].open /\ conn'[k].newly = conn[k].newly /\ conn'[k].at = conn[k].at
         /\ conn'[k].live = conn[k].live
<1>1. conn' = [conn EXCEPT ![k].open = FALSE, ![k].subscribed = FALSE]
  BY DEF Close
<1>. QED BY <1>1 DEF Typed, Link

LEMMA SubscribeFields ==
  ASSUME Typed, NEW k \in Conn, Subscribe(k)
  PROVE  /\ \A j \in Conn \ {k} : conn'[j] = conn[j]
         /\ conn'[k].open = conn[k].open /\ conn'[k].subscribed /\ conn'[k].at \in {"since", "list"}
         /\ conn'[k].newly <=> ~conn[k].subscribed /\ presence[Of[k]].conns = {}
<1>1. PICK next \in {"since", "list"} :
        conn' = [conn EXCEPT ![k].at = next, ![k].subscribed = TRUE,
                             ![k].newly = ~conn[k].subscribed /\ presence[Of[k]].conns = {}]
  BY DEF Subscribe
<1>. QED BY <1>1 DEF Typed, Link

-----------------------------------------------------------------------------
(* What the steps do to the views.                                         *)

\* A step that tells nothing, and after which the same is to be told.
Silent(k) ==
  /\ UNCHANGED <<view, torn, late, unannounced, misled>>
  /\ \A u \in User : Shown(presence[u])' = Shown(presence[u])
  /\ Stays(k)
  /\ conn'[k].newly = conn[k].newly
  /\ conn'[k].newly => conn'[k].at \in {"since", "list", "fill", "ack"}
  /\ conn'[k].at = "fill" => \/ conn[k].at = "fill" /\ conn'[k].live = conn[k].live
                             \/ conn'[k].live = [u \in User |-> Shown(presence[u])]

LEMMA SilentTold ==
  ASSUME Inv, Inv', Told, NEW k \in Conn, Silent(k)
  PROVE  Told'
<1>1. \A u \in User : /\ presence'[u].inVoice = presence[u].inVoice /\ presence'[u].speaking = presence[u].speaking
                      /\ presence'[u].conns = {} <=> presence[u].conns = {}
  BY DEF Silent, Shown
<1>2. \A j \in Conn : conn'[j].newly = conn[j].newly /\ (Hears(j)' <=> Hears(j))
  BY DEF Silent, Stays, Hears
<1>3. \A u \in User : Announcing(u)' <=> Announcing(u)
  BY <1>2 DEF Announcing
<1>4. Orderly'
  <2>1. \A u \in User : Shown(presence[u]) \in Seen
    BY DEF Inv, Typed, Entry, Shown, Seen
  <2>. QED BY <2>1 DEF Told, Orderly, Silent, Stays
<1>5. \A j \in Conn : conn[j].at = "fill" => conn[j].live \in [User -> Seen]
  BY DEF Told, Orderly
<1>6. \A j \in Conn : view[j] \in Views
  BY DEF Told, Orderly
<1>7. \A j \in Conn : DOMAIN view[j] \subseteq User
  BY <1>6, NothingSeen DEF Views
<1>8. ViewsAgree'
  BY <1>1, <1>2, <1>3, <1>7 DEF Told, ViewsAgree, Agrees, Silent
<1>9. ASSUME NEW j \in Conn, Hears(j)', conn'[j].at = "fill"
      PROVE  \/ conn[j].at = "fill" /\ conn'[j].live = conn[j].live
             \/ \A u \in User : conn'[j].live[u] = Shown(presence[u])
  BY <1>9 DEF Silent, Stays
<1>10. SnapshotsAgree'
  <2>. SUFFICES ASSUME NEW j \in Conn, Hears(j)', conn'[j].at = "fill", j \notin late', NEW u \in User
                PROVE  Agrees(conn[j].live[u], u)'
    BY DEF SnapshotsAgree
  <2>1. j \notin late /\ misled' = misled /\ unannounced' = unannounced
    BY DEF Silent
  <2>2. CASE conn[j].at = "fill" /\ conn'[j].live = conn[j].live
    <3>1. Agrees(conn[j].live[u], u)
      BY <1>2, <2>1, <2>2 DEF Told, SnapshotsAgree
    <3>. QED BY <1>1, <1>3, <2>1, <2>2, <3>1 DEF Agrees
  <2>3. CASE \A v \in User : conn'[j].live[v] = Shown(presence[v])
    <3>. presence[u] \in Entry
      BY DEF Inv, Typed
    <3>. QED BY <1>1, <2>3, ShownFields DEF Agrees
  <2>. QED BY <1>9, <2>2, <2>3
<1>11. SeesItself'
  <2>. SUFFICES ASSUME NEW j \in Conn, Hears(j)'
                PROVE  /\ Of[j] \in DOMAIN view'[j] => view'[j][Of[j]].online
                       /\ conn'[j].at = "fill" => conn'[j].live[Of[j]].online
    BY DEF SeesItself
  <2>1. Of[j] \in User /\ presence[Of[j]] \in Entry /\ presence[Of[j]].conns # {}
    BY <1>2, PresenceAssumption DEF Inv, Typed, Subscribers, Hears
  <2>2. Shown(presence[Of[j]]).online
    BY <2>1, ShownFields
  <2>. QED BY <1>2, <1>9, <2>1, <2>2 DEF Told, SeesItself, Silent
<1>. QED BY <1>4, <1>8, <1>10, <1>11 DEF Told

\* A change of a user's voice is told to all who hear: the views follow it, the snapshots are late.
LEMMA VoiceTold ==
  ASSUME Inv, Inv', Told, NEW k \in Conn, NEW b \in BOOLEAN, Speaking(k, b) \/ AudioState(k, b)
  PROVE  Told'
<1>. DEFINE u == Of[k]
<1>1. u \in User /\ presence[u] \in Entry /\ presence \in [User -> Entry] /\ Typed
  BY PresenceAssumption DEF Inv, Typed
<1>2. PICK change \in {Voice(b), Talks(b)} :
        /\ Tell(Hearers, u, change)
        /\ presence'[u].conns = presence[u].conns
        /\ \A s \in Seen : /\ change[s].online = s.online
                           /\ s.inVoice = presence[u].inVoice => change[s].inVoice = presence'[u].inVoice
                           /\ s.speaking = presence[u].speaking => change[s].speaking = presence'[u].speaking
        /\ \A v \in User \ {u} : presence'[v] = presence[v]
  <2>1. CASE Speaking(k, b)
    <3>1. presence' = [presence EXCEPT ![u].speaking = b] /\ Tell(Hearers, u, Talks(b))
      BY <2>1 DEF Speaking
    <3>2. /\ presence'[u].conns = presence[u].conns /\ presence'[u].inVoice = presence[u].inVoice
          /\ presence'[u].speaking = b /\ \A v \in User \ {u} : presence'[v] = presence[v]
      BY <1>1, <3>1 DEF Entry
    <3>3. ASSUME NEW s \in Seen
          PROVE  Talks(b)[s].online = s.online /\ Talks(b)[s].inVoice = s.inVoice /\ Talks(b)[s].speaking = b
      <4>1. Talks(b)[s] = [s EXCEPT !.speaking = b]
        BY ChangesTyped
      <4>. QED BY <4>1 DEF Seen
    <3>. QED BY <3>1, <3>2, <3>3
  <2>2. CASE AudioState(k, b)
    <3>1. presence' = SetAudio(u, b) /\ Tell(Hearers, u, Voice(b))
      BY <2>2 DEF AudioState
    <3>2. /\ presence'[u].conns = presence[u].conns /\ presence'[u].inVoice = b
          /\ presence'[u].speaking = (b /\ presence[u].speaking)
          /\ \A v \in User \ {u} : presence'[v] = presence[v]
      BY <1>1, <3>1 DEF Entry, SetAudio
    <3>3. ASSUME NEW s \in Seen
          PROVE  /\ Voice(b)[s].online = s.online /\ Voice(b)[s].inVoice = b
                 /\ Voice(b)[s].speaking = (b /\ s.speaking)
      <4>1. Voice(b)[s] = [s EXCEPT !.inVoice = b, !.speaking = b /\ @]
        BY ChangesTyped
      <4>. QED BY <4>1 DEF Seen
    <3>. QED BY <3>1, <3>2, <3>3
  <2>. QED BY <2>1, <2>2
<1>3. change \in [Seen -> Seen]
  BY ChangesTyped
<1>4. UNCHANGED <<torn, unannounced, misled>> /\ late' = late \cup {j \in Hearers : conn[j].at = "fill"}
  BY <1>2 DEF Speaking, AudioState, Tell
<1>5. /\ Stays(k) /\ conn[k].at = "idle" /\ conn'[k].at \in {"idle", "member", "dms"}
      /\ conn'[k].newly = conn[k].newly
  BY <1>1, FrameFields
<1>6. \A j \in Conn : conn'[j].newly = conn[j].newly /\ (Hears(j)' <=> Hears(j))
  BY <1>5 DEF Stays, Hears
<1>7. \A v \in User : Announcing(v)' <=> Announcing(v)
  BY <1>6 DEF Announcing
<1>8. view \in [Conn -> Views]
  BY DEF Told, Orderly
<1>9. /\ view' \in [Conn -> Views]
      /\ \A j \in Conn : /\ DOMAIN view'[j] = DOMAIN view[j] /\ DOMAIN view[j] \subseteq User
                         /\ view[j] = Nothing => view'[j] = Nothing
      /\ \A j \in Conn : \A v \in DOMAIN view[j] :
           /\ view[j][v] \in Seen
           /\ j \notin Hearers \/ v # u => view'[j][v] = view[j][v]
  BY <1>1, <1>2, <1>3, <1>8, ViewsTold
<1>10. \A j \in Hearers : u \in DOMAIN view[j] => view'[j][u] = change[view[j][u]]
  BY <1>1, <1>2, <1>8 DEF Tell, Hearers
<1>11. Orderly'
  BY <1>5, <1>9 DEF Told, Orderly, Stays
<1>12. ViewsAgree'
  <2>. SUFFICES ASSUME NEW j \in Conn, Hears(j)', j \notin torn', NEW v \in DOMAIN view'[j]
                PROVE  Agrees(view[j][v], v)'
    BY DEF ViewsAgree
  <2>1. Agrees(view[j][v], v) /\ v \in DOMAIN view[j] /\ v \in User /\ j \in Hearers
    BY <1>4, <1>6, <1>9 DEF Told, ViewsAgree, Hearers
  <2>. QED BY <1>2, <1>4, <1>7, <1>9, <1>10, <2>1 DEF Agrees
<1>13. SnapshotsAgree'
  BY <1>4, <1>5, <1>6 DEF SnapshotsAgree, Hearers, Stays
<1>14. SeesItself'
  BY <1>2, <1>5, <1>6, <1>9, <1>10 DEF Told, SeesItself, Stays, Hearers
<1>. QED BY <1>11, <1>12, <1>13, <1>14 DEF Told

\* A snapshot that is not late is the view from now on; a late one has torn it.
LEMMA SnapshotTold ==
  ASSUME Inv, Inv', Told, NEW k \in Conn, SendSnapshot(k)
  PROVE  Told'
<1>1. /\ Stays(k) /\ conn[k].at = "fill" /\ conn'[k].at = "ack" /\ conn'[k].newly = conn[k].newly
      /\ UNCHANGED <<presence, unannounced, misled>>
      /\ torn' = IF k \in late THEN torn \cup {k} ELSE torn \ {k}
      /\ late' = late \ {k}
  BY HandlerFields DEF SendSnapshot, Inv
<1>2. /\ view' \in [Conn -> Views] /\ \A j \in Conn \ {k} : view'[j] = view[j]
      /\ view'[k] = IF Hears(k) THEN conn[k].live ELSE Nothing
  <2>1. view' = [view EXCEPT ![k] = IF Hears(k) THEN conn[k].live ELSE Nothing]
    BY DEF SendSnapshot
  <2>2. conn[k].live \in Views /\ view \in [Conn -> Views]
    BY <1>1 DEF Told, Orderly, Views
  <2>. QED BY <2>1, <2>2, NothingSeen
<1>3. \A j \in Conn : conn'[j].newly = conn[j].newly /\ (Hears(j)' <=> Hears(j))
  BY <1>1 DEF Stays, Hears
<1>4. \A u \in User : Announcing(u)' <=> Announcing(u)
  BY <1>3 DEF Announcing
<1>5. conn[k].live \in [User -> Seen] /\ Of[k] \in User
  BY <1>1, PresenceAssumption DEF Told, Orderly
<1>6. Orderly'
  BY <1>1, <1>2 DEF Told, Orderly, Stays, Hears
<1>7. ViewsAgree'
  <2>. SUFFICES ASSUME NEW j \in Conn, Hears(j)', j \notin torn', NEW v \in DOMAIN view'[j]
                PROVE  Agrees(view[j][v], v)'
    BY DEF ViewsAgree
  <2>1. Agrees(view'[j][v], v) /\ v \in User
    <3>1. CASE j = k
      BY <1>1, <1>2, <1>3, <1>5, <3>1 DEF Told, SnapshotsAgree
    <3>2. CASE j # k
      <4>1. DOMAIN view[j] \subseteq User
        BY NothingSeen DEF Told, Orderly, Views
      <4>. QED BY <1>1, <1>2, <1>3, <3>2, <4>1 DEF Told, ViewsAgree
    <3>. QED BY <3>1, <3>2
  <2>. QED BY <1>1, <1>4, <2>1 DEF Agrees
<1>8. SnapshotsAgree'
  <2>. SUFFICES ASSUME NEW j \in Conn, Hears(j)', conn'[j].at = "fill", j \notin late', NEW u \in User
                PROVE  Agrees(conn[j].live[u], u)'
    BY DEF SnapshotsAgree
  <2>1. j # k /\ conn'[j] = conn[j] /\ Agrees(conn[j].live[u], u)
    BY <1>1, <1>3 DEF Stays, Told, SnapshotsAgree
  <2>. QED BY <1>1, <1>4, <2>1 DEF Agrees
<1>9. SeesItself'
  BY <1>1, <1>2, <1>3 DEF Told, SeesItself, Stays
<1>. QED BY <1>6, <1>7, <1>8, <1>9 DEF Told

\* A handler that is left without its announcement leaves its user unannounced, if they are there.
LEMMA FailTold ==
  ASSUME Inv, Inv', Told, NEW k \in Conn, Fail(k)
  PROVE  Told'
<1>1. /\ Stays(k) /\ conn'[k].at = "idle" /\ ~conn'[k].newly
      /\ UNCHANGED <<presence, view, torn, misled>>
      /\ unannounced' = IF conn[k].newly /\ presence[Of[k]].conns # {} THEN unannounced \cup {Of[k]} ELSE unannounced
      /\ late' = late \ {k}
  BY HandlerFields DEF Fail, Inv
<1>2. \A j \in Conn : Hears(j)' <=> Hears(j)
  BY <1>1 DEF Stays, Hears
<1>3. \A u \in User : presence[u].conns # {} /\ (Announcing(u) \/ u \in unannounced) =>
                      Announcing(u)' \/ u \in unannounced'
  <2>. SUFFICES ASSUME NEW u \in User, presence[u].conns # {}, Announcing(u), u \notin unannounced'
                PROVE  Announcing(u)'
    BY <1>1
  <2>1. PICK j \in Conn : Of[j] = u /\ conn[j].newly
    BY DEF Announcing
  <2>2. j # k
    BY <1>1, <2>1
  <2>. QED BY <1>1, <2>1, <2>2 DEF Announcing, Stays
<1>4. Orderly'
  BY <1>1 DEF Told, Orderly, Stays
<1>5. \A s, u : u \in User /\ Agrees(s, u) => /\ s.inVoice = presence'[u].inVoice /\ s.speaking = presence'[u].speaking
                                              /\ \/ s.online <=> presence'[u].conns # {}
                                                 \/ presence'[u].conns # {} /\ (Announcing(u)' \/ u \in unannounced')
                                                 \/ u \in misled'
  BY <1>1, <1>3 DEF Agrees
<1>6. \A j \in Conn : DOMAIN view[j] \subseteq User
  BY NothingSeen DEF Told, Orderly, Views
<1>7. ViewsAgree'
  <2>. SUFFICES ASSUME NEW j \in Conn, Hears(j)', j \notin torn', NEW v \in DOMAIN view'[j]
                PROVE  Agrees(view[j][v], v)'
    BY DEF ViewsAgree
  <2>1. Agrees(view[j][v], v) /\ v \in User
    BY <1>1, <1>2, <1>6 DEF Told, ViewsAgree
  <2>. QED BY <1>1, <1>5, <2>1 DEF Agrees
<1>8. SnapshotsAgree'
  <2>. SUFFICES ASSUME NEW j \in Conn, Hears(j)', conn'[j].at = "fill", j \notin late', NEW u \in User
                PROVE  Agrees(conn[j].live[u], u)'
    BY DEF SnapshotsAgree
  <2>1. j # k /\ conn'[j] = conn[j] /\ Agrees(conn[j].live[u], u)
    BY <1>1, <1>2 DEF Stays, Told, SnapshotsAgree
  <2>2. PICK s : s = conn[j].live[u]
    OBVIOUS
  <2>3. Agrees(s, u)
    BY <2>1, <2>2
  <2>4. /\ s.inVoice = presence'[u].inVoice /\ s.speaking = presence'[u].speaking
        /\ \/ s.online <=> presence'[u].conns # {}
           \/ presence'[u].conns # {} /\ (Announcing(u)' \/ u \in unannounced')
           \/ u \in misled'
    BY <1>5, <2>3
  <2>. QED BY <2>1, <2>2, <2>4 DEF Agrees
<1>9. SeesItself'
  BY <1>1, <1>2 DEF Told, SeesItself, Stays
<1>. QED BY <1>4, <1>7, <1>8, <1>9 DEF Told

\* The others are told of a coming: from then on they see it, and whoever was waiting for a snapshot is late.
LEMMA AnnounceTold ==
  ASSUME Inv, Inv', Told, NEW k \in Conn, Announce(k), conn[k].newly
  PROVE  Told'
<1>. DEFINE u == Of[k]
<1>1. /\ Stays(k) /\ conn'[k].at = "idle" /\ ~conn'[k].newly /\ u \in User
      /\ UNCHANGED <<presence, torn, unannounced>>
      /\ misled' = IF presence[u].conns = {} THEN misled \cup {u} ELSE misled
      /\ Tell(Others(k), u, Comes)
      /\ late' = late \cup {j \in Others(k) : conn[j].at = "fill"}
  BY HandlerFields, PresenceAssumption DEF Announce, AnnounceTo, Tell, Inv
<1>2. view \in [Conn -> Views] /\ Comes \in [Seen -> Seen]
  BY ChangesTyped DEF Told, Orderly
<1>3. /\ view' \in [Conn -> Views]
      /\ \A j \in Conn : /\ DOMAIN view'[j] = DOMAIN view[j] /\ DOMAIN view[j] \subseteq User
                         /\ view[j] = Nothing => view'[j] = Nothing
      /\ \A j \in Conn : \A v \in DOMAIN view[j] :
           /\ view[j][v] \in Seen
           /\ j \notin Others(k) \/ v # u => view'[j][v] = view[j][v]
  BY <1>1, <1>2, ViewsTold
<1>4. ASSUME NEW j \in Others(k), u \in DOMAIN view[j]
      PROVE  /\ view'[j][u].online
             /\ view'[j][u].inVoice = view[j][u].inVoice /\ view'[j][u].speaking = view[j][u].speaking
  <2>1. view'[j][u] = Comes[view[j][u]]
    BY <1>1, <1>2, <1>4 DEF Tell, Others
  <2>2. view[j][u] \in Seen
    BY <1>3, <1>4 DEF Others
  <2>3. view'[j][u] = [view[j][u] EXCEPT !.online = TRUE]
    BY <2>1, <2>2, ChangesTyped
  <2>. QED BY <2>2, <2>3 DEF Seen
<1>5. \A j \in Conn : /\ Hears(j)' <=> Hears(j)
                      /\ Hears(j) /\ j # k => j \in Others(k)
  BY <1>1 DEF Stays, Hears, Others
<1>6. \A v \in User \ {u} : Announcing(v)' <=> Announcing(v)
  BY <1>1 DEF Announcing, Stays
<1>7. Orderly'
  BY <1>1, <1>3 DEF Told, Orderly, Stays
<1>8. SeesItself'
  BY <1>1, <1>3, <1>4, <1>5 DEF Told, SeesItself, Stays
<1>9. ViewsAgree'
  <2>. SUFFICES ASSUME NEW j \in Conn, Hears(j)', j \notin torn', NEW v \in DOMAIN view'[j]
                PROVE  Agrees(view[j][v], v)'
    BY DEF ViewsAgree
  <2>1. Agrees(view[j][v], v) /\ v \in User /\ Hears(j)
    BY <1>1, <1>3, <1>5 DEF Told, ViewsAgree
  <2>2. CASE v # u
    BY <1>1, <1>3, <1>6, <2>1, <2>2 DEF Agrees
  <2>3. CASE v = u
    <3>1. view'[j][u].inVoice = view[j][u].inVoice /\ view'[j][u].speaking = view[j][u].speaking
      BY <1>3, <1>4, <2>3
    <3>2. view'[j][u].online
      <4>1. CASE j = k
        BY <1>8, <2>3, <4>1 DEF SeesItself
      <4>2. CASE j # k
        BY <1>3, <1>4, <1>5, <2>1, <2>3, <4>2
      <4>. QED BY <4>1, <4>2
    <3>. QED BY <1>1, <2>1, <2>3, <3>1, <3>2 DEF Agrees
  <2>. QED BY <2>2, <2>3
<1>10. SnapshotsAgree'
  <2>. SUFFICES ASSUME NEW j \in Conn, Hears(j)', conn'[j].at = "fill", j \notin late'
                PROVE  FALSE
    BY DEF SnapshotsAgree
  <2>1. j # k /\ conn[j].at = "fill" /\ j \in Others(k)
    BY <1>1, <1>5 DEF Stays
  <2>. QED BY <1>1, <2>1
<1>. QED BY <1>7, <1>8, <1>9, <1>10 DEF Told

\* With the last connection of a user everybody is told; a connection that closes hears nothing more.
LEMMA CloseTold ==
  ASSUME Inv, Inv', Told, NEW k \in Conn, Close(k)
  PROVE  Told'
<1>. DEFINE u == Of[k] last == conn[k].subscribed /\ presence[u].conns = {k}
<1>1. /\ \A j \in Conn \ {k} : conn'[j] = conn[j]
      /\ ~conn'[k].open /\ conn'[k].newly = conn[k].newly /\ conn'[k].at = conn[k].at
      /\ conn'[k].live = conn[k].live
      /\ u \in User /\ presence[u] \in Entry /\ presence \in [User -> Entry]
      /\ UNCHANGED <<torn, misled>>
  BY CloseFields, PresenceAssumption DEF Close, Inv, Typed
<1>2. view \in [Conn -> Views] /\ Goes \in [Seen -> Seen]
  BY ChangesTyped DEF Told, Orderly
<1>3. \A j \in Conn : /\ Hears(j)' <=> Hears(j) /\ j # k
                      /\ Hears(j)' => j \in Others(k)
  BY <1>1 DEF Hears, Others
<1>4. \A v \in User : Announcing(v)' <=> Announcing(v)
  BY <1>1 DEF Announcing
<1>5. \A j \in Conn : DOMAIN view[j] \subseteq User
  BY NothingSeen DEF Told, Orderly, Views
<1>6. CASE last
  <2>1. /\ presence' = Disconnected(u, k) /\ Tell(Others(k), u, Goes)
        /\ unannounced' = unannounced \ {u}
        /\ late' = late \cup {j \in Others(k) : conn[j].at = "fill"}
    BY <1>6 DEF Close, Tell
  <2>2. presence' = [presence EXCEPT ![u] = NoEntry]
    BY <1>6, <2>1 DEF Disconnected
  <2>3. /\ presence'[u].conns = {} /\ presence'[u].inVoice = FALSE /\ presence'[u].speaking = FALSE
        /\ \A v \in User \ {u} : presence'[v] = presence[v]
    BY <1>1, <2>2 DEF NoEntry
  <2>4. /\ view' \in [Conn -> Views]
        /\ \A j \in Conn : /\ DOMAIN view'[j] = DOMAIN view[j]
                           /\ view[j] = Nothing => view'[j] = Nothing
        /\ \A j \in Conn : \A v \in DOMAIN view[j] :
             /\ view[j][v] \in Seen
             /\ j \notin Others(k) \/ v # u => view'[j][v] = view[j][v]
    BY <1>1, <1>2, <2>1, ViewsTold
  <2>5. ASSUME NEW j \in Others(k), u \in DOMAIN view[j]
        PROVE  ~view'[j][u].online /\ view'[j][u].inVoice = FALSE /\ view'[j][u].speaking = FALSE
    <3>1. view'[j][u] = Goes[view[j][u]] /\ view[j][u] \in Seen
      BY <1>1, <1>2, <2>1, <2>4, <2>5 DEF Tell, Others
    <3>2. view'[j][u] = [online |-> FALSE, inVoice |-> FALSE, speaking |-> FALSE]
      BY <3>1, ChangesTyped
    <3>. QED BY <3>2
  <2>6. Orderly'
    BY <1>1, <2>4 DEF Told, Orderly
  <2>7. SeesItself'
    <3>. SUFFICES ASSUME NEW j \in Conn, Hears(j)'
                  PROVE  /\ Of[j] \in DOMAIN view'[j] => view'[j][Of[j]].online
                         /\ conn'[j].at = "fill" => conn'[j].live[Of[j]].online
      BY DEF SeesItself
    <3>1. Hears(j) /\ j # k
      BY <1>3
    <3>2. Of[j] # u
      BY <1>1, <1>6, <3>1 DEF Inv, Subscribers, Hears
    <3>. QED BY <1>1, <2>4, <3>1, <3>2 DEF Told, SeesItself
  <2>8. ViewsAgree'
    <3>. SUFFICES ASSUME NEW j \in Conn, Hears(j)', j \notin torn', NEW v \in DOMAIN view'[j]
                  PROVE  Agrees(view[j][v], v)'
      BY DEF ViewsAgree
    <3>1. Agrees(view[j][v], v) /\ v \in User /\ v \in DOMAIN view[j] /\ j \in Others(k)
      BY <1>1, <1>3, <1>5, <2>4 DEF Told, ViewsAgree
    <3>2. CASE v # u
      BY <1>1, <1>4, <2>1, <2>3, <2>4, <3>1, <3>2 DEF Agrees
    <3>3. CASE v = u
      BY <2>3, <2>5, <3>1, <3>3 DEF Agrees
    <3>. QED BY <3>2, <3>3
  <2>9. SnapshotsAgree'
    <3>. SUFFICES ASSUME NEW j \in Conn, Hears(j)', conn'[j].at = "fill", j \notin late'
                  PROVE  FALSE
      BY DEF SnapshotsAgree
    <3>. QED BY <1>1, <1>3, <2>1
  <2>. QED BY <2>6, <2>7, <2>8, <2>9 DEF Told
<1>7. CASE ~last
  <2>1. UNCHANGED <<view, late, unannounced>>
    BY <1>7 DEF Close
  <2>2. \A v \in User : /\ presence'[v].conns = {} <=> presence[v].conns = {}
                        /\ presence'[v].inVoice = presence[v].inVoice
                        /\ presence'[v].speaking = presence[v].speaking
    <3>1. CASE ~conn[k].subscribed
      BY <3>1 DEF Close
    <3>2. CASE conn[k].subscribed
      <4>1. presence' = Disconnected(u, k) /\ k \in presence[u].conns /\ presence[u].conns # {k}
        BY <1>1, <1>7, <3>2 DEF Close, Inv, Subscribers
      <4>2. presence' = [presence EXCEPT ![u].conns = @ \ {k}]
        BY <4>1 DEF Disconnected
      <4>. QED BY <1>1, <4>1, <4>2 DEF Entry
    <3>. QED BY <3>1, <3>2
  <2>3. Orderly'
    BY <1>1, <2>1 DEF Told, Orderly
  <2>4. SeesItself'
    BY <1>1, <1>3, <2>1 DEF Told, SeesItself
  <2>5. ViewsAgree'
    BY <1>1, <1>3, <1>4, <1>5, <2>1, <2>2 DEF Told, ViewsAgree, Agrees
  <2>6. SnapshotsAgree'
    BY <1>1, <1>3, <1>4, <2>1, <2>2 DEF Told, SnapshotsAgree, Agrees
  <2>. QED BY <2>3, <2>4, <2>5, <2>6 DEF Told
<1>. QED BY <1>6, <1>7

\* Whoever comes online is still to be announced, by the connection that begins to hear: it has no view yet.
LEMMA SubscribeTold ==
  ASSUME Inv, Inv', Told, NEW k \in Conn, Subscribe(k)
  PROVE  Told'
<1>. DEFINE u == Of[k]
<1>1. /\ \A j \in Conn \ {k} : conn'[j] = conn[j]
      /\ conn'[k].open = conn[k].open /\ conn'[k].subscribed /\ conn'[k].at \in {"since", "list"}
      /\ conn'[k].newly <=> ~conn[k].subscribed /\ presence[u].conns = {}
      /\ conn[k].at = "member" /\ u \in User /\ presence[u] \in Entry /\ presence \in [User -> Entry]
      /\ UNCHANGED <<view, late, torn, unannounced>>
      /\ misled' = IF presence[u].conns = {} THEN misled \ {u} ELSE misled
  BY SubscribeFields, PresenceAssumption DEF Subscribe, Inv, Typed
<1>2. /\ ~conn[k].newly
      /\ presence[u].conns = {} => ~conn[k].subscribed
  BY <1>1 DEF Told, Orderly, Inv, Subscribers
<1>3. /\ \A v \in User \ {u} : presence'[v] = presence[v]
      /\ presence'[u].inVoice = presence[u].inVoice /\ presence'[u].speaking = presence[u].speaking
      /\ presence'[u].conns # {}
  <2>1. CASE conn[k].subscribed
    <3>1. presence' = presence
      BY <2>1 DEF Subscribe
    <3>. QED BY <1>2, <2>1, <3>1
  <2>2. CASE ~conn[k].subscribed
    <3>1. presence' = [presence EXCEPT ![u].conns = @ \cup {k}]
      BY <2>2 DEF Subscribe, Connected
    <3>. QED BY <1>1, <3>1 DEF Entry
  <2>. QED BY <2>1, <2>2
<1>4. /\ \A v \in User : Announcing(v) => Announcing(v)'
      /\ presence[u].conns = {} => Announcing(u)'
  BY <1>1, <1>2 DEF Announcing
<1>5. \A j \in Conn : Hears(j)' /\ ~Hears(j) => j = k /\ view[k] = Nothing
  BY <1>1 DEF Told, Orderly, Hears
<1>6. \A j \in Conn : DOMAIN view[j] \subseteq User
  BY NothingSeen DEF Told, Orderly, Views
<1>7. Orderly'
  BY <1>1 DEF Told, Orderly
<1>8. SeesItself'
  BY <1>1, <1>5, NothingSeen DEF Told, SeesItself
<1>9. \A s, v : v \in User /\ Agrees(s, v) => /\ s.inVoice = presence'[v].inVoice /\ s.speaking = presence'[v].speaking
                                              /\ \/ s.online <=> presence'[v].conns # {}
                                                 \/ presence'[v].conns # {} /\ (Announcing(v)' \/ v \in unannounced')
                                                 \/ v \in misled'
  BY <1>1, <1>3, <1>4 DEF Agrees
<1>10. ViewsAgree'
  <2>. SUFFICES ASSUME NEW j \in Conn, Hears(j)', j \notin torn', NEW v \in DOMAIN view'[j]
                PROVE  Agrees(view[j][v], v)'
    BY DEF ViewsAgree
  <2>1. Agrees(view[j][v], v) /\ v \in User
    BY <1>1, <1>5, <1>6, NothingSeen DEF Told, ViewsAgree
  <2>. QED BY <1>1, <1>9, <2>1 DEF Agrees
<1>11. SnapshotsAgree'
  <2>. SUFFICES ASSUME NEW j \in Conn, Hears(j)', conn'[j].at = "fill", j \notin late', NEW v \in User
                PROVE  Agrees(conn[j].live[v], v)'
    BY DEF SnapshotsAgree
  <2>1. j # k /\ conn'[j] = conn[j] /\ Agrees(conn[j].live[v], v)
    BY <1>1, <1>5 DEF Told, SnapshotsAgree
  <2>2. PICK s : s = conn[j].live[v]
    OBVIOUS
  <2>3. Agrees(s, v)
    BY <2>1, <2>2
  <2>4. /\ s.inVoice = presence'[v].inVoice /\ s.speaking = presence'[v].speaking
        /\ \/ s.online <=> presence'[v].conns # {}
           \/ presence'[v].conns # {} /\ (Announcing(v)' \/ v \in unannounced')
           \/ v \in misled'
    BY <1>9, <2>3
  <2>. QED BY <2>1, <2>2, <2>4 DEF Agrees
<1>. QED BY <1>7, <1>8, <1>10, <1>11 DEF Told

-----------------------------------------------------------------------------

LEMMA InitTold == Init => Told
<1>. SUFFICES ASSUME Init PROVE Told
  OBVIOUS
<1>1. \A k \in Conn : conn[k] = NewConn /\ view[k] = Nothing
  BY DEF Init
<1>2. view \in [Conn -> Views]
  BY NothingSeen DEF Init
<1>3. NewConn.at = "idle" /\ ~NewConn.subscribed /\ ~NewConn.newly
  BY DEF NewConn
<1>. QED BY <1>1, <1>2, <1>3 DEF Told, ViewsAgree, SnapshotsAgree, SeesItself, Orderly, Hears

LEMMA SilentSteps ==
  ASSUME Inv, Told, NEW k \in Conn,
         \/ OtherFrame(k) \/ Stats(k) \/ Resume(k)
         \/ Arrive(k) \/ StatsTold(k) \/ Forbidden(k) \/ Since(k) \/ Listed(k)
         \/ Announce(k) /\ ~conn[k].newly
  PROVE  Silent(k)
<1>. Typed /\ (conn[k].newly => conn[k].at \in {"since", "list", "fill", "ack"})
  BY DEF Inv, Told, Orderly
<1>1. CASE OtherFrame(k) \/ Stats(k) \/ Resume(k)
  <2>1. /\ Stays(k) /\ conn[k].at = "idle" /\ conn'[k].at \in {"idle", "member", "dms"}
        /\ conn'[k].newly = conn[k].newly
    BY <1>1, FrameFields
  <2>2. \A u \in User : Shown(presence[u])' = Shown(presence[u])
    <3>1. CASE OtherFrame(k) \/ Resume(k)
      BY <3>1 DEF OtherFrame, Resume
    <3>2. CASE Stats(k)
      BY <3>2, PresenceAssumption DEF Stats, Typed, Entry, Shown
    <3>. QED BY <1>1, <3>1, <3>2
  <2>3. UNCHANGED <<view, torn, late, unannounced, misled>>
    BY <1>1 DEF OtherFrame, Stats, Resume, ghosts
  <2>. QED BY <2>1, <2>2, <2>3 DEF Silent
<1>2. CASE Arrive(k) \/ StatsTold(k) \/ Forbidden(k) \/ Since(k) \/ Listed(k) \/ (Announce(k) /\ ~conn[k].newly)
  <2>1. UNCHANGED <<presence, view, torn, late, unannounced, misled>>
    BY <1>2 DEF Arrive, StatsTold, Forbidden, Since, Listed, Announce, ghosts
  <2>2. /\ Arrive(k) => conn'[k].at = conn[k].at /\ conn'[k].newly = conn[k].newly /\ conn'[k].live = conn[k].live
        /\ StatsTold(k) \/ Forbidden(k) => conn'[k].at = "idle" /\ conn'[k].newly = conn[k].newly
        /\ Since(k) => conn'[k].at \in {"ack", "list"} /\ conn'[k].newly = conn[k].newly
        /\ Listed(k) => /\ conn'[k].at = "fill" /\ conn'[k].newly = conn[k].newly
                        /\ conn'[k].live = [u \in User |-> Shown(presence[u])]
        /\ Announce(k) => conn'[k].at = "idle" /\ ~conn'[k].newly
        /\ Stays(k)
    BY <1>2, HandlerFields
  <2>3. StatsTold(k) \/ Forbidden(k) => ~conn[k].newly
    BY DEF StatsTold, Forbidden
  <2>4. conn[k].newly \in BOOLEAN /\ conn'[k].newly \in BOOLEAN
    <3>1. Announce(k) \/ Arrive(k) \/ StatsTold(k) \/ Forbidden(k) \/ Since(k) \/ Listed(k)
      BY <1>2
    <3>2. SameHearers
      BY <3>1, HandlerSteps
    <3>. QED BY <3>2 DEF SameHearers, Typed, Link
  <2>5. \A u \in User : Shown(presence[u])' = Shown(presence[u])
    BY <2>1 DEF Shown
  <2>6. /\ conn'[k].newly = conn[k].newly
        /\ conn'[k].newly => conn'[k].at \in {"since", "list", "fill", "ack"}
    BY <1>2, <2>2, <2>3, <2>4
  <2>7. conn'[k].at = "fill" => \/ conn[k].at = "fill" /\ conn'[k].live = conn[k].live
                                \/ conn'[k].live = [u \in User |-> Shown(presence[u])]
    BY <1>2, <2>2
  <2>8. Stays(k)
    BY <2>2
  <2>9. UNCHANGED <<view, torn, late, unannounced, misled>>
    BY <2>1
  <2>. QED BY <2>5, <2>6, <2>7, <2>8, <2>9 DEF Silent
<1>. QED BY <1>1, <1>2

LEMMA InductiveTold ==
  ASSUME Inv, Inv', Told, [Next]_vars
  PROVE  Told'
<1>1. CASE UNCHANGED vars
  BY <1>1 DEF vars, ghosts, Told, ViewsAgree, SnapshotsAgree, SeesItself, Orderly, Agrees, Hears, Announcing
<1>2. ASSUME NEW k \in Conn, Arrive(k) \/ Close(k) \/ Step(k) \/ Fail(k)
      PROVE  Told'
  <2>1. ASSUME NEW b \in BOOLEAN, Speaking(k, b) \/ AudioState(k, b) PROVE Told'
    BY <2>1, VoiceTold
  <2>2. CASE SendSnapshot(k) \/ Fail(k) \/ Close(k) \/ Subscribe(k) \/ (Announce(k) /\ conn[k].newly)
    BY <2>2, SnapshotTold, FailTold, CloseTold, SubscribeTold, AnnounceTold
  <2>3. CASE \/ OtherFrame(k) \/ Stats(k) \/ Resume(k)
             \/ Arrive(k) \/ StatsTold(k) \/ Forbidden(k) \/ Since(k) \/ Listed(k)
             \/ Announce(k) /\ ~conn[k].newly
    <3>1. Silent(k)
      BY <2>3, SilentSteps
    <3>. QED BY <3>1, SilentTold
  <2>4. CASE Speaking(k, TRUE) \/ Speaking(k, FALSE) \/ AudioState(k, TRUE) \/ AudioState(k, FALSE)
    BY <2>1, <2>4
  <2>. QED BY <1>2, <2>2, <2>3, <2>4 DEF Step
<1>. QED BY <1>1, <1>2 DEF Next

\* What a connection was told is so, at every await of every handler (hub.ts:262-287, 365): whoever it sees
\* online, in the voice room or speaking is, but for what its own snapshot has undone, and a user whose
\* coming is announced late, never, or after they have gone.
THEOREM ToldIsTrue == Spec => []ViewIsTrue
<1>1. Inv /\ Told => ViewIsTrue
  <2>. SUFFICES ASSUME Inv, Told, NEW k \in Conn, NEW u \in User, Hears(k), u \in DOMAIN view[k], k \notin torn,
                       ~Announcing(u), u \notin unannounced, u \notin misled
                PROVE  view[k][u] = Shown(presence[u])
    BY DEF ViewIsTrue
  <2>1. Agrees(view[k][u], u)
    BY DEF Told, ViewsAgree
  <2>2. view[k][u] \in Seen
    <3>1. view[k] \in Views /\ view[k] # Nothing
      BY NothingSeen DEF Told, Orderly
    <3>. QED BY <3>1 DEF Views
  <2>3. presence[u] \in Entry
    BY DEF Inv, Typed
  <2>4. /\ Shown(presence[u]) \in Seen /\ (Shown(presence[u]).online <=> presence[u].conns # {})
        /\ Shown(presence[u]).inVoice = presence[u].inVoice /\ Shown(presence[u]).speaking = presence[u].speaking
    BY <2>3, ShownFields
  <2>5. (view[k][u].online <=> Shown(presence[u]).online) /\ view[k][u].inVoice = Shown(presence[u]).inVoice
        /\ view[k][u].speaking = Shown(presence[u]).speaking
    BY <2>1, <2>4 DEF Agrees
  <2>. QED BY <2>2, <2>4, <2>5 DEF Seen
<1>2. Inv /\ Told /\ [Next]_vars => (Inv /\ Told)'
  BY Inductive, InductiveTold
<1>. QED BY <1>1, <1>2, InitInv, InitTold, PTL DEF Spec
=============================================================================
