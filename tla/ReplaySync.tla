----------------------------- MODULE ReplaySync -----------------------------
(***************************************************************************)
(* How a client stays in step with the chat of one campaign: the replay    *)
(* buffer (replayBuffer.ts, valkeyReplayBuffer.ts), the hub's `resume' and *)
(* `chat.message' handlers (hub.ts), and the client's session with its     *)
(* cursor (rust-sync/src/session.rs).                                      *)
(*                                                                         *)
(* The frames of a connection are handled one after the other.  A handler  *)
(* is interrupted at every await: while the database answers anything may  *)
(* happen; while the buffer answers nothing else happens if the buffer is  *)
(* in memory, and if it is Valkey the commands of all handlers go down one *)
(* connection and are answered in the order in which they were issued      *)
(* (`calls').  A handler outlives its connection.                          *)
(***************************************************************************)
EXTENDS Integers, Sequences, FiniteSets, SequencesExt

CONSTANTS
  Client,       \* the clients
  Talker,       \* bound: those that say something
  Deployments,  \* the values of `shared' to consider
  MaxEvents,    \* the buffer keeps so many events (500)
  MaxRecent,    \* a snapshot shows so many (50)
  MaxConns,     \* bound: connections at once, with those whose handlers outlive them
  MaxMessages,  \* bound: chat messages ever said
  MaxMishaps    \* bound, per deployment: broken connections, restarts, flushes and aged events

ASSUME SyncAssumption ==
  /\ Deployments \subseteq BOOLEAN /\ Talker \subseteq Client
  /\ {MaxEvents, MaxRecent} \subseteq Nat \ {0}
  /\ {MaxConns, MaxMessages} \subseteq Nat /\ MaxMishaps \in [BOOLEAN -> Nat]

Conn    == 1..MaxConns
Message == 1..MaxMessages
NoConn  == 0

VARIABLES
  shared,  \* whether VALKEY_URL is set; without it the buffer is in memory
  stream,  \* the buffer: its epoch (0 when there is no stream), counter and events
  epochs,  \* how many epochs were made up
  conn,    \* Hub.connections: whether each is open, subscribed, and the messages still to handle
  task,    \* what the handler of each connection is doing
  calls,   \* the connections whose handlers wait for the buffer, in the order they asked
  wire,    \* the frames on their way to the client of each connection
  client,  \* rust-sync: the connection of each client, its cursor and what it has seen
  said,    \* how many messages were said
  mishaps, \* how many things went wrong
  torn     \* ghost: a connection broke, or data was lost, at an unlucky moment

buffer == <<stream, epochs>>
hub    == <<conn, task, calls, wire>>
bounds == <<said, mishaps, torn>>
vars   == <<shared, buffer, hub, client, bounds>>

NoStream == [epoch |-> 0, seq |-> 0, events |-> <<>>]
NoCursor == [epoch |-> 0, seq |-> 0]
Closed   == [open |-> FALSE, subscribed |-> FALSE, inbox |-> <<>>]
Idle     == [op |-> "idle", next |-> 0, msg |-> 0, cursor |-> NoCursor,
             epoch |-> 0, seq |-> 0, list |-> <<>>]

\* The commands the operations of the buffer send, in order: append, since, epoch and latestSeq,
\* and what a snapshot asks for.
Appending  == <<"touch", "epoch", "incr", "push", "trim", "expire", "expire", "expire">>
Since      == <<"touch", "epoch", "list", "seq">>
Report     == <<"touch", "epoch", "seq">>
Recent     == <<"list", "touch", "epoch", "seq">>

Commands(op) ==
  CASE op = "chat" -> Appending [] op = "replay" -> Since [] op = "report" -> Report [] op = "snapshot" -> Recent

Event  == [msg : Message, seq : Nat]
Cursor == [epoch : Nat, seq : Nat]
Frame  ==
  [t : {"chat.message"}, msg : Message, seq : Nat] \cup [t : {"resumed"}, epoch : Nat, seq : Nat]
    \cup [t : {"snapshot"}, epoch : Nat, seq : Nat, recent : SUBSET Message, older : SUBSET Message]

\* What the variables hold: a handler waits for the buffer exactly if its next command is there,
\* a connection is open exactly if it is a client's, and a buffer in memory is within its limit
\* (replayBuffer.ts:132-142; a Valkey list may be longer until its next append).
TypeOK ==
  /\ {shared, torn} \subseteq BOOLEAN
  /\ epochs \in Nat /\ stream \in [epoch : 0..epochs, seq : Nat, events : Seq(Event)]
  /\ ~shared /\ calls = <<>> => Len(stream.events) <= MaxEvents
  /\ conn \in [Conn -> [open : BOOLEAN, subscribed : BOOLEAN, inbox : Seq(Message)]]
  /\ task \in [Conn -> [op : {"idle", "chat", "resume", "replay", "report", "snapshot"}, next : 0..8,
                        msg : Message \cup {0}, cursor : Cursor, epoch : Nat, seq : Nat, list : Seq(Event)]]
  /\ calls \in Seq(Conn) /\ IsInjective(calls)
  /\ \A k \in Conn : task[k].next # 0 <=> k \in ToSet(calls)
  /\ wire \in [Conn -> Seq(Frame)]
  /\ client \in [Client -> [conn : Conn \cup {NoConn}, answered : BOOLEAN, moved : BOOLEAN,
                            cursor : Cursor, seen : SUBSET Message, older : SUBSET Message, twice : BOOLEAN]]
  /\ \A k \in Conn : conn[k].open <=> \E c \in Client : client[c].conn = k
  /\ \A c, d \in Client : client[c].conn = client[d].conn /\ client[c].conn # NoConn => c = d
  /\ said \in 0..MaxMessages /\ mishaps \in Nat

Init ==
  /\ shared \in Deployments
  /\ stream = NoStream /\ epochs = 0
  /\ conn = [k \in Conn |-> Closed] /\ task = [k \in Conn |-> Idle]
  /\ calls = <<>> /\ wire = [k \in Conn |-> <<>>]
  /\ client = [c \in Client |-> [conn |-> NoConn, answered |-> FALSE, moved |-> FALSE,
                                 cursor |-> NoCursor, seen |-> {}, older |-> {}, twice |-> FALSE]]
  /\ said = 0 /\ mishaps = 0 /\ torn = FALSE

Mishap == mishaps < MaxMishaps[shared] /\ mishaps' = mishaps + 1

Free(k) == ~conn[k].open /\ conn[k].inbox = <<>> /\ task[k] = Idle

\* A buffer in memory answers before anything else happens.
MayRun == shared \/ calls = <<>>

\* A message has its number, but its broadcast is still to come.
HalfSaid == \E k \in Conn : task[k].op = "chat" /\ task[k].seq # 0

\* The moments at which a client must not lose its connection: a message of Valkey's is on its way
\* and the answer to `resume' may have counted it, or a message overtook that answer.
Unlucky(c) ==
  LET k == client[c].conn IN
  /\ k # NoConn
  /\ \/ HalfSaid
     \/ shared /\ \E i \in DOMAIN wire[k] : wire[k][i].t = "chat.message"
     \/ client[c].moved /\ ~client[c].answered

-----------------------------------------------------------------------------
(* Frames: who is sent what.                                               *)

ChatFrame(e) == [t |-> "chat.message", msg |-> e.msg, seq |-> e.seq]

\* A socket that is not open drops what it is given.
Send(k, frames) == wire' = IF conn[k].open THEN [wire EXCEPT ![k] = @ \o frames] ELSE wire

Broadcast(e) ==
  wire' = [k \in Conn |-> IF conn[k].open /\ conn[k].subscribed
                          THEN Append(wire[k], ChatFrame(e)) ELSE wire[k]]

-----------------------------------------------------------------------------
(* Handlers.  Those that wait for the buffer have a next command; before   *)
(* their first one they wait for the database.                             *)

Chatting(m) == [Idle EXCEPT !.op = "chat", !.msg = m]
AtStore(k, op) == task[k].op = op /\ task[k].next = 0

\* The next message of a connection; one that comes when it is not subscribed (any more) is refused.
Receive(k) ==
  /\ MayRun /\ task[k] = Idle /\ conn[k].inbox # <<>>
  /\ conn' = [conn EXCEPT ![k].inbox = Tail(@)]
  /\ task' = IF conn[k].subscribed THEN [task EXCEPT ![k] = Chatting(Head(conn[k].inbox))] ELSE task
  /\ UNCHANGED <<shared, buffer, calls, wire, client, bounds>>

Ask(k, op) ==
  /\ task' = [task EXCEPT ![k].op = op, ![k].next = 1]
  /\ calls' = Append(calls, k)

\* getMembership: the connection is subscribed (even if it has closed meanwhile), and a client with a
\* cursor asks for its gap.
MembershipRead(k) ==
  /\ MayRun /\ AtStore(k, "resume")
  /\ conn' = [conn EXCEPT ![k].subscribed = TRUE]
  /\ IF task[k].cursor = NoCursor
     THEN task' = [task EXCEPT ![k].op = "snapshot"] /\ UNCHANGED calls
     ELSE Ask(k, "replay")
  /\ UNCHANGED <<shared, buffer, wire, client, bounds>>

\* The roster of a snapshot, or the name of who chats.
RosterRead(k) ==
  /\ MayRun /\ AtStore(k, "snapshot")
  /\ Ask(k, "snapshot")
  /\ UNCHANGED <<shared, buffer, conn, wire, client, bounds>>

NameRead(k) ==
  /\ MayRun /\ AtStore(k, "chat")
  /\ Ask(k, "chat")
  /\ UNCHANGED <<shared, buffer, conn, wire, client, bounds>>

-----------------------------------------------------------------------------
(* The buffer: a command of the handler that asked first, and what that    *)
(* handler does with the answer.                                           *)

\* Only the newest MaxEvents are kept.
Trimmed(events) ==
  IF Len(events) > MaxEvents THEN SubSeq(events, Len(events) - MaxEvents + 1, Len(events)) ELSE events

\* events.sort: by number.
InOrder(events) ==
  CHOOSE s \in [DOMAIN events -> ToSet(events)] :
    ToSet(s) = ToSet(events) /\ \A i, j \in DOMAIN s : i < j => s[i].seq <= s[j].seq

\* The cursor of the client belongs to the stream.
\* Mutant: the epoch is not compared.
AnyStream(t) == TRUE
SameStream(t) == t.epoch = t.cursor.epoch

\* The command of a handler that is answered next.
Command(t) == Commands(t.op)[t.next]

\* What it does to the stream b.
Executed(b, t) ==
  CASE Command(t) = "touch" -> IF b.epoch = 0 THEN [b EXCEPT !.epoch = epochs + 1] ELSE b
    [] Command(t) = "incr"  -> [b EXCEPT !.seq = @ + 1]
    [] Command(t) = "push"  -> [b EXCEPT !.events = Append(@, [msg |-> t.msg, seq |-> t.seq])]
    [] Command(t) = "trim"  -> [b EXCEPT !.events = Trimmed(@)]
    [] Command(t) \in {"epoch", "list", "seq", "expire"} -> b

\* What its answer, the stream then being b, tells the handler.
Learnt(t, b) ==
  CASE Command(t) = "epoch" -> [t EXCEPT !.epoch = b.epoch]
    [] Command(t) = "list"  -> [t EXCEPT !.list = InOrder(b.events)]
    [] Command(t) \in {"incr", "seq"} -> [t EXCEPT !.seq = b.seq]
    [] Command(t) \in {"touch", "push", "trim", "expire"} -> t

\* An epoch that vanished is an error, and with a cursor of another stream there is nothing to replay.
EndsEarly(t) == Command(t) = "epoch" /\ (t.epoch = 0 \/ (t.op = "replay" /\ ~SameStream(t)))

\* selectReplay: whether the gap of a client can be filled, and with what (events are in order).
Reaches(t) == t.list # <<>> /\ t.list[1].seq <= t.cursor.seq + 1
Replayable(t) == t.seq = t.cursor.seq \/ (t.seq > t.cursor.seq /\ Reaches(t))

UpTo(list, n) == {i \in DOMAIN list : list[i].seq <= n}
Beyond(list, n) == SubSeq(list, Cardinality(UpTo(list, n)) + 1, Len(list))

\* Mutants: the event at the cursor is replayed, too; the one after it is not.
GapAndLast(t) == Beyond(t.list, t.cursor.seq - 1)
GapButFirst(t) == Beyond(t.list, t.cursor.seq + 1)
Gap(t) == IF t.seq = t.cursor.seq THEN <<>> ELSE Beyond(t.list, t.cursor.seq)

AsksOn(k, t) == task' = [task EXCEPT ![k] = t] /\ calls' = Append(Tail(calls), k)
Ends(k) == task' = [task EXCEPT ![k] = Idle] /\ calls' = Tail(calls)
NeedsSnapshot(k) ==
  task' = [task EXCEPT ![k] = [Idle EXCEPT !.op = "snapshot"]] /\ calls' = Tail(calls)

RecentOf(list) == IF Len(list) > MaxRecent THEN SubSeq(list, Len(list) - MaxRecent + 1, Len(list)) ELSE list
Messages(events) == {events[i].msg : i \in DOMAIN events}
SnapshotFrame(t) ==
  [t |-> "snapshot", epoch |-> t.epoch, seq |-> t.seq, recent |-> Messages(RecentOf(t.list)),
   older |-> Messages(t.list) \ Messages(RecentOf(t.list))]
ResumedFrame(t) == [t |-> "resumed", epoch |-> t.epoch, seq |-> t.seq]

\* What a handler does when its last command is answered.
Finished(k, t) ==
  \/ /\ t.op = "chat"
     /\ Broadcast([msg |-> t.msg, seq |-> t.seq]) /\ Ends(k)
  \/ /\ t.op = "snapshot"
     /\ Send(k, <<SnapshotFrame(t)>>) /\ Ends(k)
  \/ /\ t.op = "report"
     /\ Send(k, <<ResumedFrame(t)>>) /\ Ends(k)
  \/ /\ t.op = "replay" /\ Replayable(t)
     /\ Send(k, [i \in DOMAIN Gap(t) |-> ChatFrame(Gap(t)[i])])
     /\ AsksOn(k, [Idle EXCEPT !.op = "report", !.next = 1])
  \/ /\ t.op = "replay" /\ ~Replayable(t)
     /\ NeedsSnapshot(k) /\ UNCHANGED wire

Answered(k, t) ==
  \/ /\ EndsEarly(t)
     /\ IF t.epoch = 0 THEN Ends(k) ELSE NeedsSnapshot(k)
     /\ UNCHANGED wire
  \/ /\ ~EndsEarly(t) /\ t.next < Len(Commands(t.op))
     /\ AsksOn(k, [t EXCEPT !.next = @ + 1]) /\ UNCHANGED wire
  \/ /\ ~EndsEarly(t) /\ t.next = Len(Commands(t.op))
     /\ Finished(k, t)

BufferAnswers ==
  /\ calls # <<>>
  /\ LET k == Head(calls)
     IN /\ stream' = Executed(stream, task[k])
        /\ Answered(k, Learnt(task[k], stream'))
  /\ epochs' = IF stream'.epoch > epochs THEN epochs + 1 ELSE epochs
  /\ UNCHANGED <<shared, conn, client, bounds>>

\* The oldest event is older than 10 minutes.
EventAges ==
  /\ Mishap /\ MayRun /\ stream.events # <<>>
  /\ stream' = [stream EXCEPT !.events = Tail(@)]
  /\ UNCHANGED <<shared, epochs, hub, client, said, torn>>

-----------------------------------------------------------------------------
(* The client.                                                             *)

\* A new connection; after the handshake it resumes from the cursor.
Connect(c) ==
  /\ MayRun /\ client[c].conn = NoConn
  /\ \E k \in Conn :
       /\ Free(k) /\ \A i \in 1..k - 1 : ~Free(i)
       /\ conn' = [conn EXCEPT ![k] = [Closed EXCEPT !.open = TRUE]]
       /\ task' = [task EXCEPT ![k] = [Idle EXCEPT !.op = "resume", !.cursor = client[c].cursor]]
       /\ client' = [client EXCEPT ![c].conn = k, ![c].answered = FALSE, ![c].moved = FALSE]
  /\ UNCHANGED <<shared, buffer, calls, wire, bounds>>

\* A message waits until the handler of its connection is done with the frames before it.
Say(c) ==
  LET k == client[c].conn IN
  /\ MayRun /\ k # NoConn /\ said < MaxMessages
  /\ said' = said + 1
  /\ conn' = [conn EXCEPT ![k].inbox = Append(@, said')]
  /\ UNCHANGED <<shared, buffer, task, calls, wire, client, mishaps, torn>>

\* A chat message only moves the cursor forward, and does not make one.
\* Mutant: it moves it back as well.
CursorFollows(cursor, seq) == IF cursor # NoCursor THEN [cursor EXCEPT !.seq = seq] ELSE cursor
CursorAfter(cursor, seq) ==
  IF cursor # NoCursor /\ seq > cursor.seq THEN [cursor EXCEPT !.seq = seq] ELSE cursor

\* Session.on_text: a snapshot replaces what the client knows, the rest adds to it.
Heard(s, f) ==
  CASE f.t = "snapshot" -> [s EXCEPT !.cursor = [epoch |-> f.epoch, seq |-> f.seq], !.answered = TRUE,
                                     !.seen = f.recent, !.older = f.older]
    [] f.t = "resumed"  -> [s EXCEPT !.cursor = [epoch |-> f.epoch, seq |-> f.seq], !.answered = TRUE]
    [] f.t = "chat.message" ->
         [s EXCEPT !.cursor = CursorAfter(@, f.seq), !.seen = @ \cup {f.msg},
                   !.twice = @ \/ f.msg \in s.seen,
                   !.moved = @ \/ (~s.answered /\ CursorAfter(s.cursor, f.seq) # s.cursor)]

Hear(c) ==
  LET k == client[c].conn IN
  /\ MayRun /\ k # NoConn /\ wire[k] # <<>>
  /\ client' = [client EXCEPT ![c] = Heard(@, Head(wire[k]))]
  /\ wire' = [wire EXCEPT ![k] = Tail(@)]
  /\ UNCHANGED <<shared, buffer, conn, task, calls, bounds>>

-----------------------------------------------------------------------------
(* Losses.                                                                 *)

\* The connection breaks, and what is on the wire is lost.
Drop(c) ==
  LET k == client[c].conn IN
  /\ Mishap /\ MayRun /\ k # NoConn
  /\ client' = [client EXCEPT ![c].conn = NoConn]
  /\ conn' = [conn EXCEPT ![k].open = FALSE, ![k].subscribed = FALSE]
  /\ wire' = [wire EXCEPT ![k] = <<>>]
  /\ torn' = (torn \/ Unlucky(c))
  /\ UNCHANGED <<shared, buffer, task, calls, said>>

\* The backend restarts; a buffer in memory is lost with it, whatever it was answering.
Restart ==
  /\ Mishap /\ MayRun
  /\ client' = [c \in Client |-> [client[c] EXCEPT !.conn = NoConn]]
  /\ conn' = [k \in Conn |-> Closed]
  /\ task' = [k \in Conn |-> Idle] /\ calls' = <<>> /\ wire' = [k \in Conn |-> <<>>]
  /\ stream' = IF shared THEN stream ELSE NoStream
  /\ torn' = (torn \/ \E c \in Client : Unlucky(c))
  /\ UNCHANGED <<shared, epochs, said>>

\* Valkey loses its data.
Flush ==
  /\ Mishap /\ shared
  /\ stream' = NoStream
  /\ torn' = (torn \/ calls # <<>>)
  /\ UNCHANGED <<shared, epochs, hub, client, said>>

-----------------------------------------------------------------------------

HubStep ==
  \/ BufferAnswers
  \/ \E k \in Conn : Receive(k) \/ MembershipRead(k) \/ RosterRead(k) \/ NameRead(k)

ClientStep(c) == Connect(c) \/ Hear(c) \/ Drop(c) \/ (c \in Talker /\ Say(c))

Next ==
  \/ HubStep \/ EventAges \/ Restart \/ Flush
  \/ \E c \in Client : ClientStep(c)

Spec == Init /\ [][Next]_vars

\* The server answers and the network delivers, as long as a connection lasts.
Fairness == WF_vars(HubStep) /\ \A c \in Client : WF_vars(Hear(c))

FairSpec == Spec /\ Fairness

-----------------------------------------------------------------------------
(* What a client can rely on.                                              *)

Kept == Messages(stream.events)

\* Nothing is on its way to the client: it is cut off, or all is quiet.
Settled(c) ==
  LET k == client[c].conn IN
  k # NoConn => client[c].answered /\ wire[k] = <<>> /\ calls = <<>>

\* session.rs:48: the cursor is the last event seen.  What the buffer holds up to there, the client
\* has seen (or it is older than the snapshot it got): it will not be sent again.
CursorIsSeen ==
  \A c \in Client : Settled(c) /\ client[c].cursor.epoch = stream.epoch =>
    \A i \in DOMAIN stream.events :
      stream.events[i].seq <= client[c].cursor.seq =>
        stream.events[i].msg \in client[c].seen \cup client[c].older

\* The same whenever connections break, buffers are lost, events age or clients fall behind, unless
\* a connection breaks while a message is on its way to it (Valkey only) or between a message and the
\* answer to `resume' that it overtook.
NothingSkipped == ~torn => CursorIsSeen

\* hub.ts:265: with the buffer in memory, no chat.message brings a client a message that it has: one it
\* heard live or in a replay, or one its last snapshot lists.  (A snapshot may list again what came
\* live; it replaces what the client has, so that is no repetition for it.)
HeardOnce == ~shared => \A c \in Client : ~client[c].twice

\* session.rs:170: within a stream the cursor never moves back, although events come late and twice.
CursorNeverRewinds ==
  [][~torn' => \A c \in Client :
       client'[c].cursor.epoch = client[c].cursor.epoch =>
         client'[c].cursor.seq >= client[c].cursor.seq]_vars

\* SYNC-PROTOCOL.md, Reconnect and replay: whoever stays connected gets every message the buffer
\* keeps, live, replayed or in a snapshot (unless the stream was torn as above).
CatchesUp ==
  \A c \in Client, m \in Message :
    (m \in Kept /\ client[c].conn # NoConn)
      ~> (m \in client[c].seen \cup client[c].older \/ m \notin Kept \/ client[c].conn = NoConn \/ torn)

=============================================================================
