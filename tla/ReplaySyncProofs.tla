--------------------------- MODULE ReplaySyncProofs ---------------------------
(* What a client can rely on, for any clients, connections, messages and limits, in memory and in  *)
(* Valkey, on the ground ReplaySyncSteps lays.                                                     *)
(*                                                                                                 *)
(* A client misses nothing because whatever the buffer holds is seen, on the wire, or under way in *)
(* the handler that pushed it, from the moment a client is promised it: by the `replay' of a gap   *)
(* that begins at the cursor, or by a snapshot.  The commands of all handlers go round in one      *)
(* queue, so what a handler pushes after another one read the list is also told after that one is  *)
(* done (`Lags').  The numbers of the stream order the rest, as long as no data are lost under a   *)
(* handler.  A buffer in memory answers one handler until it is done, so that a gap and the        *)
(* broadcast never bring the same message.                                                         *)
EXTENDS ReplaySyncSteps

-----------------------------------------------------------------------------
(* Clients and their connections.                                          *)

NoAnswer(w) == \A i \in DOMAIN w : IsChat(w[i])
OneAnswer(w) == \A i, j \in DOMAIN w : ~IsChat(w[i]) /\ ~IsChat(w[j]) => i = j

\* A connection with the frames w on its wire: at most one answer to its `resume' is on its way or heard.
LinkFor(w, op, subscribed, answered) ==
  /\ op = "resume" => ~subscribed /\ w = <<>> /\ ~answered
  /\ op # "resume" => subscribed
  /\ op \in {"replay", "report", "snapshot"} => ~answered /\ NoAnswer(w)
  /\ answered => NoAnswer(w)
  /\ OneAnswer(w)

Links ==
  /\ \A k \in Conn : ~conn[k].open => wire[k] = <<>>
  /\ \A c \in Client : \A k \in Conn :
       client[c].conn = k => LinkFor(wire[k], task[k].op, conn[k].subscribed, client[c].answered)

-----------------------------------------------------------------------------
(* Numbers.                                                                *)

Held == ToSet(stream.events)
Numbered(j) == task[j].op = "chat" /\ task[j].next > 3
Pushed(j) == task[j].op = "chat" /\ task[j].next > 4
Touched(t) == (t.op \in {"chat", "replay", "report"} /\ t.next > 1) \/ (t.op = "snapshot" /\ t.next > 2)

\* No data was lost while a handler was using it.
Whole == ~shared \/ ~torn

Numbers ==
  /\ stream.epoch = 0 => stream.events = <<>> /\ stream.seq = 0
  /\ \A k \in Conn : task[k].epoch # 0 => task[k].epoch = stream.epoch
  /\ \A k \in Conn : Touched(task[k]) => stream.epoch # 0
  /\ \A k \in Conn : Numbered(k) => task[k].seq <= stream.seq
  /\ \A e \in Held : e.seq <= stream.seq
  /\ \A k \in Conn : task[k].op = "replay" /\ task[k].next = 4 => \A e \in ToSet(task[k].list) : e.seq <= stream.seq

\* What the client with the cursor s and the frames w has counted, against the stream b.
CountedOn(w, s, b) ==
  /\ s.epoch = b.epoch => s.seq <= b.seq
  /\ s.epoch = b.epoch /\ b.epoch # 0 =>
       \A i \in DOMAIN w : (\A j \in DOMAIN w : j <= i => IsChat(w[j])) => w[i].seq <= b.seq
  /\ \A i \in DOMAIN w : ~IsChat(w[i]) /\ w[i].epoch = b.epoch => \A j \in DOMAIN w : i <= j => w[j].seq <= b.seq
  /\ \A i \in DOMAIN w : ~IsChat(w[i]) /\ w[i].epoch = s.epoch =>
       s.seq <= w[i].seq /\ \A j \in DOMAIN w : j < i => w[j].seq <= w[i].seq

Counted ==
  \A c \in Client :
    /\ client[c].cursor.epoch = stream.epoch => client[c].cursor.seq <= stream.seq
    /\ \A k \in Conn : client[c].conn = k => CountedOn(wire[k], client[c].cursor, stream)

-----------------------------------------------------------------------------
(* Events that are not skipped.                                            *)

Has(s, e) == e.msg \in s.seen \cup s.older
Sent(w, e) == \E i \in DOMAIN w : w[i] = ChatFrame(e)
Carries(j, e) == Pushed(j) /\ task[j].msg = e.msg /\ task[j].seq = e.seq
Underway(e) == \E j \in Conn : Carries(j, e)
Coming(c, k, e) == Has(client[c], e) \/ Sent(wire[k], e) \/ Underway(e)

\* The client with what s knows has what the stream holds up to n.
UpToSeen(s, n) ==
  /\ \A e \in Held : e.seq <= n => Has(s, e)
  /\ \A j \in Conn : Numbered(j) => task[j].seq > n

Steady(s) == s.conn = NoConn \/ (~s.answered /\ ~s.moved)
Base ==
  \A c \in Client : Steady(client[c]) /\ client[c].cursor.epoch = stream.epoch =>
    UpToSeen(client[c], client[c].cursor.seq)

Asked ==
  \A c \in Client, k \in Conn :
    client[c].conn = k /\ task[k].op \in {"resume", "replay"} /\ task[k].cursor.epoch = stream.epoch =>
      UpToSeen(client[c], task[k].cursor.seq) /\ task[k].cursor.seq <= stream.seq

Listed ==
  \A c \in Client, k \in Conn :
    client[c].conn = k /\ task[k].op = "replay" /\ task[k].next = 4 =>
      \A e \in Held : e \in ToSet(task[k].list) \/ Coming(c, k, e)

Promised ==
  \A c \in Client, k \in Conn :
    client[c].conn = k /\ (task[k].op = "report" \/ client[c].answered \/ \E i \in DOMAIN wire[k] : wire[k][i].t = "resumed") =>
      \A e \in Held : Coming(c, k, e)

\* The handler of j is so far behind that of k in the queue that it tells its message after k is done.
Lags(j, k) ==
  \A p, q \in DOMAIN calls : calls[p] = k /\ calls[q] = j =>
    /\ p < q => task[j].next <= task[k].next + 4
    /\ q < p => task[j].next < task[k].next + 4

Taken ==
  \A k \in Conn : task[k].op = "snapshot" /\ task[k].next > 1 =>
    \A e \in Held : e \in ToSet(task[k].list) \/ \E j \in Conn : Carries(j, e) /\ Lags(j, k)

\* What a snapshot at i leaves out comes after it.
ShownOn(w, e) ==
  \A i \in DOMAIN w : w[i].t = "snapshot" =>
    \/ e.msg \in w[i].recent \cup w[i].older
    \/ (\E j \in DOMAIN w : i < j /\ w[j] = ChatFrame(e))
    \/ Underway(e)
Shown ==
  \A c \in Client, k \in Conn : client[c].conn = k => \A e \in Held : ShownOn(wire[k], e)

\* In memory the numbers on a wire rise, from the cursor on once it is answered; all are at most n.
RisingOn(w, answered, m, n) ==
  /\ \A i \in DOMAIN w : w[i].seq <= n
  /\ answered => /\ m <= n /\ \A i \in DOMAIN w : m < w[i].seq
                 /\ \A i, j \in DOMAIN w : i < j => w[i].seq < w[j].seq
  /\ \A i \in DOMAIN w : ~IsChat(w[i]) =>
       /\ \A j \in DOMAIN w : j < i => w[j].seq <= w[i].seq
       /\ \A j \in DOMAIN w : i < j => w[i].seq < w[j].seq
       /\ \A j, p \in DOMAIN w : i < j /\ j < p => w[j].seq < w[p].seq

\* The number of the last message that was told.
Top == IF HalfSaid THEN stream.seq - 1 ELSE stream.seq
Rising ==
  ~shared =>
    /\ \A j \in Conn : Numbered(j) => task[j].seq = stream.seq
    /\ \A c \in Client, k \in Conn :
         client[c].conn = k => RisingOn(wire[k], client[c].answered, client[c].cursor.seq, Top)

-----------------------------------------------------------------------------
(* What a step is for one client.                                          *)

Stays(c, k) == client'[c] = client[c] /\ wire'[k] = wire[k]

Tells(c, k, j) ==
  /\ client'[c] = client[c] /\ Telling(j) /\ conn[k].subscribed
  /\ wire'[k] = Append(wire[k], ChatFrame([msg |-> task[j].msg, seq |-> task[j].seq]))

Answers(c, k, f) ==
  /\ client'[c] = client[c] /\ f \in Frame /\ f.epoch = task[k].epoch /\ f.seq = stream.seq
  /\ wire'[k] = Append(wire[k], f)
  /\ \/ /\ Showing(k) /\ f.t = "snapshot" /\ f.recent \subseteq Messages(task[k].list)
        /\ f.recent \cup f.older = Messages(task[k].list)
     \/ Resuming(k) /\ f.t = "resumed"

GapFrames(gap) == [i \in DOMAIN gap |-> ChatFrame(gap[i])]
Fills(c, k, gap) ==
  /\ client'[c] = client[c] /\ Replaying(k) /\ gap \in Seq(Event)
  /\ gap = Gap([task[k] EXCEPT !.seq = stream.seq])
  /\ \A i \in DOMAIN gap : gap[i].seq > task[k].cursor.seq /\ gap[i] \in ToSet(task[k].list)
  /\ stream.seq # task[k].cursor.seq =>
       \A e \in ToSet(task[k].list) : e.seq > task[k].cursor.seq => \E i \in DOMAIN gap : gap[i] = e
  /\ Replays(k, GapFrames(gap)) /\ wire'[k] = wire[k] \o GapFrames(gap)

View(c, k) ==
  \/ Stays(c, k)
  \/ \E j \in Conn : Tells(c, k, j)
  \/ \E f : Answers(c, k, f)
  \/ \E gap : Fills(c, k, gap)
  \/ Hearing(c)

Apart(c) ==
  /\ client'[c].conn = NoConn /\ client'[c].answered = client[c].answered /\ client'[c].moved = client[c].moved
  /\ client'[c].cursor = client[c].cursor /\ client'[c].seen = client[c].seen
  /\ client'[c].older = client[c].older /\ client'[c].twice = client[c].twice

Linked(c, k) == client[c].conn = k /\ client'[c].conn = k /\ conn[k].open /\ conn'[k].open

LEMMA ViewAnswered ==
  ASSUME Types, Stages, NEW j \in Conn, AnyAnswer(j), NEW c \in Client, NEW k \in Conn, conn[k].open
  PROVE  View(c, k)
<1>1. client' = client
  BY AnswerTurns DEF Turn
<1>2. CASE Telling(j)
  <2>1. wire'[k] = IF conn[k].open /\ conn[k].subscribed
                   THEN Append(wire[k], ChatFrame([msg |-> task[j].msg, seq |-> task[j].seq])) ELSE wire[k]
    BY <1>2, Told
  <2>2. CASE conn[k].subscribed
    <3>1. Tells(c, k, j)
      BY <1>1, <1>2, <2>1, <2>2 DEF Tells
    <3>. QED BY <3>1 DEF View
  <2>3. CASE ~conn[k].subscribed
    BY <1>1, <2>1, <2>3 DEF View, Stays
  <2>. QED BY <2>2, <2>3
<1>3. CASE Showing(j)
  <2> DEFINE f == SnapshotFrame([task[j] EXCEPT !.seq = stream.seq])
  <2>1. /\ f \in Frame /\ f.t = "snapshot" /\ f.epoch = task[j].epoch /\ f.seq = stream.seq
        /\ f.recent \subseteq Messages(task[j].list) /\ f.recent \cup f.older = Messages(task[j].list)
        /\ Adds(j, f)
    BY <1>3, Shows
  <2>. HIDE DEF f
  <2>2. CASE j = k
    <3>1. Answers(c, k, f)
      BY <1>1, <1>3, <2>1, <2>2 DEF Adds, Answers
    <3>. QED BY <3>1 DEF View
  <2>3. CASE j # k
    BY <1>1, <2>1, <2>3 DEF View, Stays, Adds
  <2>. QED BY <2>2, <2>3
<1>4. CASE Resuming(j)
  <2> DEFINE f == ResumedFrame([task[j] EXCEPT !.seq = stream.seq])
  <2>1. /\ f \in Frame /\ f.t = "resumed" /\ f.epoch = task[j].epoch /\ f.seq = stream.seq
        /\ Adds(j, f)
    BY <1>4, Reports
  <2>. HIDE DEF f
  <2>2. CASE j = k
    <3>1. Answers(c, k, f)
      BY <1>1, <1>4, <2>1, <2>2 DEF Adds, Answers
    <3>. QED BY <3>1 DEF View
  <2>3. CASE j # k
    BY <1>1, <2>1, <2>3 DEF View, Stays, Adds
  <2>. QED BY <2>2, <2>3
<1>5. CASE Replaying(j)
  <2> DEFINE gap == Gap([task[j] EXCEPT !.seq = stream.seq])
  <2>1. /\ gap \in Seq(Event)
        /\ \A i \in DOMAIN gap : gap[i].seq > task[j].cursor.seq /\ gap[i] \in ToSet(task[j].list)
        /\ stream.seq # task[j].cursor.seq =>
             \A e \in ToSet(task[j].list) : e.seq > task[j].cursor.seq => \E i \in DOMAIN gap : gap[i] = e
        /\ Replays(j, [i \in DOMAIN gap |-> ChatFrame(gap[i])])
    BY <1>5, ReplaysThem
  <2>2. gap = Gap([task[j] EXCEPT !.seq = stream.seq])
    OBVIOUS
  <2>. HIDE DEF gap
  <2>3. Replays(j, GapFrames(gap))
    BY <2>1 DEF GapFrames
  <2>4. CASE j = k
    <3>1. wire'[k] = wire[k] \o GapFrames(gap)
      BY <2>3, <2>4 DEF Replays
    <3>2. Fills(c, k, gap)
      BY <1>1, <1>5, <2>1, <2>2, <2>3, <2>4, <3>1 DEF Fills
    <3>. QED BY <3>2 DEF View
  <2>5. CASE j # k
    BY <1>1, <2>3, <2>5 DEF View, Stays, Replays
  <2>. QED BY <2>4, <2>5
<1>6. CASE wire' = wire
  BY <1>1, <1>6 DEF View, Stays
<1>. QED BY <1>2, <1>3, <1>4, <1>5, <1>6 DEF AnyAnswer, Touching, Reading, Failing, TurningBack, Numbering,
         Pushing, Trimming, Renewing, Listing

LEMMA Viewed ==
  ASSUME Types, Stages, Bound, AnyStep, NEW c \in Client
  PROVE  \/ Apart(c)
         \/ \E k \in Conn : Connecting(c, k)
         \/ \E k \in Conn : Linked(c, k) /\ View(c, k)
<1>1. client[c].conn \in Conn \cup {NoConn}
  BY SessionFields DEF Types
<1>2. ASSUME client'[c] = client[c], NEW S, client[c].conn \in Conn => View(c, client[c].conn) /\ conn'[client[c].conn].open
      PROVE  Apart(c) \/ \E k \in Conn : Linked(c, k) /\ View(c, k)
  <2>1. CASE client[c].conn = NoConn
    BY <1>2, <2>1 DEF Apart
  <2>2. CASE client[c].conn \in Conn
    <3>1. conn[client[c].conn].open
      BY <2>2 DEF Bound
    <3>. QED BY <1>2, <2>2, <3>1 DEF Linked
  <2>. QED BY <1>1, <2>1, <2>2
<1>3. client[c].conn \in Conn => conn[client[c].conn].open
  BY DEF Bound
<1>4. ASSUME client'[c] = client[c], wire' = wire, client[c].conn \in Conn => conn'[client[c].conn].open
      PROVE  Apart(c) \/ \E k \in Conn : Linked(c, k) /\ View(c, k)
  BY <1>2, <1>4 DEF View, Stays
<1>5. ASSUME NEW j \in Conn, j = Head(calls), AnyAnswer(j)
      PROVE  Apart(c) \/ \E k \in Conn : Linked(c, k) /\ View(c, k)
  <2>1. client'[c] = client[c] /\ conn' = conn
    BY <1>5, AnswerTurns DEF Turn
  <2>2. client[c].conn \in Conn => View(c, client[c].conn)
    BY <1>3, <1>5, ViewAnswered
  <2>. QED BY <1>2, <1>3, <2>1, <2>2
<1>6. ASSUME NEW j \in Conn, Receiving(j) \/ Admitting(j) \/ Asking(j)
      PROVE  Apart(c) \/ \E k \in Conn : Linked(c, k) /\ View(c, k)
  <2>1. client'[c] = client[c] /\ wire' = wire /\ \A k \in Conn : conn'[k].open = conn[k].open
    BY <1>6 DEF Receiving, Admitting, Asking, Joined
  <2>. QED BY <1>3, <1>4, <2>1
<1>7. ASSUME NEW d \in Client, NEW j \in Conn, Connecting(d, j)
      PROVE  Apart(c) \/ Connecting(c, j) \/ \E k \in Conn : Linked(c, k) /\ View(c, k)
  <2>1. CASE d # c
    <3>1. client'[c] = client[c] /\ wire' = wire /\ conn'[j].open /\ \A k \in Conn : k # j => conn'[k] = conn[k]
      BY <1>7, <2>1 DEF Connecting, Meant, Joined
    <3>. QED BY <1>3, <1>4, <3>1
  <2>. QED BY <1>7, <2>1
<1>8. ASSUME NEW d \in Client, Saying(d)
      PROVE  Apart(c) \/ \E k \in Conn : Linked(c, k) /\ View(c, k)
  <2>1. client'[c] = client[c] /\ wire' = wire /\ \A k \in Conn : conn'[k].open = conn[k].open
    BY <1>8 DEF Saying, Joined
  <2>. QED BY <1>3, <1>4, <2>1
<1>9. ASSUME NEW d \in Client, Hearing(d)
      PROVE  Apart(c) \/ \E k \in Conn : Linked(c, k) /\ View(c, k)
  <2>1. CASE d # c
    <3>1. client'[c] = client[c] /\ conn' = conn /\ client[d].conn # NoConn
          /\ \A k \in Conn : k # client[d].conn => wire'[k] = wire[k]
      BY <1>9, <2>1 DEF Hearing, Meant
    <3>2. client[c].conn # client[d].conn
      BY <2>1, <3>1 DEF Bound
    <3>3. client[c].conn \in Conn => View(c, client[c].conn)
      BY <3>1, <3>2 DEF View, Stays
    <3>. QED BY <1>2, <1>3, <3>1, <3>3
  <2>2. CASE d = c
    <3>1. client[c].conn \in Conn /\ client'[c].conn = client[c].conn /\ conn' = conn
      BY <1>9, <2>2 DEF Hearing
    <3>. QED BY <1>3, <1>9, <2>2, <3>1 DEF Linked, View
  <2>. QED BY <2>1, <2>2
<1>10. ASSUME NEW d \in Client, Dropping(d)
      PROVE  Apart(c) \/ \E k \in Conn : Linked(c, k) /\ View(c, k)
  <2>1. CASE d # c
    <3>1. client'[c] = client[c] /\ client[d].conn # NoConn
          /\ \A k \in Conn : k # client[d].conn => wire'[k] = wire[k] /\ conn'[k] = conn[k]
      BY <1>10, <2>1 DEF Dropping, Meant, Joined
    <3>2. client[c].conn # client[d].conn
      BY <2>1, <3>1 DEF Bound
    <3>3. client[c].conn \in Conn => View(c, client[c].conn) /\ conn'[client[c].conn].open
      BY <1>3, <3>1, <3>2 DEF View, Stays
    <3>. QED BY <1>2, <3>1, <3>3
  <2>2. CASE d = c
    BY <1>10, <2>2 DEF Dropping, Apart
  <2>. QED BY <2>1, <2>2
<1>11. CASE Restarting
  BY <1>11 DEF Restarting, Apart
<1>12. CASE Aging \/ Flushing \/ Standing
  BY <1>3, <1>4, <1>12 DEF Aging, Flushing, Standing
<1>. QED BY <1>5, <1>6, <1>7, <1>8, <1>9, <1>10, <1>11, <1>12 DEF AnyStep

\* What the handler of a connection that stays open turns to.
LEMMA OpMoves ==
  ASSUME Types, AnyStep, NEW k \in Conn, conn[k].open, conn'[k].open
  PROVE  /\ task'[k].op = "resume" => task[k] = task'[k] /\ conn'[k].subscribed = conn[k].subscribed
         /\ task'[k].op \in {"replay", "report", "snapshot"} => task[k].op \in {"resume", "replay", "report", "snapshot"}
         /\ conn'[k].subscribed \/ conn'[k].subscribed = conn[k].subscribed
         /\ task[k].op = "resume" /\ task'[k].op # "resume" => conn'[k].subscribed
<1>1. ASSUME task'[k] = task[k], conn'[k].subscribed = conn[k].subscribed
      PROVE  /\ task'[k].op = "resume" => task[k] = task'[k] /\ conn'[k].subscribed = conn[k].subscribed
             /\ task'[k].op \in {"replay", "report", "snapshot"} => task[k].op \in {"resume", "replay", "report", "snapshot"}
             /\ conn'[k].subscribed \/ conn'[k].subscribed = conn[k].subscribed
             /\ task[k].op = "resume" /\ task'[k].op # "resume" => conn'[k].subscribed
  BY <1>1
<1>2. ASSUME NEW j \in Conn, j = Head(calls), AnyAnswer(j)
      PROVE  /\ task'[k].op = "resume" => task[k] = task'[k]
             /\ task'[k].op \in {"replay", "report", "snapshot"} => task[k].op \in {"resume", "replay", "report", "snapshot"}
             /\ conn'[k].subscribed = conn[k].subscribed
             /\ task[k].op = "resume" => task'[k].op = "resume"
  <2>1. conn' = conn /\ \A i \in Conn : i # j => task'[i] = task[i]
    BY <1>2, AnswerTurns DEF Turn
  <2>2. CASE k # j
    BY <2>1, <2>2
  <2>3. CASE k = j
    <3>1. CASE GoesOn(k) /\ task[k].op \in {"chat", "replay", "report", "snapshot"}
      BY <2>1, <3>1 DEF GoesOn
    <3>2. CASE task'[k] = Idle /\ task[k].op \in {"chat", "replay", "report", "snapshot"}
      BY <2>1, <3>2, IdleTasks
    <3>3. CASE TurningBack(k)
      BY <2>1, <3>3, SnapshotTask DEF TurningBack
    <3>4. CASE Replaying(k)
      <4>1. "report" \in Op /\ 1 \in {0, 1}
        BY DEF Op
      <4>2. task'[k].op = "report" /\ task[k].op = "replay"
        BY <3>4, <4>1, NewTask DEF Replaying
      <4>. QED BY <2>1, <4>2
    <3>. QED BY <1>2, <2>3, <3>1, <3>2, <3>3, <3>4 DEF AnyAnswer, Touching, Reading, Failing, Numbering,
             Pushing, Trimming, Renewing, Telling, Listing, Showing, Resuming, AtTouch, AtEpoch, AtList
  <2>. QED BY <2>2, <2>3
<1>3. ASSUME NEW j \in Conn, Receiving(j)
      PROVE  /\ task'[k].op = "resume" => task[k] = task'[k]
             /\ task'[k].op \in {"replay", "report", "snapshot"} => task[k].op \in {"resume", "replay", "report", "snapshot"}
             /\ conn'[k].subscribed = conn[k].subscribed
             /\ task[k].op = "resume" => task'[k].op = "resume"
  <2>1. \A i \in Conn : i # j => task'[i] = task[i] /\ conn'[i] = conn[i]
    BY <1>3 DEF Receiving, Mine, Joined
  <2>2. CASE k # j
    BY <2>1, <2>2
  <2>3. CASE k = j
    <3>1. Head(conn[k].inbox) \in Message
      BY <1>3, <2>3, LinkFields, HeadAndTail DEF Receiving
    <3>2. task[k].op = "idle" /\ task'[k].op \in {"idle", "chat"}
      BY <1>3, <2>3, <3>1, IdleTasks, ChatTask DEF Receiving
    <3>. QED BY <1>3, <2>3, <3>2 DEF Receiving
  <2>. QED BY <2>2, <2>3
<1>4. ASSUME NEW j \in Conn, Admitting(j) \/ Asking(j)
      PROVE  /\ task'[k].op = "resume" => task[k] = task'[k] /\ conn'[k].subscribed = conn[k].subscribed
             /\ task'[k].op \in {"replay", "report", "snapshot"} => task[k].op \in {"resume", "replay", "report", "snapshot"}
             /\ conn'[k].subscribed \/ conn'[k].subscribed = conn[k].subscribed
             /\ task[k].op = "resume" /\ task'[k].op # "resume" => conn'[k].subscribed
  <2>1. \A i \in Conn : i # j => task'[i] = task[i] /\ conn'[i] = conn[i]
    BY <1>4 DEF Admitting, Asking, Mine, Joined
  <2>2. CASE k # j
    BY <2>1, <2>2
  <2>3. CASE k = j /\ Admitting(k)
    BY <2>3 DEF Admitting
  <2>4. CASE k = j /\ Asking(k)
    BY <2>4 DEF Asking
  <2>. QED BY <1>4, <2>2, <2>3, <2>4
<1>5. ASSUME NEW c \in Client, NEW j \in Conn, Connecting(c, j)
      PROVE  task'[k] = task[k] /\ conn'[k].subscribed = conn[k].subscribed
  BY <1>5 DEF Connecting, Mine, Joined
<1>6. ASSUME NEW c \in Client, Saying(c) \/ Hearing(c) \/ Dropping(c)
      PROVE  task'[k] = task[k] /\ conn'[k].subscribed = conn[k].subscribed
  <2>1. CASE Saying(c)
    BY <2>1 DEF Saying, Joined
  <2>2. CASE Hearing(c)
    BY <2>2 DEF Hearing
  <2>3. CASE Dropping(c)
    BY <2>3 DEF Dropping, Joined
  <2>. QED BY <1>6, <2>1, <2>2, <2>3
<1>7. ASSUME Aging \/ Flushing \/ Standing
      PROVE  task'[k] = task[k] /\ conn'[k].subscribed = conn[k].subscribed
  BY <1>7 DEF Aging, Flushing, Standing
<1>8. ~Restarting
  BY DEF Restarting
<1>9. \/ \E j \in Conn : j = Head(calls) /\ AnyAnswer(j)
      \/ \E j \in Conn : Receiving(j) \/ Admitting(j) \/ Asking(j)
      \/ \E c \in Client : \E j \in Conn : Connecting(c, j)
      \/ \E c \in Client : Saying(c) \/ Hearing(c) \/ Dropping(c)
      \/ Aging \/ Flushing \/ Standing
  BY <1>8 DEF AnyStep
<1>. QED BY <1>1, <1>2, <1>3, <1>4, <1>5, <1>6, <1>7, <1>9

-----------------------------------------------------------------------------
(* Answers on a wire.                                                      *)

LEMMA AnswersAppendChat ==
  ASSUME NEW w \in Seq(Frame), NEW f \in Frame, IsChat(f), NEW v, v = Append(w, f)
  PROVE  (NoAnswer(w) => NoAnswer(v)) /\ (OneAnswer(w) => OneAnswer(v)) /\ v # <<>>
<1>1. /\ Len(w) \in Nat /\ DOMAIN w = 1..Len(w) /\ DOMAIN v = 1..Len(w) + 1
      /\ v[Len(w) + 1] = f /\ \A i \in 1..Len(w) : v[i] = w[i]
  BY WireAppend
<1>2. \A i \in DOMAIN v : (i \in DOMAIN w /\ v[i] = w[i]) \/ IsChat(v[i])
  BY <1>1
<1>3. 1 \in DOMAIN v
  BY <1>1
<1>. QED BY <1>2, <1>3 DEF NoAnswer, OneAnswer

LEMMA AnswersAppend ==
  ASSUME NEW w \in Seq(Frame), NEW f \in Frame, NoAnswer(w), NEW v, v = Append(w, f)
  PROVE  OneAnswer(v)
<1>1. /\ Len(w) \in Nat /\ DOMAIN w = 1..Len(w) /\ DOMAIN v = 1..Len(w) + 1
      /\ v[Len(w) + 1] = f /\ \A i \in 1..Len(w) : v[i] = w[i]
  BY WireAppend
<1>2. \A i \in DOMAIN v : i = Len(w) + 1 \/ IsChat(v[i])
  BY <1>1 DEF NoAnswer
<1>. QED BY <1>2 DEF OneAnswer

LEMMA AnswersConcat ==
  ASSUME NEW w \in Seq(Frame), NEW g \in Seq(Frame), NoAnswer(w), NoAnswer(g), NEW v, v = w \o g
  PROVE  NoAnswer(v)
<1>1. /\ Len(w) \in Nat /\ DOMAIN w = 1..Len(w) /\ Len(g) \in Nat /\ DOMAIN g = 1..Len(g)
      /\ DOMAIN v = 1..Len(w) + Len(g)
      /\ (\A i \in 1..Len(w) : v[i] = w[i]) /\ \A i \in 1..Len(g) : v[Len(w) + i] = g[i]
  BY WireConcat
<1>2. \A i \in DOMAIN v : i \in DOMAIN w \/ (i - Len(w) \in DOMAIN g /\ Len(w) + (i - Len(w)) = i)
  BY <1>1
<1>. QED BY <1>1, <1>2 DEF NoAnswer

LEMMA AnswersTail ==
  ASSUME NEW w \in Seq(Frame), w # <<>>, NEW v, v = Tail(w), OneAnswer(w)
  PROVE  OneAnswer(v) /\ (NoAnswer(w) => NoAnswer(v)) /\ (~IsChat(Head(w)) => NoAnswer(v) /\ ~NoAnswer(w))
<1>1. /\ Len(w) \in Nat \ {0} /\ DOMAIN w = 1..Len(w) /\ DOMAIN v = 1..Len(w) - 1
      /\ w[1] = Head(w) /\ \A i \in 1..Len(w) - 1 : v[i] = w[i + 1]
  BY WireTail
<1>2. \A i \in DOMAIN v : i + 1 \in DOMAIN w /\ v[i] = w[i + 1] /\ i + 1 # 1 /\ i \in Nat
  BY <1>1
<1>3. 1 \in DOMAIN w
  BY <1>1
<1>4. OneAnswer(v)
  BY <1>2 DEF OneAnswer
<1>5. NoAnswer(w) => NoAnswer(v)
  BY <1>2 DEF NoAnswer
<1>6. ~IsChat(Head(w)) => NoAnswer(v)
  BY <1>1, <1>2, <1>3 DEF NoAnswer, OneAnswer
<1>. QED BY <1>1, <1>3, <1>4, <1>5, <1>6 DEF NoAnswer

LEMMA GapFramesChat ==
  ASSUME NEW c, NEW k, NEW gap, Fills(c, k, gap)
  PROVE  LET g == GapFrames(gap) IN
         /\ g \in Seq(Frame) /\ NoAnswer(g) /\ DOMAIN g = DOMAIN gap
         /\ \A i \in DOMAIN g : g[i] = ChatFrame(gap[i]) /\ g[i].seq = gap[i].seq /\ g[i].msg = gap[i].msg
<1>1. GapFrames(gap) \in Seq(Frame) /\ \A i \in DOMAIN GapFrames(gap) : IsChat(GapFrames(gap)[i])
  BY DEF Fills, Replays
<1>2. DOMAIN GapFrames(gap) = DOMAIN gap /\ \A i \in DOMAIN gap : GapFrames(gap)[i] = ChatFrame(gap[i])
  BY DEF GapFrames
<1>3. \A i \in DOMAIN gap : ChatFrame(gap[i]).seq = gap[i].seq /\ ChatFrame(gap[i]).msg = gap[i].msg
  BY DEF ChatFrame
<1>. QED BY <1>1, <1>2, <1>3 DEF NoAnswer

LEMMA ClosedStep ==
  ASSUME Types, Stages, Links, AnyStep, NEW k \in Conn, ~conn'[k].open
  PROVE  wire'[k] = <<>>
<1>1. ~conn[k].open => wire[k] = <<>>
  BY DEF Links
<1>2. ASSUME NEW j \in Conn, j = Head(calls), AnyAnswer(j)
      PROVE  wire'[k] = <<>>
  <2>1. ~conn[k].open
    BY <1>2, AnswerTurns DEF Turn
  <2>2. wire'[k] = wire[k]
    BY <1>2, <2>1, WireAnswered
  <2>. QED BY <1>1, <2>1, <2>2
<1>3. ASSUME wire' = wire, conn'[k].open = conn[k].open
      PROVE  wire'[k] = <<>>
  BY <1>1, <1>3
<1>4. ASSUME NEW j \in Conn, Receiving(j) \/ Admitting(j) \/ Asking(j)
      PROVE  wire'[k] = <<>>
  BY <1>3, <1>4 DEF Receiving, Admitting, Asking, Joined
<1>5. ASSUME NEW c \in Client, NEW j \in Conn, Connecting(c, j)
      PROVE  wire'[k] = <<>>
  BY <1>3, <1>5 DEF Connecting, Joined
<1>6. ASSUME NEW c \in Client, Saying(c)
      PROVE  wire'[k] = <<>>
  BY <1>3, <1>6 DEF Saying, Joined
<1>7. ASSUME NEW c \in Client, Hearing(c)
      PROVE  wire'[k] = <<>>
  <2>1. wire[k] = <<>> /\ client[c].conn # k
    BY <1>1, <1>7 DEF Hearing
  <2>. QED BY <1>7, <2>1 DEF Hearing
<1>8. ASSUME NEW c \in Client, Dropping(c)
      PROVE  wire'[k] = <<>>
  <2>1. CASE k = client[c].conn
    BY <1>8, <2>1 DEF Dropping
  <2>2. CASE k # client[c].conn
    BY <1>1, <1>8, <2>2 DEF Dropping, Joined
  <2>. QED BY <2>1, <2>2
<1>9. CASE Restarting
  BY <1>9 DEF Restarting
<1>10. CASE Aging \/ Flushing \/ Standing
  BY <1>3, <1>10 DEF Aging, Flushing, Standing
<1>. QED BY <1>2, <1>4, <1>5, <1>6, <1>7, <1>8, <1>9, <1>10 DEF AnyStep

LEMMA LinksStep ==
  ASSUME Types, Stages, Bound, Links, AnyStep
  PROVE  Links'
<1>1. SUFFICES ASSUME NEW c \in Client, NEW k \in Conn, client'[c].conn = k
               PROVE  LinkFor(wire'[k], task'[k].op, conn'[k].subscribed, client'[c].answered)
  BY ClosedStep DEF Links
<1>2. k # NoConn
  BY DEF Conn, NoConn
<1>3. CASE Connecting(c, k)
  <2>1. wire'[k] = <<>>
    BY <1>3 DEF Connecting, Links
  <2>2. client[c].cursor \in Cursor
    BY SessionFields DEF Types
  <2>3. task'[k].op = "resume"
    BY <1>3, <2>2, ResumeTask DEF Connecting
  <2>4. OneAnswer(<<>>)
    BY DEF OneAnswer
  <2>. QED BY <1>3, <2>1, <2>3, <2>4 DEF Connecting, LinkFor
<1>4. CASE Linked(c, k) /\ View(c, k)
  <2> DEFINE w == wire[k]
             v == wire'[k]
             op == task[k].op
             op2 == task'[k].op
             sub == conn[k].subscribed
             sub2 == conn'[k].subscribed
             a == client[c].answered
             a2 == client'[c].answered
  <2>1. LinkFor(w, op, sub, a) /\ w \in Seq(Frame)
    BY <1>4 DEF Linked, Links, Types
  <2>2. /\ op2 = "resume" => op = "resume" /\ sub2 = sub
        /\ op2 \in {"replay", "report", "snapshot"} => op \in {"resume", "replay", "report", "snapshot"}
        /\ op2 # "resume" => sub2
    <3>1. /\ op2 = "resume" => task[k] = task'[k] /\ sub2 = sub
          /\ op2 \in {"replay", "report", "snapshot"} => op \in {"resume", "replay", "report", "snapshot"}
          /\ sub2 \/ sub2 = sub
          /\ op = "resume" /\ op2 # "resume" => sub2
      BY <1>4, OpMoves DEF Linked
    <3>. QED BY <2>1, <3>1 DEF LinkFor
  <2>3. w = <<>> => NoAnswer(w)
    BY DEF NoAnswer
  <2>4. CASE Stays(c, k)
    <3>1. v = w /\ a2 = a
      BY <2>4 DEF Stays
    <3>. HIDE DEF w, v, op, op2, sub, sub2, a, a2
    <3>2. LinkFor(v, op2, sub2, a2)
      BY <2>1, <2>2, <2>3, <3>1 DEF LinkFor
    <3>. QED BY <3>2 DEF v, op2, sub2, a2
  <2>5. ASSUME NEW j \in Conn, Tells(c, k, j)
        PROVE  LinkFor(v, op2, sub2, a2)
    <3> DEFINE f == ChatFrame([msg |-> task[j].msg, seq |-> task[j].seq])
    <3>1. f \in Frame /\ IsChat(f) /\ v = Append(w, f) /\ a2 = a /\ sub
      BY <2>5, Told DEF Tells
    <3>. HIDE DEF w, v, op, op2, sub, sub2, a, a2, f
    <3>2. (NoAnswer(w) => NoAnswer(v)) /\ (OneAnswer(w) => OneAnswer(v))
      BY <2>1, <3>1, AnswersAppendChat
    <3>. QED BY <2>1, <2>2, <3>1, <3>2 DEF LinkFor
  <2>6. ASSUME NEW f, Answers(c, k, f)
        PROVE  LinkFor(v, op2, sub2, a2)
    <3>1. f \in Frame /\ v = Append(w, f) /\ a2 = a /\ op \in {"snapshot", "report"} /\ op2 = "idle"
      BY <2>6, IdleTasks DEF Answers, Showing, Resuming
    <3>. HIDE DEF w, v, op, op2, sub, sub2, a, a2
    <3>2. NoAnswer(w) /\ ~a
      BY <2>1, <3>1 DEF LinkFor
    <3>3. OneAnswer(v)
      BY <2>1, <3>1, <3>2, AnswersAppend
    <3>. QED BY <2>2, <3>1, <3>2, <3>3 DEF LinkFor
  <2>7. ASSUME NEW gap, Fills(c, k, gap)
        PROVE  LinkFor(v, op2, sub2, a2)
    <3>1. v = w \o GapFrames(gap) /\ a2 = a /\ op = "replay"
      BY <2>7 DEF Fills, Replaying
    <3>2. GapFrames(gap) \in Seq(Frame) /\ NoAnswer(GapFrames(gap))
      BY <2>7, GapFramesChat
    <3>. HIDE DEF w, v, op, op2, sub, sub2, a, a2
    <3>3. NoAnswer(w) /\ ~a
      BY <2>1, <3>1 DEF LinkFor
    <3>4. NoAnswer(v)
      BY <2>1, <3>1, <3>2, <3>3, AnswersConcat
    <3>5. OneAnswer(v)
      BY <3>4 DEF NoAnswer, OneAnswer
    <3>. QED BY <2>2, <3>1, <3>3, <3>4, <3>5 DEF LinkFor
  <2>8. CASE Hearing(c)
    <3>1. w # <<>> /\ v = Tail(w) /\ Head(w) \in Frame /\ op2 = op /\ sub2 = sub /\ client'[c] = Heard(client[c], Head(w))
      BY <1>4, <2>8 DEF Hearing, Linked
    <3>2. client[c] \in Session
      BY DEF Types
    <3>3. (IsChat(Head(w)) => a2 = a) /\ (~IsChat(Head(w)) => a2)
      <4> DEFINE f == Head(w)
      <4>1. client'[c] = Heard(client[c], f) /\ f \in Frame
        BY <3>1
      <4>. HIDE DEF w, f
      <4>2. IsChat(f) => a2 = a
        BY <3>2, <4>1, FrameKinds, HeardChat DEF IsChat
      <4>3. ~IsChat(f) => a2
        BY <3>2, <4>1, FrameKinds, HeardSnapshot, HeardResumed DEF IsChat
      <4>. QED BY <4>2, <4>3 DEF f
    <3>. HIDE DEF w, v, op, op2, sub, sub2, a, a2
    <3>4. OneAnswer(v) /\ (NoAnswer(w) => NoAnswer(v)) /\ (~IsChat(Head(w)) => NoAnswer(v) /\ ~NoAnswer(w))
      BY <2>1, <3>1, AnswersTail DEF LinkFor
    <3>5. LinkFor(v, op2, sub2, a2)
      <4>1. CASE IsChat(Head(w))
        BY <2>1, <3>1, <3>3, <3>4, <4>1 DEF LinkFor
      <4>2. CASE ~IsChat(Head(w))
        BY <2>1, <3>1, <3>3, <3>4, <4>2 DEF LinkFor
      <4>. QED BY <4>1, <4>2
    <3>. QED BY <3>5 DEF v, op2, sub2, a2
  <2>. QED BY <1>4, <2>4, <2>5, <2>6, <2>7, <2>8 DEF View
<1>5. ~Apart(c) /\ (\A j \in Conn : Connecting(c, j) => j = k) /\ \A j \in Conn : Linked(c, j) => j = k
  BY <1>1, <1>2 DEF Apart, Connecting, Linked
<1>. QED BY <1>3, <1>4, <1>5, Viewed

-----------------------------------------------------------------------------
(* What a step does to the stream and to the handlers.                     *)

Lost == stream' = NoStream /\ ((Restarting /\ ~shared) \/ Flushing)
Renewed(k) == Touching(k) /\ stream.epoch = 0 /\ stream'.epoch = epochs + 1
EventOf(j) == [msg |-> task[j].msg, seq |-> task[j].seq]

Grows ==
  /\ stream'.seq >= stream.seq /\ stream.seq \in Nat /\ stream'.seq \in Nat
  /\ stream'.epoch = stream.epoch \/ \E k \in Conn : Renewed(k)
  /\ \A e \in Held' : e \in Held \/ \E j \in Conn : Pushing(j) /\ e = EventOf(j)
  /\ \/ stream'.seq = stream.seq /\ stream'.events = stream.events
     \/ Aging \/ \E k \in Conn : Numbering(k) \/ Pushing(k) \/ Trimming(k)

LEMMA StreamMoves ==
  ASSUME Types, Stages, AnyStep
  PROVE  Lost \/ Grows
<1>1. stream \in Stream /\ stream.seq \in Nat /\ stream.events \in Seq(Event) /\ stream.seq + 1 \in Nat
  BY DEF Types, Stream
<1>2. ASSUME stream' = stream PROVE Grows
  BY <1>1, <1>2 DEF Grows, Held
<1>3. ASSUME NEW k \in Conn, AnyAnswer(k)
      PROVE  Grows
  <2>1. CASE Touching(k)
    BY <1>1, <2>1 DEF Grows, Held, Touching, SameStreamAs, Renewed
  <2>2. CASE Numbering(k)
    BY <1>1, <2>2 DEF Grows, Held, Numbering
  <2>3. CASE Pushing(k)
    <3>1. EventOf(k) \in Event
      <4>1. task[k] \in Task /\ InStage(task[k]) /\ task[k].op = "chat"
        BY <2>3 DEF Types, Stages, Pushing
      <4>2. task[k].msg \in Message /\ task[k].seq \in Nat
        BY <4>1, TaskFields DEF InStage
      <4>. QED BY <4>2 DEF Event, EventOf
    <3>2. stream'.events = Append(stream.events, EventOf(k))
      BY <2>3 DEF Pushing, EventOf
    <3>3. ToSet(stream'.events) = Held \cup {EventOf(k)}
      BY <1>1, <3>1, <3>2, ToSetAppend DEF Held
    <3>4. \A e \in Held' : e \in Held \/ e = EventOf(k)
      BY <3>3 DEF Held
    <3>. QED BY <1>1, <2>3, <3>4 DEF Grows, Pushing
  <2>4. CASE Trimming(k)
    <3>1. ToSet(stream'.events) \subseteq Held
      BY <1>1, <2>4, TrimmedIs DEF Trimming, Held
    <3>2. \A e \in Held' : e \in Held
      BY <3>1 DEF Held
    <3>. QED BY <1>1, <2>4, <3>2 DEF Grows, Trimming
  <2>5. CASE SameStreamAs
    BY <1>2, <2>5 DEF SameStreamAs
  <2>. QED BY <1>3, <2>1, <2>2, <2>3, <2>4, <2>5 DEF AnyAnswer, Reading, Failing, TurningBack, Renewing, Telling,
           Listing, Showing, Resuming, Replaying
<1>4. CASE Aging
  <2>1. ToSet(stream'.events) \subseteq Held
    BY <1>1, <1>4, TailIs DEF Aging, Held
  <2>2. \A e \in Held' : e \in Held
    BY <2>1 DEF Held
  <2>. QED BY <1>1, <1>4, <2>2 DEF Grows, Aging
<1>5. CASE Restarting
  BY <1>2, <1>5 DEF Restarting, Lost
<1>6. CASE Flushing
  BY <1>6 DEF Flushing, Lost
<1>7. ASSUME NEW k \in Conn, Receiving(k) \/ Admitting(k) \/ Asking(k)
      PROVE  Lost \/ Grows
  BY <1>2, <1>7 DEF Receiving, Admitting, Asking, SameStreamAs
<1>8. ASSUME NEW c \in Client, (\E k \in Conn : Connecting(c, k)) \/ Saying(c) \/ Hearing(c) \/ Dropping(c)
      PROVE  Lost \/ Grows
  BY <1>2, <1>8 DEF Connecting, Saying, Hearing, Dropping, SameStreamAs
<1>9. CASE Standing
  BY <1>2, <1>9 DEF Standing, SameStreamAs
<1>. QED BY <1>3, <1>4, <1>5, <1>6, <1>7, <1>8, <1>9 DEF AnyStep

LEMMA TaskMoves ==
  ASSUME Types, Stages, AnyStep, NEW j \in Conn
  PROVE  \/ task'[j] = task[j]
         \/ AnyAnswer(j) /\ j = Head(calls)
         \/ /\ task[j].next = 0 /\ task'[j].next \in {0, 1}
            /\ \/ Admitting(j) \/ Asking(j) \/ Receiving(j)
               \/ \E c \in Client : Connecting(c, j)
         \/ Restarting /\ task'[j] = Idle
<1>1. ASSUME NEW k \in Conn, k = Head(calls), AnyAnswer(k)
      PROVE  task'[j] = task[j] \/ (AnyAnswer(j) /\ j = Head(calls))
  BY <1>1, AnswerTurns DEF Turn
<1>2. ASSUME NEW k \in Conn, Receiving(k)
      PROVE  task'[j] = task[j] \/ (Receiving(j) /\ task[j].next = 0 /\ task'[j].next \in {0, 1})
  <2>1. CASE j # k
    BY <1>2, <2>1 DEF Receiving, Mine
  <2>2. CASE j = k
    <3>1. Head(conn[k].inbox) \in Message
      BY <1>2, LinkFields, HeadAndTail DEF Receiving
    <3>2. task[j].next = 0 /\ task'[j].next = 0
      BY <1>2, <2>2, <3>1, IdleTasks, ChatTask DEF Receiving
    <3>. QED BY <1>2, <2>2, <3>2
  <2>. QED BY <2>1, <2>2
<1>3. ASSUME NEW k \in Conn, Admitting(k) \/ Asking(k)
      PROVE  \/ task'[j] = task[j]
             \/ (Admitting(j) \/ Asking(j)) /\ task[j].next = 0 /\ task'[j].next \in {0, 1}
  <2>1. CASE j # k
    BY <1>3, <2>1 DEF Admitting, Asking, Mine
  <2>2. CASE j = k
    BY <1>3, <2>2 DEF Admitting, Asking
  <2>. QED BY <2>1, <2>2
<1>4. ASSUME NEW c \in Client, NEW k \in Conn, Connecting(c, k)
      PROVE  task'[j] = task[j] \/ (Connecting(c, j) /\ task[j].next = 0 /\ task'[j].next \in {0, 1})
  <2>1. CASE j # k
    BY <1>4, <2>1 DEF Connecting, Mine
  <2>2. CASE j = k
    <3>1. client[c].cursor \in Cursor
      BY SessionFields DEF Types
    <3>2. task[j] = Idle /\ task'[j] = [Idle EXCEPT !.op = "resume", !.cursor = client[c].cursor]
      BY <1>4, <2>2 DEF Connecting
    <3>3. task[j].next = 0 /\ task'[j].next = 0
      BY <3>1, <3>2, IdleTasks, ResumeTask
    <3>. QED BY <1>4, <2>2, <3>3
  <2>. QED BY <2>1, <2>2
<1>5. ASSUME NEW c \in Client, Saying(c) \/ Hearing(c) \/ Dropping(c)
      PROVE  task'[j] = task[j]
  BY <1>5 DEF Saying, Hearing, Dropping
<1>6. ASSUME Aging \/ Flushing \/ Standing
      PROVE  task'[j] = task[j]
  BY <1>6 DEF Aging, Flushing, Standing
<1>7. ASSUME Restarting
      PROVE  task'[j] = Idle
  BY <1>7 DEF Restarting
<1>. QED BY <1>1, <1>2, <1>3, <1>4, <1>5, <1>6, <1>7 DEF AnyStep

\* Where a chat message with its number comes from, and where it goes.
LEMMA NumberedFrom ==
  ASSUME Types, Stages, AnyStep, NEW j \in Conn, Numbered(j)'
  PROVE  /\ \/ Numbered(j) /\ task'[j].msg = task[j].msg /\ task'[j].seq = task[j].seq
            \/ Numbering(j) /\ task'[j].seq = stream.seq + 1
         /\ task'[j].seq \in Nat /\ task'[j].seq # 0
<1>1. task'[j].op = "chat" /\ task'[j].next > 3
  BY DEF Numbered
<1>2. task'[j] \in Task /\ InStage(task'[j]) /\ task[j] \in Task
  BY TypesStep, StagesStep DEF Types, Stages
<1>3. task'[j].seq \in Nat /\ task'[j].seq # 0
  BY <1>1, <1>2, TaskFields DEF InStage
<1>4. CASE task'[j] = task[j]
  BY <1>1, <1>3, <1>4 DEF Numbered
<1>5. CASE AnyAnswer(j)
  <2>1. task[j].next \in Nat
    BY <1>2, TaskFields
  <2>2. CASE Numbering(j)
    BY <1>3, <2>2 DEF Numbering
  <2>3. CASE Pushing(j) \/ Trimming(j) \/ Renewing(j)
    BY <1>3, <2>3 DEF Pushing, Trimming, Renewing, KeepsRest, KeepsSeq, Numbered
  <2>4. CASE Touching(j) \/ Reading(j) \/ Listing(j)
    BY <1>1, <2>1, <2>4 DEF Touching, Reading, Listing, GoesOn, AtTouch, AtEpoch, AtList
  <2>5. CASE Failing(j) \/ Telling(j) \/ Showing(j) \/ Resuming(j)
    BY <1>1, <2>5, IdleTasks DEF Failing, Telling, Showing, Resuming
  <2>6. CASE TurningBack(j)
    BY <1>1, <2>6, SnapshotTask DEF TurningBack
  <2>7. CASE Replaying(j)
    <3>1. "report" \in Op /\ 1 \in {0, 1}
      BY DEF Op
    <3>. QED BY <1>1, <2>7, <3>1, NewTask DEF Replaying
  <2>. QED BY <1>5, <2>2, <2>3, <2>4, <2>5, <2>6, <2>7 DEF AnyAnswer
<1>6. CASE task'[j].next \in {0, 1}
  BY <1>1, <1>6
<1>7. CASE task'[j] = Idle
  BY <1>1, <1>7, IdleTasks
<1>. QED BY <1>4, <1>5, <1>6, <1>7, TaskMoves

LEMMA PushedGoes ==
  ASSUME Types, Stages, AnyStep, NEW j \in Conn, Pushed(j) \/ Pushing(j)
  PROVE  \/ Pushed(j)' /\ task'[j].msg = task[j].msg /\ task'[j].seq = task[j].seq
         \/ Telling(j)
         \/ Restarting
<1>1. task[j].op = "chat" /\ task[j].next > 3 /\ task[j].next \in Nat
  <2>1. task[j].next \in 0..8
    BY TaskFields DEF Types
  <2>. QED BY <2>1 DEF Pushed, Pushing
<1>2. CASE task'[j] = task[j]
  <2>1. ~Pushing(j)
    BY <1>1, <1>2 DEF Pushing, GoesOn
  <2>. QED BY <1>2, <2>1 DEF Pushed
<1>3. CASE AnyAnswer(j)
  <2>1. CASE Pushing(j) \/ Trimming(j) \/ Renewing(j)
    BY <1>1, <2>1 DEF Pushing, Trimming, Renewing, KeepsRest, KeepsSeq, GoesOn, Pushed
  <2>2. CASE Telling(j)
    BY <2>2
  <2>. QED BY <1>1, <1>3, <2>1, <2>2 DEF AnyAnswer, Touching, Reading, Failing, TurningBack, Numbering, Listing,
           Showing, Resuming, Replaying, AtTouch, AtEpoch, AtList
<1>4. CASE task[j].next = 0
  BY <1>1, <1>4
<1>. QED BY <1>2, <1>3, <1>4, TaskMoves

\* Data are lost only when no handler waits, if the stream is whole afterwards.
LEMMA LostQuiet ==
  ASSUME Types, Queue, Lost, Whole', NEW j \in Conn
  PROVE  task'[j].next = 0 /\ ~Numbered(j)'
<1>1. task'[j].next = 0
  <2>1. CASE Restarting
    BY <2>1, IdleTasks DEF Restarting
  <2>2. CASE Flushing
    <3>1. calls = <<>> /\ task' = task
      BY <2>2 DEF Flushing, Whole
    <3>2. task[j].next = 0
      BY <3>1 DEF Queue
    <3>. QED BY <3>1, <3>2
  <2>. QED BY <2>1, <2>2 DEF Lost
<1>. QED BY <1>1 DEF Numbered

-----------------------------------------------------------------------------
(* The numbers of a stream that is whole.                                  *)

LEMMA WholeStays ==
  ASSUME Types, AnyStep, Whole'
  PROVE  Whole
<1>1. shared' = shared /\ (torn => torn')
  <2>1. ASSUME NEW k \in Conn, AnyAnswer(k)
        PROVE  shared' = shared /\ torn' = torn
    BY <2>1, AnswerTurns DEF Turn
  <2>2. ASSUME NEW k \in Conn, Receiving(k) \/ Admitting(k) \/ Asking(k)
        PROVE  shared' = shared /\ torn' = torn
    BY <2>2 DEF Receiving, Admitting, Asking
  <2>3. ASSUME NEW c \in Client, (\E k \in Conn : Connecting(c, k)) \/ Saying(c) \/ Hearing(c)
        PROVE  shared' = shared /\ torn' = torn
    BY <2>3 DEF Connecting, Saying, Hearing
  <2>4. ASSUME NEW c \in Client, Dropping(c)
        PROVE  shared' = shared /\ (torn => torn')
    BY <2>4 DEF Dropping
  <2>5. ASSUME Aging \/ Restarting \/ Flushing \/ Standing
        PROVE  shared' = shared /\ (torn => torn')
    BY <2>5 DEF Aging, Restarting, Flushing, Standing
  <2>. QED BY <2>1, <2>2, <2>3, <2>4, <2>5 DEF AnyStep
<1>. QED BY <1>1 DEF Whole

\* What an answer does to the handler that gets it, and to the epoch.
LEMMA AnswerEpochs ==
  ASSUME Types, Stages, NEW j \in Conn, AnyAnswer(j)
  PROVE  /\ \/ Touching(j) /\ task'[j].epoch = task[j].epoch
            \/ stream'.epoch = stream.epoch /\ task'[j].epoch \in {0, task[j].epoch, stream.epoch}
         /\ Touched(task'[j]) => Touched(task[j]) \/ Touching(j)
         /\ task'[j].op = "replay" /\ task'[j].next = 4 => Listing(j)
<1>1. task[j].next \in Nat
  <2>1. task[j].next \in 0..8
    BY TaskFields DEF Types
  <2>. QED BY <2>1
<1>2. CASE Touching(j)
  BY <1>1, <1>2 DEF Touching, KeepsEpoch, GoesOn, AtTouch
<1>3. CASE Reading(j)
  BY <1>1, <1>3 DEF Reading, GoesOn, SameStreamAs, AtEpoch, Touched
<1>4. CASE Failing(j) \/ Telling(j) \/ Showing(j) \/ Resuming(j)
  BY <1>1, <1>4, IdleTasks DEF Failing, Telling, Showing, Resuming, SameStreamAs, Touched
<1>5. CASE TurningBack(j)
  <2>1. task'[j].op = "snapshot" /\ task'[j].next = 0 /\ task'[j].epoch = 0 /\ stream' = stream
    BY <1>5, SnapshotTask DEF TurningBack, SameStreamAs
  <2>. QED BY <2>1 DEF Touched
<1>6. CASE Numbering(j) \/ Pushing(j) \/ Trimming(j) \/ Renewing(j)
  BY <1>1, <1>6 DEF Numbering, Pushing, Trimming, Renewing, GoesOn, KeepsEpoch, SameStreamAs, Touched
<1>7. CASE Listing(j)
  BY <1>1, <1>7 DEF Listing, GoesOn, KeepsEpoch, SameStreamAs, AtList, Touched
<1>8. CASE Replaying(j)
  <2>1. "report" \in Op /\ 1 \in {0, 1}
    BY DEF Op
  <2>2. task'[j].op = "report" /\ task'[j].next = 1 /\ task'[j].epoch = 0 /\ stream' = stream
    BY <1>8, <2>1, NewTask DEF Replaying, SameStreamAs
  <2>. QED BY <2>2 DEF Touched
<1>. QED BY <1>2, <1>3, <1>4, <1>5, <1>6, <1>7, <1>8 DEF AnyAnswer

LEMMA NumbersStep ==
  ASSUME Types, Stages, Queue, Numbers, AnyStep, Whole'
  PROVE  Numbers'
<1>1. Types' /\ Stages'
  BY TypesStep, StagesStep
<1>2. \A j \in Conn : task'[j].next \in Nat /\ (task'[j].next \in {0, 1} => task'[j].epoch = 0)
  <2>1. \A j \in Conn : task'[j].next \in 0..8
    BY <1>1, TaskFields DEF Types
  <2>. QED BY <1>1, <2>1 DEF Stages, InStage, EpochRead
<1>3. CASE Lost
  <2>1. \A j \in Conn : task'[j].next = 0 /\ ~Numbered(j)'
    BY <1>3, LostQuiet
  <2>2. stream'.epoch = 0 /\ stream'.seq = 0 /\ stream'.events = <<>>
    BY <1>3, NoStreamIs DEF Lost
  <2>3. Held' = {}
    BY <2>2 DEF Held, ToSet
  <2>. QED BY <1>2, <2>1, <2>2, <2>3 DEF Numbers, Touched
<1>4. CASE Grows
  <2>0. epochs \in Nat /\ stream.seq \in Nat /\ stream'.seq \in Nat
    BY <1>4 DEF Types, Grows
  <2>1. (stream.epoch # 0 => stream'.epoch = stream.epoch) /\ (stream'.epoch = 0 => stream.epoch = 0)
    BY <1>4, <2>0 DEF Grows, Renewed
  <2>2. stream'.epoch = 0 => stream'.events = <<>> /\ stream'.seq = 0
    <3>1. SUFFICES ASSUME stream'.epoch = 0 PROVE stream'.events = <<>> /\ stream'.seq = 0
      OBVIOUS
    <3>2. stream.epoch = 0 /\ stream.events = <<>> /\ stream.seq = 0
      BY <2>1, <3>1 DEF Numbers
    <3>3. ~Aging
      BY <3>2 DEF Aging
    <3>4. ASSUME NEW k \in Conn, Numbering(k) \/ Pushing(k) \/ Trimming(k)
          PROVE  FALSE
      <4>1. Touched(task[k])
        BY <3>4 DEF Numbering, Pushing, Trimming, Touched
      <4>. QED BY <3>2, <4>1 DEF Numbers
    <3>. QED BY <1>4, <3>2, <3>3, <3>4 DEF Grows
  <2>3. ASSUME NEW j \in Conn
        PROVE  /\ task'[j].epoch # 0 => task'[j].epoch = stream'.epoch
               /\ Touched(task'[j]) => stream'.epoch # 0
               /\ task'[j].op = "replay" /\ task'[j].next = 4 => \A e \in ToSet(task'[j].list) : e.seq <= stream'.seq
    <3>1. CASE task'[j] = task[j]
      <4>1. task[j].epoch # 0 => task[j].epoch = stream.epoch
        BY DEF Numbers
      <4>2. Touched(task[j]) => stream.epoch # 0
        BY DEF Numbers
      <4>3. ASSUME task[j].op = "replay", task[j].next = 4, NEW e \in ToSet(task[j].list)
            PROVE  e.seq <= stream'.seq
        <5>1. e.seq <= stream.seq
          BY <4>3 DEF Numbers
        <5>2. task[j].list \in Seq(Event)
          BY TaskFields DEF Types
        <5>3. e.seq \in Nat
          BY <4>3, <5>2, EventSeq DEF ToSet
        <5>. QED BY <1>4, <2>0, <5>1, <5>3 DEF Grows
      <4>. QED BY <2>1, <3>1, <4>1, <4>2, <4>3
    <3>2. CASE AnyAnswer(j)
      <4>1. task[j].epoch # 0 => task[j].epoch = stream.epoch
        BY DEF Numbers
      <4>2. Touched(task[j]) => stream.epoch # 0
        BY DEF Numbers
      <4>3. Touching(j) => stream'.epoch # 0
        BY <2>0 DEF Touching, SameStreamAs
      <4>4. ASSUME Listing(j)
            PROVE  \A e \in ToSet(task'[j].list) : e.seq <= stream'.seq
        <5>1. stream.events \in Seq(Event)
          BY DEF Types, Stream
        <5>2. ToSet(task'[j].list) = Held /\ stream' = stream
          BY <4>4, <5>1, Sorts DEF Listing, Held, SameStreamAs
        <5>. QED BY <5>2 DEF Numbers
      <4>. QED BY <2>1, <3>2, <4>1, <4>2, <4>3, <4>4, AnswerEpochs
    <3>3. CASE task'[j].next \in {0, 1}
      BY <1>2, <3>3 DEF Touched
    <3>4. CASE task'[j] = Idle
      BY <3>4, IdleTasks DEF Touched
    <3>. QED BY <3>1, <3>2, <3>3, <3>4, TaskMoves
  <2>4. ASSUME NEW j \in Conn, Numbered(j)'
        PROVE  task'[j].seq <= stream'.seq
    <3>1. CASE Numbered(j) /\ task'[j].seq = task[j].seq
      <4>1. task[j].seq <= stream.seq /\ task[j].seq \in Nat
        BY <3>1, TaskFields DEF Numbers, Types
      <4>. QED BY <1>4, <2>0, <3>1, <4>1 DEF Grows
    <3>2. CASE Numbering(j) /\ task'[j].seq = stream.seq + 1
      BY <2>0, <3>2 DEF Numbering
    <3>. QED BY <2>4, <3>1, <3>2, NumberedFrom
  <2>5. ASSUME NEW e \in Held'
        PROVE  e.seq <= stream'.seq
    <3>1. CASE e \in Held
      <4>1. e.seq <= stream.seq
        BY <3>1 DEF Numbers
      <4>2. stream.events \in Seq(Event)
        BY DEF Types, Stream
      <4>3. e.seq \in Nat
        BY <3>1, <4>2, EventSeq DEF Held, ToSet
      <4>. QED BY <1>4, <2>0, <4>1, <4>3 DEF Grows
    <3>2. ASSUME NEW j \in Conn, Pushing(j), e = EventOf(j)
          PROVE  e.seq <= stream'.seq
      <4>1. Numbered(j) /\ e.seq = task[j].seq
        BY <3>2 DEF Pushing, Numbered, EventOf
      <4>2. task[j].seq <= stream.seq
        BY <4>1 DEF Numbers
      <4>. QED BY <3>2, <4>1, <4>2 DEF Pushing
    <3>. QED BY <1>4, <2>5, <3>1, <3>2 DEF Grows
  <2>. QED BY <2>2, <2>3, <2>4, <2>5 DEF Numbers
<1>. QED BY <1>3, <1>4, StreamMoves

-----------------------------------------------------------------------------
(* What clients count.                                                     *)

LEMMA WireNumbers ==
  ASSUME NEW w \in Seq(Frame)
  PROVE  Len(w) \in Nat /\ DOMAIN w = 1..Len(w) /\ \A i \in DOMAIN w : w[i] \in Frame /\ w[i].seq \in Nat
<1>1. \A f \in Frame : f.seq \in Nat
  BY FrameKinds
<1>. QED BY <1>1, Elements

\* The stream moves on, or is another one.
LEMMA CountedStill ==
  ASSUME NEW w \in Seq(Frame), NEW s \in Cursor, NEW b \in Stream, NEW d \in Stream, CountedOn(w, s, b),
         \/ d.epoch = b.epoch /\ d.seq >= b.seq
         \/ d.epoch # s.epoch /\ \A i \in DOMAIN w : ~IsChat(w[i]) => w[i].epoch # d.epoch
         \/ d.epoch = 0 /\ d.seq = 0 /\ (s.epoch = 0 => s.seq = 0) /\ \A i \in DOMAIN w : ~IsChat(w[i]) => w[i].epoch # 0
  PROVE  CountedOn(w, s, d)
<1>1. b.seq \in Nat /\ d.seq \in Nat /\ s.seq \in Nat /\ \A i \in DOMAIN w : w[i].seq \in Nat
  BY WireNumbers DEF Stream, Cursor
<1>2. CASE d.epoch = b.epoch /\ d.seq >= b.seq
  <2>1. \A n \in Nat : n <= b.seq => n <= d.seq
    BY <1>1, <1>2
  <2>. QED BY <1>1, <1>2, <2>1 DEF CountedOn
<1>3. CASE d.epoch # s.epoch /\ \A i \in DOMAIN w : ~IsChat(w[i]) => w[i].epoch # d.epoch
  BY <1>3 DEF CountedOn
<1>4. CASE d.epoch = 0 /\ d.seq = 0 /\ (s.epoch = 0 => s.seq = 0) /\ \A i \in DOMAIN w : ~IsChat(w[i]) => w[i].epoch # 0
  BY <1>1, <1>4 DEF CountedOn
<1>. QED BY <1>2, <1>3, <1>4

LEMMA CountedChats ==
  ASSUME NEW w \in Seq(Frame), NEW g \in Seq(Frame), NEW s \in Cursor, NEW b \in Stream, CountedOn(w, s, b),
         \A i \in DOMAIN g : IsChat(g[i]) /\ g[i].seq <= b.seq, NEW v, v = w \o g
  PROVE  CountedOn(v, s, b)
<1>1. /\ Len(w) \in Nat /\ DOMAIN w = 1..Len(w) /\ Len(g) \in Nat /\ DOMAIN g = 1..Len(g)
      /\ DOMAIN v = 1..Len(w) + Len(g)
      /\ (\A i \in 1..Len(w) : v[i] = w[i]) /\ \A i \in 1..Len(g) : v[Len(w) + i] = g[i]
  BY WireConcat
<1>2. \A i \in DOMAIN v : i \notin DOMAIN w => i - Len(w) \in DOMAIN g /\ v[i] = g[i - Len(w)]
  BY <1>1
<1>3. \A i \in DOMAIN v : i \in Nat /\ (i \in DOMAIN w => v[i] = w[i]) /\ (i \notin DOMAIN w => IsChat(v[i]) /\ v[i].seq <= b.seq)
  BY <1>1, <1>2
<1>4. \A i \in DOMAIN w : i \in DOMAIN v /\ \A j \in DOMAIN v : j <= i => j \in DOMAIN w
  BY <1>1
<1>5. \A i \in DOMAIN v : (\A j \in DOMAIN v : j <= i => IsChat(v[j])) /\ i \in DOMAIN w => \A j \in DOMAIN w : j <= i => IsChat(w[j])
  BY <1>3, <1>4
<1>6. s.epoch = b.epoch => s.seq <= b.seq
  BY DEF CountedOn
<1>7. s.epoch = b.epoch /\ b.epoch # 0 => \A i \in DOMAIN v : (\A j \in DOMAIN v : j <= i => IsChat(v[j])) => v[i].seq <= b.seq
  BY <1>3, <1>5 DEF CountedOn
<1>8. \A i \in DOMAIN v : ~IsChat(v[i]) /\ v[i].epoch = b.epoch => \A j \in DOMAIN v : i <= j => v[j].seq <= b.seq
  <2>. SUFFICES ASSUME NEW i \in DOMAIN v, ~IsChat(v[i]), v[i].epoch = b.epoch, NEW j \in DOMAIN v, i <= j
                PROVE  v[j].seq <= b.seq
    OBVIOUS
  <2>1. i \in DOMAIN w /\ v[i] = w[i] /\ (j \in DOMAIN w => v[j] = w[j]) /\ (j \notin DOMAIN w => v[j].seq <= b.seq)
    BY <1>3
  <2>. QED BY <2>1 DEF CountedOn
<1>9. \A i \in DOMAIN v : ~IsChat(v[i]) /\ v[i].epoch = s.epoch =>
        s.seq <= v[i].seq /\ \A j \in DOMAIN v : j < i => v[j].seq <= v[i].seq
  <2>1. SUFFICES ASSUME NEW i \in DOMAIN v, ~IsChat(v[i]), v[i].epoch = s.epoch
                 PROVE  s.seq <= v[i].seq /\ \A j \in DOMAIN v : j < i => v[j].seq <= v[i].seq
    OBVIOUS
  <2>2. i \in DOMAIN w /\ v[i] = w[i]
    BY <1>3, <2>1
  <2>3. \A j \in DOMAIN v : j < i => j \in DOMAIN w /\ v[j] = w[j]
    BY <1>1, <2>2
  <2>. QED BY <2>1, <2>2, <2>3 DEF CountedOn
<1>. QED BY <1>6, <1>7, <1>8, <1>9 DEF CountedOn

LEMMA CountedAnswer ==
  ASSUME NEW w \in Seq(Frame), NEW f \in Frame, NEW s \in Cursor, NEW b \in Stream, CountedOn(w, s, b),
         NoAnswer(w), ~IsChat(f), f.epoch = b.epoch, f.seq = b.seq, b.epoch # 0, NEW v, v = Append(w, f)
  PROVE  CountedOn(v, s, b)
<1>1. /\ Len(w) \in Nat /\ DOMAIN w = 1..Len(w) /\ DOMAIN v = 1..Len(w) + 1
      /\ v[Len(w) + 1] = f /\ \A i \in 1..Len(w) : v[i] = w[i]
  BY WireAppend
<1> DEFINE n == Len(w) + 1
<1>2. n \in DOMAIN v /\ v[n] = f /\ n \in Nat /\ \A i \in DOMAIN v : i \in Nat /\ i <= n /\ (i # n => i < n /\ i \in DOMAIN w /\ v[i] = w[i])
  BY <1>1
<1>3. \A i \in DOMAIN w : i \in DOMAIN v /\ v[i] = w[i] /\ IsChat(w[i]) /\ i < n
  BY <1>1 DEF NoAnswer
<1>. HIDE DEF n
<1>4. b.seq \in Nat
  BY DEF Stream
<1>5. s.epoch = b.epoch => \A i \in DOMAIN w : w[i].seq <= b.seq
  BY <1>3 DEF CountedOn
<1>6. s.epoch = b.epoch => s.seq <= b.seq
  BY DEF CountedOn
<1>7. \A i \in DOMAIN v : (\A j \in DOMAIN v : j <= i => IsChat(v[j])) => i # n
  BY <1>2
<1>8. \A i \in DOMAIN v : ~IsChat(v[i]) => i = n
  BY <1>2, <1>3
<1>9. \A j \in DOMAIN v : n <= j => j = n
  BY <1>2
<1>10. s.epoch = b.epoch /\ b.epoch # 0 => \A i \in DOMAIN v : (\A j \in DOMAIN v : j <= i => IsChat(v[j])) => v[i].seq <= b.seq
  BY <1>2, <1>5, <1>7
<1>11. \A i \in DOMAIN v : ~IsChat(v[i]) /\ v[i].epoch = b.epoch => \A j \in DOMAIN v : i <= j => v[j].seq <= b.seq
  BY <1>2, <1>4, <1>8, <1>9
<1>12. \A i \in DOMAIN v : ~IsChat(v[i]) /\ v[i].epoch = s.epoch =>
         s.seq <= v[i].seq /\ \A j \in DOMAIN v : j < i => v[j].seq <= v[i].seq
  BY <1>2, <1>5, <1>6, <1>8
<1>. QED BY <1>6, <1>10, <1>11, <1>12 DEF CountedOn

LEMMA CountedHeard ==
  ASSUME NEW w \in Seq(Frame), w # <<>>, NEW s \in Cursor, NEW b \in Stream, CountedOn(w, s, b), OneAnswer(w),
         s.epoch = 0 => s.seq = 0, NEW v, v = Tail(w), NEW z \in Cursor,
         \/ IsChat(Head(w)) /\ z = CursorAfter(s, Head(w).seq)
         \/ ~IsChat(Head(w)) /\ z.epoch = Head(w).epoch /\ z.seq = Head(w).seq
  PROVE  CountedOn(v, z, b) /\ (z.epoch = s.epoch => z.seq >= s.seq)
<1>1. /\ Len(w) \in Nat \ {0} /\ DOMAIN w = 1..Len(w) /\ DOMAIN v = 1..Len(w) - 1
      /\ w[1] = Head(w) /\ \A i \in 1..Len(w) - 1 : v[i] = w[i + 1]
  BY WireTail
<1>2. 1 \in DOMAIN w /\ \A i \in DOMAIN v : i \in Nat /\ i + 1 \in DOMAIN w /\ v[i] = w[i + 1] /\ 1 <= i + 1 /\ 1 < i + 1
  BY <1>1
<1>3. b.seq \in Nat /\ s.seq \in Nat /\ z.seq \in Nat /\ \A i \in DOMAIN w : w[i].seq \in Nat
  BY WireNumbers DEF Stream, Cursor
<1> DEFINE f == Head(w)
<1>4. w[1] = f /\ f.seq \in Nat
  BY <1>1, <1>2, <1>3
<1>. HIDE DEF f
<1>5. CASE IsChat(f) /\ z = CursorAfter(s, f.seq)
  <2>1. /\ z.epoch = s.epoch /\ z.seq >= s.seq
        /\ z.seq = IF s # NoCursor /\ f.seq > s.seq THEN f.seq ELSE s.seq
    BY <1>4, <1>5, CursorMoves
  <2>2. \A j \in DOMAIN w : j # 1 => j - 1 \in DOMAIN v /\ v[j - 1] = w[j] /\ j \in Nat
    BY <1>1
  <2>3. \A i \in DOMAIN v : (\A j \in DOMAIN v : j <= i => IsChat(v[j])) => \A j \in DOMAIN w : j <= i + 1 => IsChat(w[j])
    <3>1. SUFFICES ASSUME NEW i \in DOMAIN v, \A j \in DOMAIN v : j <= i => IsChat(v[j]),
                          NEW j \in DOMAIN w, j <= i + 1
                   PROVE  IsChat(w[j])
      OBVIOUS
    <3>2. j # 1 => j - 1 <= i
      BY <1>2, <2>2, <3>1
    <3>. QED BY <1>4, <1>5, <2>2, <3>1, <3>2
  <2>4. s.epoch = b.epoch => z.seq <= b.seq
    <3>1. SUFFICES ASSUME s.epoch = b.epoch PROVE z.seq <= b.seq
      OBVIOUS
    <3>2. s.seq <= b.seq
      BY <3>1 DEF CountedOn
    <3>3. CASE s = NoCursor
      BY <2>1, <3>2, <3>3
    <3>4. CASE s # NoCursor
      <4>1. s.epoch # 0
        <5>1. s = [epoch |-> s.epoch, seq |-> s.seq]
          BY DEF Cursor
        <5>. QED BY <3>4, <5>1 DEF NoCursor
      <4>2. \A j \in DOMAIN w : j <= 1 => IsChat(w[j])
        BY <1>1, <1>4, <1>5
      <4>3. f.seq <= b.seq
        BY <1>2, <1>4, <3>1, <4>1, <4>2 DEF CountedOn
      <4>. QED BY <2>1, <3>2, <4>3
    <3>. QED BY <3>3, <3>4
  <2>5. s.epoch = b.epoch /\ b.epoch # 0 => \A i \in DOMAIN v : (\A j \in DOMAIN v : j <= i => IsChat(v[j])) => v[i].seq <= b.seq
    BY <1>2, <2>3 DEF CountedOn
  <2>6. \A i \in DOMAIN v : ~IsChat(v[i]) /\ v[i].epoch = b.epoch => \A j \in DOMAIN v : i <= j => v[j].seq <= b.seq
    <3>1. SUFFICES ASSUME NEW i \in DOMAIN v, ~IsChat(v[i]), v[i].epoch = b.epoch, NEW j \in DOMAIN v, i <= j
                   PROVE  v[j].seq <= b.seq
      OBVIOUS
    <3>2. i + 1 <= j + 1
      BY <1>2, <3>1
    <3>. QED BY <1>2, <3>1, <3>2 DEF CountedOn
  <2>7. \A i \in DOMAIN v : ~IsChat(v[i]) /\ v[i].epoch = s.epoch =>
          z.seq <= v[i].seq /\ \A j \in DOMAIN v : j < i => v[j].seq <= v[i].seq
    <3>1. SUFFICES ASSUME NEW i \in DOMAIN v, ~IsChat(v[i]), v[i].epoch = s.epoch
                   PROVE  z.seq <= v[i].seq /\ \A j \in DOMAIN v : j < i => v[j].seq <= v[i].seq
      OBVIOUS
    <3>2. s.seq <= w[i + 1].seq /\ \A j \in DOMAIN w : j < i + 1 => w[j].seq <= w[i + 1].seq
      BY <1>2, <3>1 DEF CountedOn
    <3>3. z.seq <= v[i].seq
      BY <1>2, <1>4, <2>1, <3>2
    <3>4. \A j \in DOMAIN v : j < i => j + 1 < i + 1
      BY <1>2
    <3>. QED BY <1>2, <3>2, <3>3, <3>4
  <2>. QED BY <2>1, <2>4, <2>5, <2>6, <2>7 DEF CountedOn
<1>6. CASE ~IsChat(f) /\ z.epoch = f.epoch /\ z.seq = f.seq
  <2>1. \A i \in DOMAIN v : IsChat(v[i])
    <3>1. SUFFICES ASSUME NEW i \in DOMAIN v, ~IsChat(v[i]) PROVE FALSE
      OBVIOUS
    <3>2. i + 1 = 1
      BY <1>2, <1>4, <1>6, <3>1 DEF OneAnswer
    <3>. QED BY <1>2, <3>2
  <2>2. z.epoch = b.epoch => \A j \in DOMAIN w : 1 <= j => w[j].seq <= b.seq
    BY <1>2, <1>4, <1>6 DEF CountedOn
  <2>3. z.epoch = b.epoch => z.seq <= b.seq
    BY <1>2, <1>4, <1>6, <2>2
  <2>4. z.epoch = b.epoch => \A i \in DOMAIN v : v[i].seq <= b.seq
    BY <1>2, <2>2
  <2>5. z.epoch = s.epoch => z.seq >= s.seq
    <3>1. z.epoch = s.epoch => s.seq <= w[1].seq
      BY <1>2, <1>4, <1>6 DEF CountedOn
    <3>. QED BY <1>3, <1>4, <1>6, <3>1
  <2>. QED BY <2>1, <2>3, <2>4, <2>5 DEF CountedOn
<1>. QED BY <1>5, <1>6 DEF f

\* What a session becomes when a frame is heard.
LEMMA HeardIs ==
  ASSUME Types, NEW c \in Client, NEW k \in Conn, Linked(c, k), Hearing(c)
  PROVE  LET w == wire[k] f == Head(wire[k]) s == client[c] u == client'[c] IN
         /\ w \in Seq(Frame) /\ w # <<>> /\ wire'[k] = Tail(w) /\ f \in Frame /\ u \in Session /\ s \in Session
         /\ stream' = stream /\ task' = task /\ calls' = calls /\ conn' = conn /\ torn' = torn /\ shared' = shared /\ said' = said
         /\ \/ /\ IsChat(f) /\ u.answered = s.answered /\ u.cursor = CursorAfter(s.cursor, f.seq)
               /\ u.seen = s.seen \cup {f.msg} /\ u.older = s.older /\ (u.twice <=> s.twice \/ f.msg \in s.seen)
               /\ (u.moved <=> s.moved \/ (~s.answered /\ CursorAfter(s.cursor, f.seq) # s.cursor))
            \/ /\ f.t = "snapshot" /\ u.answered /\ u.cursor.epoch = f.epoch /\ u.cursor.seq = f.seq
               /\ u.seen = f.recent /\ u.older = f.older /\ u.twice = s.twice /\ u.moved = s.moved
            \/ /\ f.t = "resumed" /\ u.answered /\ u.cursor.epoch = f.epoch /\ u.cursor.seq = f.seq
               /\ u.seen = s.seen /\ u.older = s.older /\ u.twice = s.twice /\ u.moved = s.moved
<1> DEFINE f == Head(wire[k])
           s == client[c]
<1>1. /\ wire[k] \in Seq(Frame) /\ wire[k] # <<>> /\ wire'[k] = Tail(wire[k]) /\ f \in Frame
      /\ client'[c] = Heard(s, f) /\ client'[c] \in Session /\ s \in Session
      /\ stream' = stream /\ task' = task /\ calls' = calls /\ conn' = conn /\ torn' = torn /\ shared' = shared /\ said' = said
  BY DEF Linked, Hearing, Types, Meant, SameStreamAs
<1>. HIDE DEF f, s
<1>2. CASE f.t = "chat.message" /\ f.msg \in Message /\ f.seq \in Nat
  BY <1>1, <1>2, HeardChat DEF IsChat, f, s
<1>3. CASE f.t = "resumed" /\ f.epoch \in Nat /\ f.seq \in Nat
  BY <1>1, <1>3, HeardResumed DEF f, s
<1>4. CASE f.t = "snapshot" /\ f.epoch \in Nat /\ f.seq \in Nat /\ f.recent \in SUBSET Message /\ f.older \in SUBSET Message
  BY <1>1, <1>4, HeardSnapshot DEF f, s
<1>. QED BY <1>1, <1>2, <1>3, <1>4, FrameKinds

\* A wire that is answered gets the epoch of the stream.
LEMMA AnswerKnows ==
  ASSUME Types, Stages, Links, Numbers, NEW c \in Client, NEW k \in Conn, Linked(c, k), NEW f, Answers(c, k, f)
  PROVE  /\ f \in Frame /\ ~IsChat(f) /\ f.epoch = stream.epoch /\ f.epoch # 0 /\ f.seq = stream.seq
         /\ NoAnswer(wire[k]) /\ ~client[c].answered /\ task'[k] = Idle /\ stream' = stream
<1>1. f \in Frame /\ ~IsChat(f) /\ f.epoch = task[k].epoch /\ f.seq = stream.seq /\ task'[k] = Idle /\ stream' = stream
  BY DEF Answers, Showing, Resuming, IsChat, SameStreamAs
<1>2. EpochRead(task[k]) /\ task[k].op \in {"snapshot", "report"}
  BY DEF Answers, Showing, Resuming, EpochRead
<1>3. task[k].epoch # 0
  BY <1>2 DEF Stages, InStage
<1>4. NoAnswer(wire[k]) /\ ~client[c].answered
  BY <1>2 DEF Links, LinkFor, Linked
<1>. QED BY <1>1, <1>3, <1>4 DEF Numbers

\* What is told and what is replayed has been counted.
LEMMA ToldCounted ==
  ASSUME Types, Stages, Numbers, NEW c, NEW k, NEW j \in Conn, Tells(c, k, j)
  PROVE  LET f == ChatFrame([msg |-> task[j].msg, seq |-> task[j].seq]) IN
         /\ f \in Frame /\ IsChat(f) /\ f.seq = task[j].seq /\ f.msg = task[j].msg /\ f.seq <= stream.seq
         /\ f = ChatFrame(EventOf(j)) /\ stream' = stream
<1>1. Numbered(j) /\ Telling(j) /\ stream' = stream
  BY DEF Tells, Telling, Numbered, SameStreamAs
<1>2. task[j].seq <= stream.seq
  BY <1>1 DEF Numbers
<1>. QED BY <1>1, <1>2, Told DEF EventOf

LEMMA GapCounted ==
  ASSUME Types, Stages, Numbers, NEW c, NEW k \in Conn, NEW gap, Fills(c, k, gap)
  PROVE  LET g == GapFrames(gap) IN
         /\ g \in Seq(Frame) /\ (\A i \in DOMAIN g : IsChat(g[i]) /\ g[i].seq <= stream.seq) /\ stream' = stream
<1>1. /\ task[k].op = "replay" /\ task[k].next = 4 /\ stream' = stream
      /\ \A i \in DOMAIN gap : gap[i] \in ToSet(task[k].list)
  BY DEF Fills, Replaying, SameStreamAs
<1>2. \A i \in DOMAIN gap : gap[i].seq <= stream.seq
  BY <1>1 DEF Numbers
<1>. QED BY <1>1, <1>2, GapFramesChat DEF NoAnswer

LEMMA CountedStep ==
  ASSUME Types, Stages, Bound, Links, Known, Numbers, Counted, AnyStep, NEW c \in Client
  PROVE  /\ client'[c].cursor.epoch = stream'.epoch => client'[c].cursor.seq <= stream'.seq
         /\ \A k \in Conn : client'[c].conn = k => CountedOn(wire'[k], client'[c].cursor, stream')
         /\ client'[c].cursor.epoch = client[c].cursor.epoch => client'[c].cursor.seq >= client[c].cursor.seq
<1> DEFINE s == client[c].cursor
           z == client'[c].cursor
<1>1. Types'
  BY TypesStep
<1>2. client[c] \in Session /\ client'[c] \in Session /\ s \in Cursor /\ z \in Cursor /\ s.seq \in Nat /\ z.seq \in Nat /\ stream \in Stream /\ stream' \in Stream
  <2>1. client[c] \in Session /\ client'[c] \in Session /\ stream \in Stream /\ stream' \in Stream
    BY <1>1 DEF Types
  <2>2. s \in Cursor /\ z \in Cursor
    BY <2>1, SessionFields
  <2>. QED BY <2>1, <2>2 DEF Cursor
<1>3. s.epoch <= epochs /\ (s.epoch = 0 => s.seq = 0) /\ s.epoch \in Nat /\ epochs \in Nat
  BY <1>2 DEF Known, Types, Cursor
<1>4. s.epoch = stream.epoch => s.seq <= stream.seq
  BY DEF Counted
<1>5. \/ stream'.epoch = stream.epoch /\ stream'.seq >= stream.seq
      \/ stream'.epoch = epochs + 1
      \/ stream'.epoch = 0 /\ stream'.seq = 0
  <2>1. CASE Lost
    BY <2>1, NoStreamIs DEF Lost
  <2>2. CASE Grows
    BY <2>2 DEF Grows, Renewed
  <2>. QED BY <2>1, <2>2, StreamMoves
<1>6. stream.seq \in Nat /\ stream'.seq \in Nat
  BY <1>2 DEF Stream
<1>7. z = s => (z.epoch = stream'.epoch => z.seq <= stream'.seq)
  BY <1>2, <1>3, <1>4, <1>5, <1>6
<1>8. CASE Apart(c)
  <2>1. z = s /\ \A k \in Conn : client'[c].conn # k
    BY <1>8 DEF Apart, Conn, NoConn
  <2>. QED BY <1>2, <1>7, <2>1
<1>9. ASSUME NEW k \in Conn, Connecting(c, k)
      PROVE  /\ z.epoch = stream'.epoch => z.seq <= stream'.seq
             /\ \A j \in Conn : client'[c].conn = j => CountedOn(wire'[j], z, stream')
             /\ z.epoch = s.epoch => z.seq >= s.seq
  <2>1. wire'[k] = <<>> /\ z = s /\ client'[c].conn = k
    BY <1>9 DEF Connecting, Links
  <2>2. CountedOn(<<>>, z, stream')
    BY <1>7, <2>1 DEF CountedOn
  <2>. QED BY <1>2, <1>7, <2>1, <2>2
<1>10. ASSUME NEW k \in Conn, Linked(c, k), View(c, k)
       PROVE  /\ z.epoch = stream'.epoch => z.seq <= stream'.seq
              /\ \A j \in Conn : client'[c].conn = j => CountedOn(wire'[j], z, stream')
              /\ z.epoch = s.epoch => z.seq >= s.seq
  <2>0. wire[k] \in Seq(Frame) /\ CountedOn(wire[k], s, stream) /\ OneAnswer(wire[k]) /\ client[c].conn = k /\ client'[c].conn = k
    BY <1>10 DEF Linked, Counted, Links, LinkFor, Types
  <2>1. SUFFICES CountedOn(wire'[k], z, stream') /\ (z.epoch = s.epoch => z.seq >= s.seq)
    <3>1. CountedOn(wire'[k], z, stream') => (z.epoch = stream'.epoch => z.seq <= stream'.seq)
      BY DEF CountedOn
    <3>. QED BY <2>0, <3>1
  <2>2. CASE Stays(c, k)
    <3>1. wire'[k] = wire[k] /\ z = s
      BY <2>2 DEF Stays
    <3>2. \A i \in DOMAIN wire[k] : ~IsChat(wire[k][i]) => wire[k][i].epoch \in 1..epochs
      BY DEF Known
    <3>3. \/ stream'.epoch = stream.epoch /\ stream'.seq >= stream.seq
          \/ stream'.epoch # s.epoch /\ \A i \in DOMAIN wire[k] : ~IsChat(wire[k][i]) => wire[k][i].epoch # stream'.epoch
          \/ stream'.epoch = 0 /\ stream'.seq = 0 /\ (s.epoch = 0 => s.seq = 0)
             /\ \A i \in DOMAIN wire[k] : ~IsChat(wire[k][i]) => wire[k][i].epoch # 0
      <4>1. CASE stream'.epoch = stream.epoch /\ stream'.seq >= stream.seq
        BY <4>1
      <4>2. CASE stream'.epoch = epochs + 1
        <5>1. \A n \in 1..epochs : n # epochs + 1
          BY <1>3
        <5>2. s.epoch # epochs + 1
          BY <1>3
        <5>. QED BY <3>2, <4>2, <5>1, <5>2
      <4>3. CASE stream'.epoch = 0 /\ stream'.seq = 0
        <5>1. \A n \in 1..epochs : n # 0
          BY <1>3
        <5>. QED BY <1>3, <3>2, <4>3, <5>1
      <4>. QED BY <1>5, <4>1, <4>2, <4>3
    <3>4. CountedOn(wire[k], s, stream')
      BY <1>2, <2>0, <3>3, CountedStill
    <3>. QED BY <1>2, <3>1, <3>4
  <2>3. ASSUME NEW j \in Conn, Tells(c, k, j)
        PROVE  CountedOn(wire'[k], z, stream') /\ (z.epoch = s.epoch => z.seq >= s.seq)
    <3> DEFINE f == ChatFrame([msg |-> task[j].msg, seq |-> task[j].seq])
    <3>1. f \in Frame /\ IsChat(f) /\ f.seq <= stream.seq /\ stream' = stream
      BY <2>3, ToldCounted
    <3>2. wire'[k] = Append(wire[k], f) /\ z = s
      BY <2>3 DEF Tells
    <3>. HIDE DEF f
    <3>3. wire'[k] = wire[k] \o <<f>> /\ <<f>> \in Seq(Frame) /\ \A i \in DOMAIN <<f>> : <<f>>[i] = f
      BY <2>0, <3>1, <3>2, SMTT(30)
    <3>4. CountedOn(wire'[k], s, stream)
      BY <1>2, <2>0, <3>1, <3>3, CountedChats
    <3>. QED BY <1>2, <3>1, <3>2, <3>4
  <2>4. ASSUME NEW f, Answers(c, k, f)
        PROVE  CountedOn(wire'[k], z, stream') /\ (z.epoch = s.epoch => z.seq >= s.seq)
    <3>1. /\ f \in Frame /\ ~IsChat(f) /\ f.epoch = stream.epoch /\ f.epoch # 0 /\ f.seq = stream.seq
          /\ NoAnswer(wire[k]) /\ stream' = stream
      BY <1>10, <2>4, AnswerKnows
    <3>2. wire'[k] = Append(wire[k], f) /\ z = s
      BY <2>4 DEF Answers
    <3>3. CountedOn(wire'[k], s, stream)
      BY <1>2, <2>0, <3>1, <3>2, CountedAnswer
    <3>. QED BY <1>2, <3>1, <3>2, <3>3
  <2>5. ASSUME NEW gap, Fills(c, k, gap)
        PROVE  CountedOn(wire'[k], z, stream') /\ (z.epoch = s.epoch => z.seq >= s.seq)
    <3> DEFINE g == GapFrames(gap)
    <3>1. g \in Seq(Frame) /\ (\A i \in DOMAIN g : IsChat(g[i]) /\ g[i].seq <= stream.seq) /\ stream' = stream
      BY <2>5, GapCounted
    <3>2. wire'[k] = wire[k] \o g /\ z = s
      BY <2>5 DEF Fills
    <3>. HIDE DEF g
    <3>3. CountedOn(wire'[k], s, stream)
      BY <1>2, <2>0, <3>1, <3>2, CountedChats
    <3>. QED BY <1>2, <3>1, <3>2, <3>3
  <2>6. CASE Hearing(c)
    <3> DEFINE f == Head(wire[k])
    <3>1. /\ wire[k] # <<>> /\ wire'[k] = Tail(wire[k]) /\ stream' = stream
          /\ \/ IsChat(f) /\ z = CursorAfter(s, f.seq)
             \/ ~IsChat(f) /\ z.epoch = f.epoch /\ z.seq = f.seq
      BY <1>10, <2>6, HeardIs DEF IsChat
    <3>2. CountedOn(wire'[k], z, stream) /\ (z.epoch = s.epoch => z.seq >= s.seq)
      BY <1>2, <1>3, <2>0, <3>1, CountedHeard
    <3>. QED BY <3>1, <3>2
  <2>. QED BY <1>10, <2>2, <2>3, <2>4, <2>5, <2>6 DEF View
<1>. QED BY <1>8, <1>9, <1>10, Viewed

-----------------------------------------------------------------------------
(* Lists that handlers hold.                                               *)

\* A handler that is answered and is not done asks on.
LEMMA AnswerGoesOn ==
  ASSUME NEW k \in Conn, AnyAnswer(k), task'[k].next \notin {0, 1}
  PROVE  GoesOn(k)
<1>1. CASE task'[k] = Idle \/ TurningBack(k)
  BY <1>1, IdleTasks, SnapshotTask DEF TurningBack
<1>2. CASE Replaying(k)
  <2>1. "report" \in Op /\ 1 \in {0, 1}
    BY DEF Op
  <2>. QED BY <1>2, <2>1, NewTask DEF Replaying
<1>. QED BY <1>1, <1>2 DEF AnyAnswer, Touching, Reading, Failing, Numbering, Pushing, Trimming, Renewing, Telling,
         Listing, Showing, Resuming

\* The handler at the head goes behind the others, which keep their order.
LEMMA RotatesAny ==
  ASSUME NEW S, NEW s \in Seq(S), s # <<>>, \A i, j \in DOMAIN s : s[i] = s[j] => i = j,
         NEW h \in S, h = Head(s), NEW t, t = Tail(s) \/ t = Append(Tail(s), h),
         NEW p \in DOMAIN t, NEW q \in DOMAIN t, p < q
  PROVE  /\ t[p] # h
         /\ \E m, n \in DOMAIN s : s[m] = t[p] /\ s[n] = t[q] /\ IF t[q] = h THEN n < m ELSE m < n
<1> DEFINE l == Len(s)
<1>1. /\ l \in Nat /\ l >= 1 /\ DOMAIN s = 1..l /\ s[1] = h
      /\ Tail(s) \in Seq(S) /\ Len(Tail(s)) = l - 1 /\ \A i \in 1..l - 1 : Tail(s)[i] = s[i + 1]
  BY HeadAndTail, LenProperties
<1>2. DOMAIN Tail(s) = 1..l - 1
  BY <1>1, LenProperties
<1>3. ASSUME NEW i \in DOMAIN s, i # 1 PROVE s[i] # h
  BY <1>1, <1>3
<1>4. CASE t = Tail(s)
  <2>1. p \in 1..l - 1 /\ q \in 1..l - 1
    BY <1>2, <1>4
  <2>. HIDE DEF l
  <2>2. p + 1 \in 1..l /\ q + 1 \in 1..l /\ p + 1 < q + 1 /\ p + 1 # 1 /\ q + 1 # 1
    BY <1>1, <2>1
  <2>. QED BY <1>1, <1>3, <1>4, <2>1, <2>2
<1>5. CASE t = Append(Tail(s), h)
  <2>1. DOMAIN t = 1..l /\ t[l] = h /\ \A i \in 1..l - 1 : t[i] = s[i + 1]
    <3>1. Len(Tail(s)) + 1 = l
      BY <1>1
    <3>2. Len(t) = Len(Tail(s)) + 1 /\ t \in Seq(S) /\ t[Len(Tail(s)) + 1] = h /\ \A i \in 1..Len(Tail(s)) : t[i] = Tail(s)[i]
      BY <1>1, <1>5, AppendProperties
    <3>. QED BY <1>1, <3>1, <3>2, LenProperties, ZenonT(60)
  <2>2. p \in 1..l /\ q \in 1..l
    BY <2>1
  <2>. HIDE DEF l
  <2>3. p \in 1..l - 1 /\ p + 1 \in 1..l /\ 1 < p + 1 /\ p + 1 # 1 /\ 1 \in 1..l
    BY <1>1, <2>2
  <2>4. CASE q = l
    BY <1>1, <1>3, <2>1, <2>3, <2>4
  <2>5. CASE q # l
    <3>1. q \in 1..l - 1 /\ q + 1 \in 1..l /\ q + 1 # 1 /\ p + 1 < q + 1
      BY <1>1, <2>2, <2>5
    <3>. QED BY <1>1, <1>3, <2>1, <2>3, <3>1
  <2>. QED BY <2>4, <2>5
<1>. QED BY <1>4, <1>5

LEMMA Rotates ==
  ASSUME calls \in Seq(Conn), Queue, calls # <<>>, NEW h \in Conn, h = Head(calls),
         calls' = Tail(calls) \/ calls' = Append(Tail(calls), h),
         NEW p \in DOMAIN calls', NEW q \in DOMAIN calls', p < q
  PROVE  /\ calls'[p] # h
         /\ \E m, n \in DOMAIN calls : /\ calls[m] = calls'[p] /\ calls[n] = calls'[q]
                                       /\ IF calls'[q] = h THEN n < m ELSE m < n
<1>1. \A i, j \in DOMAIN calls : calls[i] = calls[j] => i = j
  BY DEF Queue
<1>. QED BY <1>1, RotatesAny

\* What a step does to the queue.
QueueMoves ==
  \/ calls # <<>> /\ AnyAnswer(Head(calls)) /\ Head(calls) \in Conn
     /\ (calls' = Tail(calls) \/ calls' = Append(Tail(calls), Head(calls)))
  \/ /\ \A j \in Conn : task[j].next # 0 => task'[j] = task[j]
     /\ calls' = calls \/ \E h \in Conn : task[h].next = 0 /\ calls' = Append(calls, h)
  \/ Restarting

LEMMA QueueMoved ==
  ASSUME Types, AnyStep
  PROVE  QueueMoves
<1>1. ASSUME NEW k \in Conn, k = Head(calls), AnyAnswer(k)
      PROVE  QueueMoves
  <2>1. calls # <<>>
    BY <1>1, AnswerTurns DEF Turn
  <2>2. calls' = Tail(calls) \/ calls' = Append(Tail(calls), k)
    BY <1>1 DEF AnyAnswer, Touching, Reading, Failing, TurningBack, Numbering, Pushing, Trimming, Renewing, Telling,
         Listing, Showing, Resuming, Replaying, GoesOn
  <2>. QED BY <1>1, <2>1, <2>2 DEF QueueMoves
<1>2. ASSUME NEW k \in Conn, Receiving(k) \/ Admitting(k) \/ Asking(k)
      PROVE  QueueMoves
  <2>1. task[k].next = 0 /\ (calls' = calls \/ calls' = Append(calls, k)) /\ \A j \in Conn : j # k => task'[j] = task[j]
    BY <1>2, IdleTasks DEF Receiving, Admitting, Asking, Mine
  <2>. QED BY <2>1 DEF QueueMoves
<1>3. ASSUME NEW c \in Client, NEW k \in Conn, Connecting(c, k)
      PROVE  QueueMoves
  <2>1. task[k].next = 0 /\ calls' = calls /\ \A j \in Conn : j # k => task'[j] = task[j]
    BY <1>3, IdleTasks DEF Connecting, Mine
  <2>. QED BY <2>1 DEF QueueMoves
<1>4. ASSUME NEW c \in Client, Saying(c) \/ Hearing(c) \/ Dropping(c)
      PROVE  QueueMoves
  BY <1>4 DEF Saying, Hearing, Dropping, QueueMoves
<1>5. CASE Aging \/ Restarting \/ Flushing \/ Standing
  BY <1>5 DEF Aging, Flushing, Standing, QueueMoves
<1>. QED BY <1>1, <1>2, <1>3, <1>4, <1>5 DEF AnyStep

LEMMA LagsStep ==
  ASSUME Types, Stages, Queue, AnyStep, NEW j \in Conn, NEW k \in Conn, Lags(j, k), Pushed(j), Pushed(j)',
         task[k].op = "snapshot", task[k].next > 1, task'[k].op = "snapshot", task'[k].next > 1
  PROVE  Lags(j, k)'
<1>1. j # k
  BY DEF Pushed
<1>2. task[j].next \in Nat /\ task[k].next \in Nat /\ task'[j].next \in Nat /\ task'[k].next \in Nat
  <2>1. Types'
    BY TypesStep
  <2>2. task[j].next \in 0..8 /\ task[k].next \in 0..8 /\ task'[j].next \in 0..8 /\ task'[k].next \in 0..8
    BY <2>1, TaskFields DEF Types
  <2>. QED BY <2>2
<1>3. task[j].next # 0 /\ task[k].next # 0 /\ task'[j].next \notin {0, 1} /\ task'[k].next \notin {0, 1}
  BY <1>2 DEF Pushed
<1>4. CASE calls # <<>> /\ AnyAnswer(Head(calls)) /\ Head(calls) \in Conn
           /\ (calls' = Tail(calls) \/ calls' = Append(Tail(calls), Head(calls)))
  <2> DEFINE h == Head(calls)
  <2>1. calls \in Seq(Conn) /\ \A i \in Conn : i # h => task'[i] = task[i]
    BY <1>4, AnswerTurns DEF Types, Turn
  <2>2. j = h \/ k = h => GoesOn(h)
    BY <1>3, <1>4, AnswerGoesOn
  <2>3. j = h => task'[j].next = task[j].next + 1
    BY <2>2 DEF GoesOn
  <2>4. k = h => task'[k].next = task[k].next + 1
    BY <2>2 DEF GoesOn
  <2>5. calls # <<>> /\ h \in Conn /\ (calls' = Tail(calls) \/ calls' = Append(Tail(calls), h))
    BY <1>4
  <2>6. h = Head(calls)
    OBVIOUS
  <2>. HIDE DEF h
  <2>7. ASSUME NEW p \in DOMAIN calls', NEW q \in DOMAIN calls', calls'[p] = k, calls'[q] = j, p < q
        PROVE  task'[j].next <= task'[k].next + 4
    <3>1. k # h
      BY <2>1, <2>5, <2>6, <2>7, Rotates
    <3>2. PICK m \in DOMAIN calls, n \in DOMAIN calls :
            calls[m] = k /\ calls[n] = j /\ IF j = h THEN n < m ELSE m < n
      BY <2>1, <2>5, <2>6, <2>7, Rotates
    <3>3. CASE j = h
      <4>1. task[j].next < task[k].next + 4
        BY <3>2, <3>3 DEF Lags
      <4>. QED BY <1>2, <2>1, <2>3, <3>1, <3>3, <4>1, SMTT(30)
    <3>4. CASE j # h
      BY <2>1, <3>1, <3>2, <3>4 DEF Lags
    <3>. QED BY <3>3, <3>4
  <2>8. ASSUME NEW p \in DOMAIN calls', NEW q \in DOMAIN calls', calls'[p] = k, calls'[q] = j, q < p
        PROVE  task'[j].next < task'[k].next + 4
    <3>1. j # h
      BY <2>1, <2>5, <2>6, <2>8, Rotates
    <3>2. PICK m \in DOMAIN calls, n \in DOMAIN calls :
            calls[m] = j /\ calls[n] = k /\ IF k = h THEN n < m ELSE m < n
      BY <2>1, <2>5, <2>6, <2>8, Rotates
    <3>3. CASE k = h
      <4>1. task[j].next <= task[k].next + 4
        BY <3>2, <3>3 DEF Lags
      <4>2. task'[j].next = task[j].next /\ task'[k].next = task[k].next + 1
        BY <2>1, <2>4, <3>1, <3>3
      <4>. QED BY <1>2, <4>1, <4>2
    <3>4. CASE k # h
      BY <2>1, <3>1, <3>2, <3>4 DEF Lags
    <3>. QED BY <3>3, <3>4
  <2>. QED BY <2>7, <2>8 DEF Lags
<1>5. CASE /\ \A i \in Conn : task[i].next # 0 => task'[i] = task[i]
           /\ calls' = calls \/ \E h \in Conn : task[h].next = 0 /\ calls' = Append(calls, h)
  <2>1. task'[j] = task[j] /\ task'[k] = task[k]
    BY <1>3, <1>5
  <2>2. CASE calls' = calls
    BY <2>1, <2>2 DEF Lags
  <2>3. ASSUME NEW h \in Conn, task[h].next = 0, calls' = Append(calls, h)
        PROVE  Lags(j, k)'
    <3>1. h # j /\ h # k
      BY <1>3, <2>3
    <3>2. /\ Len(calls) \in Nat /\ DOMAIN calls = 1..Len(calls) /\ DOMAIN calls' = 1..Len(calls) + 1
          /\ calls'[Len(calls) + 1] = h
          /\ \A i \in 1..Len(calls) : calls'[i] = calls[i]
      BY <2>3, Queued DEF Types
    <3>3. \A i \in DOMAIN calls' : calls'[i] # h => i \in DOMAIN calls /\ calls[i] = calls'[i]
      BY <3>2
    <3>. QED BY <2>1, <3>1, <3>3 DEF Lags
  <2>. QED BY <1>5, <2>2, <2>3
<1>6. ~Restarting
  BY <1>3, IdleTasks DEF Restarting
<1>. QED BY <1>4, <1>5, <1>6, QueueMoved DEF QueueMoves

\* A message that a snapshot leaves out is told after it.
LEMMA TakenStep ==
  ASSUME Types, Stages, Queue, Taken, AnyStep
  PROVE  Taken'
<1>1. SUFFICES ASSUME NEW k \in Conn, task'[k].op = "snapshot", task'[k].next > 1, NEW e \in Held'
               PROVE  e \in ToSet(task'[k].list) \/ \E j \in Conn : Carries(j, e)' /\ Lags(j, k)'
  BY DEF Taken
<1>2. Types'
  BY TypesStep
<1>3. task[k].next \in Nat /\ task'[k].next \in 2..8
  <2>1. task[k].next \in 0..8 /\ task'[k].next \in 0..8
    BY <1>2, TaskFields DEF Types
  <2>. QED BY <1>1, <2>1
<1>4. ~Restarting
  BY <1>3, IdleTasks DEF Restarting
<1>5. CASE AnyAnswer(k) /\ k = Head(calls)
  <2>1. GoesOn(k)
    BY <1>3, <1>5, AnswerGoesOn
  <2>2. task[k].op = "snapshot" /\ task'[k].next = task[k].next + 1
    BY <1>1, <2>1 DEF GoesOn
  <2>3. CASE Listing(k)
    <3>1. ToSet(task'[k].list) = Held /\ stream' = stream
      BY <2>3, Sorts DEF Listing, Held, SameStreamAs, Types, Stream
    <3>. QED BY <3>1 DEF Held
  <2>4. CASE ~Listing(k)
    <3>1. Touching(k) \/ Reading(k)
      BY <1>3, <1>5, <2>2, <2>4, IdleTasks, SnapshotTask DEF AnyAnswer, Failing, TurningBack, Numbering, Pushing, Trimming,
         Renewing, Telling, Showing, Resuming, Replaying
    <3>2. task[k].next > 1 /\ task'[k].list = task[k].list /\ stream'.events = stream.events
      BY <2>2, <3>1 DEF Touching, Reading, AtTouch, AtEpoch, KeepsList, SameStreamAs
    <3>3. e \in ToSet(task[k].list) \/ \E j \in Conn : Carries(j, e) /\ Lags(j, k)
      BY <2>2, <3>2 DEF Taken, Held
    <3>4. ASSUME NEW j \in Conn, Carries(j, e), Lags(j, k)
          PROVE  Carries(j, e)' /\ Lags(j, k)'
      <4>1. j # k
        BY <2>2, <3>4 DEF Carries, Pushed
      <4>2. task'[j] = task[j]
        BY <1>5, <4>1, AnswerTurns DEF Turn
      <4>3. Pushed(j) /\ Pushed(j)'
        BY <3>4, <4>2 DEF Carries, Pushed
      <4>. QED BY <1>1, <2>2, <3>2, <3>4, <4>2, <4>3, LagsStep DEF Carries
    <3>. QED BY <3>2, <3>3, <3>4
  <2>. QED BY <2>3, <2>4
<1>6. CASE task'[k] = task[k] /\ ~(AnyAnswer(k) /\ k = Head(calls))
  <2>1. task[k].op = "snapshot" /\ task[k].next > 1 /\ task[k].next # 0
    BY <1>1, <1>3, <1>6
  <2>2. CASE e \in Held
    <3>1. ASSUME NEW j \in Conn, Carries(j, e), Lags(j, k)
          PROVE  Carries(j, e)' /\ Lags(j, k)'
      <4>1. CASE Telling(j)
        <5>1. calls # <<>> /\ j = Head(calls) /\ calls \in Seq(Conn) /\ task[j].next = 8
          BY <4>1 DEF Telling, Turn, Types
        <5>2. calls[1] = j /\ Len(calls) \in Nat \ {0} /\ DOMAIN calls = 1..Len(calls)
          BY <5>1, HeadAndTail
        <5>3. PICK p \in DOMAIN calls : calls[p] = k
          BY <2>1 DEF Queue
        <5>4. j # k
          BY <2>1, <4>1 DEF Telling
        <5>5. 1 < p /\ 1 \in DOMAIN calls
          BY <5>2, <5>3, <5>4
        <5>6. task[j].next < task[k].next + 4
          BY <3>1, <5>2, <5>3, <5>5 DEF Lags
        <5>7. task[k].next \in 0..4
          BY <2>1 DEF Stages, InStage
        <5>. QED BY <5>1, <5>6, <5>7
      <4>2. CASE Pushed(j)' /\ task'[j].msg = task[j].msg /\ task'[j].seq = task[j].seq
        <5>1. Carries(j, e)' /\ Pushed(j)
          BY <3>1, <4>2 DEF Carries
        <5>. QED BY <1>1, <2>1, <3>1, <4>2, <5>1, LagsStep
      <4>3. Pushed(j)
        BY <3>1 DEF Carries
      <4>. QED BY <1>4, <4>1, <4>2, <4>3, PushedGoes
    <3>2. e \in ToSet(task[k].list) \/ \E j \in Conn : Carries(j, e) /\ Lags(j, k)
      BY <2>1, <2>2 DEF Taken
    <3>. QED BY <1>6, <3>1, <3>2
  <2>3. ASSUME NEW j \in Conn, Pushing(j), e = EventOf(j)
        PROVE  Carries(j, e)' /\ Lags(j, k)'
    <3>1. task'[j].msg = e.msg /\ task'[j].seq = e.seq /\ task'[j].next = 5 /\ Pushed(j)'
      BY <2>3 DEF Pushing, EventOf, KeepsRest, KeepsSeq, GoesOn, Pushed
    <3>2. calls # <<>> /\ j = Head(calls) /\ calls \in Seq(Conn) /\ calls' = Append(Tail(calls), j) /\ j # k
      BY <2>1, <2>3 DEF Pushing, Turn, GoesOn, Types
    <3>3. \A p, q \in DOMAIN calls' : p < q => calls'[p] # j
      BY <3>2, Rotates
    <3>4. 5 <= task'[k].next + 4
      BY <1>3
    <3>. QED BY <3>1, <3>3, <3>4 DEF Carries, Lags
  <2>4. Grows
    <3>1. ~Lost
      BY DEF Lost, NoStream, Held, ToSet
    <3>. QED BY <3>1, StreamMoves
  <2>. QED BY <2>2, <2>3, <2>4 DEF Grows
<1>7. task'[k].next \notin {0, 1} /\ task'[k] # Idle
  BY <1>3, IdleTasks
<1>. QED BY <1>5, <1>6, <1>7, TaskMoves

-----------------------------------------------------------------------------
(* Events on their way.                                                    *)

\* What is added to the wire of a connection that lasts.
LEMMA WireGrows ==
  ASSUME Types, Stages, NEW c \in Client, NEW k \in Conn, View(c, k), ~Hearing(c)
  PROVE  /\ client'[c] = client[c]
         /\ wire[k] \in Seq(Frame) /\ DOMAIN wire[k] = 1..Len(wire[k]) /\ Len(wire[k]) \in Nat
         /\ \A i \in DOMAIN wire[k] : i \in DOMAIN wire'[k] /\ wire'[k][i] = wire[k][i]
         /\ \A i \in DOMAIN wire'[k] : i \notin DOMAIN wire[k] =>
              /\ IsChat(wire'[k][i]) \/ Answers(c, k, wire'[k][i])
              /\ \A j \in DOMAIN wire[k] : j < i
<1> DEFINE w == wire[k]
<1>1. w \in Seq(Frame) /\ DOMAIN w = 1..Len(w) /\ Len(w) \in Nat
  BY FramesOn
<1>2. CASE Stays(c, k)
  BY <1>1, <1>2 DEF Stays
<1>3. ASSUME client'[c] = client[c], NEW f \in Frame, wire'[k] = Append(w, f), IsChat(f) \/ Answers(c, k, f)
      PROVE  /\ \A i \in DOMAIN w : i \in DOMAIN wire'[k] /\ wire'[k][i] = w[i]
             /\ \A i \in DOMAIN wire'[k] : i \notin DOMAIN w =>
                  (IsChat(wire'[k][i]) \/ Answers(c, k, wire'[k][i])) /\ \A j \in DOMAIN w : j < i
  <2>1. DOMAIN wire'[k] = 1..Len(w) + 1 /\ wire'[k][Len(w) + 1] = f /\ \A i \in 1..Len(w) : wire'[k][i] = w[i]
    BY <1>1, <1>3, WireAppend
  <2>. HIDE DEF w
  <2>2. \A i \in DOMAIN wire'[k] : i \notin DOMAIN w => i = Len(w) + 1
    BY <1>1, <2>1
  <2>3. \A j \in DOMAIN w : j < Len(w) + 1 /\ j \in DOMAIN wire'[k]
    BY <1>1, <2>1
  <2>. QED BY <1>1, <1>3, <2>1, <2>2, <2>3
<1>4. ASSUME NEW j \in Conn, Tells(c, k, j)
      PROVE  \E f \in Frame : IsChat(f) /\ wire'[k] = Append(w, f)
  BY <1>4, Told DEF Tells
<1>5. ASSUME NEW gap, Fills(c, k, gap)
      PROVE  /\ \A i \in DOMAIN w : i \in DOMAIN wire'[k] /\ wire'[k][i] = w[i]
             /\ \A i \in DOMAIN wire'[k] : i \notin DOMAIN w =>
                  IsChat(wire'[k][i]) /\ \A j \in DOMAIN w : j < i
  <2> DEFINE g == GapFrames(gap)
  <2>1. g \in Seq(Frame) /\ NoAnswer(g) /\ wire'[k] = w \o g
    BY <1>5, GapFramesChat DEF Fills
  <2>. HIDE DEF g
  <2>2. /\ Len(g) \in Nat /\ DOMAIN g = 1..Len(g) /\ DOMAIN wire'[k] = 1..Len(w) + Len(g)
        /\ (\A i \in 1..Len(w) : wire'[k][i] = w[i]) /\ \A i \in 1..Len(g) : wire'[k][Len(w) + i] = g[i]
    BY <1>1, <2>1, WireConcat
  <2>. HIDE DEF w
  <2>3. \A i \in DOMAIN wire'[k] : i \notin DOMAIN w => i - Len(w) \in 1..Len(g) /\ Len(w) + (i - Len(w)) = i
    BY <1>1, <2>2
  <2>4. \A i \in DOMAIN wire'[k] : i \notin DOMAIN w => \A j \in DOMAIN w : j < i
    BY <1>1, <2>2
  <2>5. \A i \in DOMAIN w : i \in DOMAIN wire'[k]
    BY <1>1, <2>2
  <2>6. \A i \in DOMAIN wire'[k] : i \notin DOMAIN w => wire'[k][i] = g[i - Len(w)] /\ i - Len(w) \in DOMAIN g
    BY <2>2, <2>3
  <2>. QED BY <1>1, <2>1, <2>2, <2>4, <2>5, <2>6 DEF NoAnswer
<1>6. client'[c] = client[c]
  BY DEF View, Stays, Tells, Answers, Fills
<1>7. ASSUME NEW f, Answers(c, k, f)
      PROVE  f \in Frame /\ wire'[k] = Append(w, f)
  BY <1>7 DEF Answers
<1>. QED BY <1>1, <1>2, <1>3, <1>4, <1>5, <1>6, <1>7 DEF View

\* A message that is under way stays so until it is told.
LEMMA CarriesMoves ==
  ASSUME Types, Stages, AnyStep, NEW j \in Conn, NEW e, Carries(j, e)
  PROVE  \/ Carries(j, e)'
         \/ /\ Telling(j)
            /\ \A k \in Conn : conn[k].open /\ conn[k].subscribed =>
                 wire'[k] = Append(wire[k], ChatFrame(e)) /\ ChatFrame(e) \in Frame
         \/ Restarting
<1>1. Pushed(j) /\ task[j].msg = e.msg /\ task[j].seq = e.seq
  BY DEF Carries
<1>2. CASE Telling(j)
  <2>1. ChatFrame([msg |-> task[j].msg, seq |-> task[j].seq]) = ChatFrame(e)
    BY <1>1 DEF ChatFrame
  <2>. QED BY <1>2, <2>1, Told
<1>. QED BY <1>1, <1>2, PushedGoes DEF Carries

LEMMA NewlyHeld ==
  ASSUME Types, Stages, AnyStep, NEW e \in Held'
  PROVE  e \in Held \/ Underway(e)'
<1>1. ~Lost
  BY DEF Lost, NoStream, Held, ToSet
<1>2. ASSUME NEW j \in Conn, Pushing(j), e = EventOf(j)
      PROVE  Carries(j, e)'
  <2>1. task[j].next = 4 /\ task'[j].next = task[j].next + 1
    BY <1>2 DEF Pushing, GoesOn
  <2>. QED BY <1>2, <2>1 DEF Pushing, EventOf, KeepsRest, KeepsSeq, GoesOn, Pushed, Carries
<1>. QED BY <1>1, <1>2, StreamMoves DEF Grows, Underway

\* Where a frame that is on the wire goes.
LEMMA SentMoves ==
  ASSUME Types, Stages, NEW c \in Client, NEW k \in Conn, Linked(c, k), View(c, k), NEW e, Sent(wire[k], e)
  PROVE  Sent(wire'[k], e) \/ (Hearing(c) /\ Head(wire[k]) = ChatFrame(e))
<1>1. PICK i \in DOMAIN wire[k] : wire[k][i] = ChatFrame(e)
  BY DEF Sent
<1>2. CASE ~Hearing(c)
  BY <1>1, <1>2, WireGrows DEF Sent
<1>3. CASE Hearing(c)
  <2>1. wire[k] \in Seq(Frame) /\ wire[k] # <<>> /\ wire'[k] = Tail(wire[k])
    BY <1>3, HeardIs
  <2>2. /\ Len(wire[k]) \in Nat \ {0} /\ DOMAIN wire[k] = 1..Len(wire[k]) /\ DOMAIN wire'[k] = 1..Len(wire[k]) - 1
        /\ wire[k][1] = Head(wire[k]) /\ \A m \in 1..Len(wire[k]) - 1 : wire'[k][m] = wire[k][m + 1]
    BY <2>1, WireTail
  <2>3. i # 1 => i - 1 \in DOMAIN wire'[k] /\ wire'[k][i - 1] = wire[k][i]
    BY <2>2
  <2>. QED BY <1>1, <1>3, <2>2, <2>3 DEF Sent
<1>. QED BY <1>2, <1>3

LEMMA ComingStep ==
  ASSUME Types, Stages, AnyStep, NEW c \in Client, NEW k \in Conn, Linked(c, k), View(c, k), conn[k].subscribed,
         ~(Hearing(c) /\ Head(wire[k]).t = "snapshot"), NEW e, Coming(c, k, e)
  PROVE  Coming(c, k, e)'
<1> DEFINE w == wire[k]
<1>1. ASSUME Has(client[c], e) PROVE Has(client'[c], e)
  <2>1. client'[c].older = client[c].older /\ client[c].seen \subseteq client'[c].seen
    <3>1. CASE Hearing(c)
      BY <3>1, HeardIs
    <3>2. CASE ~Hearing(c)
      BY <3>2, WireGrows
    <3>. QED BY <3>1, <3>2
  <2>. QED BY <1>1, <2>1 DEF Has
<1>2. ASSUME Sent(w, e) PROVE Sent(wire'[k], e) \/ Has(client'[c], e)
  <2>1. CASE Hearing(c) /\ Head(w) = ChatFrame(e)
    <3>1. Head(w).t = "chat.message" /\ Head(w).msg = e.msg
      BY <2>1 DEF ChatFrame
    <3>2. client'[c].seen = client[c].seen \cup {Head(w).msg}
      BY <2>1, <3>1, HeardIs
    <3>. QED BY <3>1, <3>2 DEF Has
  <2>. QED BY <1>2, <2>1, SentMoves
<1>3. ASSUME NEW j \in Conn, Carries(j, e) PROVE Carries(j, e)' \/ Sent(wire'[k], e)
  <2>1. ~Restarting /\ conn[k].open
    BY DEF Restarting, Linked
  <2>2. CASE wire'[k] = Append(w, ChatFrame(e)) /\ ChatFrame(e) \in Frame
    <3>1. w \in Seq(Frame)
      BY DEF Types
    <3>2. DOMAIN wire'[k] = 1..Len(w) + 1 /\ wire'[k][Len(w) + 1] = ChatFrame(e) /\ Len(w) \in Nat
      BY <2>2, <3>1, WireAppend
    <3>3. Len(w) + 1 \in DOMAIN wire'[k]
      BY <3>2
    <3>. QED BY <3>2, <3>3 DEF Sent
  <2>. QED BY <1>3, <2>1, <2>2, CarriesMoves
<1>. QED BY <1>1, <1>2, <1>3 DEF Coming, Underway

LEMMA ListedStep ==
  ASSUME Types, Stages, Bound, Links, Listed, AnyStep
  PROVE  Listed'
<1>1. SUFFICES ASSUME NEW c \in Client, NEW k \in Conn, client'[c].conn = k, task'[k].op = "replay", task'[k].next = 4,
                      NEW e \in Held'
               PROVE  e \in ToSet(task'[k].list) \/ Coming(c, k, e)'
  BY DEF Listed
<1>2. CASE AnyAnswer(k)
  <2>1. Listing(k)
    BY <1>1, <1>2, AnswerEpochs
  <2>2. ToSet(task'[k].list) = Held /\ stream' = stream
    BY <2>1, Sorts DEF Listing, Held, SameStreamAs, Types, Stream
  <2>. QED BY <2>2 DEF Held
<1>3. CASE task'[k] = task[k]
  <2>1. Linked(c, k) /\ View(c, k)
    <3>1. ~Connecting(c, k)
      BY <1>1, <1>3, IdleTasks DEF Connecting
    <3>2. ~Apart(c) /\ (\A j \in Conn : Connecting(c, j) => j = k) /\ \A j \in Conn : Linked(c, j) => j = k
      BY <1>1 DEF Apart, Connecting, Linked, Conn, NoConn
    <3>. QED BY <3>1, <3>2, Viewed
  <2>2. LinkFor(wire[k], task[k].op, conn[k].subscribed, client[c].answered)
    BY <2>1 DEF Links, Linked
  <2>3. conn[k].subscribed /\ NoAnswer(wire[k])
    BY <1>1, <1>3, <2>2 DEF LinkFor
  <2>4. ~(Hearing(c) /\ Head(wire[k]).t = "snapshot")
    <3>1. SUFFICES ASSUME Hearing(c), Head(wire[k]).t = "snapshot" PROVE FALSE
      OBVIOUS
    <3>2. wire[k] \in Seq(Frame) /\ wire[k] # <<>>
      BY <2>1, <3>1, HeardIs
    <3>3. wire[k][1] = Head(wire[k]) /\ 1 \in DOMAIN wire[k]
      <4>1. Len(wire[k]) \in Nat \ {0} /\ DOMAIN wire[k] = 1..Len(wire[k]) /\ wire[k][1] = Head(wire[k])
        BY <3>2, WireTail
      <4>. QED BY <4>1
    <3>. QED BY <2>3, <3>1, <3>3 DEF NoAnswer, IsChat
  <2>5. CASE e \in Held
    <3>1. e \in ToSet(task[k].list) \/ Coming(c, k, e)
      BY <1>1, <1>3, <2>1, <2>5 DEF Listed, Linked
    <3>. QED BY <1>3, <2>1, <2>3, <2>4, <3>1, ComingStep
  <2>6. CASE Underway(e)'
    BY <2>6 DEF Coming
  <2>. QED BY <2>5, <2>6, NewlyHeld
<1>4. task'[k].next \notin {0, 1} /\ task'[k] # Idle
  BY <1>1, IdleTasks
<1>. QED BY <1>2, <1>3, <1>4, TaskMoves

\* The client of a connection is new to it, or was there before.
LEMMA LinkedOrNew ==
  ASSUME Types, Stages, Bound, AnyStep, NEW c \in Client, NEW k \in Conn, client'[c].conn = k
  PROVE  Connecting(c, k) \/ (Linked(c, k) /\ View(c, k))
<1>1. ~Apart(c) /\ (\A j \in Conn : Connecting(c, j) => j = k) /\ \A j \in Conn : Linked(c, j) => j = k
  BY DEF Apart, Connecting, Linked, Conn, NoConn
<1>. QED BY <1>1, Viewed

LEMMA ShownStep ==
  ASSUME Types, Stages, Bound, Links, Taken, Shown, AnyStep
  PROVE  Shown'
<1>1. SUFFICES ASSUME NEW c \in Client, NEW k \in Conn, client'[c].conn = k, NEW e \in Held', NEW i \in DOMAIN wire'[k],
                      wire'[k][i].t = "snapshot"
               PROVE  \/ e.msg \in wire'[k][i].recent \cup wire'[k][i].older
                      \/ \E j \in DOMAIN wire'[k] : i < j /\ wire'[k][j] = ChatFrame(e)
                      \/ Underway(e)'
  BY DEF Shown, ShownOn
<1>2. ~Connecting(c, k)
  BY <1>1 DEF Connecting, Links
<1>3. Linked(c, k) /\ View(c, k)
  BY <1>1, <1>2, LinkedOrNew
<1> DEFINE w == wire[k]
           v == wire'[k]
<1>4. client[c].conn = k /\ conn[k].open /\ ~Restarting /\ LinkFor(w, task[k].op, conn[k].subscribed, client[c].answered)
  BY <1>3 DEF Linked, Links, Restarting
<1>5. CASE Underway(e)'
  BY <1>5
<1>6. CASE e \in Held /\ ~Hearing(c) /\ i \in DOMAIN w
  <2>1. v[i] = w[i] /\ \A j \in DOMAIN w : j \in DOMAIN v /\ v[j] = w[j]
    BY <1>3, <1>6, WireGrows
  <2>2. ShownOn(w, e)
    BY <1>4, <1>6 DEF Shown
  <2>3. CASE e.msg \in w[i].recent \cup w[i].older
    BY <2>1, <2>3
  <2>4. ASSUME NEW j \in DOMAIN w, i < j, w[j] = ChatFrame(e)
        PROVE  \E n \in DOMAIN v : i < n /\ v[n] = ChatFrame(e)
    BY <2>1, <2>4
  <2>5. ASSUME NEW j \in Conn, Carries(j, e)
        PROVE  Underway(e)' \/ \E n \in DOMAIN v : i < n /\ v[n] = ChatFrame(e)
    <3>1. conn[k].subscribed
      <4>1. w # <<>>
        BY <1>6
      <4>. QED BY <1>4, <4>1 DEF LinkFor
    <3>2. CASE v = Append(w, ChatFrame(e)) /\ ChatFrame(e) \in Frame
      <4>1. w \in Seq(Frame)
        BY DEF Types
      <4>2. DOMAIN w = 1..Len(w) /\ DOMAIN v = 1..Len(w) + 1 /\ v[Len(w) + 1] = ChatFrame(e) /\ Len(w) \in Nat
        BY <3>2, <4>1, WireAppend
      <4>3. Len(w) + 1 \in DOMAIN v /\ i < Len(w) + 1
        BY <1>6, <4>2
      <4>. QED BY <4>2, <4>3
    <3>. QED BY <1>4, <2>5, <3>1, <3>2, CarriesMoves DEF Underway
  <2>. QED BY <1>1, <1>6, <2>1, <2>2, <2>3, <2>4, <2>5 DEF ShownOn, Underway
<1>7. CASE e \in Held /\ ~Hearing(c) /\ i \notin DOMAIN w
  <2>1. Answers(c, k, v[i])
    BY <1>1, <1>3, <1>7, WireGrows DEF IsChat
  <2>2. /\ Showing(k) /\ v[i].recent \cup v[i].older = Messages(task[k].list)
        /\ task[k].op = "snapshot" /\ task[k].next > 1 /\ task[k].list \in Seq(Event)
    <3>1. Showing(k) /\ v[i].recent \cup v[i].older = Messages(task[k].list)
      BY <1>1, <2>1 DEF Answers
    <3>. QED BY <3>1, TaskFields DEF Showing, Types
  <2>3. CASE e \in ToSet(task[k].list)
    BY <2>2, <2>3, RecentPart
  <2>4. ASSUME NEW j \in Conn, Carries(j, e)
        PROVE  Carries(j, e)'
    <3>1. j # k
      BY <2>2, <2>4 DEF Carries, Pushed
    <3>2. task'[j] = task[j]
      BY <2>2, <3>1 DEF Showing, Turn
    <3>. QED BY <2>4, <3>2 DEF Carries, Pushed
  <2>. QED BY <1>7, <2>2, <2>3, <2>4 DEF Taken, Underway
<1>8. CASE e \in Held /\ Hearing(c)
  <2>1. w \in Seq(Frame) /\ w # <<>> /\ v = Tail(w) /\ task' = task
    BY <1>3, <1>8, HeardIs
  <2>2. /\ Len(w) \in Nat \ {0} /\ DOMAIN w = 1..Len(w) /\ DOMAIN v = 1..Len(w) - 1
        /\ \A m \in 1..Len(w) - 1 : v[m] = w[m + 1]
    BY <2>1, WireTail
  <2>3. i \in Nat /\ i + 1 \in DOMAIN w /\ v[i] = w[i + 1] /\ 1 <= i
    BY <2>2
  <2>4. \A j \in DOMAIN w : i + 1 < j => j - 1 \in DOMAIN v /\ v[j - 1] = w[j] /\ i < j - 1
    <3>1. ASSUME NEW j \in DOMAIN w, i + 1 < j
          PROVE  j - 1 \in 1..Len(w) - 1 /\ j - 1 + 1 = j /\ i < j - 1
      BY <2>2, <2>3, <3>1
    <3>. QED BY <2>2, <3>1
  <2>5. ShownOn(w, e)
    BY <1>4, <1>8 DEF Shown
  <2>6. Underway(e) => Underway(e)'
    BY <2>1 DEF Underway, Carries, Pushed
  <2>. QED BY <1>1, <2>3, <2>4, <2>5, <2>6 DEF ShownOn
<1>. QED BY <1>5, <1>6, <1>7, <1>8, NewlyHeld

-----------------------------------------------------------------------------
(* A buffer in memory.                                                     *)

\* It answers one handler until that is done.
LEMMA MemoryTurn ==
  ASSUME Types, Queue, Alone, ~shared, AnyStep
  PROVE  \/ \A j \in Conn : task[j].next = 0
         \/ \E h \in Conn : h = Head(calls) /\ AnyAnswer(h) /\ \A j \in Conn : j # h => task[j].next = 0
         \/ Standing
<1>1. calls \in Seq(Conn)
  BY DEF Types
<1>2. CASE calls = <<>>
  BY <1>2 DEF Queue
<1>3. CASE calls # <<>>
  <2>1. ~MayRun
    BY <1>3 DEF MayRun
  <2>2. Standing \/ \E k \in Conn : k = Head(calls) /\ AnyAnswer(k)
    BY <2>1 DEF AnyStep, Receiving, Admitting, Asking, Connecting, Saying, Hearing, Dropping, Aging, Restarting, Flushing
  <2>3. ASSUME NEW j \in Conn, j # Head(calls) PROVE task[j].next = 0
    <3>1. Len(calls) = 1 /\ DOMAIN calls = 1..1 /\ calls[1] = Head(calls)
      <4>1. Len(calls) \in Nat \ {0} /\ calls[1] = Head(calls) /\ DOMAIN calls = 1..Len(calls)
        BY <1>1, <1>3, HeadAndTail, LenProperties
      <4>. QED BY <4>1 DEF Alone
    <3>. QED BY <2>3, <3>1 DEF Queue
  <2>. QED BY <2>2, <2>3
<1>. QED BY <1>2, <1>3

LEMMA HalfSaidIs ==
  ASSUME Types, Stages
  PROVE  HalfSaid <=> \E j \in Conn : Numbered(j)
<1>1. ASSUME NEW j \in Conn
      PROVE  (task[j].op = "chat" /\ task[j].seq # 0) <=> Numbered(j)
  BY DEF Stages, InStage, Numbered
<1>. QED BY <1>1 DEF HalfSaid

LEMMA TopGrows ==
  ASSUME Types, Stages, ~shared, ~Restarting, AnyStep
  PROVE  Top' >= Top
<1>0. Types' /\ Stages'
  BY TypesStep, StagesStep
<1>1. Grows
  BY StreamMoves DEF Lost, Flushing
<1>2. stream.seq \in Nat /\ stream'.seq \in Nat /\ stream'.seq >= stream.seq
  BY <1>1 DEF Grows
<1>3. CASE HalfSaid
  BY <1>2, <1>3 DEF Top
<1>4. CASE ~HalfSaid /\ ~HalfSaid'
  BY <1>2, <1>4 DEF Top
<1>5. CASE ~HalfSaid /\ HalfSaid'
  <2>1. PICK j \in Conn : Numbered(j)'
    <3>1. PICK j \in Conn : task'[j].op = "chat" /\ task'[j].seq # 0
      BY <1>5 DEF HalfSaid
    <3>. QED BY <1>0, <3>1 DEF Stages, InStage, Numbered
  <2>2. ~Numbered(j)
    BY <1>5, HalfSaidIs
  <2>3. stream'.seq = stream.seq + 1
    BY <2>1, <2>2, NumberedFrom DEF Numbering
  <2>. QED BY <1>2, <1>5, <2>3 DEF Top
<1>. QED BY <1>3, <1>4, <1>5

LEMMA RisingMore ==
  ASSUME NEW w \in Seq(Frame), NEW a, NEW m \in Nat, NEW n \in Int, NEW p \in Int, RisingOn(w, a, m, n), n <= p
  PROVE  RisingOn(w, a, m, p)
<1>1. \A i \in DOMAIN w : w[i].seq \in Nat
  BY WireNumbers
<1>2. \A x \in Nat : x <= n => x <= p
  OBVIOUS
<1>. QED BY <1>1, <1>2 DEF RisingOn

LEMMA RisingTold ==
  ASSUME NEW w \in Seq(Frame), NEW f \in Frame, NEW a, NEW m \in Nat, NEW n \in Int, RisingOn(w, a, m, n),
         IsChat(f), n < f.seq, NEW v, v = Append(w, f)
  PROVE  RisingOn(v, a, m, f.seq)
<1>1. /\ Len(w) \in Nat /\ DOMAIN w = 1..Len(w) /\ DOMAIN v = 1..Len(w) + 1
      /\ v[Len(w) + 1] = f /\ \A i \in 1..Len(w) : v[i] = w[i]
  BY WireAppend
<1> DEFINE l == Len(w) + 1
<1>2. l \in DOMAIN v /\ v[l] = f /\ \A i \in DOMAIN v : i \in Nat /\ i <= l /\ (i # l => i \in DOMAIN w /\ v[i] = w[i])
  BY <1>1
<1>3. l \in Nat /\ \A i \in DOMAIN w : i # l
  BY <1>1
<1>. HIDE DEF l
<1>4. f.seq \in Nat /\ \A i \in DOMAIN w : w[i].seq \in Nat
  BY WireNumbers, FrameKinds
<1>5. \A i \in DOMAIN v : v[i].seq <= f.seq /\ (i # l => v[i].seq < f.seq)
  <2>1. \A i \in DOMAIN w : w[i].seq <= n
    BY DEF RisingOn
  <2>. QED BY <1>2, <1>4, <2>1
<1>6. \A i, j \in DOMAIN v : i < j => i # l /\ i \in DOMAIN w /\ v[i] = w[i]
  BY <1>2, <1>3
<1>7. ASSUME a
      PROVE  m <= f.seq /\ (\A i \in DOMAIN v : m < v[i].seq) /\ \A i, j \in DOMAIN v : i < j => v[i].seq < v[j].seq
  <2>1. m <= n /\ (\A i \in DOMAIN w : m < w[i].seq) /\ \A i, j \in DOMAIN w : i < j => w[i].seq < w[j].seq
    BY <1>7 DEF RisingOn
  <2>2. m < f.seq
    BY <1>4, <2>1
  <2>3. \A i, j \in DOMAIN v : i < j => v[i].seq < v[j].seq
    BY <1>2, <1>5, <1>6, <2>1
  <2>. QED BY <1>2, <1>4, <2>1, <2>2, <2>3
<1>8. ASSUME NEW i \in DOMAIN v, ~IsChat(v[i])
      PROVE  /\ \A j \in DOMAIN v : j < i => v[j].seq <= v[i].seq
             /\ \A j \in DOMAIN v : i < j => v[i].seq < v[j].seq
             /\ \A j, p \in DOMAIN v : i < j /\ j < p => v[j].seq < v[p].seq
  <2>1. i \in DOMAIN w /\ v[i] = w[i] /\ ~IsChat(w[i])
    BY <1>2, <1>8
  <2>2. /\ \A j \in DOMAIN w : j < i => w[j].seq <= w[i].seq
        /\ \A j \in DOMAIN w : i < j => w[i].seq < w[j].seq
        /\ \A j, p \in DOMAIN w : i < j /\ j < p => w[j].seq < w[p].seq
    BY <2>1 DEF RisingOn
  <2>3. \A j \in DOMAIN v : j < i => v[j].seq <= v[i].seq
    BY <1>6, <2>1, <2>2
  <2>4. \A j \in DOMAIN v : i < j => v[i].seq < v[j].seq
    BY <1>2, <1>5, <1>6, <2>1, <2>2
  <2>5. \A j, p \in DOMAIN v : i < j /\ j < p => v[j].seq < v[p].seq
    BY <1>2, <1>5, <1>6, <2>1, <2>2
  <2>. QED BY <2>3, <2>4, <2>5
<1>. QED BY <1>5, <1>7, <1>8 DEF RisingOn

LEMMA RisingAnswer ==
  ASSUME NEW w \in Seq(Frame), NEW f \in Frame, NEW m \in Nat, NEW n \in Int, RisingOn(w, FALSE, m, n),
         NoAnswer(w), n = f.seq, NEW v, v = Append(w, f)
  PROVE  RisingOn(v, FALSE, m, n)
<1>1. /\ Len(w) \in Nat /\ DOMAIN w = 1..Len(w) /\ DOMAIN v = 1..Len(w) + 1
      /\ v[Len(w) + 1] = f /\ \A i \in 1..Len(w) : v[i] = w[i]
  BY WireAppend
<1> DEFINE l == Len(w) + 1
<1>2. l \in DOMAIN v /\ v[l] = f /\ \A i \in DOMAIN v : i \in Nat /\ i <= l /\ (i # l => i \in DOMAIN w /\ v[i] = w[i])
  BY <1>1
<1>3. l \in Nat
  BY <1>1
<1>. HIDE DEF l
<1>4. \A i \in DOMAIN v : v[i].seq <= n
  BY <1>2 DEF RisingOn
<1>5. \A i \in DOMAIN v : ~IsChat(v[i]) => i = l
  BY <1>2 DEF NoAnswer
<1>6. \A i \in DOMAIN v : ~(l < i)
  BY <1>2, <1>3
<1>7. ASSUME NEW i \in DOMAIN v, ~IsChat(v[i])
      PROVE  /\ \A j \in DOMAIN v : j < i => v[j].seq <= v[i].seq
             /\ \A j \in DOMAIN v : i < j => v[i].seq < v[j].seq
             /\ \A j, p \in DOMAIN v : i < j /\ j < p => v[j].seq < v[p].seq
  BY <1>2, <1>4, <1>5, <1>6, <1>7
<1>. QED BY <1>4, <1>7 DEF RisingOn

LEMMA RisingHeard ==
  ASSUME NEW w \in Seq(Frame), w # <<>>, NEW a, NEW s \in Cursor, NEW n \in Int, RisingOn(w, a, s.seq, n), OneAnswer(w),
         NEW v, v = Tail(w), NEW b, NEW z \in Cursor,
         \/ IsChat(Head(w)) /\ z = CursorAfter(s, Head(w).seq) /\ b = a
         \/ ~IsChat(Head(w)) /\ z.seq = Head(w).seq /\ b = TRUE
  PROVE  RisingOn(v, b, z.seq, n)
<1>1. /\ Len(w) \in Nat \ {0} /\ DOMAIN w = 1..Len(w) /\ DOMAIN v = 1..Len(w) - 1
      /\ w[1] = Head(w) /\ \A i \in 1..Len(w) - 1 : v[i] = w[i + 1]
  BY WireTail
<1>2. 1 \in DOMAIN w /\ \A i \in DOMAIN v : i \in Nat /\ i + 1 \in DOMAIN w /\ v[i] = w[i + 1] /\ 1 < i + 1
  BY <1>1
<1>3. s.seq \in Nat /\ z.seq \in Nat /\ \A i \in DOMAIN w : w[i].seq \in Nat
  BY WireNumbers DEF Cursor
<1> DEFINE f == Head(w)
<1>4. w[1] = f /\ f.seq \in Nat
  BY <1>1, <1>2, <1>3
<1>. HIDE DEF f
<1>5. \A i, j \in DOMAIN v : i < j => i + 1 < j + 1
  BY <1>2
<1>6. \A i \in DOMAIN v : v[i].seq <= n
  BY <1>2 DEF RisingOn
<1>7. f.seq <= n
  BY <1>2, <1>4 DEF RisingOn
<1>8. CASE IsChat(f) /\ z = CursorAfter(s, f.seq) /\ b = a
  <2>1. z.seq = IF s # NoCursor /\ f.seq > s.seq THEN f.seq ELSE s.seq
    BY <1>4, <1>8, CursorMoves
  <2>2. ASSUME b
        PROVE  z.seq <= n /\ (\A i \in DOMAIN v : z.seq < v[i].seq) /\ \A i, j \in DOMAIN v : i < j => v[i].seq < v[j].seq
    <3>1. s.seq <= n /\ (\A i \in DOMAIN w : s.seq < w[i].seq) /\ \A i, j \in DOMAIN w : i < j => w[i].seq < w[j].seq
      BY <1>8, <2>2 DEF RisingOn
    <3>2. \A i \in DOMAIN v : f.seq < v[i].seq /\ s.seq < v[i].seq
      BY <1>2, <1>4, <3>1
    <3>3. \A i, j \in DOMAIN v : i < j => v[i].seq < v[j].seq
      BY <1>2, <1>5, <3>1
    <3>. QED BY <1>7, <2>1, <3>1, <3>2, <3>3
  <2>3. ASSUME NEW i \in DOMAIN v, ~IsChat(v[i])
        PROVE  /\ \A j \in DOMAIN v : j < i => v[j].seq <= v[i].seq
               /\ \A j \in DOMAIN v : i < j => v[i].seq < v[j].seq
               /\ \A j, p \in DOMAIN v : i < j /\ j < p => v[j].seq < v[p].seq
    <3>1. /\ \A j \in DOMAIN w : j < i + 1 => w[j].seq <= w[i + 1].seq
          /\ \A j \in DOMAIN w : i + 1 < j => w[i + 1].seq < w[j].seq
          /\ \A j, p \in DOMAIN w : i + 1 < j /\ j < p => w[j].seq < w[p].seq
      BY <1>2, <2>3 DEF RisingOn
    <3>2. \A j \in DOMAIN v : j < i => v[j].seq <= v[i].seq
      BY <1>2, <1>5, <3>1
    <3>3. \A j \in DOMAIN v : i < j => v[i].seq < v[j].seq
      BY <1>2, <1>5, <3>1
    <3>4. \A j, p \in DOMAIN v : i < j /\ j < p => v[j].seq < v[p].seq
      BY <1>2, <1>5, <3>1
    <3>. QED BY <3>2, <3>3, <3>4
  <2>. QED BY <1>6, <2>2, <2>3 DEF RisingOn
<1>9. CASE ~IsChat(f) /\ z.seq = f.seq /\ b = TRUE
  <2>1. \A i \in DOMAIN v : IsChat(v[i])
    <3>1. SUFFICES ASSUME NEW i \in DOMAIN v, ~IsChat(v[i]) PROVE FALSE
      OBVIOUS
    <3>2. i + 1 = 1
      BY <1>2, <1>4, <1>9, <3>1 DEF OneAnswer
    <3>. QED BY <1>2, <3>2
  <2>2. (\A j \in DOMAIN w : 1 < j => f.seq < w[j].seq) /\ \A j, p \in DOMAIN w : 1 < j /\ j < p => w[j].seq < w[p].seq
    BY <1>2, <1>4, <1>9 DEF RisingOn
  <2>3. \A i \in DOMAIN v : z.seq < v[i].seq
    BY <1>2, <1>9, <2>2
  <2>4. \A i, j \in DOMAIN v : i < j => v[i].seq < v[j].seq
    BY <1>2, <1>5, <2>2
  <2>. QED BY <1>6, <1>7, <1>9, <2>1, <2>3, <2>4 DEF RisingOn
<1>. QED BY <1>8, <1>9 DEF f

LEMMA RisingStep ==
  ASSUME Types, Stages, Queue, Bound, Links, Alone, ~shared => Numbers, Rising, AnyStep
  PROVE  Rising'
<1>1. SUFFICES ASSUME ~shared'
               PROVE  /\ \A j \in Conn : Numbered(j)' => task'[j].seq = stream'.seq
                      /\ \A c \in Client, k \in Conn : client'[c].conn = k =>
                           RisingOn(wire'[k], client'[c].answered, client'[c].cursor.seq, Top')
  BY DEF Rising
<1>2. ~shared
  <2>1. ASSUME NEW k \in Conn, AnyAnswer(k) PROVE shared' = shared
    BY <2>1, AnswerTurns DEF Turn
  <2>. QED BY <1>1, <2>1 DEF AnyStep, Receiving, Admitting, Asking, Connecting, Saying, Hearing, Dropping, Aging,
         Restarting, Flushing, Standing
<1>3. Numbers /\ \A j \in Conn : Numbered(j) => task[j].seq = stream.seq
  BY <1>2 DEF Rising
<1>4. Types' /\ Stages'
  BY TypesStep, StagesStep
<1>5. stream.seq \in Nat /\ Top \in Int /\ Top' \in Int
  <2>1. stream.seq \in Nat /\ stream'.seq \in Nat
    BY <1>4 DEF Types, Stream
  <2>. QED BY <2>1 DEF Top
<1>6. ASSUME NEW j \in Conn, Numbered(j)'
      PROVE  task'[j].seq = stream'.seq
  <2>1. CASE Numbered(j) /\ task'[j].seq = task[j].seq
    <3>1. task[j].next # 0
      <4>1. task[j].next \in 0..8
        BY TaskFields DEF Types
      <4>. QED BY <2>1, <4>1 DEF Numbered
    <3>2. CASE Standing
      BY <1>3, <2>1, <3>2 DEF Standing, SameStreamAs
    <3>3. CASE AnyAnswer(j)
      <4>1. Pushing(j) \/ Trimming(j) \/ Renewing(j) \/ Telling(j)
        <5>1. task[j].next \in 4..8 /\ task[j].op = "chat"
          <6>1. task[j].next \in 0..8
            BY TaskFields DEF Types
          <6>. QED BY <2>1, <6>1 DEF Numbered
        <5>. QED BY <3>3, <5>1 DEF AnyAnswer, Touching, Reading, Failing, TurningBack, Numbering, Listing, Showing,
                Resuming, Replaying, AtTouch, AtEpoch, AtList
      <4>2. stream'.seq = stream.seq
        BY <4>1 DEF Pushing, Trimming, Renewing, Telling, SameStreamAs
      <4>. QED BY <1>3, <2>1, <4>2
    <3>. QED BY <1>2, <3>1, <3>2, <3>3, MemoryTurn
  <2>2. CASE Numbering(j) /\ task'[j].seq = stream.seq + 1
    BY <2>2 DEF Numbering
  <2>. QED BY <1>6, <2>1, <2>2, NumberedFrom
<1>7. ASSUME NEW c \in Client, NEW k \in Conn, client'[c].conn = k
      PROVE  RisingOn(wire'[k], client'[c].answered, client'[c].cursor.seq, Top')
  <2>1. CASE Connecting(c, k)
    <3>1. wire'[k] = <<>> /\ ~client'[c].answered
      BY <2>1 DEF Connecting, Links
    <3>. QED BY <3>1 DEF RisingOn
  <2>2. CASE Linked(c, k) /\ View(c, k)
    <3> DEFINE w == wire[k]
               s == client[c]
               z == client'[c]
    <3>1. /\ w \in Seq(Frame) /\ RisingOn(w, s.answered, s.cursor.seq, Top) /\ OneAnswer(w)
          /\ LinkFor(w, task[k].op, conn[k].subscribed, s.answered)
      BY <1>2, <2>2 DEF Rising, Linked, Types, Links, LinkFor
    <3>2. s.cursor \in Cursor /\ s.cursor.seq \in Nat /\ z.cursor \in Cursor /\ z.cursor.seq \in Nat /\ s.answered \in BOOLEAN
      <4>1. s.cursor \in Cursor /\ z.cursor \in Cursor /\ s.answered \in BOOLEAN
        BY <1>4, SessionFields DEF Types
      <4>. QED BY <4>1 DEF Cursor
    <3>3. ~Restarting
      BY <2>2 DEF Restarting, Linked
    <3>4. Top' >= Top
      BY <1>2, <3>3, TopGrows
    <3>5. CASE Stays(c, k)
      <4>1. wire'[k] = w /\ z = s
        BY <3>5 DEF Stays
      <4>. QED BY <1>5, <3>1, <3>2, <3>4, <4>1, RisingMore
    <3>6. ASSUME NEW j \in Conn, Tells(c, k, j)
          PROVE  RisingOn(wire'[k], z.answered, z.cursor.seq, Top')
      <4> DEFINE f == ChatFrame([msg |-> task[j].msg, seq |-> task[j].seq])
      <4>1. f \in Frame /\ IsChat(f) /\ f.seq = task[j].seq /\ wire'[k] = Append(w, f) /\ z = s /\ stream' = stream
        BY <3>6, Told DEF Tells, Telling, SameStreamAs
      <4>2. Numbered(j) /\ task'[j] = Idle /\ j = Head(calls) /\ task[j].next # 0 /\ Telling(j)
        BY <3>6 DEF Tells, Telling, Turn, Numbered
      <4>3. f.seq = stream.seq
        BY <1>3, <4>1, <4>2
      <4>4. HalfSaid
        BY <4>2, HalfSaidIs
      <4>5. ~HalfSaid'
        <5>1. ~Standing
          BY <4>2, IdleTasks DEF Standing
        <5>2. \A i \in Conn : i # j => task[i].next = 0 /\ task'[i] = task[i]
          BY <1>2, <4>2, <5>1, MemoryTurn DEF Telling, Turn
        <5>3. ASSUME NEW i \in Conn, task'[i].op = "chat", task'[i].seq # 0
              PROVE  FALSE
          <6>1. i # j
            BY <4>2, <5>3, IdleTasks
          <6>2. task[i].next = 0 /\ task[i].op = "chat" /\ task[i].seq # 0
            BY <5>2, <5>3, <6>1
          <6>. QED BY <6>2 DEF Stages, InStage
        <5>. QED BY <5>3 DEF HalfSaid
      <4>6. Top < f.seq /\ Top' = f.seq
        BY <1>5, <4>1, <4>3, <4>4, <4>5 DEF Top
      <4>. HIDE DEF f, w, s, z
      <4>7. RisingOn(wire'[k], s.answered, s.cursor.seq, f.seq)
        BY <1>5, <3>1, <3>2, <4>1, <4>6, RisingTold
      <4>. QED BY <4>1, <4>6, <4>7
    <3>7. ASSUME Showing(k) \/ Resuming(k) \/ Replaying(k)
          PROVE  /\ Top = stream.seq /\ Top' = stream.seq /\ stream' = stream /\ NoAnswer(w) /\ s.answered = FALSE
      <4>1. task[k].op \in {"snapshot", "report", "replay"} /\ task[k].next # 0 /\ AnyAnswer(k) /\ stream' = stream
        BY <3>7 DEF Showing, Resuming, Replaying, SameStreamAs, AnyAnswer
      <4>2. \A i \in Conn : i # k => task[i].next = 0 /\ task'[i] = task[i]
        <5>1. k = Head(calls) /\ \A i \in Conn : i # k => task'[i] = task[i]
          BY <4>1, AnswerTurns DEF Turn
        <5>2. ~Standing
          <6>1. task'[k].op # task[k].op
            <7>1. "report" \in Op /\ 1 \in {0, 1}
              BY DEF Op
            <7>. QED BY <3>7, <7>1, NewTask, IdleTasks DEF Showing, Resuming, Replaying
          <6>. QED BY <6>1 DEF Standing
        <5>. QED BY <1>2, <4>1, <5>1, <5>2, MemoryTurn
      <4>3. task'[k].op # "chat"
        <5>1. "report" \in Op /\ 1 \in {0, 1}
          BY DEF Op
        <5>. QED BY <3>7, <5>1, NewTask, IdleTasks DEF Showing, Resuming, Replaying
      <4>4. ASSUME NEW i \in Conn PROVE task[i].op = "chat" => task[i].seq = 0
        BY <4>1, <4>2, <4>4 DEF Stages, InStage
      <4>5. ASSUME NEW i \in Conn PROVE task'[i].op = "chat" => task'[i].seq = 0
        BY <4>2, <4>3, <4>4
      <4>6. ~HalfSaid /\ ~HalfSaid'
        BY <4>4, <4>5 DEF HalfSaid
      <4>. QED BY <3>1, <3>2, <4>1, <4>6 DEF Top, LinkFor
    <3>8. ASSUME NEW f, Answers(c, k, f)
          PROVE  RisingOn(wire'[k], z.answered, z.cursor.seq, Top')
      <4>1. f \in Frame /\ f.seq = stream.seq /\ wire'[k] = Append(w, f) /\ z = s /\ (Showing(k) \/ Resuming(k))
        BY <3>8 DEF Answers
      <4>2. Top = stream.seq /\ Top' = stream.seq /\ NoAnswer(w) /\ s.answered = FALSE
        BY <3>7, <4>1
      <4>. HIDE DEF w, s, z
      <4>3. RisingOn(wire'[k], FALSE, s.cursor.seq, Top)
        BY <1>5, <3>1, <3>2, <4>1, <4>2, RisingAnswer
      <4>. QED BY <4>1, <4>2, <4>3
    <3>9. ASSUME NEW gap, Fills(c, k, gap)
          PROVE  RisingOn(wire'[k], z.answered, z.cursor.seq, Top')
      <4> DEFINE g == GapFrames(gap)
                 v == wire'[k]
      <4>1. /\ g \in Seq(Frame) /\ NoAnswer(g) /\ v = w \o g /\ z = s /\ Replaying(k)
            /\ \A i \in DOMAIN g : g[i].seq <= stream.seq
        <5>1. g \in Seq(Frame) /\ NoAnswer(g)
          BY <3>9, GapFramesChat
        <5>2. \A i \in DOMAIN g : g[i].seq <= stream.seq
          BY <1>3, <3>9, GapCounted
        <5>. QED BY <3>9, <5>1, <5>2 DEF Fills
      <4>2. Top = stream.seq /\ Top' = stream.seq /\ NoAnswer(w) /\ s.answered = FALSE
        BY <3>7, <4>1
      <4>. HIDE DEF w, s, z, g, v
      <4>3. NoAnswer(v)
        BY <3>1, <4>1, <4>2, AnswersConcat
      <4>4. \A i \in DOMAIN v : v[i].seq <= stream.seq
        <5>1. /\ Len(w) \in Nat /\ DOMAIN w = 1..Len(w) /\ Len(g) \in Nat /\ DOMAIN g = 1..Len(g)
              /\ DOMAIN v = 1..Len(w) + Len(g)
              /\ (\A i \in 1..Len(w) : v[i] = w[i]) /\ \A i \in 1..Len(g) : v[Len(w) + i] = g[i]
          BY <3>1, <4>1, WireConcat
        <5>2. \A i \in DOMAIN v : i \in DOMAIN w \/ (i - Len(w) \in DOMAIN g /\ Len(w) + (i - Len(w)) = i)
          BY <5>1
        <5>. QED BY <3>1, <4>1, <4>2, <5>1, <5>2 DEF RisingOn
      <4>5. RisingOn(v, FALSE, s.cursor.seq, Top')
        BY <4>2, <4>3, <4>4 DEF RisingOn, NoAnswer
      <4>. QED BY <4>1, <4>2, <4>5 DEF v
    <3>10. CASE Hearing(c)
      <4>0. w # <<>> /\ wire'[k] = Tail(w)
        BY <2>2, <3>10, HeardIs
      <4>1. \/ IsChat(Head(w)) /\ z.cursor = CursorAfter(s.cursor, Head(w).seq) /\ z.answered = s.answered
            \/ ~IsChat(Head(w)) /\ z.cursor.seq = Head(w).seq /\ z.answered = TRUE
        <5>1. z.answered \in BOOLEAN
          BY <1>4, SessionFields DEF Types
        <5>. QED BY <2>2, <3>10, <5>1, HeardIs DEF IsChat
      <4>. HIDE DEF w, s, z
      <4>2. RisingOn(wire'[k], z.answered, z.cursor.seq, Top)
        BY <1>5, <3>1, <3>2, <4>0, <4>1, RisingHeard
      <4>3. wire'[k] \in Seq(Frame)
        BY <1>4 DEF Types
      <4>4. RisingOn(wire'[k], z.answered, z.cursor.seq, Top')
        BY <1>5, <3>2, <3>4, <4>2, <4>3, RisingMore
      <4>. QED BY <4>4 DEF z
    <3>. QED BY <2>2, <3>5, <3>6, <3>8, <3>9, <3>10 DEF View
  <2>. QED BY <1>7, <2>1, <2>2, LinkedOrNew
<1>. QED BY <1>6, <1>7

-----------------------------------------------------------------------------
(* What the clients have not missed.                                       *)

\* What was seen up to a number stays so: what comes is numbered beyond it.
LEMMA UpToStep ==
  ASSUME Types, Stages, Queue, Numbers, AnyStep, Whole', NEW s, NEW z, NEW n \in Nat, NEW ep \in Nat,
         ep <= epochs, ep = stream'.epoch, ep = stream.epoch => UpToSeen(s, n) /\ n <= stream.seq,
         \A e : Has(s, e) => Has(z, e)
  PROVE  /\ \A e \in Held' : e.seq <= n => Has(z, e)
         /\ \A j \in Conn : Numbered(j)' => task'[j].seq > n
<1>1. CASE Lost
  <2>1. Held' = {}
    BY <1>1, NoStreamIs DEF Lost, Held, ToSet
  <2>. QED BY <1>1, <2>1, LostQuiet
<1>2. CASE Grows
  <2>1. stream.seq \in Nat /\ epochs \in Nat
    BY <1>2 DEF Grows, Types
  <2>2. stream'.epoch = stream.epoch
    BY <1>2, <2>1 DEF Grows, Renewed
  <2>3. UpToSeen(s, n) /\ n <= stream.seq
    BY <2>2
  <2>4. ASSUME NEW e \in Held', e.seq <= n
        PROVE  Has(z, e)
    <3>1. CASE e \in Held
      BY <2>3, <2>4, <3>1 DEF UpToSeen
    <3>2. ASSUME NEW j \in Conn, Pushing(j), e = EventOf(j)
          PROVE  FALSE
      <4>1. Numbered(j) /\ e.seq = task[j].seq /\ task[j].seq \in Nat
        BY <3>2, TaskFields DEF Pushing, Numbered, EventOf, Types
      <4>2. task[j].seq > n
        BY <2>3, <4>1 DEF UpToSeen
      <4>. QED BY <2>4, <4>1, <4>2
    <3>. QED BY <1>2, <2>4, <3>1, <3>2 DEF Grows
  <2>5. ASSUME NEW j \in Conn, Numbered(j)'
        PROVE  task'[j].seq > n
    <3>1. Numbered(j) => task[j].seq > n
      BY <2>3 DEF UpToSeen
    <3>2. stream.seq + 1 > n
      BY <2>1, <2>3
    <3>. QED BY <2>5, <3>1, <3>2, NumberedFrom
  <2>. QED BY <2>4, <2>5
<1>. QED BY <1>1, <1>2, StreamMoves

LEMMA CutOff ==
  ASSUME AnyStep, NEW c \in Client, Apart(c), client[c].conn # NoConn
  PROVE  Dropping(c) \/ Restarting
<1>1. client'[c] # client[c] /\ client'[c].conn = NoConn
  BY DEF Apart
<1>2. ASSUME NEW k \in Conn, AnyAnswer(k) PROVE FALSE
  BY <1>1, <1>2, AnswerTurns DEF Turn
<1>3. ASSUME NEW d \in Client, NEW k \in Conn, Connecting(d, k) PROVE FALSE
  BY <1>1, <1>3 DEF Connecting, Meant, Conn, NoConn
<1>4. ASSUME NEW d \in Client, Saying(d) \/ Hearing(d) PROVE FALSE
  <2>1. ~Saying(d)
    BY <1>1 DEF Saying
  <2>2. CASE Hearing(d)
    BY <1>1, <2>2 DEF Hearing, Meant
  <2>. QED BY <1>4, <2>1, <2>2
<1>5. ASSUME NEW d \in Client, Dropping(d) PROVE d = c
  BY <1>1, <1>5 DEF Dropping, Meant
<1>6. ASSUME NEW k \in Conn, Receiving(k) \/ Admitting(k) \/ Asking(k) PROVE FALSE
  BY <1>1, <1>6 DEF Receiving, Admitting, Asking
<1>. QED BY <1>1, <1>2, <1>3, <1>4, <1>5, <1>6 DEF AnyStep, Aging, Flushing, Standing

\* What is not torn stays whole.
LEMMA UntornStays ==
  ASSUME AnyStep, ~torn'
  PROVE  ~torn /\ Whole'
<1>1. ASSUME NEW k \in Conn, AnyAnswer(k) PROVE torn' = torn
  BY <1>1, AnswerTurns DEF Turn
<1>2. ASSUME NEW c \in Client, (\E k \in Conn : Connecting(c, k)) \/ Saying(c) \/ Hearing(c) \/ Dropping(c)
      PROVE  ~torn
  <2>1. CASE Dropping(c)
    BY <2>1 DEF Dropping
  <2>2. CASE (\E k \in Conn : Connecting(c, k)) \/ Saying(c) \/ Hearing(c)
    BY <2>2 DEF Connecting, Saying, Hearing
  <2>. QED BY <1>2, <2>1, <2>2
<1>3. ASSUME NEW k \in Conn, Receiving(k) \/ Admitting(k) \/ Asking(k) PROVE torn' = torn
  BY <1>3 DEF Receiving, Admitting, Asking
<1>4. ASSUME Aging \/ Restarting \/ Flushing \/ Standing PROVE ~torn
  BY <1>4 DEF Aging, Restarting, Flushing, Standing
<1>5. ~torn
  BY <1>1, <1>2, <1>3, <1>4 DEF AnyStep
<1>. QED BY <1>5 DEF Whole

\* A client that is cut off, and that had its answer, has what was sent to it.
LEMMA CutOffSeen ==
  ASSUME Types, Stages, Queue, Bound, Promised, Rising, AnyStep, ~torn', NEW c \in Client, Apart(c),
         client[c].conn # NoConn, client[c].answered
  PROVE  /\ \A e \in Held' : e.seq <= client[c].cursor.seq => Has(client[c], e)
         /\ \A j \in Conn : ~Numbered(j)'
<1> DEFINE k == client[c].conn
           s == client[c]
<1>1. k \in Conn /\ s \in Session /\ s.cursor.seq \in Nat
  <2>1. s \in Session
    BY DEF Types
  <2>2. s.conn \in Conn \cup {NoConn} /\ s.cursor \in Cursor
    BY <2>1, SessionFields
  <2>. QED BY <2>1, <2>2 DEF Cursor
<1>2. (Dropping(c) \/ Restarting) /\ ~Unlucky(c)
  <2>1. Dropping(c) \/ Restarting
    BY CutOff
  <2>. QED BY <2>1 DEF Dropping, Restarting
<1>3. ~HalfSaid /\ (shared => \A i \in DOMAIN wire[k] : wire[k][i].t # "chat.message")
  BY <1>2 DEF Unlucky
<1>4. \A j \in Conn : ~Numbered(j)
  BY <1>3, HalfSaidIs
<1>5. Held' \subseteq Held /\ \A j \in Conn : ~Numbered(j)'
  <2>1. CASE Dropping(c)
    BY <1>4, <2>1 DEF Dropping, SameStreamAs, Held, Numbered
  <2>2. CASE Restarting
    <3>1. \A j \in Conn : ~Numbered(j)'
      BY <2>2, IdleTasks DEF Restarting, Numbered
    <3>2. Held' \subseteq Held
      <4>1. stream' = stream \/ stream' = NoStream
        BY <2>2 DEF Restarting
      <4>. QED BY <4>1, NoStreamIs DEF Held, ToSet
    <3>. QED BY <3>1, <3>2
  <2>. QED BY <1>2, <2>1, <2>2
<1>6. ASSUME NEW e \in Held, e.seq <= s.cursor.seq
      PROVE  Has(s, e)
  <2>1. Coming(c, k, e)
    BY <1>1, <1>6 DEF Promised
  <2>2. ~Underway(e)
    <3>1. ASSUME NEW j \in Conn, Carries(j, e) PROVE FALSE
      <4>1. task[j].next \in Nat
        <5>1. task[j].next \in 0..8
          BY TaskFields DEF Types
        <5>. QED BY <5>1
      <4>. QED BY <1>4, <3>1, <4>1 DEF Carries, Pushed, Numbered
    <3>. QED BY <3>1 DEF Underway
  <2>3. ~Sent(wire[k], e)
    <3>1. ASSUME NEW i \in DOMAIN wire[k], wire[k][i] = ChatFrame(e)
          PROVE  FALSE
      <4>1. wire[k][i].t = "chat.message" /\ wire[k][i].seq = e.seq
        BY <3>1 DEF ChatFrame
      <4>2. ~shared
        BY <1>3, <4>1
      <4>3. RisingOn(wire[k], client[c].answered, client[c].cursor.seq, Top)
        BY <1>1, <4>2 DEF Rising
      <4>4. s.cursor.seq < wire[k][i].seq /\ wire[k][i].seq \in Nat
        BY <1>1, <4>3, FramesOn DEF RisingOn
      <4>. QED BY <1>1, <1>6, <4>1, <4>4
    <3>. QED BY <3>1 DEF Sent
  <2>. QED BY <2>1, <2>2, <2>3 DEF Coming
<1>. QED BY <1>5, <1>6

LEMMA BaseStep ==
  ASSUME Types, Stages, Queue, Bound, Links, Known, Numbers, Counted, Promised, Rising, Base, AnyStep, ~torn'
  PROVE  Base'
<1>1. SUFFICES ASSUME NEW c \in Client, Steady(client'[c]), client'[c].cursor.epoch = stream'.epoch
               PROVE  UpToSeen(client[c], client[c].cursor.seq)'
  BY DEF Base
<1> DEFINE s == client[c]
           z == client'[c]
<1>2. Whole' /\ ~torn
  BY UntornStays
<1>3. s.cursor.epoch \in Nat /\ s.cursor.seq \in Nat /\ s.cursor.epoch <= epochs
  <2>1. s.cursor \in Cursor
    BY SessionFields DEF Types
  <2>. QED BY <2>1 DEF Cursor, Known
<1>4. ASSUME Steady(s), z.cursor = s.cursor, \A e : Has(s, e) => Has(z, e)
      PROVE  UpToSeen(client[c], client[c].cursor.seq)'
  <2>1. s.cursor.epoch = stream.epoch => UpToSeen(s, s.cursor.seq) /\ s.cursor.seq <= stream.seq
    BY <1>4 DEF Base, Counted
  <2>2. /\ \A e \in Held' : e.seq <= s.cursor.seq => Has(z, e)
        /\ \A j \in Conn : Numbered(j)' => task'[j].seq > s.cursor.seq
    <3>1. s.cursor.epoch = stream'.epoch
      BY <1>1, <1>4
    <3>. HIDE DEF s, z
    <3>. QED BY <1>2, <1>3, <1>4, <2>1, <3>1, UpToStep
  <2>. QED BY <1>4, <2>2 DEF UpToSeen, Has
<1>5. CASE Apart(c)
  <2>1. z.cursor = s.cursor /\ (\A e : Has(s, e) <=> Has(z, e)) /\ z.answered = s.answered /\ z.moved = s.moved
    BY <1>5 DEF Apart, Has
  <2>2. CASE s.conn = NoConn \/ (~s.answered /\ ~s.moved)
    BY <1>4, <2>1, <2>2 DEF Steady
  <2>3. CASE s.conn # NoConn /\ s.moved /\ ~s.answered
    <3>1. ~Unlucky(c)
      <4>1. Dropping(c) \/ Restarting
        BY <1>5, <2>3, CutOff
      <4>. QED BY <4>1 DEF Dropping, Restarting
    <3>. QED BY <2>3, <3>1 DEF Unlucky
  <2>4. CASE s.conn # NoConn /\ s.answered
    <3>1. /\ \A e \in Held' : e.seq <= s.cursor.seq => Has(s, e)
          /\ \A j \in Conn : ~Numbered(j)'
      BY <1>5, <2>4, CutOffSeen
    <3>. QED BY <2>1, <3>1 DEF UpToSeen, Has
  <2>. QED BY <2>2, <2>3, <2>4
<1>6. ASSUME NEW k \in Conn, Connecting(c, k)
      PROVE  UpToSeen(client[c], client[c].cursor.seq)'
  <2>1. s.conn = NoConn /\ z.cursor = s.cursor /\ (\A e : Has(s, e) => Has(z, e))
    BY <1>6 DEF Connecting, Has
  <2>. QED BY <1>4, <2>1 DEF Steady
<1>7. ASSUME NEW k \in Conn, Linked(c, k), View(c, k)
      PROVE  UpToSeen(client[c], client[c].cursor.seq)'
  <2>1. ~z.answered /\ ~z.moved
    BY <1>1, <1>7 DEF Steady, Linked, Conn, NoConn
  <2>2. CASE ~Hearing(c)
    <3>1. z = s
      BY <1>7, <2>2, WireGrows
    <3>. QED BY <1>4, <2>1, <3>1 DEF Steady
  <2>3. CASE Hearing(c)
    <3>1. s.answered \in BOOLEAN /\ s.moved \in BOOLEAN /\ z.answered \in BOOLEAN /\ z.moved \in BOOLEAN
      <4>1. Types'
        BY TypesStep
      <4>. QED BY <4>1, SessionFields DEF Types
    <3>2. /\ ~s.answered /\ ~s.moved /\ z.cursor = s.cursor
          /\ z.older = s.older /\ s.seen \subseteq z.seen
      BY <1>7, <2>1, <2>3, <3>1, HeardIs
    <3>3. \A e : Has(s, e) => Has(z, e)
      BY <3>2 DEF Has
    <3>. QED BY <1>4, <3>2, <3>3 DEF Steady
  <2>. QED BY <2>2, <2>3
<1>. QED BY <1>5, <1>6, <1>7, Viewed

LEMMA AskerMoves ==
  ASSUME Types, Stages, AnyStep, NEW k \in Conn, conn[k].open, task'[k].op \in {"resume", "replay"}
  PROVE  task[k].op \in {"resume", "replay"} /\ task'[k].cursor = task[k].cursor
<1>1. CASE AnyAnswer(k)
  <2>1. task'[k] # Idle
    BY IdleTasks
  <2>2. ~TurningBack(k)
    BY SnapshotTask DEF TurningBack
  <2>3. ~Replaying(k)
    <3>1. "report" \in Op /\ 1 \in {0, 1}
      BY DEF Op
    <3>. QED BY <3>1, NewTask DEF Replaying
  <2>4. GoesOn(k) /\ KeepsRest(k)
    BY <1>1, <2>1, <2>2, <2>3 DEF AnyAnswer, Touching, Reading, Failing, Numbering, Pushing, Trimming, Renewing, Telling,
       Listing, Showing, Resuming
  <2>. QED BY <2>4 DEF GoesOn, KeepsRest
<1>2. CASE Admitting(k) \/ Asking(k)
  BY <1>2 DEF Admitting, Asking, KeepsAll, KeepsRest
<1>3. CASE Receiving(k)
  <2>1. Head(conn[k].inbox) \in Message
    BY <1>3, LinkFields, HeadAndTail DEF Receiving
  <2>. QED BY <1>3, <2>1, IdleTasks, ChatTask DEF Receiving
<1>4. ASSUME NEW c \in Client, Connecting(c, k) PROVE FALSE
  BY <1>4 DEF Connecting
<1>5. task'[k] # Idle
  BY IdleTasks
<1>. QED BY <1>1, <1>2, <1>3, <1>4, <1>5, TaskMoves

LEMMA AskedStep ==
  ASSUME Types, Stages, Queue, Bound, Links, Known, Numbers, Counted, Base, Asked, AnyStep, ~torn'
  PROVE  Asked'
<1>1. SUFFICES ASSUME NEW c \in Client, NEW k \in Conn, client'[c].conn = k, task'[k].op \in {"resume", "replay"},
                      task'[k].cursor.epoch = stream'.epoch
               PROVE  UpToSeen(client[c], task[k].cursor.seq)' /\ task'[k].cursor.seq <= stream'.seq
  BY DEF Asked
<1> DEFINE s == client[c]
           z == client'[c]
           q == task'[k].cursor
<1>2. Whole' /\ Types'
  BY UntornStays, TypesStep
<1>3. q \in Cursor /\ q.epoch \in Nat /\ q.seq \in Nat
  <2>1. q \in Cursor
    BY <1>2, TaskFields DEF Types
  <2>. QED BY <2>1 DEF Cursor
<1>4. ASSUME q.epoch <= epochs, q.epoch = stream.epoch => UpToSeen(s, q.seq) /\ q.seq <= stream.seq,
             q.epoch = 0 => q.seq = 0, \A e : Has(s, e) => Has(z, e)
      PROVE  UpToSeen(client[c], task[k].cursor.seq)' /\ task'[k].cursor.seq <= stream'.seq
  <2>1. /\ \A e \in Held' : e.seq <= q.seq => Has(z, e)
        /\ \A j \in Conn : Numbered(j)' => task'[j].seq > q.seq
    <3>1. q.epoch = stream'.epoch
      BY <1>1
    <3>. HIDE DEF s, z, q
    <3>. QED BY <1>2, <1>3, <1>4, <3>1, UpToStep
  <2>2. q.seq <= stream'.seq
    <3>1. CASE Lost
      <4>1. stream'.epoch = 0 /\ stream'.seq = 0
        BY <3>1, NoStreamIs DEF Lost
      <4>. QED BY <1>1, <1>3, <1>4, <4>1
    <3>2. CASE Grows
      <4>1. stream'.epoch = stream.epoch
        <5>1. epochs \in Nat /\ q.epoch = stream'.epoch
          BY <1>1 DEF Types
        <5>. HIDE DEF q
        <5>. QED BY <1>3, <1>4, <3>2, <5>1 DEF Grows, Renewed
      <4>2. q.seq <= stream.seq
        BY <1>1, <1>4, <4>1
      <4>. HIDE DEF q
      <4>. QED BY <1>3, <3>2, <4>2 DEF Grows
    <3>. QED BY <3>1, <3>2, StreamMoves
  <2>. QED BY <2>1, <2>2 DEF UpToSeen, Has
<1>5. CASE Connecting(c, k)
  <2>1. s.cursor \in Cursor
    BY SessionFields DEF Types
  <2>2. q = s.cursor /\ s.conn = NoConn /\ \A e : Has(s, e) => Has(z, e)
    BY <1>5, <2>1, ResumeTask DEF Connecting, Has
  <2>3. s.cursor.epoch = stream.epoch => UpToSeen(s, s.cursor.seq) /\ s.cursor.seq <= stream.seq
    BY <2>2 DEF Base, Steady, Counted
  <2>4. s.cursor.epoch <= epochs /\ (s.cursor.epoch = 0 => s.cursor.seq = 0)
    BY DEF Known
  <2>. HIDE DEF s, z, q
  <2>. QED BY <1>4, <2>2, <2>3, <2>4
<1>6. CASE Linked(c, k) /\ View(c, k)
  <2>1. task[k].op \in {"resume", "replay"} /\ q = task[k].cursor
    BY <1>1, <1>6, AskerMoves DEF Linked
  <2>2. q.epoch = stream.epoch => UpToSeen(s, q.seq) /\ q.seq <= stream.seq
    BY <1>6, <2>1 DEF Asked, Linked
  <2>3. q.epoch <= epochs /\ (q.epoch = 0 => q.seq = 0)
    BY <2>1 DEF Known
  <2>4. \A e : Has(s, e) => Has(z, e)
    <3>1. CASE ~Hearing(c)
      BY <1>6, <3>1, WireGrows
    <3>2. CASE Hearing(c)
      <4>1. wire[k] \in Seq(Frame) /\ wire[k] # <<>>
        BY <1>6, <3>2, HeardIs
      <4>2. LinkFor(wire[k], task[k].op, conn[k].subscribed, client[c].answered)
        BY <1>6 DEF Links, Linked
      <4>3. NoAnswer(wire[k])
        BY <2>1, <4>1, <4>2 DEF LinkFor
      <4>4. wire[k][1] = Head(wire[k]) /\ 1 \in DOMAIN wire[k]
        <5>1. Len(wire[k]) \in Nat \ {0} /\ DOMAIN wire[k] = 1..Len(wire[k]) /\ wire[k][1] = Head(wire[k])
          BY <4>1, WireTail
        <5>. QED BY <5>1
      <4>5. Head(wire[k]).t = "chat.message"
        BY <4>3, <4>4 DEF NoAnswer, IsChat
      <4>6. z.older = s.older /\ s.seen \subseteq z.seen
        BY <1>6, <3>2, <4>5, HeardIs
      <4>. QED BY <4>6 DEF Has
    <3>. QED BY <3>1, <3>2
  <2>. HIDE DEF s, z, q
  <2>. QED BY <1>4, <2>2, <2>3, <2>4
<1>. QED BY <1>1, <1>5, <1>6, LinkedOrNew

\* Who has been, or will be, told that it is up to date.
Owed(c, k) ==
  task[k].op = "report" \/ client[c].answered \/ \E i \in DOMAIN wire[k] : wire[k][i].t = "resumed"

LEMMA ReportFrom ==
  ASSUME Types, Stages, AnyStep, NEW k \in Conn, task'[k].op = "report"
  PROVE  task[k].op = "report" \/ Replaying(k)
<1>1. CASE AnyAnswer(k)
  <2>1. task'[k] # Idle
    BY IdleTasks
  <2>2. ~TurningBack(k)
    BY SnapshotTask DEF TurningBack
  <2>3. GoesOn(k) \/ Replaying(k)
    BY <1>1, <2>1, <2>2 DEF AnyAnswer, Touching, Reading, Failing, Numbering, Pushing, Trimming, Renewing, Telling,
       Listing, Showing, Resuming
  <2>. QED BY <2>3 DEF GoesOn
<1>2. CASE Admitting(k) \/ Asking(k)
  BY <1>2 DEF Admitting, Asking
<1>3. CASE Receiving(k)
  <2>1. Head(conn[k].inbox) \in Message
    BY <1>3, LinkFields, HeadAndTail DEF Receiving
  <2>. QED BY <1>3, <2>1, IdleTasks, ChatTask DEF Receiving
<1>4. ASSUME NEW c \in Client, Connecting(c, k) PROVE FALSE
  <2>1. client[c].cursor \in Cursor
    BY SessionFields DEF Types
  <2>. QED BY <1>4, <2>1, ResumeTask DEF Connecting
<1>5. task'[k] # Idle
  BY IdleTasks
<1>. QED BY <1>1, <1>2, <1>3, <1>4, <1>5, TaskMoves

\* A replay brings what the client lacks.
LEMMA ReplayBrings ==
  ASSUME Types, Stages, Bound, Numbers, Asked, Listed, AnyStep, NEW c \in Client, NEW k \in Conn,
         Linked(c, k), View(c, k), conn[k].subscribed, ~Hearing(c), Replaying(k), NEW e \in Held
  PROVE  Coming(c, k, e)'
<1> DEFINE gap == Gap([task[k] EXCEPT !.seq = stream.seq])
           g == [i \in DOMAIN gap |-> ChatFrame(gap[i])]
<1>1. /\ client[c].conn = k /\ conn[k].open /\ task[k].op = "replay" /\ task[k].next = 4 /\ stream.seq \in Nat
      /\ e.seq <= stream.seq /\ e.seq \in Nat
  <2>1. stream.seq \in Nat /\ e.seq \in Nat
    BY EventSeq DEF Types, Stream, Held, ToSet
  <2>. QED BY <2>1 DEF Linked, Replaying, Numbers
<1>2. CASE Coming(c, k, e)
  BY <1>2, ComingStep
<1>3. CASE e \in ToSet(task[k].list) /\ e.seq > task[k].cursor.seq
  <2>1. /\ \A x \in ToSet(task[k].list) : stream.seq # task[k].cursor.seq /\ x.seq > task[k].cursor.seq =>
             \E i \in DOMAIN gap : gap[i] = x
        /\ Replays(k, g)
    BY ReplaysThem
  <2>2. task[k].cursor.seq \in Nat
    <3>1. task[k].cursor \in Cursor
      BY TaskFields DEF Types
    <3>. QED BY <3>1 DEF Cursor
  <2>3. PICK i \in DOMAIN gap : gap[i] = e
    <3>. HIDE DEF gap, g
    <3>. QED BY <1>1, <1>3, <2>1, <2>2
  <2>4. i \in DOMAIN g /\ g[i] = ChatFrame(e)
    BY <2>3
  <2>. HIDE DEF gap, g
  <2>5. wire'[k] = wire[k] \o g /\ g \in Seq(Frame) /\ wire[k] \in Seq(Frame)
    BY <1>1, <2>1 DEF Replays, Types
  <2>6. /\ Len(wire[k]) \in Nat /\ Len(g) \in Nat /\ DOMAIN g = 1..Len(g) /\ DOMAIN wire'[k] = 1..Len(wire[k]) + Len(g)
        /\ \A n \in 1..Len(g) : wire'[k][Len(wire[k]) + n] = g[n]
    BY <2>5, WireConcat
  <2>7. Len(wire[k]) + i \in DOMAIN wire'[k] /\ wire'[k][Len(wire[k]) + i] = ChatFrame(e)
    BY <2>4, <2>6
  <2>. QED BY <2>7 DEF Coming, Sent
<1>4. CASE e.seq <= task[k].cursor.seq
  <2>1. task[k].epoch = task[k].cursor.epoch /\ task[k].epoch # 0
    BY <1>1 DEF Stages, InStage, EpochRead
  <2>2. task[k].cursor.epoch = stream.epoch
    BY <2>1 DEF Numbers
  <2>3. Has(client[c], e)
    BY <1>1, <1>4, <2>2 DEF Asked, UpToSeen
  <2>4. client'[c] = client[c]
    BY WireGrows
  <2>. QED BY <2>3, <2>4 DEF Coming, Has
<1>5. task[k].cursor.seq \in Nat
  <2>1. task[k].cursor \in Cursor
    BY TaskFields DEF Types
  <2>. QED BY <2>1 DEF Cursor
<1>6. e \in ToSet(task[k].list) \/ Coming(c, k, e)
  BY <1>1 DEF Listed
<1>7. e.seq > task[k].cursor.seq \/ e.seq <= task[k].cursor.seq
  BY <1>1, <1>5
<1>. QED BY <1>2, <1>3, <1>4, <1>6, <1>7

LEMMA PromisedStep ==
  ASSUME Types, Stages, Bound, Links, Numbers, Asked, Listed, Shown, Promised, AnyStep
  PROVE  Promised'
<1>1. SUFFICES ASSUME NEW c \in Client, NEW k \in Conn, client'[c].conn = k, Owed(c, k)', NEW e \in Held'
               PROVE  Coming(c, k, e)'
  BY DEF Promised, Owed
<1>2. ~Connecting(c, k)
  <2>1. SUFFICES ASSUME Connecting(c, k) PROVE FALSE
    OBVIOUS
  <2>2. client[c].cursor \in Cursor
    BY SessionFields DEF Types
  <2>3. task'[k].op = "resume" /\ ~client'[c].answered /\ wire'[k] = <<>>
    BY <2>1, <2>2, ResumeTask DEF Connecting, Links
  <2>. QED BY <1>1, <2>3 DEF Owed
<1>3. Linked(c, k) /\ View(c, k) /\ client[c].conn = k
  BY <1>1, <1>2, LinkedOrNew DEF Linked
<1>4. LinkFor(wire[k], task[k].op, conn[k].subscribed, client[c].answered)
  BY <1>3 DEF Links
<1>5. CASE Underway(e)'
  BY <1>5 DEF Coming
<1>6. CASE e \in Held /\ Hearing(c) /\ Head(wire[k]).t = "snapshot"
  <2> DEFINE w == wire[k]
             v == wire'[k]
  <2>1. /\ w \in Seq(Frame) /\ w # <<>> /\ v = Tail(w) /\ task' = task
        /\ client'[c].seen = Head(w).recent /\ client'[c].older = Head(w).older
    BY <1>3, <1>6, HeardIs DEF IsChat
  <2>2. /\ Len(w) \in Nat \ {0} /\ DOMAIN w = 1..Len(w) /\ DOMAIN v = 1..Len(w) - 1 /\ w[1] = Head(w)
        /\ \A m \in 1..Len(w) - 1 : v[m] = w[m + 1]
    BY <2>1, WireTail
  <2>3. 1 \in DOMAIN w /\ \A j \in DOMAIN w : 1 < j => j - 1 \in DOMAIN v /\ v[j - 1] = w[j]
    <3>1. ASSUME NEW j \in DOMAIN w, 1 < j PROVE j - 1 \in 1..Len(w) - 1 /\ j - 1 + 1 = j
      BY <2>2, <3>1
    <3>. QED BY <2>2, <3>1
  <2>4. ShownOn(w, e)
    BY <1>3, <1>6 DEF Shown
  <2>5. Underway(e) => Underway(e)'
    BY <2>1 DEF Underway, Carries, Pushed
  <2>6. \/ e.msg \in w[1].recent \cup w[1].older
        \/ \E j \in DOMAIN w : 1 < j /\ w[j] = ChatFrame(e)
        \/ Underway(e)
    BY <1>6, <2>2, <2>3, <2>4 DEF ShownOn
  <2>. QED BY <2>1, <2>2, <2>3, <2>5, <2>6 DEF Coming, Has, Sent
<1>7. CASE e \in Held /\ ~(Hearing(c) /\ Head(wire[k]).t = "snapshot")
  <2>1. ASSUME Owed(c, k) PROVE Coming(c, k, e)'
    <3>1. conn[k].subscribed
      BY <1>4, <2>1 DEF Owed, LinkFor
    <3>2. Coming(c, k, e)
      BY <1>3, <1>7, <2>1 DEF Promised, Owed
    <3>. QED BY <1>3, <1>7, <3>1, <3>2, ComingStep
  <2>2. CASE Hearing(c)
    <3> DEFINE w == wire[k]
               v == wire'[k]
    <3>1. /\ w \in Seq(Frame) /\ w # <<>> /\ v = Tail(w) /\ task' = task
          /\ client'[c].answered => client[c].answered \/ Head(w).t = "resumed"
      <4>1. client[c].answered \in BOOLEAN /\ client'[c].answered \in BOOLEAN
        <5>1. Types'
          BY TypesStep
        <5>. QED BY <5>1, SessionFields DEF Types
      <4>. QED BY <1>3, <1>7, <2>2, <4>1, HeardIs
    <3>2. /\ Len(w) \in Nat \ {0} /\ DOMAIN w = 1..Len(w) /\ DOMAIN v = 1..Len(w) - 1 /\ w[1] = Head(w)
          /\ \A m \in 1..Len(w) - 1 : v[m] = w[m + 1]
      BY <3>1, WireTail
    <3>3. 1 \in DOMAIN w /\ \A i \in DOMAIN v : i + 1 \in DOMAIN w /\ v[i] = w[i + 1]
      BY <3>2
    <3>. HIDE DEF w, v
    <3>4. Owed(c, k)
      <4>1. task'[k].op = "report" \/ client'[c].answered \/ \E i \in DOMAIN v : v[i].t = "resumed"
        BY <1>1 DEF Owed, v
      <4>2. (\E i \in DOMAIN w : w[i].t = "resumed") => Owed(c, k)
        BY DEF Owed, w
      <4>. QED BY <3>1, <3>2, <3>3, <4>1, <4>2 DEF Owed
    <3>. QED BY <2>1, <3>4
  <2>3. CASE ~Hearing(c) /\ Replaying(k)
    <3>1. conn[k].subscribed
      BY <1>4, <2>3 DEF Replaying, LinkFor
    <3>. QED BY <1>3, <1>7, <2>3, <3>1, ReplayBrings
  <2>4. CASE ~Hearing(c) /\ ~Replaying(k)
    <3>1. client'[c] = client[c]
      BY <1>3, <2>4, WireGrows
    <3>2. task'[k].op = "report" => task[k].op = "report"
      BY <2>4, ReportFrom
    <3>3. ASSUME NEW i \in DOMAIN wire'[k], wire'[k][i].t = "resumed"
          PROVE  Owed(c, k)
      <4>1. CASE i \in DOMAIN wire[k]
        <5>1. wire[k][i].t = "resumed"
          BY <1>3, <2>4, <3>3, <4>1, WireGrows
        <5>. QED BY <4>1, <5>1 DEF Owed
      <4>2. CASE i \notin DOMAIN wire[k]
        <5>1. Answers(c, k, wire'[k][i])
          BY <1>3, <2>4, <3>3, <4>2, WireGrows DEF IsChat
        <5>2. Resuming(k)
          BY <3>3, <5>1 DEF Answers
        <5>. QED BY <5>2 DEF Resuming, Owed
      <4>. QED BY <4>1, <4>2
    <3>. QED BY <1>1, <2>1, <3>1, <3>2, <3>3 DEF Owed
  <2>. QED BY <2>2, <2>3, <2>4
<1>. QED BY <1>5, <1>6, <1>7, NewlyHeld

-----------------------------------------------------------------------------
(* The invariant.                                                          *)

\* What keeps the handlers, the queue and the connections in order.
Orderly == Types /\ Stages /\ Queue /\ Bound /\ Limited /\ Alone /\ Known /\ Links

\* Numbers are right as long as no data were lost under a handler; nothing is missed unless the stream was torn.
Reliable ==
  /\ Whole => Numbers /\ Counted
  /\ Taken /\ Listed /\ Shown /\ Rising
  /\ ~torn => Base /\ Asked /\ Promised

LEMMA InitOrderly ==
  Init => Orderly
<1> SUFFICES ASSUME Init PROVE Orderly
  OBVIOUS
<1>1. stream = NoStream /\ epochs = 0 /\ calls = <<>> /\ said = 0 /\ mishaps = 0 /\ torn = FALSE /\ shared \in BOOLEAN
  BY SyncAssumption DEF Init
<1>2. \A k \in Conn : conn[k] = Closed /\ task[k] = Idle /\ wire[k] = <<>>
  BY DEF Init
<1>3. \A c \in Client : /\ client[c] \in Session /\ client[c].conn = NoConn /\ client[c].answered = FALSE /\ client[c].moved = FALSE
                        /\ client[c].cursor = NoCursor /\ client[c].seen = {} /\ client[c].older = {} /\ client[c].twice = FALSE
  BY DEF Init, Session, Cursor, NoCursor
<1>4. Closed \in Link /\ Closed.open = FALSE /\ Closed.subscribed = FALSE /\ Closed.inbox = <<>>
  BY DEF Closed, Link
<1>5. NoCursor.epoch = 0 /\ NoCursor.seq = 0 /\ Idle.cursor = NoCursor /\ Idle.epoch = 0 /\ Idle.next = 0 /\ Idle.op = "idle"
  BY DEF NoCursor, Idle
<1>6. Types
  <2>1. client \in [Client -> Session]
    <3>1. client = [c \in Client |-> client[c]]
      BY DEF Init
    <3>. QED BY <1>3, <3>1
  <2>2. conn \in [Conn -> Link] /\ task \in [Conn -> Task] /\ wire \in [Conn -> Seq(Frame)]
    BY <1>4, IdleTasks DEF Init
  <2>4. MaxMessages \in Nat
    BY SyncAssumption
  <2>5. said = 0
    BY <1>1
  <2>3. said \in 0..MaxMessages
    BY <2>4, <2>5
  <2>6. shared \in BOOLEAN /\ torn \in BOOLEAN /\ mishaps \in Nat
    BY <1>1
  <2>7. stream \in Stream /\ epochs \in Nat /\ stream.epoch <= epochs
    BY <1>1, NoStreamIs
  <2>8. calls \in Seq(Conn)
    BY <1>1
  <2>. QED BY <2>1, <2>2, <2>3, <2>6, <2>7, <2>8 DEF Types
<1>7. Stages
  BY <1>2, FreshInStage DEF Stages
<1>8. Queue
  BY <1>1, <1>2, <1>5 DEF Queue
<1>9. Bound /\ Links
  BY <1>2, <1>3, <1>4, <1>5 DEF Bound, Links, NoConn, Conn
<1>10. Limited
  BY <1>1, NoStreamIs, SyncAssumption DEF Limited
<1>11. Alone /\ Known
  BY <1>1, <1>2, <1>3, <1>5 DEF Alone, Known
<1>. QED BY <1>6, <1>7, <1>8, <1>9, <1>10, <1>11 DEF Orderly

LEMMA InitReliable ==
  Init => Reliable
<1> SUFFICES ASSUME Init PROVE Reliable
  OBVIOUS
<1>1. stream = NoStream /\ epochs = 0 /\ calls = <<>>
  BY DEF Init
<1>2. \A k \in Conn : task[k] = Idle /\ wire[k] = <<>>
  BY DEF Init
<1>3. \A c \in Client : client[c].conn = NoConn /\ client[c].answered = FALSE /\ client[c].cursor = NoCursor
  BY DEF Init
<1>4. NoCursor.epoch = 0 /\ NoCursor.seq = 0 /\ Idle.cursor = NoCursor /\ Idle.epoch = 0 /\ Idle.next = 0 /\ Idle.op = "idle"
  BY DEF NoCursor, Idle
<1>5. stream.epoch = 0 /\ stream.seq = 0 /\ stream.events = <<>> /\ Held = {}
  BY <1>1, NoStreamIs DEF Held, ToSet
<1>6. \A c \in Client : \A k \in Conn : client[c].conn # k
  BY <1>3 DEF Conn, NoConn
<1>7. \A j \in Conn : ~Numbered(j)
  BY <1>2, <1>4 DEF Numbered
<1>8. Numbers
  BY <1>2, <1>4, <1>5, <1>7 DEF Numbers, Touched
<1>9. Counted
  BY <1>3, <1>4, <1>5, <1>6 DEF Counted
<1>10. Taken /\ Listed /\ Shown /\ Promised /\ Asked
  BY <1>2, <1>4, <1>5, <1>6 DEF Taken, Listed, Shown, Promised, Asked
<1>11. Base /\ Rising
  BY <1>5, <1>6, <1>7 DEF Base, UpToSeen, Rising
<1>. QED BY <1>8, <1>9, <1>10, <1>11 DEF Reliable

LEMMA StepOrderly ==
  Orderly /\ [Next]_vars => Orderly' /\ AnyStep
<1> SUFFICES ASSUME Orderly, [Next]_vars PROVE Orderly' /\ AnyStep
  OBVIOUS
<1>1. Types /\ Stages /\ Queue /\ Bound /\ Limited /\ Alone /\ Known /\ Links
  BY DEF Orderly
<1>2. AnyStep
  BY <1>1, Steps
<1>3. Types' /\ Stages' /\ Queue'
  BY <1>1, <1>2, TypesStep, StagesStep, QueueStep
<1>4. Bound' /\ Limited' /\ Alone' /\ Known' /\ Links'
  BY <1>1, <1>2, BoundStep, LimitedStep, AloneStep, KnownStep, LinksStep
<1>. QED BY <1>2, <1>3, <1>4 DEF Orderly

LEMMA StepReliable ==
  Orderly /\ Reliable /\ [Next]_vars => Reliable'
<1> SUFFICES ASSUME Orderly, Reliable, [Next]_vars PROVE Reliable'
  OBVIOUS
<1>1. Types /\ Stages /\ Queue /\ Bound /\ Alone /\ Known /\ Links /\ AnyStep
  BY StepOrderly DEF Orderly
<1>2. Taken /\ Listed /\ Shown /\ Rising /\ (~shared => Numbers)
  BY DEF Reliable, Whole
<1>3. ASSUME Whole' PROVE Numbers' /\ Counted'
  <2>1. Numbers /\ Counted
    BY <1>1, <1>3, WholeStays DEF Reliable
  <2>2. Numbers'
    BY <1>1, <1>3, <2>1, NumbersStep
  <2>3. \A c \in Client :
          /\ client'[c].cursor.epoch = stream'.epoch => client'[c].cursor.seq <= stream'.seq
          /\ \A k \in Conn : client'[c].conn = k => CountedOn(wire'[k], client'[c].cursor, stream')
    BY <1>1, <2>1, CountedStep
  <2>4. Counted'
    BY <2>3 DEF Counted, CountedOn
  <2>. QED BY <2>2, <2>4
<1>4. Taken' /\ Listed' /\ Shown'
  BY <1>1, <1>2, TakenStep, ListedStep, ShownStep
<1>5. Rising'
  BY <1>1, <1>2, RisingStep
<1>6. ASSUME ~torn' PROVE Base' /\ Asked' /\ Promised'
  <2>1. ~torn /\ Numbers /\ Counted
    BY <1>1, <1>6, UntornStays DEF Reliable, Whole
  <2>2. Base /\ Asked /\ Promised
    BY <2>1 DEF Reliable
  <2>. QED BY <1>1, <1>2, <1>6, <2>1, <2>2, BaseStep, AskedStep, PromisedStep
<1>. QED BY <1>3, <1>4, <1>5, <1>6 DEF Reliable

LEMMA OrderlyTyped ==
  Orderly => TypeOK
<1> SUFFICES ASSUME Orderly PROVE TypeOK
  OBVIOUS
<1>1. Types /\ Queue /\ Bound /\ Limited
  BY DEF Orderly
<1>2. stream \in [epoch : 0..epochs, seq : Nat, events : Seq(Event)]
  <2>1. stream \in Stream /\ stream.epoch <= epochs /\ epochs \in Nat
    BY <1>1 DEF Types
  <2>. QED BY <2>1 DEF Stream
<1>3. ~shared /\ calls = <<>> => Len(stream.events) <= MaxEvents
  <2>1. ASSUME calls = <<>>, NEW k \in Conn PROVE task[k].next = 0
    BY <1>1, <2>1 DEF Queue
  <2>. QED BY <1>1, <2>1 DEF Limited
<1>4. conn \in [Conn -> [open : BOOLEAN, subscribed : BOOLEAN, inbox : Seq(Message)]]
  BY <1>1 DEF Types, Link
<1>5. task \in [Conn -> [op : {"idle", "chat", "resume", "replay", "report", "snapshot"}, next : 0..8,
                         msg : Message \cup {0}, cursor : Cursor, epoch : Nat, seq : Nat, list : Seq(Event)]]
  BY <1>1 DEF Types, Task, Op
<1>6. calls \in Seq(Conn) /\ IsInjective(calls)
  BY <1>1 DEF Types, Queue, IsInjective
<1>7. \A k \in Conn : task[k].next # 0 <=> k \in ToSet(calls)
  BY <1>1 DEF Queue, ToSet
<1>8. client \in [Client -> [conn : Conn \cup {NoConn}, answered : BOOLEAN, moved : BOOLEAN,
                             cursor : Cursor, seen : SUBSET Message, older : SUBSET Message, twice : BOOLEAN]]
  BY <1>1 DEF Types, Session
<1>9. /\ \A k \in Conn : conn[k].open <=> \E c \in Client : client[c].conn = k
      /\ \A c, d \in Client : client[c].conn = client[d].conn /\ client[c].conn # NoConn => c = d
  BY <1>1 DEF Bound
<1>10. {shared, torn} \subseteq BOOLEAN /\ epochs \in Nat /\ wire \in [Conn -> Seq(Frame)] /\ said \in 0..MaxMessages /\ mishaps \in Nat
  BY <1>1 DEF Types
<1>. QED BY <1>2, <1>3, <1>4, <1>5, <1>6, <1>7, <1>8, <1>9, <1>10 DEF TypeOK

LEMMA ReliableSeen ==
  Orderly /\ Reliable => NothingSkipped
<1> SUFFICES ASSUME Orderly, Reliable, ~torn, NEW c \in Client, Settled(c), client[c].cursor.epoch = stream.epoch,
                    NEW i \in DOMAIN stream.events, stream.events[i].seq <= client[c].cursor.seq
             PROVE  stream.events[i].msg \in client[c].seen \cup client[c].older
  BY DEF NothingSkipped, CursorIsSeen
<1> DEFINE e == stream.events[i]
<1>1. e \in Held
  BY DEF Held, ToSet
<1>2. Base /\ Promised
  BY DEF Reliable
<1>3. CASE client[c].conn = NoConn
  BY <1>1, <1>2, <1>3 DEF Base, Steady, UpToSeen, Has
<1>4. CASE client[c].conn # NoConn
  <2>1. client[c].conn \in Conn /\ client[c].answered /\ wire[client[c].conn] = <<>> /\ calls = <<>>
    BY <1>4, SessionFields DEF Settled, Orderly, Types
  <2>2. Coming(c, client[c].conn, e)
    BY <1>1, <1>2, <2>1 DEF Promised
  <2>3. ~Underway(e)
    <3>1. \A j \in Conn : task[j].next = 0
      BY <2>1 DEF Orderly, Queue
    <3>. QED BY <3>1 DEF Underway, Carries, Pushed
  <2>4. ~Sent(wire[client[c].conn], e)
    BY <2>1 DEF Sent
  <2>. QED BY <2>2, <2>3, <2>4 DEF Coming, Has
<1>. QED BY <1>3, <1>4

LEMMA InOrderAlways ==
  Spec => [](Orderly /\ Reliable)
<1>1. Init => Orderly /\ Reliable
  BY InitOrderly, InitReliable
<1>2. Orderly /\ Reliable /\ [Next]_vars => (Orderly /\ Reliable)'
  BY StepOrderly, StepReliable
<1>. QED BY <1>1, <1>2, PTL DEF Spec

\* The variables keep their types: handlers wait for the buffer exactly if they asked it, a connection is open
\* exactly if it is a client's, and a buffer in memory keeps to its limit (replayBuffer.ts:132-142).
THEOREM TypeCorrect == Spec => []TypeOK
<1>1. Orderly /\ Reliable => TypeOK
  BY OrderlyTyped
<1>. QED BY <1>1, InOrderAlways, PTL

\* Within a stream the cursor of a client never moves back (session.rs:170), whatever comes late or twice.
THEOREM NeverRewinds == Spec => CursorNeverRewinds
<1>1. Orderly /\ Reliable /\ [Next]_vars =>
        [~torn' => \A c \in Client :
            client'[c].cursor.epoch = client[c].cursor.epoch => client'[c].cursor.seq >= client[c].cursor.seq]_vars
  <2> SUFFICES ASSUME Orderly, Reliable, [Next]_vars, ~torn'
               PROVE  \A c \in Client : client'[c].cursor.epoch = client[c].cursor.epoch =>
                                          client'[c].cursor.seq >= client[c].cursor.seq
    OBVIOUS
  <2>1. Types /\ Stages /\ Bound /\ Known /\ Links /\ AnyStep
    BY StepOrderly DEF Orderly
  <2>2. Numbers /\ Counted
    BY <2>1, UntornStays DEF Reliable, Whole
  <2>. QED BY <2>1, <2>2, CountedStep
<1>. QED BY <1>1, InOrderAlways, PTL DEF Spec, CursorNeverRewinds

\* What the buffer holds up to the cursor of a client, the client has seen once all is quiet (session.rs:48), unless a
\* connection broke at an unlucky moment.
THEOREM SkipsNothing == Spec => []NothingSkipped
<1>. QED BY ReliableSeen, InOrderAlways, PTL

-----------------------------------------------------------------------------
(* Messages that are not heard twice.                                      *)

Chats(k, m) == task[k].op = "chat" /\ task[k].msg = m
InInbox(k, m) == \E i \in DOMAIN conn[k].inbox : conn[k].inbox[i] = m
Waits(m) == \E k \in Conn : InInbox(k, m) \/ Chats(k, m)

Once ==
  /\ \A m \in Message : Waits(m) => m <= said
  /\ \A k, j \in Conn : \A m \in Message : Chats(k, m) /\ Chats(j, m) => k = j
  /\ \A k, j \in Conn : \A m \in Message : ~(InInbox(k, m) /\ Chats(j, m))
  /\ \A k, j \in Conn : \A i \in DOMAIN conn[k].inbox, n \in DOMAIN conn[j].inbox :
       conn[k].inbox[i] = conn[j].inbox[n] => k = j /\ i = n

ToldBy(f, m) == (IsChat(f) /\ f.msg = m) \/ (f.t = "snapshot" /\ m \in f.recent)
ToldOn(w, m) == \E i \in DOMAIN w : ToldBy(w[i], m)
Distinct(list) == \A i, j \in DOMAIN list : list[i].msg = list[j].msg => i = j

Fresh ==
  /\ \A c \in Client : \A m \in client[c].seen : m <= said /\ ~Waits(m)
  /\ \A k \in Conn : \A m \in Message : ToldOn(wire[k], m) => m <= said /\ ~Waits(m)
  /\ \A e \in Held : e.msg <= said /\ (Waits(e.msg) => Underway(e))
  /\ Distinct(stream.events)

Copied ==
  \A k \in Conn : (task[k].op = "replay" /\ task[k].next = 4) \/ (task[k].op = "snapshot" /\ task[k].next > 1) =>
    ToSet(task[k].list) \subseteq Held /\ Distinct(task[k].list)

\* The frames w bring nothing that is in seen, and nothing twice; what is numbered beyond them is new.
NewOn(w, seen) ==
  /\ \A i, j \in DOMAIN w : IsChat(w[i]) /\ IsChat(w[j]) /\ w[i].msg = w[j].msg => i = j
  /\ \A i \in DOMAIN w : IsChat(w[i]) /\ (\A j \in DOMAIN w : j < i => w[j].t # "snapshot") => w[i].msg \notin seen
  /\ \A i, j \in DOMAIN w : IsChat(w[i]) /\ j < i /\ w[j].t = "snapshot" => w[i].msg \notin w[j].recent
BeyondOn(w, seen, e) ==
  \A i \in DOMAIN w :
    /\ IsChat(w[i]) /\ e.msg = w[i].msg => e.seq = w[i].seq
    /\ w[i].t = "resumed" /\ e.seq > w[i].seq => e.msg \notin seen
    /\ w[i].t = "snapshot" /\ e.seq > w[i].seq => e.msg \notin w[i].recent

NotTwice ==
  \A c \in Client :
    /\ ~client[c].twice
    /\ client[c].cursor.epoch = stream.epoch =>
         \A e \in Held : e.seq > client[c].cursor.seq => e.msg \notin client[c].seen
    /\ \A k \in Conn : client[c].conn = k =>
         /\ task[k].op \in {"resume", "replay"} => wire[k] = <<>> /\ client[c].cursor = task[k].cursor
         /\ NewOn(wire[k], client[c].seen) /\ \A e \in Held : BeyondOn(wire[k], client[c].seen, e)

Memory == ~shared => Fresh /\ Copied /\ NotTwice

-----------------------------------------------------------------------------
(* Messages that wait.                                                     *)

LEMMA InboxFrom ==
  ASSUME Types, AnyStep, \A c \in Client : ~Saying(c), NEW k \in Conn
  PROVE  \E d \in {0, 1} : /\ Receiving(k) => d = 1
                           /\ \A i \in DOMAIN conn'[k].inbox :
                                i + d \in DOMAIN conn[k].inbox /\ conn'[k].inbox[i] = conn[k].inbox[i + d]
<1> DEFINE b == conn[k].inbox
           a == conn'[k].inbox
<1>1. b \in Seq(Message) /\ Len(b) \in Nat /\ DOMAIN b = 1..Len(b)
  BY LinkFields, LenProperties
<1>2. CASE Receiving(k)
  <2>1. b # <<>> /\ a = Tail(b)
    BY <1>2 DEF Receiving
  <2>. HIDE DEF a, b
  <2>2. Len(b) \in Nat \ {0} /\ a \in Seq(Message) /\ Len(a) = Len(b) - 1 /\ \A i \in 1..Len(b) - 1 : a[i] = b[i + 1]
    BY <1>1, <2>1, HeadAndTail
  <2>3. DOMAIN a = 1..Len(b) - 1
    BY <2>2, LenProperties
  <2>4. \A i \in DOMAIN a : i + 1 \in DOMAIN b /\ a[i] = b[i + 1]
    BY <1>1, <2>2, <2>3
  <2>. QED BY <2>4 DEF a, b
<1>3. CASE ~Receiving(k) /\ (a = b \/ a = <<>>)
  <2>. HIDE DEF a, b
  <2>1. \A i \in DOMAIN b : i + 0 = i
    BY <1>1
  <2>2. \A i \in DOMAIN a : i + 0 \in DOMAIN b /\ a[i] = b[i + 0]
    BY <1>3, <2>1
  <2>. QED BY <1>3, <2>2 DEF a, b
<1>4. ~Receiving(k) => a = b \/ a = <<>>
  <2>1. ASSUME NEW j \in Conn, AnyAnswer(j) PROVE conn' = conn
    BY <2>1, AnswerTurns DEF Turn
  <2>2. ASSUME NEW j \in Conn, j # k, Receiving(j) PROVE conn'[k] = conn[k]
    BY <2>2 DEF Receiving, Joined
  <2>3. ASSUME NEW j \in Conn, Admitting(j) \/ Asking(j) PROVE a = b
    BY <2>3 DEF Admitting, Asking, Joined
  <2>4. ASSUME NEW c \in Client, NEW j \in Conn, Connecting(c, j) PROVE a = b \/ a = <<>>
    BY <2>4 DEF Connecting, Joined
  <2>5. ASSUME NEW c \in Client, Hearing(c) \/ Dropping(c) PROVE a = b
    BY <2>5 DEF Hearing, Dropping, Joined
  <2>6. CASE Aging \/ Restarting \/ Flushing \/ Standing
    BY <2>6 DEF Aging, Restarting, Flushing, Standing
  <2>. QED BY <2>1, <2>2, <2>3, <2>4, <2>5, <2>6 DEF AnyStep
<1>. QED BY <1>2, <1>3, <1>4

LEMMA InboxSaid ==
  ASSUME Types, NEW c \in Client, Saying(c), NEW k \in Conn
  PROVE  \A i \in DOMAIN conn'[k].inbox :
           \/ i \in DOMAIN conn[k].inbox /\ conn'[k].inbox[i] = conn[k].inbox[i]
           \/ k = client[c].conn /\ i = Len(conn[k].inbox) + 1 /\ conn'[k].inbox[i] = said + 1
<1>1. CASE k # client[c].conn
  BY <1>1 DEF Saying, Joined
<1>2. CASE k = client[c].conn
  <2> DEFINE b == conn[k].inbox
             a == conn'[k].inbox
  <2>1. b \in Seq(Message) /\ said + 1 \in Message /\ a = Append(b, said + 1)
    BY <1>2, LinkFields DEF Saying
  <2>. HIDE DEF a, b
  <2>2. Len(b) \in Nat /\ DOMAIN b = 1..Len(b) /\ DOMAIN a = 1..Len(b) + 1 /\ a[Len(b) + 1] = said + 1
        /\ \A i \in 1..Len(b) : a[i] = b[i]
    BY <2>1, AppendProperties, LenProperties
  <2>3. \A i \in DOMAIN a : i \in DOMAIN b \/ i = Len(b) + 1
    BY <2>2
  <2>. QED BY <1>2, <2>2, <2>3 DEF a, b
<1>. QED BY <1>1, <1>2

\* Where a message that a handler says comes from.
LEMMA ChatsFrom ==
  ASSUME Types, Stages, AnyStep, NEW k \in Conn, NEW m \in Message, Chats(k, m)'
  PROVE  Chats(k, m) \/ (Receiving(k) /\ 1 \in DOMAIN conn[k].inbox /\ conn[k].inbox[1] = m)
<1>1. task'[k].op = "chat" /\ task'[k].msg = m
  BY DEF Chats
<1>2. CASE task'[k] = task[k]
  BY <1>1, <1>2 DEF Chats
<1>3. CASE AnyAnswer(k)
  <2>1. task'[k] # Idle
    BY <1>1, IdleTasks
  <2>2. ~TurningBack(k)
    BY <1>1, SnapshotTask DEF TurningBack
  <2>3. ~Replaying(k)
    <3>1. "report" \in Op /\ 1 \in {0, 1}
      BY DEF Op
    <3>. QED BY <1>1, <3>1, NewTask DEF Replaying
  <2>4. GoesOn(k) /\ KeepsRest(k)
    BY <1>3, <2>1, <2>2, <2>3 DEF AnyAnswer, Touching, Reading, Failing, Numbering, Pushing, Trimming, Renewing, Telling,
       Listing, Showing, Resuming
  <2>. QED BY <1>1, <2>4 DEF GoesOn, KeepsRest, Chats
<1>4. CASE Admitting(k) \/ Asking(k)
  BY <1>1, <1>4 DEF Admitting, Asking, KeepsAll, KeepsRest, Chats
<1>5. CASE Receiving(k)
  <2>1. conn[k].inbox \in Seq(Message) /\ conn[k].inbox # <<>>
    BY <1>5, LinkFields DEF Receiving
  <2>2. /\ Head(conn[k].inbox) \in Message /\ Head(conn[k].inbox) = conn[k].inbox[1] /\ 1 \in DOMAIN conn[k].inbox
    BY <2>1, HeadAndTail, LenProperties
  <2>. QED BY <1>1, <1>5, <2>2, IdleTasks, ChatTask DEF Receiving
<1>6. ASSUME NEW c \in Client, Connecting(c, k) PROVE FALSE
  <2>1. client[c].cursor \in Cursor
    BY SessionFields DEF Types
  <2>. QED BY <1>1, <1>6, <2>1, ResumeTask DEF Connecting
<1>7. task'[k] # Idle
  BY <1>1, IdleTasks
<1>. QED BY <1>2, <1>3, <1>4, <1>5, <1>6, <1>7, TaskMoves

\* A message that waits has waited, unless it is said just now.
LEMMA WaitsFrom ==
  ASSUME Types, Stages, AnyStep, NEW m \in Message, Waits(m)'
  PROVE  Waits(m) \/ (said' = said + 1 /\ m = said')
<1>1. CASE \A c \in Client : ~Saying(c)
  <2>1. ASSUME NEW k \in Conn, InInbox(k, m)' PROVE InInbox(k, m)
    <3>1. PICK i \in DOMAIN conn'[k].inbox : conn'[k].inbox[i] = m
      BY <2>1 DEF InInbox
    <3>. QED BY <1>1, <3>1, InboxFrom DEF InInbox
  <2>2. ASSUME NEW k \in Conn, Chats(k, m)' PROVE Chats(k, m) \/ InInbox(k, m)
    BY <2>2, ChatsFrom DEF InInbox
  <2>. QED BY <2>1, <2>2 DEF Waits
<1>2. ASSUME NEW c \in Client, Saying(c)
      PROVE  Waits(m) \/ (said' = said + 1 /\ m = said')
  <2>1. ASSUME NEW k \in Conn, InInbox(k, m)' PROVE InInbox(k, m) \/ m = said + 1
    <3>1. PICK i \in DOMAIN conn'[k].inbox : conn'[k].inbox[i] = m
      BY <2>1 DEF InInbox
    <3>. QED BY <1>2, <3>1, InboxSaid DEF InInbox
  <2>2. task' = task /\ said' = said + 1
    BY <1>2 DEF Saying
  <2>. QED BY <2>1, <2>2 DEF Waits, Chats
<1>. QED BY <1>1, <1>2

LEMMA SaidGrows ==
  ASSUME Types, AnyStep
  PROVE  said \in Nat /\ said' \in Nat /\ said' >= said
<1>1. said \in Nat
  BY SyncAssumption DEF Types
<1>2. said' = said \/ said' = said + 1
  <2>1. ASSUME NEW j \in Conn, AnyAnswer(j) PROVE said' = said
    BY <2>1, AnswerTurns DEF Turn
  <2>. QED BY <2>1 DEF AnyStep, Receiving, Admitting, Asking, Connecting, Saying, Hearing, Dropping, Aging,
         Restarting, Flushing, Standing
<1>. QED BY <1>1, <1>2

\* A message that was said and does not wait never waits again.
LEMMA StaysSaid ==
  ASSUME Types, Stages, AnyStep, NEW m \in Message, m <= said, ~Waits(m)
  PROVE  m <= said' /\ ~Waits(m)'
<1>1. said \in Nat /\ said' \in Nat /\ said' >= said /\ m \in Nat
  BY SaidGrows DEF Message
<1>. QED BY <1>1, WaitsFrom

LEMMA OnceStep ==
  ASSUME Types, Stages, Once, AnyStep
  PROVE  Once'
<1>1. said \in Nat /\ said' \in Nat /\ said' >= said
  BY SaidGrows
<1>2. ASSUME NEW m \in Message, Waits(m)' PROVE m <= said'
  <2>1. m \in Nat
    BY DEF Message
  <2>. QED BY <1>1, <1>2, <2>1, WaitsFrom DEF Once
<1>3. ASSUME NEW c \in Client, Saying(c)
      PROVE  Once'
  <2>1. task' = task
    BY <1>3 DEF Saying
  <2>2. \A k, j \in Conn : \A m \in Message : Chats(k, m)' /\ Chats(j, m)' => k = j
    BY <2>1 DEF Once, Chats
  <2>3. ASSUME NEW k \in Conn, NEW i \in DOMAIN conn[k].inbox PROVE conn[k].inbox[i] \in Message /\ conn[k].inbox[i] <= said
    <3>1. conn[k].inbox[i] \in Message
      BY LinkFields
    <3>2. Waits(conn[k].inbox[i])
      BY DEF Waits, InInbox
    <3>. QED BY <3>1, <3>2 DEF Once
  <2>4. ASSUME NEW k \in Conn, NEW j \in Conn, NEW m \in Message, InInbox(k, m)', Chats(j, m)' PROVE FALSE
    <3>1. PICK i \in DOMAIN conn'[k].inbox : conn'[k].inbox[i] = m
      BY <2>4 DEF InInbox
    <3>2. Chats(j, m) /\ m <= said /\ m \in Nat
      BY <2>1, <2>4 DEF Once, Chats, Waits, Message
    <3>3. m # said + 1
      BY <1>1, <3>2
    <3>4. InInbox(k, m)
      BY <1>3, <3>1, <3>3, InboxSaid DEF InInbox
    <3>. QED BY <3>2, <3>4 DEF Once
  <2>5. ASSUME NEW k \in Conn, NEW j \in Conn, NEW i \in DOMAIN conn'[k].inbox, NEW n \in DOMAIN conn'[j].inbox,
               conn'[k].inbox[i] = conn'[j].inbox[n]
        PROVE  k = j /\ i = n
    <3>1. CASE /\ i \in DOMAIN conn[k].inbox /\ conn'[k].inbox[i] = conn[k].inbox[i]
               /\ n \in DOMAIN conn[j].inbox /\ conn'[j].inbox[n] = conn[j].inbox[n]
      <4>1. conn[k].inbox[i] = conn[j].inbox[n]
        BY <2>5, <3>1
      <4>. QED BY <3>1, <4>1 DEF Once
    <3>2. CASE /\ k = client[c].conn /\ i = Len(conn[k].inbox) + 1
               /\ j = client[c].conn /\ n = Len(conn[j].inbox) + 1
      BY <3>2
    <3>3. CASE /\ i \in DOMAIN conn[k].inbox /\ conn'[k].inbox[i] = conn[k].inbox[i] /\ conn'[j].inbox[n] = said + 1
      <4>1. conn[k].inbox[i] \in Nat /\ conn[k].inbox[i] <= said
        BY <2>3, <3>3 DEF Message
      <4>2. conn[k].inbox[i] = said + 1
        BY <2>5, <3>3
      <4>. QED BY <1>1, <4>1, <4>2
    <3>4. CASE /\ n \in DOMAIN conn[j].inbox /\ conn'[j].inbox[n] = conn[j].inbox[n] /\ conn'[k].inbox[i] = said + 1
      <4>1. conn[j].inbox[n] \in Nat /\ conn[j].inbox[n] <= said
        BY <2>3, <3>4 DEF Message
      <4>2. conn[j].inbox[n] = said + 1
        BY <2>5, <3>4
      <4>. QED BY <1>1, <4>1, <4>2
    <3>. QED BY <1>3, <3>1, <3>2, <3>3, <3>4, InboxSaid
  <2>. QED BY <1>2, <2>2, <2>4, <2>5 DEF Once
<1>4. CASE \A c \in Client : ~Saying(c)
  <2>1. ASSUME NEW k \in Conn, NEW j \in Conn, NEW m \in Message, Chats(k, m)', Chats(j, m)' PROVE k = j
    <3>1. CASE Chats(k, m) /\ Chats(j, m)
      BY <3>1 DEF Once
    <3>2. CASE Chats(k, m) /\ 1 \in DOMAIN conn[j].inbox /\ conn[j].inbox[1] = m
      BY <3>2 DEF Once, InInbox
    <3>3. CASE Chats(j, m) /\ 1 \in DOMAIN conn[k].inbox /\ conn[k].inbox[1] = m
      BY <3>3 DEF Once, InInbox
    <3>4. CASE 1 \in DOMAIN conn[k].inbox /\ conn[k].inbox[1] = m /\ 1 \in DOMAIN conn[j].inbox /\ conn[j].inbox[1] = m
      BY <3>4 DEF Once
    <3>. QED BY <2>1, <3>1, <3>2, <3>3, <3>4, ChatsFrom
  <2>2. ASSUME NEW k \in Conn, NEW j \in Conn, NEW m \in Message, InInbox(k, m)', Chats(j, m)' PROVE FALSE
    <3>1. PICK i \in DOMAIN conn'[k].inbox : conn'[k].inbox[i] = m
      BY <2>2 DEF InInbox
    <3>2. PICK d \in {0, 1} : (Receiving(k) => d = 1) /\ i + d \in DOMAIN conn[k].inbox /\ conn[k].inbox[i + d] = m
      BY <1>4, <3>1, InboxFrom
    <3>3. CASE Chats(j, m)
      BY <3>2, <3>3 DEF Once, InInbox
    <3>4. CASE Receiving(j) /\ 1 \in DOMAIN conn[j].inbox /\ conn[j].inbox[1] = m
      <4>1. k = j /\ i + d = 1
        BY <3>2, <3>4 DEF Once
      <4>2. i \in Nat \ {0}
        <5>1. conn'[k] \in Link
          BY TypesStep DEF Types
        <5>2. conn'[k].inbox \in Seq(Message)
          BY <5>1 DEF Link
        <5>. QED BY <5>2, LenProperties
      <4>. QED BY <3>2, <3>4, <4>1, <4>2
    <3>. QED BY <2>2, <3>3, <3>4, ChatsFrom
  <2>3. ASSUME NEW k \in Conn, NEW j \in Conn, NEW i \in DOMAIN conn'[k].inbox, NEW n \in DOMAIN conn'[j].inbox,
               conn'[k].inbox[i] = conn'[j].inbox[n]
        PROVE  k = j /\ i = n
    <3>0. conn'[k].inbox \in Seq(Message) /\ conn'[j].inbox \in Seq(Message)
      <4>1. conn'[k] \in Link /\ conn'[j] \in Link
        BY TypesStep DEF Types
      <4>. QED BY <4>1 DEF Link
    <3>1. i \in Nat /\ n \in Nat
      BY <3>0, LenProperties
    <3>2. PICK d \in {0, 1} : \A x \in DOMAIN conn'[k].inbox :
                                x + d \in DOMAIN conn[k].inbox /\ conn'[k].inbox[x] = conn[k].inbox[x + d]
      BY <1>4, InboxFrom
    <3>3. PICK h \in {0, 1} : \A x \in DOMAIN conn'[j].inbox :
                                x + h \in DOMAIN conn[j].inbox /\ conn'[j].inbox[x] = conn[j].inbox[x + h]
      BY <1>4, InboxFrom
    <3>4. k = j
      BY <2>3, <3>2, <3>3 DEF Once
    <3>5. i + d = n + d
      BY <2>3, <3>2, <3>4 DEF Once
    <3>. QED BY <3>1, <3>4, <3>5
  <2>. QED BY <1>2, <2>1, <2>2, <2>3 DEF Once
<1>. QED BY <1>3, <1>4

\* Who tells a message is the last to wait with it.
LEMMA TellsLast ==
  ASSUME Types, Stages, Once, NEW j \in Conn, Telling(j), NEW m, m = task[j].msg
  PROVE  m \in Message /\ Waits(m) /\ m <= said /\ said' = said /\ ~Waits(m)'
<1>1. conn' = conn /\ said' = said /\ task'[j] = Idle /\ (\A k \in Conn : k # j => task'[k] = task[k]) /\ task[j].op = "chat"
  BY DEF Telling, Turn
<1>2. m \in Message
  BY <1>1 DEF Stages, InStage
<1>3. Chats(j, m)
  BY <1>1 DEF Chats
<1>4. Waits(m) /\ m <= said
  BY <1>2, <1>3 DEF Waits, Once
<1>5. ASSUME NEW k \in Conn PROVE ~InInbox(k, m)'
  <2>1. ~InInbox(k, m)
    BY <1>2, <1>3 DEF Once
  <2>. QED BY <1>1, <2>1 DEF InInbox
<1>6. ASSUME NEW k \in Conn PROVE ~Chats(k, m)'
  <2>1. CASE k = j
    BY <1>1, <2>1, IdleTasks DEF Chats
  <2>2. CASE k # j
    <3>1. ~Chats(k, m)
      BY <1>2, <1>3, <2>2 DEF Once
    <3>. QED BY <1>1, <2>2, <3>1 DEF Chats
  <2>. QED BY <2>1, <2>2
<1>7. ~Waits(m)'
  BY <1>5, <1>6 DEF Waits
<1>. QED BY <1>1, <1>2, <1>4, <1>7

-----------------------------------------------------------------------------
(* Lists in which no message is twice.                                     *)

LEMMA DistinctPart ==
  ASSUME NEW s, Distinct(s), NEW r \in Seq(Event), NEW n \in Nat, \A i \in DOMAIN r : i + n \in DOMAIN s /\ r[i] = s[i + n]
  PROVE  Distinct(r)
<1>1. \A i \in DOMAIN r : i \in Nat
  BY EventSeq
<1>2. ASSUME NEW i \in DOMAIN r, NEW j \in DOMAIN r, r[i].msg = r[j].msg
      PROVE  i = j
  <2>1. i + n = j + n
    BY <1>2 DEF Distinct
  <2>. QED BY <1>1, <2>1
<1>. QED BY <1>2 DEF Distinct

LEMMA DistinctAppend ==
  ASSUME NEW s \in Seq(Event), NEW e \in Event, Distinct(s), \A d \in ToSet(s) : d.msg # e.msg,
         NEW a, a = Append(s, e)
  PROVE  Distinct(a)
<1>1. Len(s) \in Nat /\ DOMAIN s = 1..Len(s)
  BY EventSeq
<1>2. DOMAIN a = 1..Len(s) + 1 /\ a[Len(s) + 1] = e /\ \A i \in 1..Len(s) : a[i] = s[i]
  BY <1>1, ToSetAppend, AppendProperties
<1>3. \A i \in DOMAIN a : (i \in DOMAIN s /\ a[i] = s[i] /\ a[i].msg # e.msg) \/ (i = Len(s) + 1 /\ a[i] = e)
  <2>1. \A i \in DOMAIN a : i \in DOMAIN s \/ i = Len(s) + 1
    BY <1>1, <1>2
  <2>. QED BY <1>1, <1>2, <2>1 DEF ToSet
<1>. QED BY <1>3 DEF Distinct

\* Putting a list in order does not repeat a message.
LEMMA DistinctSorted ==
  ASSUME NEW s \in Seq(Event), Distinct(s)
  PROVE  Distinct(InOrder(s))
<1> DEFINE r == InOrder(s)
           S == 1..Len(s)
           T == ToSet(s)
<1>1. r \in Seq(Event) /\ Len(r) = Len(s) /\ ToSet(r) = T
  BY Sorts
<1>2. Len(s) \in Nat /\ DOMAIN s = S
  BY EventSeq
<1>. HIDE DEF r
<1>3. DOMAIN r = S
  BY <1>1, <1>2, EventSeq
<1>4. IsFiniteSet(S)
  BY <1>2, FS_Interval, Z3
<1>5. s \in Surjection(S, T) /\ s \in Injection(S, T)
  <2>1. s = [i \in DOMAIN s |-> s[i]] /\ \A i \in DOMAIN s : s[i] \in T
    BY EventSeq DEF ToSet
  <2>2. \A x \in T : \E i \in S : s[i] = x
    BY <1>2 DEF ToSet
  <2>3. \A i, j \in S : s[i] = s[j] => i = j
    BY <1>2 DEF Distinct
  <2>. HIDE DEF S, T
  <2>4. s \in [S -> T]
    BY <1>2, <2>1
  <2>. QED BY <2>2, <2>3, <2>4 DEF Surjection, Injection, IsInjective
<1>6. r \in Surjection(S, T)
  <2>1. r = [i \in DOMAIN r |-> r[i]] /\ \A i \in DOMAIN r : r[i] \in T
    <3>1. r = [i \in DOMAIN r |-> r[i]]
      BY <1>1, EventSeq
    <3>. QED BY <1>1, <3>1 DEF ToSet
  <2>2. \A x \in T : \E i \in S : r[i] = x
    BY <1>1, <1>3 DEF ToSet
  <2>. QED BY <1>3, <2>1, <2>2 DEF Surjection
<1>7. Cardinality(T) = Cardinality(S)
  <2>. HIDE DEF S, T
  <2>. QED BY <1>4, <1>5, FS_Surjection, Zenon
<1>8. r \in Injection(S, T)
  <2>. HIDE DEF S, T
  <2>. QED BY <1>4, <1>6, <1>7, FS_Surjection, Zenon
<1>9. ASSUME NEW i \in DOMAIN r, NEW j \in DOMAIN r, r[i].msg = r[j].msg
      PROVE  i = j
  <2>1. r[i] \in T /\ r[j] \in T
    BY <1>1 DEF ToSet
  <2>2. r[i] = r[j]
    BY <1>9, <2>1 DEF ToSet, Distinct
  <2>. HIDE DEF S, T
  <2>. QED BY <1>3, <1>8, <1>9, <2>2 DEF Injection, IsInjective
<1>. QED BY <1>9 DEF Distinct, r

-----------------------------------------------------------------------------
(* What handlers have read from a buffer in memory.                        *)

\* While a handler waits for it nothing else happens.
LEMMA MemoryMine ==
  ASSUME Types, Queue, Alone, ~shared, AnyStep, NEW k \in Conn, task[k].next # 0
  PROVE  (\A j \in Conn : j # k => task[j].next = 0) /\ (AnyAnswer(k) \/ Standing)
<1>1. PICK p \in DOMAIN calls : calls[p] = k
  BY DEF Queue
<1>2. calls \in Seq(Conn) /\ DOMAIN calls = 1..Len(calls) /\ Len(calls) \in Nat
  BY LenProperties DEF Types
<1>3. \A q \in DOMAIN calls : q = p
  BY <1>2 DEF Alone
<1>4. ASSUME NEW j \in Conn, j # k PROVE task[j].next = 0
  BY <1>1, <1>3, <1>4 DEF Queue
<1>5. AnyAnswer(k) \/ Standing
  BY <1>4, MemoryTurn
<1>. QED BY <1>4, <1>5

HasList(t) == (t.op = "replay" /\ t.next = 4) \/ (t.op = "snapshot" /\ t.next > 1)

LEMMA CopiedStep ==
  ASSUME Types, Stages, Queue, Alone, ~shared, Fresh, Copied, AnyStep
  PROVE  Copied'
<1>1. SUFFICES ASSUME NEW k \in Conn, HasList(task'[k])
               PROVE  (ToSet(task[k].list) \subseteq Held /\ Distinct(task[k].list))'
  BY DEF Copied, HasList
<1>2. HasList(task[k]) => ToSet(task[k].list) \subseteq Held /\ Distinct(task[k].list)
  BY DEF Copied, HasList
<1>3. task[k].next \in Nat /\ task'[k].next \in Nat
  <2>1. task[k] \in Task /\ task'[k] \in Task
    BY TypesStep DEF Types
  <2>2. task[k].next \in 0..8 /\ task'[k].next \in 0..8
    BY <2>1, TaskFields
  <2>. QED BY <2>2
<1>4. task[k].next # 0
  <2>1. task'[k].next \notin {0, 1}
    BY <1>1 DEF HasList
  <2>2. task'[k] # Idle
    BY <2>1, IdleTasks
  <2>3. CASE task'[k] = task[k]
    BY <2>1, <2>3
  <2>4. CASE AnyAnswer(k)
    BY <2>4 DEF AnyAnswer, Touching, Reading, Failing, TurningBack, Numbering, Pushing, Trimming, Renewing, Telling,
       Listing, Showing, Resuming, Replaying, AtTouch, AtEpoch, AtList, Stages, InStage
  <2>. QED BY <2>1, <2>2, <2>3, <2>4, TaskMoves
<1>5. CASE Standing
  BY <1>1, <1>2, <1>5 DEF Standing, SameStreamAs, Held
<1>6. CASE AnyAnswer(k)
  <2>1. CASE Listing(k)
    <3>1. stream.events \in Seq(Event) /\ Distinct(stream.events)
      BY DEF Types, Stream, Fresh
    <3>2. task'[k].list = InOrder(stream.events) /\ stream' = stream
      BY <2>1 DEF Listing, SameStreamAs
    <3>3. ToSet(InOrder(stream.events)) = Held /\ Distinct(InOrder(stream.events))
      BY <3>1, Sorts, DistinctSorted DEF Held
    <3>. QED BY <3>2, <3>3 DEF Held
  <2>2. CASE Touching(k) \/ Reading(k)
    <3>1. task'[k].next = task[k].next + 1 /\ task'[k].op = task[k].op /\ task'[k].list = task[k].list
          /\ stream'.events = stream.events /\ (AtTouch(task[k]) \/ AtEpoch(task[k]))
      BY <2>2 DEF Touching, Reading, GoesOn, KeepsList, SameStreamAs
    <3>2. HasList(task[k])
      BY <1>1, <1>3, <3>1 DEF HasList, AtTouch, AtEpoch
    <3>. QED BY <1>2, <3>1, <3>2 DEF Held
  <2>3. CASE Numbering(k) \/ Pushing(k) \/ Trimming(k) \/ Renewing(k)
    <3>1. task'[k].op = "chat"
      BY <2>3 DEF Numbering, Pushing, Trimming, Renewing, GoesOn
    <3>. QED BY <1>1, <3>1 DEF HasList
  <2>4. CASE task'[k] = Idle
    BY <1>1, <2>4, IdleTasks DEF HasList
  <2>5. CASE TurningBack(k)
    BY <1>1, <2>5, SnapshotTask DEF TurningBack, HasList
  <2>6. CASE Replaying(k)
    <3>1. "report" \in Op /\ 1 \in {0, 1}
      BY DEF Op
    <3>. QED BY <1>1, <2>6, <3>1, NewTask DEF Replaying, HasList
  <2>. QED BY <1>6, <2>1, <2>2, <2>3, <2>4, <2>5, <2>6 DEF AnyAnswer, Failing, Telling, Showing, Resuming
<1>. QED BY <1>4, <1>5, <1>6, MemoryMine

-----------------------------------------------------------------------------
(* What was told does not wait.                                            *)

LEMMA NoneUnderway ==
  ASSUME Types, Queue, Alone, ~shared, AnyStep, NEW k \in Conn, Showing(k) \/ Replaying(k)
  PROVE  \A e : ~Underway(e)
<1>1. task[k].op \in {"snapshot", "replay"} /\ task[k].next # 0
  BY DEF Showing, Replaying
<1>2. \A j \in Conn : ~Pushed(j)
  BY <1>1, MemoryMine DEF Pushed
<1>. QED BY <1>2 DEF Underway, Carries

\* Where what is on a wire comes from.
LEMMA ToldFrom ==
  ASSUME Types, Stages, Queue, Bound, Links, Alone, ~shared, Copied, AnyStep,
         NEW k \in Conn, NEW m \in Message, ToldOn(wire'[k], m)
  PROVE  \/ ToldOn(wire[k], m)
         \/ \E j \in Conn : Telling(j) /\ task[j].msg = m
         \/ \E e \in Held : e.msg = m /\ ~Underway(e)
<1> DEFINE w == wire[k]
           v == wire'[k]
<1>0. PICK i \in DOMAIN v : ToldBy(v[i], m)
  BY DEF ToldOn
<1>1. PICK c \in Client : client'[c].conn = k
  <2>1. conn'[k].open
    <3>1. v # <<>>
      BY <1>0
    <3>. QED BY <3>1, ClosedStep
  <2>. QED BY <2>1, BoundStep DEF Bound
<1>2. Linked(c, k) /\ View(c, k)
  <2>1. ASSUME Connecting(c, k) PROVE FALSE
    <3>1. v = <<>>
      BY <2>1 DEF Connecting, Links
    <3>. QED BY <1>0, <3>1
  <2>. QED BY <1>1, <2>1, LinkedOrNew
<1>3. CASE Hearing(c)
  <2>1. w \in Seq(Frame) /\ w # <<>> /\ v = Tail(w)
    BY <1>2, <1>3, HeardIs
  <2>2. i + 1 \in DOMAIN w /\ v[i] = w[i + 1]
    <3>1. DOMAIN w = 1..Len(w) /\ DOMAIN v = 1..Len(w) - 1 /\ Len(w) \in Nat /\ \A n \in 1..Len(w) - 1 : v[n] = w[n + 1]
      BY <2>1, WireTail
    <3>. HIDE DEF v, w
    <3>. QED BY <1>0, <3>1
  <2>. QED BY <1>0, <2>2 DEF ToldOn
<1>4. CASE Stays(c, k)
  BY <1>0, <1>4 DEF Stays, ToldOn
<1>5. ASSUME NEW f \in Frame, v = Append(w, f)
      PROVE  ToldOn(w, m) \/ ToldBy(f, m)
  <2>1. DOMAIN w = 1..Len(w) /\ Len(w) \in Nat /\ DOMAIN v = 1..Len(w) + 1 /\ v[Len(w) + 1] = f /\ \A n \in 1..Len(w) : v[n] = w[n]
    <3>1. w \in Seq(Frame)
      BY DEF Types
    <3>. HIDE DEF v, w
    <3>. QED BY <1>5, <3>1, WireAppend
  <2>. HIDE DEF v, w
  <2>2. i \in DOMAIN w \/ i = Len(w) + 1
    BY <1>0, <2>1
  <2>. QED BY <1>0, <2>1, <2>2 DEF ToldOn
<1>6. ASSUME NEW j \in Conn, Tells(c, k, j)
      PROVE  ToldOn(w, m) \/ (Telling(j) /\ task[j].msg = m)
  <2> DEFINE f == ChatFrame([msg |-> task[j].msg, seq |-> task[j].seq])
  <2>1. f \in Frame /\ IsChat(f) /\ f.msg = task[j].msg /\ v = Append(w, f) /\ Telling(j)
    BY <1>6, Told DEF Tells
  <2>2. ToldBy(f, m) => f.msg = m
    BY <2>1 DEF ToldBy, IsChat
  <2>. HIDE DEF f, v, w
  <2>. QED BY <1>5, <2>1, <2>2
<1>7. ASSUME NEW l, l = task[k].list, NEW e \in ToSet(l), Showing(k) \/ Replaying(k), e.msg = m
      PROVE  \E x \in Held : x.msg = m /\ ~Underway(x)
  <2>1. e \in Held
    BY <1>7 DEF Copied, Showing, Replaying
  <2>. QED BY <1>7, <2>1, NoneUnderway
<1>8. ASSUME NEW f, Answers(c, k, f)
      PROVE  ToldOn(w, m) \/ \E e \in Held : e.msg = m /\ ~Underway(e)
  <2>1. f \in Frame /\ v = Append(w, f)
    BY <1>8 DEF Answers
  <2>2. CASE ToldBy(f, m)
    <3>1. Showing(k) /\ m \in Messages(task[k].list)
      BY <1>8, <2>2 DEF Answers, ToldBy, IsChat
    <3>2. task[k].list \in Seq(Event)
      BY TaskFields DEF Types
    <3>3. PICK e \in ToSet(task[k].list) : e.msg = m
      BY <3>1, <3>2, RecentPart
    <3>. QED BY <1>7, <3>1, <3>3
  <2>. QED BY <1>5, <2>1, <2>2
<1>9. ASSUME NEW gap, Fills(c, k, gap)
      PROVE  ToldOn(w, m) \/ \E e \in Held : e.msg = m /\ ~Underway(e)
  <2> DEFINE g == GapFrames(gap)
  <2>1. /\ g \in Seq(Frame) /\ v = w \o g /\ Replaying(k) /\ DOMAIN g = DOMAIN gap
        /\ \A n \in DOMAIN g : IsChat(g[n]) /\ g[n].msg = gap[n].msg /\ gap[n] \in ToSet(task[k].list)
    <3>1. v = w \o g /\ Replaying(k) /\ \A n \in DOMAIN gap : gap[n] \in ToSet(task[k].list)
      BY <1>9 DEF Fills
    <3>2. g \in Seq(Frame) /\ NoAnswer(g) /\ DOMAIN g = DOMAIN gap /\ \A n \in DOMAIN g : g[n].msg = gap[n].msg
      BY <1>9, GapFramesChat
    <3>. QED BY <3>1, <3>2 DEF NoAnswer
  <2>2. /\ DOMAIN w = 1..Len(w) /\ Len(w) \in Nat /\ DOMAIN g = 1..Len(g) /\ Len(g) \in Nat /\ DOMAIN v = 1..Len(w) + Len(g)
        /\ (\A n \in 1..Len(w) : v[n] = w[n]) /\ \A n \in 1..Len(g) : v[Len(w) + n] = g[n]
    <3>1. w \in Seq(Frame)
      BY DEF Types
    <3>. HIDE DEF v, w, g
    <3>. QED BY <2>1, <3>1, WireConcat
  <2>3. CASE i \in DOMAIN w
    <3>. HIDE DEF g, v, w
    <3>. QED BY <1>0, <2>2, <2>3 DEF ToldOn
  <2>4. CASE i \notin DOMAIN w
    <3>1. i - Len(w) \in DOMAIN g /\ v[i] = g[i - Len(w)]
      <4>. HIDE DEF g, v, w
      <4>1. i - Len(w) \in 1..Len(g) /\ Len(w) + (i - Len(w)) = i
        BY <1>0, <2>2, <2>4
      <4>. QED BY <2>2, <4>1
    <3>2. gap[i - Len(w)] \in ToSet(task[k].list) /\ gap[i - Len(w)].msg = m
      <4>. HIDE DEF g, v, w
      <4>. QED BY <1>0, <2>1, <3>1 DEF ToldBy, IsChat
    <3>. QED BY <1>7, <2>1, <3>2
  <2>. QED BY <2>3, <2>4
<1>. QED BY <1>2, <1>3, <1>4, <1>6, <1>8, <1>9 DEF View

\* A message that is pushed waits, and no other event has it.
LEMMA PushesNew ==
  ASSUME Types, Stages, Once, Fresh, NEW j \in Conn, Pushing(j)
  PROVE  /\ EventOf(j) \in Event /\ Waits(task[j].msg) /\ task[j].msg <= said
         /\ \A e \in Held : e.msg # task[j].msg
<1>1. task[j] \in Task /\ InStage(task[j]) /\ task[j].op = "chat" /\ task[j].next = 4
  BY DEF Types, Stages, Pushing
<1>2. task[j].msg \in Message /\ task[j].seq \in Nat
  BY <1>1, TaskFields DEF InStage
<1>3. Waits(task[j].msg) /\ Chats(j, task[j].msg)
  BY <1>1 DEF Waits, Chats
<1>4. ASSUME NEW e \in Held, e.msg = task[j].msg PROVE FALSE
  <2>1. PICK i \in Conn : Carries(i, e)
    BY <1>3, <1>4 DEF Fresh, Underway
  <2>2. Chats(i, task[j].msg) /\ task[i].next > 4
    BY <1>4, <2>1 DEF Carries, Pushed, Chats
  <2>3. i = j
    BY <1>2, <1>3, <2>2 DEF Once
  <2>. QED BY <1>1, <2>2, <2>3
<1>. QED BY <1>2, <1>3, <1>4 DEF Event, EventOf, Once

LEMMA FreshStep ==
  ASSUME Types, Stages, Queue, Bound, Links, Alone, ~shared, Once, Fresh, Copied, AnyStep
  PROVE  Fresh'
<1>1. ASSUME NEW k \in Conn, NEW m \in Message, ToldOn(wire[k], m) PROVE m <= said /\ ~Waits(m)
  BY <1>1 DEF Fresh
<1>2. ASSUME NEW j \in Conn, Telling(j), NEW m, m = task[j].msg PROVE m <= said' /\ ~Waits(m)'
  BY <1>2, TellsLast
<1>3. stream \in Stream /\ stream.events \in Seq(Event) /\ stream' \in Stream /\ stream'.events \in Seq(Event)
  BY TypesStep DEF Types, Stream
<1>4. (\A e \in Held : e \in Event /\ e.msg \in Message) /\ \A e \in Held' : e \in Event /\ e.msg \in Message
  <2>1. \A i \in DOMAIN stream.events : stream.events[i] \in Event /\ stream.events[i].msg \in Message
    BY <1>3, EventSeq
  <2>2. \A i \in DOMAIN stream'.events : stream'.events[i] \in Event /\ stream'.events[i].msg \in Message
    BY <1>3, EventSeq
  <2>. QED BY <2>1, <2>2 DEF Held, ToSet
<1>5. ASSUME NEW c \in Client, NEW m \in client'[c].seen
      PROVE  m <= said' /\ ~Waits(m)'
  <2>1. client \in [Client -> Session] /\ client' \in [Client -> Session]
    BY TypesStep DEF Types
  <2>2. m \in Message
    BY <2>1, SessionFields
  <2>3. CASE m \in client[c].seen
    BY <2>2, <2>3, StaysSaid DEF Fresh
  <2>4. CASE m \notin client[c].seen
    <3>1. PICK k \in Conn : Linked(c, k) /\ View(c, k)
      <4>1. ~Apart(c) /\ \A k \in Conn : ~Connecting(c, k)
        BY <2>4 DEF Apart, Connecting
      <4>. QED BY <4>1, Viewed
    <3>2. Hearing(c)
      BY <2>4, <3>1 DEF View, Stays, Tells, Answers, Fills
    <3>3. wire[k] \in Seq(Frame) /\ wire[k] # <<>> /\ ToldBy(Head(wire[k]), m)
      BY <2>4, <3>1, <3>2, HeardIs DEF ToldBy
    <3>4. 1 \in DOMAIN wire[k] /\ wire[k][1] = Head(wire[k])
      BY <3>3, HeadAndTail, LenProperties
    <3>. QED BY <1>1, <2>2, <3>3, <3>4, StaysSaid DEF ToldOn
  <2>. QED BY <2>3, <2>4
<1>6. ASSUME NEW k \in Conn, NEW m \in Message, ToldOn(wire'[k], m)
      PROVE  m <= said' /\ ~Waits(m)'
  <2>1. CASE ToldOn(wire[k], m)
    BY <1>1, <2>1, StaysSaid
  <2>2. CASE \E j \in Conn : Telling(j) /\ task[j].msg = m
    BY <1>2, <2>2
  <2>3. CASE \E e \in Held : e.msg = m /\ ~Underway(e)
    BY <2>3, StaysSaid DEF Fresh
  <2>. QED BY <1>6, <2>1, <2>2, <2>3, ToldFrom
<1>7. ~Lost \/ Held' = {}
  <2>1. NoStream.events = <<>> /\ DOMAIN <<>> = {}
    BY DEF NoStream
  <2>. QED BY <2>1 DEF Lost, Held, ToSet
<1>8. ASSUME NEW e \in Held'
      PROVE  e.msg <= said' /\ (Waits(e.msg)' => Underway(e)')
  <2>1. CASE e \in Held
    <3>1. e.msg <= said /\ e.msg \in Message /\ (Waits(e.msg) => Underway(e))
      BY <1>4, <2>1 DEF Fresh
    <3>2. said \in Nat /\ said' \in Nat /\ said' >= said /\ e.msg \in Nat
      BY <3>1, SaidGrows DEF Message
    <3>3. ASSUME Waits(e.msg)' PROVE Underway(e)'
      <4>1. Waits(e.msg)
        BY <3>1, <3>2, <3>3, WaitsFrom
      <4>2. PICK j \in Conn : Carries(j, e)
        BY <3>1, <4>1 DEF Underway
      <4>3. ~Telling(j)
        BY <1>2, <3>3, <4>2 DEF Carries
      <4>4. ~Restarting
        BY <1>7 DEF Lost, Restarting
      <4>. QED BY <4>2, <4>3, <4>4, CarriesMoves DEF Underway
    <3>. QED BY <3>1, <3>2, <3>3
  <2>2. CASE e \notin Held
    <3>1. PICK j \in Conn : Pushing(j) /\ e = EventOf(j)
      BY <1>7, <2>2, StreamMoves DEF Grows
    <3>2. e.msg <= said /\ said' = said
      BY <3>1, PushesNew DEF EventOf, Pushing, Turn
    <3>3. Underway(e)'
      BY <2>2, NewlyHeld
    <3>. QED BY <3>2, <3>3
  <2>. QED BY <2>1, <2>2
<1>9. Distinct(stream'.events)
  <2>0. Distinct(stream.events)
    BY DEF Fresh
  <2>1. CASE Lost
    <3>1. stream'.events = <<>>
      BY <2>1 DEF Lost, NoStream
    <3>. QED BY <3>1 DEF Distinct
  <2>2. CASE stream'.events = stream.events
    BY <2>0, <2>2
  <2>3. CASE Aging
    <3>1. stream.events # <<>> /\ stream'.events = Tail(stream.events)
      BY <2>3 DEF Aging
    <3>2. 1 \in Nat /\ \A i \in DOMAIN stream'.events : i + 1 \in DOMAIN stream.events /\ stream'.events[i] = stream.events[i + 1]
      BY <1>3, <3>1, TailIs
    <3>. QED BY <1>3, <2>0, <3>2, DistinctPart
  <2>4. ASSUME NEW j \in Conn, Trimming(j) PROVE Distinct(stream'.events)
    <3>1. stream'.events = Trimmed(stream.events)
      BY <2>4 DEF Trimming
    <3>3. \E n \in Nat : \A i \in DOMAIN Trimmed(stream.events) :
                           i + n \in DOMAIN stream.events /\ Trimmed(stream.events)[i] = stream.events[i + n]
      BY <1>3, TrimmedIs
    <3>2. PICK n \in Nat : \A i \in DOMAIN stream'.events :
                             i + n \in DOMAIN stream.events /\ stream'.events[i] = stream.events[i + n]
      BY <3>1, <3>3, Zenon
    <3>. QED BY <1>3, <2>0, <3>2, DistinctPart
  <2>5. ASSUME NEW j \in Conn, Pushing(j) PROVE Distinct(stream'.events)
    <3>1. stream'.events = Append(stream.events, EventOf(j))
      BY <2>5 DEF Pushing, EventOf
    <3>2. EventOf(j) \in Event /\ \A d \in ToSet(stream.events) : d.msg # EventOf(j).msg
      BY <2>5, PushesNew DEF EventOf, Held
    <3>. QED BY <1>3, <2>0, <3>1, <3>2, DistinctAppend
  <2>6. ASSUME NEW j \in Conn, Numbering(j) PROVE Distinct(stream'.events)
    BY <2>0, <2>6 DEF Numbering
  <2>. QED BY <2>1, <2>2, <2>3, <2>4, <2>5, <2>6, StreamMoves DEF Grows
<1>. QED BY <1>5, <1>6, <1>8, <1>9 DEF Fresh

-----------------------------------------------------------------------------
(* Nothing is heard twice.                                                 *)

AnswersLast(w) == \A i \in DOMAIN w : ~IsChat(w[i]) => \A j \in DOMAIN w : j < i => w[j].seq <= w[i].seq

\* What a frame that is heard adds to what is seen.
SeenWith(seen, f) == IF IsChat(f) THEN seen \cup {f.msg} ELSE IF f.t = "snapshot" THEN f.recent ELSE seen

LEMMA NewHeard ==
  ASSUME NEW w \in Seq(Frame), w # <<>>, NEW seen, NewOn(w, seen), NEW v, v = Tail(w)
  PROVE  NewOn(v, SeenWith(seen, w[1])) /\ (IsChat(w[1]) => w[1].msg \notin seen)
<1>1. /\ Len(w) \in Nat \ {0} /\ DOMAIN w = 1..Len(w) /\ DOMAIN v = 1..Len(w) - 1
      /\ \A i \in 1..Len(w) - 1 : v[i] = w[i + 1]
  BY WireTail
<1>2. 1 \in DOMAIN w /\ ~\E j \in DOMAIN w : j < 1
  BY <1>1
<1>3. \A i \in DOMAIN v : i + 1 \in DOMAIN w /\ v[i] = w[i + 1] /\ 1 < i + 1 /\ i \in Nat
  BY <1>1
<1>4. \A i \in DOMAIN w : i = 1 \/ (i - 1 \in DOMAIN v /\ w[i] = v[i - 1] /\ i \in Nat)
  BY <1>1
<1>5. IsChat(w[1]) => w[1].msg \notin seen
  BY <1>2 DEF NewOn
<1>6. ASSUME NEW i \in DOMAIN v, NEW j \in DOMAIN v, IsChat(v[i]), IsChat(v[j]), v[i].msg = v[j].msg
      PROVE  i = j
  <2>1. i + 1 = j + 1
    BY <1>3, <1>6 DEF NewOn
  <2>. QED BY <1>3, <2>1
<1>7. ASSUME NEW i \in DOMAIN v, IsChat(v[i]), \A j \in DOMAIN v : j < i => v[j].t # "snapshot"
      PROVE  v[i].msg \notin SeenWith(seen, w[1])
  <2>1. \A j \in DOMAIN w : j < i + 1 => j = 1 \/ w[j].t # "snapshot"
    <3>1. ASSUME NEW j \in DOMAIN w, j < i + 1, j # 1 PROVE w[j].t # "snapshot"
      <4>1. j - 1 \in DOMAIN v /\ w[j] = v[j - 1] /\ j \in Nat /\ i \in Nat
        BY <1>3, <1>4, <3>1
      <4>2. j - 1 < i
        BY <3>1, <4>1
      <4>. QED BY <1>7, <4>1, <4>2
    <3>. QED BY <3>1
  <2>2. i + 1 \in DOMAIN w /\ v[i] = w[i + 1] /\ 1 < i + 1
    BY <1>3
  <2>3. CASE w[1].t = "snapshot"
    <3>1. v[i].msg \notin w[1].recent
      BY <1>2, <1>7, <2>2, <2>3 DEF NewOn
    <3>. QED BY <2>3, <3>1 DEF SeenWith, IsChat
  <2>4. CASE w[1].t # "snapshot"
    <3>1. v[i].msg \notin seen
      BY <1>7, <2>1, <2>2, <2>4 DEF NewOn
    <3>2. IsChat(w[1]) => v[i].msg # w[1].msg
      BY <1>2, <1>7, <2>2 DEF NewOn
    <3>. QED BY <2>4, <3>1, <3>2 DEF SeenWith
  <2>. QED BY <2>3, <2>4
<1>8. ASSUME NEW i \in DOMAIN v, NEW j \in DOMAIN v, IsChat(v[i]), j < i, v[j].t = "snapshot"
      PROVE  v[i].msg \notin v[j].recent
  <2>1. i + 1 \in DOMAIN w /\ v[i] = w[i + 1] /\ j + 1 \in DOMAIN w /\ v[j] = w[j + 1] /\ i \in Nat /\ j \in Nat
    BY <1>3
  <2>2. j + 1 < i + 1
    BY <1>8, <2>1
  <2>. QED BY <1>8, <2>1, <2>2 DEF NewOn
<1>. QED BY <1>5, <1>6, <1>7, <1>8 DEF NewOn

LEMMA BeyondHeard ==
  ASSUME NEW w \in Seq(Frame), w # <<>>, NEW seen, NEW e \in Event, BeyondOn(w, seen, e), OneAnswer(w), AnswersLast(w),
         NEW v, v = Tail(w)
  PROVE  BeyondOn(v, SeenWith(seen, w[1]), e)
<1>1. /\ Len(w) \in Nat \ {0} /\ DOMAIN w = 1..Len(w) /\ DOMAIN v = 1..Len(w) - 1
      /\ \A i \in 1..Len(w) - 1 : v[i] = w[i + 1]
  BY WireTail
<1>2. 1 \in DOMAIN w
  BY <1>1
<1>3. \A i \in DOMAIN v : i + 1 \in DOMAIN w /\ v[i] = w[i + 1] /\ 1 < i + 1 /\ i + 1 # 1
  BY <1>1
<1>4. e.seq \in Nat /\ \A i \in DOMAIN w : w[i].seq \in Nat
  <2>1. \A i \in DOMAIN w : w[i] \in Frame
    BY Elements
  <2>. QED BY <2>1, FrameKinds DEF Event
<1>5. ASSUME NEW i \in DOMAIN v, v[i].t = "resumed", e.seq > v[i].seq
      PROVE  e.msg \notin SeenWith(seen, w[1])
  <2>1. e.msg \notin seen /\ ~IsChat(w[i + 1])
    BY <1>3, <1>5 DEF BeyondOn, IsChat
  <2>2. IsChat(w[1])
    BY <1>2, <1>3, <2>1 DEF OneAnswer
  <2>3. w[1].seq <= v[i].seq
    BY <1>2, <1>3, <2>1 DEF AnswersLast
  <2>4. w[1].seq < e.seq
    <3>1. w[1].seq \in Nat /\ v[i].seq \in Nat
      BY <1>2, <1>3, <1>4
    <3>. QED BY <1>4, <1>5, <2>3, <3>1
  <2>5. e.msg # w[1].msg
    BY <1>2, <1>4, <2>2, <2>4 DEF BeyondOn
  <2>. QED BY <2>1, <2>2, <2>5 DEF SeenWith
<1>. QED BY <1>3, <1>5 DEF BeyondOn

LEMMA NewAppended ==
  ASSUME NEW w \in Seq(Frame), NEW f \in Frame, NEW seen, NewOn(w, seen), NEW v, v = Append(w, f),
         IsChat(f) => f.msg \notin seen /\ ~ToldOn(w, f.msg)
  PROVE  NewOn(v, seen)
<1>1. DOMAIN w = 1..Len(w) /\ Len(w) \in Nat /\ DOMAIN v = 1..Len(w) + 1 /\ v[Len(w) + 1] = f /\ \A n \in 1..Len(w) : v[n] = w[n]
  BY WireAppend
<1>2. \A i \in DOMAIN v : (i \in DOMAIN w /\ v[i] = w[i]) \/ (i = Len(w) + 1 /\ v[i] = f)
  BY <1>1
<1>3. \A i \in DOMAIN w : i \in DOMAIN v /\ v[i] = w[i] /\ ~(Len(w) + 1 < i)
  BY <1>1
<1>4. \A i \in DOMAIN w : IsChat(f) => ~ToldBy(w[i], f.msg)
  BY DEF ToldOn
<1>5. ASSUME NEW i \in DOMAIN v, NEW j \in DOMAIN v, IsChat(v[i]), IsChat(v[j]), v[i].msg = v[j].msg
      PROVE  i = j
  BY <1>2, <1>4, <1>5 DEF NewOn, ToldBy
<1>6. ASSUME NEW i \in DOMAIN v, IsChat(v[i]), \A j \in DOMAIN v : j < i => v[j].t # "snapshot"
      PROVE  v[i].msg \notin seen
  BY <1>2, <1>3, <1>6 DEF NewOn
<1>7. ASSUME NEW i \in DOMAIN v, NEW j \in DOMAIN v, IsChat(v[i]), j < i, v[j].t = "snapshot"
      PROVE  v[i].msg \notin v[j].recent
  <2>1. j \in DOMAIN w /\ v[j] = w[j]
    <3>1. ~(Len(w) + 1 < Len(w) + 1)
      BY <1>1
    <3>. QED BY <1>2, <1>3, <1>7, <3>1
  <2>2. CASE i \in DOMAIN w /\ v[i] = w[i]
    BY <1>7, <2>1, <2>2 DEF NewOn
  <2>3. CASE v[i] = f
    BY <1>4, <1>7, <2>1, <2>3 DEF ToldBy
  <2>. QED BY <1>2, <2>2, <2>3
<1>. QED BY <1>5, <1>6, <1>7 DEF NewOn

LEMMA BeyondAppended ==
  ASSUME NEW w \in Seq(Frame), NEW f \in Frame, NEW seen, NEW e, BeyondOn(w, seen, e), NEW v, v = Append(w, f),
         IsChat(f) /\ e.msg = f.msg => e.seq = f.seq, ~IsChat(f) => ~(e.seq > f.seq)
  PROVE  BeyondOn(v, seen, e)
<1>1. DOMAIN w = 1..Len(w) /\ Len(w) \in Nat /\ DOMAIN v = 1..Len(w) + 1 /\ v[Len(w) + 1] = f /\ \A n \in 1..Len(w) : v[n] = w[n]
  BY WireAppend
<1>2. \A i \in DOMAIN v : (i \in DOMAIN w /\ v[i] = w[i]) \/ v[i] = f
  BY <1>1
<1>. QED BY <1>2 DEF BeyondOn, IsChat

\* An event that is pushed is new to every client.
LEMMA PushedBeyond ==
  ASSUME Types, Stages, Once, Fresh, NEW j \in Conn, Pushing(j), NEW e, e = EventOf(j)
  PROVE  /\ \A c \in Client : e.msg \notin client[c].seen
         /\ \A c \in Client, k \in Conn : BeyondOn(wire[k], client[c].seen, e)
<1>1. Waits(e.msg) /\ e.msg \in Message
  <2>1. EventOf(j) \in Event /\ Waits(task[j].msg)
    BY PushesNew
  <2>. QED BY <2>1 DEF EventOf, Event
<1>2. \A c \in Client : e.msg \notin client[c].seen
  BY <1>1 DEF Fresh
<1>3. \A k \in Conn : ~ToldOn(wire[k], e.msg)
  BY <1>1 DEF Fresh
<1>4. ASSUME NEW c \in Client, NEW k \in Conn PROVE BeyondOn(wire[k], client[c].seen, e)
  <2>1. \A i \in DOMAIN wire[k] : ~ToldBy(wire[k][i], e.msg)
    BY <1>3 DEF ToldOn
  <2>. QED BY <1>2, <2>1 DEF BeyondOn, ToldBy
<1>. QED BY <1>2, <1>4

\* An event of the stream was there before, or is pushed now.
LEMMA HeldFrom ==
  ASSUME Types, Stages, Numbers, AnyStep, NEW e \in Held'
  PROVE  /\ e \in Event /\ stream'.epoch = stream.epoch /\ stream.epoch # 0
         /\ e \in Held \/ \E j \in Conn : Pushing(j) /\ e = EventOf(j)
<1>1. DOMAIN <<>> = {}
  OBVIOUS
<1>2. ~Lost
  BY <1>1 DEF Lost, NoStream, Held, ToSet
<1>3. Grows
  BY <1>2, StreamMoves
<1>4. e \in Event
  <2>1. stream'.events \in Seq(Event)
    BY TypesStep DEF Types, Stream
  <2>. QED BY <2>1, EventSeq DEF Held, ToSet
<1>5. ASSUME NEW k \in Conn, Renewed(k) PROVE FALSE
  <2>1. stream'.events = <<>>
    BY <1>5 DEF Renewed, Touching, Numbers
  <2>. QED BY <1>1, <2>1 DEF Held, ToSet
<1>6. stream'.epoch = stream.epoch
  BY <1>3, <1>5 DEF Grows
<1>7. e \in Held \/ \E j \in Conn : Pushing(j) /\ e = EventOf(j)
  BY <1>3 DEF Grows
<1>8. stream.epoch # 0
  <2>1. ASSUME NEW j \in Conn, Pushing(j) PROVE stream.epoch # 0
    BY <2>1 DEF Numbers, Touched, Pushing
  <2>2. ASSUME e \in Held PROVE stream.epoch # 0
    BY <1>1, <2>2 DEF Numbers, Held, ToSet
  <2>. QED BY <1>7, <2>1, <2>2
<1>. QED BY <1>4, <1>6, <1>7, <1>8

\* What is numbered beyond its cursor a client has not seen.
Ahead(s, b) == s.cursor.epoch = b.epoch => \A e \in ToSet(b.events) : e.seq > s.cursor.seq => e.msg \notin s.seen

LEMMA AheadStays ==
  ASSUME Types, Stages, Numbers, Once, Fresh, AnyStep, NEW c \in Client, Ahead(client[c], stream),
         client'[c].cursor = client[c].cursor, client'[c].seen = client[c].seen
  PROVE  Ahead(client'[c], stream')
<1>1. SUFFICES ASSUME client'[c].cursor.epoch = stream'.epoch, NEW e \in Held', e.seq > client'[c].cursor.seq
               PROVE  e.msg \notin client'[c].seen
  BY DEF Ahead, Held
<1>2. stream'.epoch = stream.epoch /\ (e \in Held \/ \E j \in Conn : Pushing(j) /\ e = EventOf(j))
  BY HeldFrom
<1>3. CASE e \in Held
  BY <1>1, <1>2, <1>3 DEF Ahead, Held
<1>4. ASSUME NEW j \in Conn, Pushing(j), e = EventOf(j) PROVE e.msg \notin client[c].seen
  BY <1>4, PushedBeyond
<1>. QED BY <1>2, <1>3, <1>4

\* What is on the wire w of a client that has seen these messages, and what the handler t will replay.
NewsFor(w, s, t, H) ==
  /\ t.op \in {"resume", "replay"} => w = <<>> /\ s.cursor = t.cursor
  /\ NewOn(w, s.seen) /\ \A e \in H : BeyondOn(w, s.seen, e)

LEMMA NewsHeard ==
  ASSUME Types, Links, Numbers, Rising, ~shared, NEW c \in Client, NEW k \in Conn, Linked(c, k), Hearing(c),
         ~client[c].twice, Ahead(client[c], stream), NewsFor(wire[k], client[c], task[k], Held)
  PROVE  ~client'[c].twice /\ Ahead(client'[c], stream) /\ NewsFor(wire'[k], client'[c], task[k], Held)
<1> DEFINE w == wire[k]
           s == client[c]
           u == client'[c]
           f == Head(w)
<1>1. /\ w \in Seq(Frame) /\ w # <<>> /\ wire'[k] = Tail(w) /\ f \in Frame /\ u \in Session /\ s \in Session
      /\ \/ /\ IsChat(f) /\ u.cursor = CursorAfter(s.cursor, f.seq)
            /\ u.seen = s.seen \cup {f.msg} /\ (u.twice <=> s.twice \/ f.msg \in s.seen)
         \/ f.t = "snapshot" /\ u.cursor.epoch = f.epoch /\ u.cursor.seq = f.seq /\ u.seen = f.recent /\ u.twice = s.twice
         \/ f.t = "resumed" /\ u.cursor.epoch = f.epoch /\ u.cursor.seq = f.seq /\ u.seen = s.seen /\ u.twice = s.twice
  BY HeardIs
<1>2. OneAnswer(w) /\ AnswersLast(w)
  BY DEF Links, LinkFor, Rising, RisingOn, AnswersLast, Linked
<1>3. f = w[1] /\ 1 \in DOMAIN w
  BY <1>1, HeadAndTail, LenProperties
<1>4. NewOn(w, s.seen) /\ (\A e \in Held : BeyondOn(w, s.seen, e)) /\ task[k].op \notin {"resume", "replay"}
  BY <1>1 DEF NewsFor
<1>5. \A e \in Held : e \in Event
  <2>1. stream.events \in Seq(Event)
    BY DEF Types, Stream
  <2>. QED BY <2>1, EventSeq DEF Held, ToSet
<1>. HIDE DEF w, s, u, f
<1>6. u.seen = SeenWith(s.seen, w[1])
  BY <1>1, <1>3 DEF SeenWith, IsChat
<1>7. NewOn(Tail(w), u.seen) /\ (IsChat(f) => f.msg \notin s.seen)
  BY <1>1, <1>3, <1>4, <1>6, NewHeard
<1>8. ASSUME NEW e \in Held PROVE BeyondOn(Tail(w), u.seen, e)
  BY <1>1, <1>2, <1>4, <1>5, <1>6, <1>8, BeyondHeard
<1>9. ~u.twice
  <2>1. ~s.twice
    BY DEF s
  <2>. QED BY <1>1, <1>7, <2>1
<1>10. ASSUME u.cursor.epoch = stream.epoch, NEW e \in Held, e.seq > u.cursor.seq
       PROVE  e.msg \notin u.seen
  <2>1. e.seq \in Nat /\ s.cursor \in Cursor /\ s.cursor.seq \in Nat /\ f.seq \in Nat
    <3>1. s.cursor \in Cursor
      BY <1>1, SessionFields
    <3>2. f.seq \in Nat
      BY <1>1, FrameKinds
    <3>. QED BY <1>5, <3>1, <3>2 DEF Event, Cursor
  <2>2. CASE IsChat(f) /\ u.cursor = CursorAfter(s.cursor, f.seq) /\ u.seen = s.seen \cup {f.msg}
    <3>1. /\ u.cursor.epoch = s.cursor.epoch
          /\ u.cursor.seq = IF s.cursor # NoCursor /\ f.seq > s.cursor.seq THEN f.seq ELSE s.cursor.seq
      BY <2>1, <2>2, CursorMoves
    <3>2. stream.epoch # 0
      <4>1. DOMAIN <<>> = {}
        OBVIOUS
      <4>. QED BY <1>10, <4>1 DEF Numbers, Held, ToSet
    <3>3. s.cursor # NoCursor
      BY <1>10, <3>1, <3>2 DEF NoCursor
    <3>4. e.seq > s.cursor.seq /\ e.seq # f.seq
      BY <1>10, <2>1, <3>1, <3>3
    <3>5. e.msg # f.msg
      BY <1>3, <1>4, <1>10, <2>2, <3>4 DEF BeyondOn
    <3>6. e.msg \notin s.seen
      BY <1>10, <3>1, <3>4 DEF Ahead, Held, s
    <3>. QED BY <2>2, <3>5, <3>6
  <2>3. CASE f.t = "snapshot" /\ u.cursor.seq = f.seq /\ u.seen = f.recent
    BY <1>3, <1>4, <1>10, <2>3 DEF BeyondOn
  <2>4. CASE f.t = "resumed" /\ u.cursor.seq = f.seq /\ u.seen = s.seen
    BY <1>3, <1>4, <1>10, <2>4 DEF BeyondOn
  <2>. QED BY <1>1, <2>2, <2>3, <2>4
<1>. QED BY <1>1, <1>4, <1>7, <1>8, <1>9, <1>10 DEF NewsFor, Ahead, Held, u

LEMMA NewsStays ==
  ASSUME Types, Stages, Links, Numbers, Once, Fresh, AnyStep, NEW c \in Client, NEW k \in Conn, Linked(c, k), Stays(c, k),
         NewsFor(wire[k], client[c], task[k], Held)
  PROVE  NewsFor(wire'[k], client'[c], task'[k], Held')
<1>1. wire'[k] = wire[k] /\ client'[c] = client[c] /\ conn[k].open
  BY DEF Stays, Linked
<1>2. ASSUME NEW e \in Held' PROVE BeyondOn(wire[k], client[c].seen, e)
  <2>1. e \in Held \/ \E j \in Conn : Pushing(j) /\ e = EventOf(j)
    BY <1>2, HeldFrom
  <2>. QED BY <2>1, PushedBeyond DEF NewsFor
<1>3. task'[k].op \in {"resume", "replay"} => wire[k] = <<>> /\ client[c].cursor = task'[k].cursor
  BY <1>1, AskerMoves DEF NewsFor
<1>. QED BY <1>1, <1>2, <1>3 DEF NewsFor

LEMMA NewsTold ==
  ASSUME Types, Stages, Queue, Alone, ~shared, Links, Numbers, Once, Fresh, AnyStep,
         NEW c \in Client, NEW k \in Conn, Linked(c, k), NEW j \in Conn, Tells(c, k, j),
         NewsFor(wire[k], client[c], task[k], Held)
  PROVE  NewsFor(wire'[k], client'[c], task'[k], Held')
<1> DEFINE f == ChatFrame([msg |-> task[j].msg, seq |-> task[j].seq])
           w == wire[k]
<1>1. f \in Frame /\ IsChat(f) /\ f.msg = task[j].msg /\ f.seq = task[j].seq /\ wire'[k] = Append(w, f)
  BY Told DEF Tells
<1>2. client'[c] = client[c] /\ stream' = stream /\ Telling(j) /\ conn[k].subscribed /\ w \in Seq(Frame)
  BY DEF Tells, Telling, SameStreamAs, Types
<1>. HIDE DEF f, w
<1>3. task[j].msg \in Message /\ Waits(task[j].msg)
  BY <1>2, TellsLast
<1>4. f.msg \notin client[c].seen /\ ~ToldOn(w, f.msg)
  BY <1>1, <1>3 DEF Fresh, w
<1>5. NewOn(w, client[c].seen) /\ \A e \in Held : BeyondOn(w, client[c].seen, e)
  BY DEF NewsFor, w
<1>6. NewOn(wire'[k], client[c].seen)
  BY <1>1, <1>2, <1>4, <1>5, NewAppended
<1>7. ASSUME NEW e \in Held PROVE BeyondOn(wire'[k], client[c].seen, e)
  <2>1. ASSUME e.msg = f.msg PROVE e.seq = f.seq
    <3>1. PICK i \in Conn : Carries(i, e)
      BY <1>1, <1>3, <2>1 DEF Fresh, Underway
    <3>2. Chats(i, task[j].msg) /\ Chats(j, task[j].msg)
      BY <1>1, <1>2, <2>1, <3>1 DEF Carries, Pushed, Chats, Telling
    <3>3. i = j
      BY <1>3, <3>2 DEF Once
    <3>. QED BY <1>1, <3>1, <3>3 DEF Carries
  <2>. QED BY <1>1, <1>2, <1>5, <2>1, BeyondAppended
<1>8. task'[k].op \notin {"resume", "replay"}
  <2>1. CASE k = j
    <3>1. task'[k] = Idle
      BY <1>2, <2>1 DEF Telling
    <3>. QED BY <3>1, IdleTasks
  <2>2. CASE k # j
    <3>1. task'[k] = task[k] /\ task[j].next # 0
      BY <1>2, <2>2 DEF Telling, Turn
    <3>2. task[k].next = 0
      BY <2>2, <3>1, MemoryMine
    <3>3. task[k].op # "resume"
      BY <1>2 DEF Links, LinkFor, Linked
    <3>4. task[k].op # "replay"
      BY <3>2 DEF Stages, InStage
    <3>. QED BY <3>1, <3>3, <3>4
  <2>. QED BY <2>1, <2>2
<1>. QED BY <1>2, <1>6, <1>7, <1>8 DEF NewsFor, Held

LEMMA NewsAnswered ==
  ASSUME Types, Stages, Links, Numbers, AnyStep, NEW c \in Client, NEW k \in Conn, Linked(c, k), NEW f, Answers(c, k, f),
         NewsFor(wire[k], client[c], task[k], Held)
  PROVE  NewsFor(wire'[k], client'[c], task'[k], Held')
<1>1. /\ f \in Frame /\ ~IsChat(f) /\ f.seq = stream.seq /\ task'[k] = Idle /\ stream' = stream
  BY AnswerKnows
<1>2. wire'[k] = Append(wire[k], f) /\ client'[c] = client[c] /\ wire[k] \in Seq(Frame)
  BY DEF Answers, Types
<1>3. NewOn(wire[k], client[c].seen) /\ \A e \in Held : BeyondOn(wire[k], client[c].seen, e)
  BY DEF NewsFor
<1>4. NewOn(wire'[k], client[c].seen)
  BY <1>1, <1>2, <1>3, NewAppended
<1>5. ASSUME NEW e \in Held PROVE BeyondOn(wire'[k], client[c].seen, e)
  <2>1. ~(e.seq > f.seq)
    <3>1. e.seq <= stream.seq /\ stream.seq \in Nat /\ e.seq \in Nat
      <4>1. stream.events \in Seq(Event) /\ stream.seq \in Nat
        BY DEF Types, Stream
      <4>2. e.seq \in Nat
        BY <4>1, EventSeq DEF Held, ToSet
      <4>. QED BY <4>1, <4>2 DEF Numbers
    <3>. QED BY <1>1, <3>1
  <2>. QED BY <1>1, <1>2, <1>3, <2>1, BeyondAppended
<1>6. task'[k].op \notin {"resume", "replay"}
  BY <1>1, IdleTasks
<1>. QED BY <1>1, <1>2, <1>4, <1>5, <1>6 DEF NewsFor, Held

LEMMA NewsReplayed ==
  ASSUME Types, Stages, Links, Numbers, Fresh, Copied, AnyStep, NEW c \in Client, NEW k \in Conn, Linked(c, k),
         NEW gap, Fills(c, k, gap), Ahead(client[c], stream), NewsFor(wire[k], client[c], task[k], Held)
  PROVE  NewsFor(wire'[k], client'[c], task'[k], Held')
<1> DEFINE g == GapFrames(gap)
           s == client[c]
           t == task[k]
<1>1. /\ client'[c] = s /\ Replaying(k) /\ gap \in Seq(Event) /\ gap = Gap([t EXCEPT !.seq = stream.seq])
      /\ (\A i \in DOMAIN gap : gap[i].seq > t.cursor.seq /\ gap[i] \in ToSet(t.list)) /\ wire'[k] = wire[k] \o g
  BY DEF Fills
<1>2. g \in Seq(Frame) /\ NoAnswer(g) /\ DOMAIN g = DOMAIN gap
      /\ \A i \in DOMAIN g : g[i].seq = gap[i].seq /\ g[i].msg = gap[i].msg
  BY GapFramesChat
<1>. HIDE DEF g
<1>3. t.op = "replay" /\ t.next = 4 /\ stream' = stream /\ t \in Task /\ InStage(t) /\ stream.seq \in Nat
  BY <1>1 DEF Replaying, SameStreamAs, Types, Stages, Stream
<1>4. wire[k] = <<>> /\ s.cursor = t.cursor
  BY <1>3 DEF NewsFor
<1>5. wire'[k] = g
  BY <1>1, <1>2, <1>4
<1>6. s.cursor.epoch = stream.epoch
  <2>1. t.epoch = t.cursor.epoch /\ t.epoch # 0
    BY <1>3 DEF InStage, EpochRead
  <2>. QED BY <1>4, <2>1 DEF Numbers
<1>7. \A i \in DOMAIN gap : gap[i] \in Held /\ gap[i].msg \notin s.seen
  <2>1. \A i \in DOMAIN gap : gap[i] \in Held
    BY <1>1, <1>3 DEF Copied
  <2>. QED BY <1>1, <1>4, <1>6, <2>1 DEF Ahead, Held
<1>8. Distinct(gap)
  <2> DEFINE u == [t EXCEPT !.seq = stream.seq]
  <2>1. u.list = t.list /\ u.cursor = t.cursor /\ t.list \in Seq(Event) /\ t.cursor.seq \in Int /\ Ordered(t.list) /\ Distinct(t.list)
    <3>1. t.list \in Seq(Event) /\ t.cursor \in Cursor
      BY <1>3, TaskFields
    <3>2. Distinct(t.list)
      BY <1>3 DEF Copied
    <3>. QED BY <1>3, <3>1, <3>2 DEF Task, InStage, Cursor
  <2>2. gap = <<>> \/ gap = Beyond(t.list, t.cursor.seq)
    <3>. HIDE DEF t
    <3>1. gap = Gap(u)
      BY <1>1
    <3>. HIDE DEF u
    <3>. QED BY <2>1, <3>1 DEF Gap
  <2>3. CASE gap = <<>>
    BY <2>3 DEF Distinct
  <2>4. CASE gap = Beyond(t.list, t.cursor.seq)
    <3> DEFINE n == Cardinality(UpTo(t.list, t.cursor.seq))
    <3>1. \A i \in DOMAIN gap : i + n \in DOMAIN t.list /\ gap[i] = t.list[i + n]
      BY <2>1, <2>4, BeyondIt
    <3>2. n \in Nat
      <4>1. n \in 0..Len(t.list)
        BY <2>1, FirstOnes
      <4>. QED BY <4>1
    <3>. HIDE DEF n, t
    <3>. QED BY <1>1, <2>1, <3>1, <3>2, DistinctPart
  <2>. QED BY <2>2, <2>3, <2>4
<1>9. NewOn(g, s.seen)
  BY <1>2, <1>7, <1>8 DEF NewOn, NoAnswer, IsChat, Distinct
<1>10. ASSUME NEW e \in Held PROVE BeyondOn(g, s.seen, e)
  <2>1. \A i \in DOMAIN g : e.msg = g[i].msg => e.seq = g[i].seq
    BY <1>2, <1>7 DEF Fresh, Distinct, Held, ToSet
  <2>. QED BY <1>2, <2>1 DEF BeyondOn, NoAnswer, IsChat
<1>11. task'[k].op \notin {"resume", "replay"}
  <2>1. "report" \in Op /\ 1 \in {0, 1}
    BY DEF Op
  <2>. QED BY <1>1, <2>1, NewTask DEF Replaying
<1>. QED BY <1>1, <1>3, <1>5, <1>9, <1>10, <1>11 DEF NewsFor, Held

LEMMA NotTwiceStep ==
  ASSUME Types, Stages, Queue, Bound, Links, Alone, ~shared, Numbers, Rising, Once, Fresh, Copied, NotTwice, AnyStep
  PROVE  NotTwice'
<1>1. ASSUME NEW c \in Client
      PROVE  ~client[c].twice /\ Ahead(client[c], stream)
  BY DEF NotTwice, Ahead, Held
<1>2. ASSUME NEW c \in Client, NEW k \in Conn, client[c].conn = k
      PROVE  NewsFor(wire[k], client[c], task[k], Held)
  BY <1>2 DEF NotTwice, NewsFor
<1>3. ASSUME NEW c \in Client, client'[c].cursor = client[c].cursor, client'[c].seen = client[c].seen,
             client'[c].twice = client[c].twice
      PROVE  ~client'[c].twice /\ Ahead(client'[c], stream')
  BY <1>1, <1>3, AheadStays
<1>4. ASSUME NEW c \in Client, Apart(c)
      PROVE  ~client'[c].twice /\ Ahead(client'[c], stream')
  BY <1>3, <1>4 DEF Apart
<1>5. ASSUME NEW c \in Client, NEW k \in Conn, Connecting(c, k)
      PROVE  ~client'[c].twice /\ Ahead(client'[c], stream') /\ NewsFor(wire'[k], client'[c], task'[k], Held')
  <2>1. ~client'[c].twice /\ Ahead(client'[c], stream')
    BY <1>3, <1>5 DEF Connecting
  <2>2. wire'[k] = <<>>
    BY <1>5 DEF Connecting, Links
  <2>3. client'[c].cursor = task'[k].cursor
    <3>1. client[c].cursor \in Cursor
      BY SessionFields DEF Types
    <3>. QED BY <1>5, <3>1, ResumeTask DEF Connecting
  <2>. QED BY <2>1, <2>2, <2>3 DEF NewsFor, NewOn, BeyondOn
<1>6. ASSUME NEW c \in Client, NEW k \in Conn, Linked(c, k), View(c, k)
      PROVE  ~client'[c].twice /\ Ahead(client'[c], stream') /\ NewsFor(wire'[k], client'[c], task'[k], Held')
  <2>1. NewsFor(wire[k], client[c], task[k], Held)
    BY <1>2, <1>6 DEF Linked
  <2>2. CASE Hearing(c)
    <3>1. stream' = stream /\ task' = task /\ Held' = Held
      BY <1>6, <2>2, HeardIs DEF Held
    <3>. QED BY <1>1, <1>6, <2>1, <2>2, <3>1, NewsHeard
  <2>3. CASE ~Hearing(c)
    <3>1. client'[c] = client[c]
      BY <1>6, <2>3 DEF View, Stays, Tells, Answers, Fills
    <3>2. ~client'[c].twice /\ Ahead(client'[c], stream')
      BY <1>3, <3>1
    <3>3. NewsFor(wire'[k], client'[c], task'[k], Held')
      BY <1>1, <1>6, <2>1, <2>3, NewsStays, NewsTold, NewsAnswered, NewsReplayed DEF View
    <3>. QED BY <3>2, <3>3
  <2>. QED BY <2>2, <2>3
<1>7. ASSUME NEW c \in Client
      PROVE  ~client'[c].twice /\ Ahead(client'[c], stream')
  BY <1>4, <1>5, <1>6, Viewed
<1>8. ASSUME NEW c \in Client, NEW k \in Conn, client'[c].conn = k
      PROVE  NewsFor(wire'[k], client'[c], task'[k], Held')
  BY <1>5, <1>6, <1>8, LinkedOrNew
<1>. QED BY <1>7, <1>8 DEF NotTwice, NewsFor, Ahead, Held

LEMMA InitOnce ==
  Init => Once /\ Memory
<1> SUFFICES ASSUME Init PROVE Once /\ Memory
  OBVIOUS
<1>1. stream = NoStream /\ stream.events = <<>> /\ DOMAIN <<>> = {}
  BY NoStreamIs DEF Init
<1>2. \A k \in Conn : conn[k] = Closed /\ conn[k].inbox = <<>> /\ task[k] = Idle /\ wire[k] = <<>>
  BY DEF Init, Closed
<1>3. \A c \in Client : client[c].conn = NoConn /\ client[c].seen = {} /\ client[c].twice = FALSE
  BY DEF Init
<1>4. Held = {} /\ \A k \in Conn : task[k].op = "idle"
  BY <1>1, <1>2, IdleTasks DEF Held, ToSet
<1>5. Once
  BY <1>1, <1>2, <1>4 DEF Once, Waits, InInbox, Chats
<1>6. Fresh
  BY <1>1, <1>2, <1>3, <1>4 DEF Fresh, ToldOn, Distinct
<1>7. Copied
  BY <1>4 DEF Copied
<1>8. NotTwice
  <2>1. \A c \in Client : \A k \in Conn : client[c].conn # k
    BY <1>3 DEF Conn, NoConn
  <2>. QED BY <1>3, <1>4, <2>1 DEF NotTwice
<1>. QED BY <1>5, <1>6, <1>7, <1>8 DEF Memory

LEMMA StepOnce ==
  Orderly /\ Reliable /\ Once /\ Memory /\ [Next]_vars => (Once /\ Memory)'
<1> SUFFICES ASSUME Orderly, Reliable, Once, Memory, [Next]_vars PROVE Once' /\ Memory'
  OBVIOUS
<1>1. Types /\ Stages /\ Queue /\ Bound /\ Links /\ Alone /\ AnyStep
  BY StepOrderly DEF Orderly
<1>2. Once'
  BY <1>1, OnceStep
<1>3. ASSUME ~shared' PROVE Fresh' /\ Copied' /\ NotTwice'
  <2>1. ~shared
    <3>1. ASSUME NEW k \in Conn, AnyAnswer(k) PROVE shared' = shared
      BY <3>1, AnswerTurns DEF Turn
    <3>. QED BY <1>1, <1>3, <3>1 DEF AnyStep, Receiving, Admitting, Asking, Connecting, Saying, Hearing, Dropping, Aging,
           Restarting, Flushing, Standing
  <2>2. Numbers /\ Rising /\ Fresh /\ Copied /\ NotTwice
    BY <2>1 DEF Reliable, Whole, Memory
  <2>. QED BY <1>1, <2>1, <2>2, FreshStep, CopiedStep, NotTwiceStep
<1>. QED BY <1>2, <1>3 DEF Memory

\* With the buffer in memory no chat.message, live or replayed, brings a client a message that it has already heard
\* or that its last snapshot lists: the buffer answers one handler before it turns to the next (memory store of
\* replayBuffer.ts), and the gap begins beyond the cursor.  Of what a snapshot repeats nothing is said.
THEOREM HearsOnce == Spec => []HeardOnce
<1>1. Init => Once /\ Memory
  BY InitOnce
<1>2. Orderly /\ Reliable /\ Once /\ Memory /\ [Next]_vars => (Once /\ Memory)'
  BY StepOnce
<1>3. Memory => HeardOnce
  BY DEF Memory, NotTwice, HeardOnce
<1>. QED BY <1>1, <1>2, <1>3, InOrderAlways, PTL DEF Spec

===============================================================================
