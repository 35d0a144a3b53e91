--------------------------- MODULE ReplaySyncSteps ---------------------------
(* The ground for the proofs about ReplaySync: lists in order, the types, how far a handler can    *)
(* be, what every step does to the variables and to the wires, the queue of the buffer, and the    *)
(* connections.                                                                                    *)
EXTENDS ReplaySync, TLAPS, FiniteSetTheorems, SequenceTheorems, WellFoundedInduction

-----------------------------------------------------------------------------
(* Lists in order.                                                         *)

Ordered(s) == \A i, j \in DOMAIN s : i < j => s[i].seq <= s[j].seq

LEMMA Elements ==
  ASSUME NEW S, NEW s \in Seq(S)
  PROVE  Len(s) \in Nat /\ DOMAIN s = 1..Len(s) /\ \A i \in DOMAIN s : s[i] \in S
  BY LenProperties, ElementOfSeq

LEMMA EventSeq ==
  ASSUME NEW s \in Seq(Event)
  PROVE  /\ Len(s) \in Nat /\ DOMAIN s = 1..Len(s)
         /\ \A i \in DOMAIN s : s[i] \in Event /\ s[i].seq \in Nat /\ s[i].msg \in Message
<1>1. \A e \in Event : e.seq \in Nat /\ e.msg \in Message
  BY DEF Event
<1>. QED BY <1>1, Elements

\* In a list in order the events up to a number are the first ones.
LEMMA FirstOnes ==
  ASSUME NEW s \in Seq(Event), Ordered(s), NEW n \in Int
  PROVE  /\ Cardinality(UpTo(s, n)) \in 0..Len(s)
         /\ UpTo(s, n) = 1..Cardinality(UpTo(s, n))
<1> DEFINE A == UpTo(s, n)
           m == Cardinality(A)
<1>1. Len(s) \in Nat /\ DOMAIN s = 1..Len(s) /\ \A i \in 1..Len(s) : s[i].seq \in Nat
  BY EventSeq
<1>2. A \in SUBSET (1..Len(s))
  BY <1>1 DEF UpTo
<1>3. IsFiniteSet(1..Len(s)) /\ Cardinality(1..Len(s)) = Len(s)
  BY <1>1, FS_Interval, SMTT(30)
<1>4. IsFiniteSet(A) /\ m \in Nat /\ m <= Len(s)
  BY <1>2, <1>3, FS_Subset, FS_CardinalityType, Zenon
<1>5. \A i \in A : i <= m
  <2>1. SUFFICES ASSUME NEW i \in A PROVE i <= m
    OBVIOUS
  <2>2. 1..i \in SUBSET A /\ i \in Nat
    BY <1>1, <2>1 DEF UpTo, Ordered
  <2>3. Cardinality(1..i) <= m
    BY <1>4, <2>2, FS_Subset, Zenon
  <2>4. Cardinality(1..i) = i
    BY <2>2, FS_Interval, Z3
  <2>. QED BY <2>3, <2>4
<1>6. A \in SUBSET (1..m)
  BY <1>1, <1>2, <1>4, <1>5
<1>7. IsFiniteSet(1..m) /\ Cardinality(1..m) = m
  BY <1>4, FS_Interval, Z3
<1>8. A = 1..m
  BY <1>6, <1>7, FS_Subset, Zenon
<1>. QED BY <1>1, <1>4, <1>8

\* What is beyond a number.
LEMMA BeyondIt ==
  ASSUME NEW s \in Seq(Event), Ordered(s), NEW n \in Int
  PROVE  /\ Beyond(s, n) \in Seq(Event)
         /\ \A i \in DOMAIN Beyond(s, n) :
              /\ Beyond(s, n)[i].seq > n
              /\ i + Cardinality(UpTo(s, n)) \in DOMAIN s
              /\ Beyond(s, n)[i] = s[i + Cardinality(UpTo(s, n))]
         /\ \A e \in ToSet(s) : e.seq > n => \E i \in DOMAIN Beyond(s, n) : Beyond(s, n)[i] = e
<1> DEFINE m == Cardinality(UpTo(s, n))
           b == Beyond(s, n)
<1>1. Len(s) \in Nat /\ DOMAIN s = 1..Len(s) /\ \A i \in 1..Len(s) : s[i] \in Event /\ s[i].seq \in Nat
  BY EventSeq
<1>2. m \in 0..Len(s) /\ UpTo(s, n) = 1..m
  BY FirstOnes
<1>3. m + 1 \in 1..Len(s) + 1 /\ m \in Nat
  BY <1>1, <1>2
<1>4. b = SubSeq(s, m + 1, Len(s))
  BY DEF Beyond
<1>5. b \in Seq(Event) /\ Len(b) = Len(s) - m /\ DOMAIN b = 1..Len(b) /\ \A i \in 1..Len(b) : b[i] = s[i + m]
  <2>1. CASE m = Len(s)
    <3>1. b = <<>>
      BY <1>1, <1>3, <1>4, <2>1, SubSeqEmpty
    <3>. QED BY <1>1, <2>1, <3>1
  <2>2. CASE m # Len(s)
    <3>1. m + 1 \in 1..Len(s) /\ Len(s) \in m..Len(s)
      BY <1>1, <1>2, <2>2
    <3>. HIDE DEF m
    <3>2. b \in Seq(Event) /\ Len(b) = Len(s) - m /\ \A i \in 1..Len(b) : b[i] = s[i + m]
      BY <1>1, <1>3, <1>4, <3>1
    <3>. QED BY <1>1, <1>3, <3>2, LenProperties
  <2>. QED BY <2>1, <2>2
<1>6. \A i \in DOMAIN b : i + m \in DOMAIN s /\ b[i] = s[i + m] /\ i + m \notin UpTo(s, n)
  BY <1>1, <1>2, <1>3, <1>5
<1>7. \A i \in DOMAIN b : b[i].seq > n
  <2>1. \A j \in DOMAIN s : j \notin UpTo(s, n) => s[j].seq > n
    BY <1>1 DEF UpTo
  <2>. HIDE DEF b, m
  <2>. QED BY <1>6, <2>1
<1>8. \A e \in ToSet(s) : e.seq > n => \E i \in DOMAIN b : b[i] = e
  <2>1. SUFFICES ASSUME NEW j \in DOMAIN s, s[j].seq > n PROVE \E i \in DOMAIN b : b[i] = s[j]
    BY DEF ToSet
  <2>2. j \notin 1..m
    BY <1>1, <1>2, <2>1 DEF UpTo
  <2>3. j - m \in DOMAIN b /\ (j - m) + m = j
    BY <1>1, <1>2, <1>3, <1>5, <2>1, <2>2
  <2>. QED BY <1>6, <2>3
<1>. QED BY <1>5, <1>6, <1>7, <1>8

LEMMA ToSetAppend ==
  ASSUME NEW S, NEW s \in Seq(S), NEW x \in S
  PROVE  /\ ToSet(Append(s, x)) = ToSet(s) \cup {x} /\ Append(s, x) \in Seq(S)
         /\ DOMAIN Append(s, x) = 1..Len(s) + 1
<1> DEFINE a == Append(s, x)
<1>1. Len(s) \in Nat /\ DOMAIN s = 1..Len(s)
  BY Elements
<1>2. /\ a \in Seq(S) /\ Len(a) = Len(s) + 1 /\ \A i \in 1..Len(s) : a[i] = s[i]
      /\ a[Len(s) + 1] = x
  BY AppendProperties
<1>3. DOMAIN a = 1..Len(s) + 1
  BY <1>2, Elements
<1>. HIDE DEF a
<1>4. \A i \in DOMAIN a : a[i] \in ToSet(s) \cup {x}
  BY <1>1, <1>2, <1>3 DEF ToSet
<1>5. \A e \in ToSet(s) \cup {x} : \E i \in DOMAIN a : a[i] = e
  <2>1. Len(s) + 1 \in DOMAIN a /\ \A i \in DOMAIN s : i \in DOMAIN a /\ a[i] = s[i]
    BY <1>1, <1>2, <1>3
  <2>. QED BY <1>2, <2>1 DEF ToSet
<1>6. ToSet(a) = ToSet(s) \cup {x}
  BY <1>4, <1>5 DEF ToSet
<1>. QED BY <1>2, <1>3, <1>6 DEF a

\* One more event has its place in a list in order.
LEMMA Insertable ==
  ASSUME NEW r \in Seq(Event), Ordered(r), NEW x \in Event
  PROVE  \E g \in Seq(Event) :
           Ordered(g) /\ ToSet(g) = ToSet(r) \cup {x} /\ DOMAIN g = 1..Len(r) + 1
<1> DEFINE n == Len(r)
           p == Cardinality(UpTo(r, x.seq))
           g == [i \in 1..n + 1 |-> IF i <= p THEN r[i] ELSE IF i = p + 1 THEN x ELSE r[i - 1]]
<1>1. n \in Nat /\ DOMAIN r = 1..n /\ \A i \in 1..n : r[i] \in Event /\ r[i].seq \in Nat
  BY EventSeq
<1>2. x.seq \in Nat /\ x.seq \in Int
  BY DEF Event
<1>3. p \in 0..n /\ UpTo(r, x.seq) = 1..p
  BY <1>2, FirstOnes
<1>4. p \in Nat /\ p <= n
  BY <1>1, <1>3
<1>5. \A i \in 1..n : i <= p <=> r[i].seq <= x.seq
  <2>1. \A i \in 1..n : i \in UpTo(r, x.seq) <=> r[i].seq <= x.seq
    BY <1>1 DEF UpTo
  <2>. HIDE DEF p, n
  <2>. QED BY <1>1, <1>3, <1>4, <2>1
<1>6. \A i, j \in 1..n : i < j => r[i].seq <= r[j].seq
  BY <1>1 DEF Ordered
<1>. HIDE DEF n, p
<1>7. DOMAIN g = 1..n + 1 /\ g = [i \in 1..n + 1 |-> g[i]]
  OBVIOUS
<1>8. \A i \in 1..n + 1 : i <= p => i \in 1..n /\ g[i] = r[i]
  BY <1>1, <1>4
<1>9. \A i \in 1..n + 1 : i = p + 1 => g[i] = x
  BY <1>1, <1>4
<1>10. \A i \in 1..n + 1 : i > p + 1 => i - 1 \in 1..n /\ g[i] = r[i - 1]
  BY <1>1, <1>4
<1>. HIDE DEF g
<1>11. Ordered(g)
  <2>1. SUFFICES ASSUME NEW i \in 1..n + 1, NEW j \in 1..n + 1, i < j PROVE g[i].seq <= g[j].seq
    BY <1>7 DEF Ordered
  <2>2. CASE j <= p
    <3>1. g[i] = r[i] /\ g[j] = r[j] /\ i \in 1..n /\ j \in 1..n
      BY <1>1, <1>4, <1>8, <2>1, <2>2
    <3>. QED BY <1>6, <2>1, <3>1
  <2>3. CASE j = p + 1
    <3>1. g[i] = r[i] /\ g[j] = x /\ i \in 1..n /\ i <= p
      BY <1>1, <1>4, <1>8, <1>9, <2>1, <2>3
    <3>. QED BY <1>5, <3>1
  <2>4. CASE j > p + 1 /\ i > p + 1
    <3>1. g[i] = r[i - 1] /\ g[j] = r[j - 1] /\ i - 1 \in 1..n /\ j - 1 \in 1..n /\ i - 1 < j - 1
      BY <1>1, <1>4, <1>10, <2>1, <2>4
    <3>. QED BY <1>6, <3>1
  <2>5. CASE j > p + 1 /\ i = p + 1
    <3>1. g[i] = x /\ g[j] = r[j - 1] /\ j - 1 \in 1..n /\ ~(j - 1 <= p)
      BY <1>1, <1>4, <1>9, <1>10, <2>1, <2>5
    <3>. QED BY <1>1, <1>2, <1>5, <3>1
  <2>6. CASE j > p + 1 /\ i <= p
    <3>1. g[i] = r[i] /\ g[j] = r[j - 1] /\ i \in 1..n /\ j - 1 \in 1..n /\ i < j - 1
      BY <1>1, <1>4, <1>8, <1>10, <2>1, <2>6
    <3>. QED BY <1>6, <3>1
  <2>. QED BY <1>1, <1>4, <2>1, <2>2, <2>3, <2>4, <2>5, <2>6
<1>12. \A i \in 1..n + 1 : g[i] \in ToSet(r) \cup {x}
  <2>1. \A i \in 1..n + 1 : i <= p \/ i = p + 1 \/ i > p + 1
    BY <1>1, <1>4
  <2>2. \A i \in 1..n : r[i] \in ToSet(r)
    BY <1>1 DEF ToSet
  <2>. QED BY <1>8, <1>9, <1>10, <2>1, <2>2
<1>13. \A e \in ToSet(r) \cup {x} : \E i \in 1..n + 1 : g[i] = e
  <2>1. p + 1 \in 1..n + 1
    BY <1>1, <1>4
  <2>2. \A i \in 1..n : IF i <= p THEN i \in 1..n + 1 ELSE i + 1 \in 1..n + 1 /\ i + 1 > p + 1 /\ (i + 1) - 1 = i
    BY <1>1, <1>4
  <2>. QED BY <1>1, <1>8, <1>9, <1>10, <2>1, <2>2, SMTT(30) DEF ToSet
<1>14. ToSet(g) = ToSet(r) \cup {x}
  BY <1>7, <1>12, <1>13 DEF ToSet
<1>15. g \in Seq(Event)
  <2>1. ToSet(r) \cup {x} \subseteq Event
    BY <1>1 DEF ToSet
  <2>2. g \in [1..n + 1 -> Event] /\ n + 1 \in Nat
    BY <1>1, <1>7, <1>12, <2>1
  <2>. QED BY <2>2
<1>. QED BY <1>7, <1>11, <1>14, <1>15 DEF n

\* Every list can be put in order: by induction on its length.
CanSort(s) == \E r \in Seq(Event) : DOMAIN r = DOMAIN s /\ ToSet(r) = ToSet(s) /\ Ordered(r)
NoSort(n) == \E s \in Seq(Event) : Len(s) = n /\ ~CanSort(s)

LEMMA Sortable ==
  ASSUME NEW s \in Seq(Event)
  PROVE  CanSort(s)
<1> DEFINE Bad == {n \in Nat : NoSort(n)}
<1>1. SUFFICES ASSUME Bad # {} PROVE FALSE
  BY EventSeq DEF NoSort
<1>2. \E n \in Bad : \A m \in Bad : ~(<<m, n>> \in OpToRel(<, Nat))
  BY <1>1, NatLessThanWellFounded, WFMin
<1>3. PICK n \in Nat : NoSort(n) /\ \A m \in Nat : m < n => ~NoSort(m)
  BY <1>2 DEF OpToRel
<1>4. PICK l \in Seq(Event) : Len(l) = n /\ ~CanSort(l)
  BY <1>3 DEF NoSort
<1>5. l # <<>>
  <2>1. SUFFICES ASSUME l = <<>> PROVE FALSE
    OBVIOUS
  <2>2. DOMAIN l = {} /\ Ordered(l)
    BY <1>4, <2>1, EventSeq DEF Ordered
  <2>. QED BY <1>4, <2>2 DEF CanSort
<1>6. PICK f \in Seq(Event), x \in Event : l = Append(f, x)
  BY <1>5, SequenceEmptyOrAppend
<1>7. Len(f) = n - 1 /\ n - 1 \in Nat /\ DOMAIN f = 1..n - 1
  BY <1>3, <1>4, <1>6, EventSeq
<1>8. CanSort(f)
  BY <1>3, <1>7 DEF NoSort
<1>9. PICK r \in Seq(Event) : DOMAIN r = DOMAIN f /\ ToSet(r) = ToSet(f) /\ Ordered(r)
  BY <1>8 DEF CanSort
<1>10. Len(r) = n - 1
  BY <1>3, <1>7, <1>9, EventSeq
<1>11. PICK g \in Seq(Event) : Ordered(g) /\ ToSet(g) = ToSet(r) \cup {x} /\ DOMAIN g = 1..Len(r) + 1
  BY <1>9, Insertable
<1>12. ToSet(l) = ToSet(f) \cup {x} /\ DOMAIN l = 1..Len(f) + 1
  BY <1>6, ToSetAppend
<1>. QED BY <1>4, <1>7, <1>9, <1>10, <1>11, <1>12 DEF CanSort

\* events.sort gives the same events in order.
LEMMA Sorts ==
  ASSUME NEW s \in Seq(Event)
  PROVE  /\ InOrder(s) \in Seq(Event) /\ Len(InOrder(s)) = Len(s)
         /\ ToSet(InOrder(s)) = ToSet(s) /\ Ordered(InOrder(s))
<1> DEFINE r == InOrder(s)
<1>1. r \in [DOMAIN s -> ToSet(s)] /\ ToSet(r) = ToSet(s) /\ Ordered(r)
  <2>1. PICK q \in Seq(Event) : DOMAIN q = DOMAIN s /\ ToSet(q) = ToSet(s) /\ Ordered(q)
    BY Sortable DEF CanSort
  <2>2. q \in [DOMAIN s -> ToSet(s)]
    <3>1. q = [i \in DOMAIN q |-> q[i]] /\ \A i \in DOMAIN q : q[i] \in ToSet(q)
      BY EventSeq DEF ToSet
    <3>. QED BY <2>1, <3>1
  <2>. QED BY <2>1, <2>2 DEF InOrder, Ordered
<1>2. DOMAIN s = 1..Len(s) /\ Len(s) \in Nat /\ ToSet(s) \subseteq Event
  BY EventSeq DEF ToSet
<1>. HIDE DEF r
<1>3. r \in Seq(Event) /\ Len(r) = Len(s)
  BY <1>1, <1>2
<1>. QED BY <1>1, <1>3 DEF r

LEMMA HeadAndTail ==
  ASSUME NEW S, NEW s \in Seq(S), s # <<>>
  PROVE  /\ Head(s) \in S /\ Head(s) = s[1] /\ Tail(s) \in Seq(S) /\ Len(Tail(s)) = Len(s) - 1
         /\ Len(s) \in Nat \ {0} /\ \A i \in 1..Len(s) - 1 : Tail(s)[i] = s[i + 1]
  OBVIOUS

\* What is left of a list that is trimmed or ages.
LEMMA TrimmedIs ==
  ASSUME NEW s \in Seq(Event)
  PROVE  /\ Trimmed(s) \in Seq(Event) /\ Len(Trimmed(s)) <= MaxEvents /\ ToSet(Trimmed(s)) \subseteq ToSet(s)
         /\ \E n \in Nat : \A i \in DOMAIN Trimmed(s) : i + n \in DOMAIN s /\ Trimmed(s)[i] = s[i + n]
<1>1. Len(s) \in Nat /\ DOMAIN s = 1..Len(s) /\ MaxEvents \in Nat \ {0}
  BY EventSeq, SyncAssumption
<1>2. CASE Len(s) > MaxEvents
  <2> DEFINE n == Len(s) - MaxEvents
             r == SubSeq(s, n + 1, Len(s))
  <2>1. n \in Nat /\ n + 1 \in 1..Len(s) /\ Len(s) \in n..Len(s) /\ Len(s) - n = MaxEvents
    BY <1>1, <1>2
  <2>. HIDE DEF n
  <2>2. r \in Seq(Event) /\ Len(r) = Len(s) - n /\ \A i \in 1..Len(r) : r[i] = s[i + n]
    BY <1>1, <2>1
  <2>3. \A i \in DOMAIN r : i + n \in DOMAIN s /\ r[i] = s[i + n]
    BY <1>1, <2>1, <2>2, LenProperties, SMTT(30)
  <2>4. Trimmed(s) = r
    BY <1>2 DEF Trimmed, n
  <2>. HIDE DEF r
  <2>5. ToSet(r) \subseteq ToSet(s)
    BY <2>3 DEF ToSet
  <2>. QED BY <1>1, <2>1, <2>2, <2>3, <2>4, <2>5
<1>3. CASE ~(Len(s) > MaxEvents)
  <2>1. Trimmed(s) = s
    BY <1>3 DEF Trimmed
  <2>2. \A i \in DOMAIN s : i + 0 = i
    BY <1>1
  <2>3. \E n \in Nat : \A i \in DOMAIN s : i + n \in DOMAIN s /\ s[i] = s[i + n]
    <3>1. 0 \in Nat /\ \A i \in DOMAIN s : i + 0 \in DOMAIN s /\ s[i] = s[i + 0]
      BY <2>2
    <3>. QED BY <3>1
  <2>4. Len(s) <= MaxEvents /\ ToSet(s) \subseteq ToSet(s)
    BY <1>1, <1>3
  <2>. QED BY <2>1, <2>3, <2>4, Zenon
<1>. QED BY <1>2, <1>3

LEMMA TailIs ==
  ASSUME NEW s \in Seq(Event), s # <<>>
  PROVE  /\ Tail(s) \in Seq(Event) /\ Len(Tail(s)) < Len(s) /\ ToSet(Tail(s)) \subseteq ToSet(s)
         /\ \A i \in DOMAIN Tail(s) : i + 1 \in DOMAIN s /\ Tail(s)[i] = s[i + 1]
<1>1. /\ Tail(s) \in Seq(Event) /\ Len(Tail(s)) = Len(s) - 1 /\ Len(s) \in Nat \ {0}
      /\ \A i \in 1..Len(s) - 1 : Tail(s)[i] = s[i + 1]
  BY HeadAndTail
<1>2. DOMAIN s = 1..Len(s) /\ DOMAIN Tail(s) = 1..Len(Tail(s))
  BY <1>1, LenProperties
<1>3. \A i \in DOMAIN Tail(s) : i + 1 \in DOMAIN s /\ Tail(s)[i] = s[i + 1]
  BY <1>1, <1>2
<1>4. ToSet(Tail(s)) \subseteq ToSet(s)
  BY <1>3 DEF ToSet
<1>. QED BY <1>1, <1>3, <1>4

-----------------------------------------------------------------------------
(* What the variables hold.                                                *)

Op == {"idle", "chat", "resume", "replay", "report", "snapshot"}
Stream == [epoch : Nat, seq : Nat, events : Seq(Event)]
Link == [open : BOOLEAN, subscribed : BOOLEAN, inbox : Seq(Message)]
Task == [op : Op, next : 0..8, msg : Message \cup {0}, cursor : Cursor, epoch : Nat, seq : Nat, list : Seq(Event)]
Session == [conn : Conn \cup {NoConn}, answered : BOOLEAN, moved : BOOLEAN, cursor : Cursor,
            seen : SUBSET Message, older : SUBSET Message, twice : BOOLEAN]

Types ==
  /\ shared \in BOOLEAN /\ torn \in BOOLEAN
  /\ epochs \in Nat /\ stream \in Stream /\ stream.epoch <= epochs
  /\ conn \in [Conn -> Link]
  /\ task \in [Conn -> Task]
  /\ calls \in Seq(Conn)
  /\ wire \in [Conn -> Seq(Frame)]
  /\ client \in [Client -> Session]
  /\ said \in 0..MaxMessages /\ mishaps \in Nat

\* How far a handler can be, and what it knows by then.
EpochRead(t) ==
  (t.op \in {"chat", "replay", "report"} /\ t.next > 2) \/ (t.op = "snapshot" /\ t.next = 4)

InStage(t) ==
  /\ t.op \in {"idle", "resume"} => t.next = 0
  /\ t.op = "replay" => t.next \in 1..4
  /\ t.op = "report" => t.next \in 1..3
  /\ t.op = "snapshot" => t.next \in 0..4
  /\ t.op = "chat" => t.msg \in Message /\ (t.next > 3 <=> t.seq # 0)
  /\ EpochRead(t) <=> t.epoch # 0
  /\ t.op = "replay" /\ t.next > 2 => t.epoch = t.cursor.epoch
  /\ Ordered(t.list)

Stages == \A k \in Conn : InStage(task[k])

\* The handlers that wait for the buffer are those with a next command.
Queue ==
  /\ \A i, j \in DOMAIN calls : calls[i] = calls[j] => i = j
  /\ \A k \in Conn : task[k].next # 0 <=> \E i \in DOMAIN calls : calls[i] = k

LEMMA Scripts ==
  /\ Len(Commands("chat")) = 8 /\ Commands("chat")[1] = "touch" /\ Commands("chat")[2] = "epoch"
  /\ Commands("chat")[3] = "incr" /\ Commands("chat")[4] = "push" /\ Commands("chat")[5] = "trim"
  /\ \A i \in 6..8 : Commands("chat")[i] = "expire"
  /\ Len(Commands("replay")) = 4 /\ Commands("replay")[1] = "touch" /\ Commands("replay")[2] = "epoch"
  /\ Commands("replay")[3] = "list" /\ Commands("replay")[4] = "seq"
  /\ Len(Commands("report")) = 3 /\ Commands("report")[1] = "touch" /\ Commands("report")[2] = "epoch"
  /\ Commands("report")[3] = "seq"
  /\ Len(Commands("snapshot")) = 4 /\ Commands("snapshot")[1] = "list" /\ Commands("snapshot")[2] = "touch"
  /\ Commands("snapshot")[3] = "epoch" /\ Commands("snapshot")[4] = "seq"
<1>1. /\ Commands("chat") = Appending /\ Commands("replay") = Since /\ Commands("report") = Report
      /\ Commands("snapshot") = Recent
  BY DEF Commands
<1>2. Len(Appending) = 8 /\ Appending[1] = "touch" /\ Appending[2] = "epoch" /\ Appending[3] = "incr"
  BY DEF Appending
<1>3. Appending[4] = "push" /\ Appending[5] = "trim" /\ \A i \in 6..8 : Appending[i] = "expire"
  BY DEF Appending
<1>4. Len(Since) = 4 /\ Since[1] = "touch" /\ Since[2] = "epoch" /\ Since[3] = "list" /\ Since[4] = "seq"
  BY DEF Since
<1>5. Len(Report) = 3 /\ Report[1] = "touch" /\ Report[2] = "epoch" /\ Report[3] = "seq"
  BY DEF Report
<1>6. Len(Recent) = 4 /\ Recent[1] = "list" /\ Recent[2] = "touch" /\ Recent[3] = "epoch" /\ Recent[4] = "seq"
  BY DEF Recent
<1>. QED BY <1>1, <1>2, <1>3, <1>4, <1>5, <1>6

-----------------------------------------------------------------------------
(* What the answer to a command does, kind by kind.                        *)

\* It is the turn of k; only its task changes.
Turn(k) ==
  /\ calls # <<>> /\ k = Head(calls)
  /\ task' \in [Conn -> Task] /\ \A j \in Conn : j # k => task'[j] = task[j]
  /\ conn' = conn /\ client' = client
  /\ shared' = shared /\ said' = said /\ mishaps' = mishaps /\ torn' = torn

GoesOn(k) == task'[k].next = task[k].next + 1 /\ task'[k].op = task[k].op /\ calls' = Append(Tail(calls), k)
SameStreamAs == stream' = stream /\ epochs' = epochs
KeepsRest(k) == task'[k].msg = task[k].msg /\ task'[k].cursor = task[k].cursor
KeepsEpoch(k) == task'[k].epoch = task[k].epoch
KeepsSeq(k) == task'[k].seq = task[k].seq
KeepsList(k) == task'[k].list = task[k].list

AtTouch(t) == (t.op \in {"chat", "replay", "report"} /\ t.next = 1) \/ (t.op = "snapshot" /\ t.next = 2)
AtEpoch(t) == (t.op \in {"chat", "replay", "report"} /\ t.next = 2) \/ (t.op = "snapshot" /\ t.next = 3)
AtList(t)  == (t.op = "replay" /\ t.next = 3) \/ (t.op = "snapshot" /\ t.next = 1)

Touching(k) ==
  /\ Turn(k) /\ GoesOn(k) /\ KeepsRest(k) /\ KeepsEpoch(k) /\ KeepsSeq(k) /\ KeepsList(k)
  /\ AtTouch(task[k])
  /\ wire' = wire
  /\ stream' \in Stream /\ stream'.seq = stream.seq /\ stream'.events = stream.events
  /\ IF stream.epoch = 0 THEN stream'.epoch = epochs + 1 /\ epochs' = epochs + 1 ELSE SameStreamAs

Reading(k) ==
  /\ Turn(k) /\ GoesOn(k) /\ KeepsRest(k) /\ KeepsSeq(k) /\ KeepsList(k)
  /\ AtEpoch(task[k])
  /\ wire' = wire /\ SameStreamAs
  /\ stream.epoch # 0 /\ task'[k].epoch = stream.epoch
  /\ task[k].op = "replay" => stream.epoch = task[k].cursor.epoch

Failing(k) ==
  /\ Turn(k) /\ task'[k] = Idle /\ calls' = Tail(calls)
  /\ AtEpoch(task[k])
  /\ stream.epoch = 0
  /\ wire' = wire /\ SameStreamAs

TurningBack(k) ==
  /\ Turn(k) /\ task'[k] = [Idle EXCEPT !.op = "snapshot"] /\ calls' = Tail(calls)
  /\ task[k].op = "replay"
  /\ wire' = wire /\ SameStreamAs

Numbering(k) ==
  /\ Turn(k) /\ GoesOn(k) /\ KeepsRest(k) /\ KeepsEpoch(k) /\ KeepsList(k)
  /\ task[k].op = "chat" /\ task[k].next = 3
  /\ wire' = wire /\ epochs' = epochs
  /\ stream' \in Stream
  /\ stream'.epoch = stream.epoch /\ stream'.events = stream.events /\ stream'.seq = stream.seq + 1
  /\ task'[k].seq = stream.seq + 1

Pushing(k) ==
  /\ Turn(k) /\ GoesOn(k) /\ KeepsRest(k) /\ KeepsEpoch(k) /\ KeepsSeq(k) /\ KeepsList(k)
  /\ task[k].op = "chat" /\ task[k].next = 4
  /\ wire' = wire /\ epochs' = epochs
  /\ stream' \in Stream
  /\ stream'.epoch = stream.epoch /\ stream'.seq = stream.seq
  /\ stream'.events = Append(stream.events, [msg |-> task[k].msg, seq |-> task[k].seq])

Trimming(k) ==
  /\ Turn(k) /\ GoesOn(k) /\ KeepsRest(k) /\ KeepsEpoch(k) /\ KeepsSeq(k) /\ KeepsList(k)
  /\ task[k].op = "chat" /\ task[k].next = 5
  /\ wire' = wire /\ epochs' = epochs
  /\ stream' \in Stream
  /\ stream'.epoch = stream.epoch /\ stream'.seq = stream.seq
  /\ stream'.events = Trimmed(stream.events)

Renewing(k) ==
  /\ Turn(k) /\ GoesOn(k) /\ KeepsRest(k) /\ KeepsEpoch(k) /\ KeepsSeq(k) /\ KeepsList(k)
  /\ task[k].op = "chat" /\ task[k].next \in 6..7
  /\ wire' = wire /\ SameStreamAs

Telling(k) ==
  /\ Turn(k) /\ task'[k] = Idle /\ calls' = Tail(calls)
  /\ task[k].op = "chat" /\ task[k].next = 8
  /\ SameStreamAs
  /\ Broadcast([msg |-> task[k].msg, seq |-> task[k].seq])

Listing(k) ==
  /\ Turn(k) /\ GoesOn(k) /\ KeepsRest(k) /\ KeepsEpoch(k) /\ KeepsSeq(k)
  /\ AtList(task[k])
  /\ wire' = wire /\ SameStreamAs
  /\ task'[k].list = InOrder(stream.events)

Showing(k) ==
  /\ Turn(k) /\ task'[k] = Idle /\ calls' = Tail(calls)
  /\ task[k].op = "snapshot" /\ task[k].next = 4
  /\ SameStreamAs
  /\ Send(k, <<SnapshotFrame([task[k] EXCEPT !.seq = stream.seq])>>)

Resuming(k) ==
  /\ Turn(k) /\ task'[k] = Idle /\ calls' = Tail(calls)
  /\ task[k].op = "report" /\ task[k].next = 3
  /\ SameStreamAs
  /\ Send(k, <<ResumedFrame([task[k] EXCEPT !.seq = stream.seq])>>)

Replaying(k) ==
  /\ Turn(k) /\ task'[k] = [Idle EXCEPT !.op = "report", !.next = 1] /\ calls' = Append(Tail(calls), k)
  /\ task[k].op = "replay" /\ task[k].next = 4
  /\ SameStreamAs
  /\ stream.seq >= task[k].cursor.seq
  /\ LET gap == Gap([task[k] EXCEPT !.seq = stream.seq])
     IN Send(k, [i \in DOMAIN gap |-> ChatFrame(gap[i])])

AnyAnswer(k) ==
  \/ Touching(k) \/ Reading(k) \/ Failing(k) \/ TurningBack(k) \/ Numbering(k) \/ Pushing(k)
  \/ Trimming(k) \/ Renewing(k) \/ Telling(k) \/ Listing(k) \/ Showing(k) \/ Resuming(k) \/ Replaying(k)

\* The record of a task, field by field.
LEMMA TaskFields ==
  ASSUME NEW t \in Task
  PROVE  /\ t.op \in Op /\ t.next \in 0..8 /\ t.msg \in Message \cup {0} /\ t.cursor \in Cursor
         /\ t.epoch \in Nat /\ t.seq \in Nat /\ t.list \in Seq(Event)
  BY DEF Task

LEMMA TaskOf ==
  ASSUME NEW op \in Op, NEW next \in 0..8, NEW msg \in Message \cup {0}, NEW cursor \in Cursor,
         NEW epoch \in Nat, NEW seq \in Nat, NEW list \in Seq(Event)
  PROVE  [op |-> op, next |-> next, msg |-> msg, cursor |-> cursor, epoch |-> epoch, seq |-> seq, list |-> list] \in Task
  BY DEF Task

LEMMA IdleTasks ==
  /\ Idle \in Task /\ Idle.op = "idle" /\ Idle.next = 0 /\ Idle.epoch = 0 /\ Idle.seq = 0 /\ Idle.list = <<>>
  /\ Idle.msg = 0 /\ Idle.cursor = NoCursor
<1>1. <<>> \in Seq(Event) /\ NoCursor \in Cursor
  BY EmptySeq DEF NoCursor, Cursor
<1>2. "idle" \in Op /\ 0 \in 0..8 /\ 0 \in Nat /\ 0 \in Message \cup {0}
  BY DEF Op
<1>3. [op |-> "idle", next |-> 0, msg |-> 0, cursor |-> NoCursor, epoch |-> 0, seq |-> 0, list |-> <<>>] \in Task
  BY <1>1, <1>2, TaskOf, Zenon
<1>. QED BY <1>3 DEF Idle

LEMMA NewTask ==
  ASSUME NEW op \in Op, NEW n \in {0, 1}
  PROVE  LET u == [Idle EXCEPT !.op = op, !.next = n] IN
         /\ u \in Task /\ u.op = op /\ u.next = n /\ u.epoch = 0 /\ u.seq = 0 /\ u.list = <<>>
         /\ u.cursor = NoCursor /\ u.msg = 0
<1>1. n \in 0..8
  OBVIOUS
<1>. QED BY <1>1, IdleTasks DEF Task

LEMMA SnapshotTask ==
  LET u == [Idle EXCEPT !.op = "snapshot"] IN
  /\ u \in Task /\ u.op = "snapshot" /\ u.next = 0 /\ u.epoch = 0 /\ u.seq = 0 /\ u.list = <<>>
  /\ u.cursor = NoCursor /\ u.msg = 0
<1>1. "snapshot" \in Op
  BY DEF Op
<1>. QED BY <1>1, IdleTasks DEF Task

LEMMA ResumeTask ==
  ASSUME NEW cursor \in Cursor
  PROVE  LET u == [Idle EXCEPT !.op = "resume", !.cursor = cursor] IN
         /\ u \in Task /\ u.op = "resume" /\ u.next = 0 /\ u.epoch = 0 /\ u.seq = 0 /\ u.list = <<>>
         /\ u.cursor = cursor /\ u.msg = 0
<1>1. "resume" \in Op
  BY DEF Op
<1>. QED BY <1>1, IdleTasks DEF Task

LEMMA ChatTask ==
  ASSUME NEW m \in Message
  PROVE  LET u == Chatting(m) IN
         /\ u \in Task /\ u.op = "chat" /\ u.next = 0 /\ u.epoch = 0 /\ u.seq = 0 /\ u.list = <<>>
         /\ u.cursor = NoCursor /\ u.msg = m
<1>1. "chat" \in Op
  BY DEF Op
<1>. QED BY <1>1, IdleTasks DEF Task, Chatting

LEMMA TaskChanges ==
  ASSUME task \in [Conn -> Task], NEW k \in Conn, NEW u \in Task, task' = [task EXCEPT ![k] = u]
  PROVE  task' \in [Conn -> Task] /\ task'[k] = u /\ \A j \in Conn : j # k => task'[j] = task[j]
  OBVIOUS

LEMMA Advances ==
  ASSUME NEW t \in Task, t.next < 8
  PROVE  LET u == [t EXCEPT !.next = @ + 1] IN
         /\ u \in Task /\ u.next = t.next + 1 /\ u.op = t.op /\ u.msg = t.msg /\ u.cursor = t.cursor
         /\ u.epoch = t.epoch /\ u.seq = t.seq /\ u.list = t.list
<1>1. t.next + 1 \in 0..8
  BY TaskFields
<1>. QED BY <1>1 DEF Task

LEMMA Answering ==
  ASSUME Types, Stages, Queue, BufferAnswers
  PROVE  LET k == Head(calls) t == task[k] IN
         /\ k \in Conn /\ t \in Task /\ t.next # 0 /\ calls # <<>>
         /\ conn' = conn /\ client' = client
         /\ shared' = shared /\ said' = said /\ mishaps' = mishaps /\ torn' = torn
         /\ stream' = Executed(stream, t) /\ Answered(k, Learnt(t, stream'))
         /\ epochs' = IF stream'.epoch > epochs THEN epochs + 1 ELSE epochs
<1>1. calls # <<>> /\ calls \in Seq(Conn)
  BY DEF Types, BufferAnswers
<1>2. Head(calls) = calls[1] /\ 1 \in DOMAIN calls /\ Head(calls) \in Conn
  BY <1>1
<1>3. task[Head(calls)] \in Task /\ task[Head(calls)].next # 0
  BY <1>2 DEF Types, Queue
<1>. QED BY <1>1, <1>2, <1>3 DEF BufferAnswers, bounds

\* The next command of a handler, by where it is.
LEMMA ChatPlaces ==
  ASSUME NEW t, t.op = "chat"
  PROVE  /\ Len(Commands(t.op)) = 8 /\ (t.next = 1 => Command(t) = "touch") /\ (t.next = 2 => Command(t) = "epoch")
         /\ (t.next = 3 => Command(t) = "incr") /\ (t.next = 4 => Command(t) = "push")
         /\ (t.next = 5 => Command(t) = "trim") /\ (t.next \in 6..8 => Command(t) = "expire")
  BY Scripts DEF Command

LEMMA ReplayPlaces ==
  ASSUME NEW t, t.op = "replay"
  PROVE  /\ Len(Commands(t.op)) = 4 /\ (t.next = 1 => Command(t) = "touch") /\ (t.next = 2 => Command(t) = "epoch")
         /\ (t.next = 3 => Command(t) = "list") /\ (t.next = 4 => Command(t) = "seq")
  BY Scripts DEF Command

LEMMA ReportPlaces ==
  ASSUME NEW t, t.op = "report"
  PROVE  /\ Len(Commands(t.op)) = 3 /\ (t.next = 1 => Command(t) = "touch") /\ (t.next = 2 => Command(t) = "epoch")
         /\ (t.next = 3 => Command(t) = "seq")
  BY Scripts DEF Command

LEMMA SnapshotPlaces ==
  ASSUME NEW t, t.op = "snapshot"
  PROVE  /\ Len(Commands(t.op)) = 4 /\ (t.next = 1 => Command(t) = "list") /\ (t.next = 2 => Command(t) = "touch")
         /\ (t.next = 3 => Command(t) = "epoch") /\ (t.next = 4 => Command(t) = "seq")
  BY Scripts DEF Command

\* A handler with a command to come sends it.
LEMMA GoingOn ==
  ASSUME Types, Stages, Queue, BufferAnswers, NEW k, k = Head(calls), NEW u \in Task,
         u = Learnt(task[k], stream'), u.op = task[k].op, u.next = task[k].next, u.next < 8,
         ~EndsEarly(u), u.next < Len(Commands(u.op))
  PROVE  /\ k \in Conn /\ Turn(k) /\ GoesOn(k) /\ wire' = wire
         /\ task'[k].msg = u.msg /\ task'[k].cursor = u.cursor /\ task'[k].epoch = u.epoch
         /\ task'[k].seq = u.seq /\ task'[k].list = u.list
<1>1. /\ k \in Conn /\ calls # <<>> /\ conn' = conn /\ client' = client
      /\ shared' = shared /\ said' = said /\ mishaps' = mishaps /\ torn' = torn /\ Answered(k, u)
  BY Answering
<1>2. AsksOn(k, [u EXCEPT !.next = @ + 1]) /\ wire' = wire
  BY <1>1 DEF Answered
<1>. DEFINE w == [u EXCEPT !.next = @ + 1]
<1>3. /\ w \in Task /\ w.next = u.next + 1 /\ w.op = u.op /\ w.msg = u.msg /\ w.cursor = u.cursor
      /\ w.epoch = u.epoch /\ w.seq = u.seq /\ w.list = u.list
  BY Advances
<1>. HIDE DEF w
<1>4. task' = [task EXCEPT ![k] = w] /\ calls' = Append(Tail(calls), k)
  BY <1>2 DEF AsksOn, w
<1>5. task' \in [Conn -> Task] /\ task'[k] = w /\ \A j \in Conn : j # k => task'[j] = task[j]
  BY <1>1, <1>3, <1>4, TaskChanges DEF Types
<1>. QED BY <1>1, <1>2, <1>3, <1>4, <1>5 DEF Turn, GoesOn

LEMMA TouchIs ==
  ASSUME Types, Stages, Queue, BufferAnswers, NEW k, k = Head(calls),
         Command(task[k]) = "touch", task[k].next < Len(Commands(task[k].op)), task[k].next < 8, AtTouch(task[k])
  PROVE  Touching(k)
<1> DEFINE t == task[k]
<1>1. /\ t \in Task /\ stream' = Executed(stream, t)
      /\ epochs' = IF stream'.epoch > epochs THEN epochs + 1 ELSE epochs
  BY Answering
<1>2. Learnt(t, stream') = t /\ ~EndsEarly(t)
  BY DEF Learnt, EndsEarly
<1>3. /\ Turn(k) /\ GoesOn(k) /\ wire' = wire
      /\ task'[k].msg = t.msg /\ task'[k].cursor = t.cursor /\ task'[k].epoch = t.epoch
      /\ task'[k].seq = t.seq /\ task'[k].list = t.list
  BY <1>1, <1>2, GoingOn
<1>4. stream' = IF stream.epoch = 0 THEN [stream EXCEPT !.epoch = epochs + 1] ELSE stream
  BY <1>1 DEF Executed
<1>5. stream' \in Stream /\ stream'.seq = stream.seq /\ stream'.events = stream.events
  <2>1. stream \in Stream /\ epochs + 1 \in Nat
    BY DEF Types
  <2>2. [stream EXCEPT !.epoch = epochs + 1] \in Stream
    BY <2>1 DEF Stream
  <2>. QED BY <1>4, <2>1, <2>2 DEF Stream
<1>6. IF stream.epoch = 0 THEN stream'.epoch = epochs + 1 /\ epochs' = epochs + 1 ELSE SameStreamAs
  BY <1>1, <1>4 DEF Types, Stream, SameStreamAs
<1>. QED BY <1>3, <1>5, <1>6 DEF Touching, KeepsRest, KeepsEpoch, KeepsSeq, KeepsList

LEMMA LearntEpoch ==
  ASSUME NEW t \in Task, NEW b \in Stream, Command(t) = "epoch"
  PROVE  LET u == Learnt(t, b) IN
         /\ u \in Task /\ u.epoch = b.epoch /\ u.op = t.op /\ u.next = t.next /\ u.msg = t.msg
         /\ u.cursor = t.cursor /\ u.seq = t.seq /\ u.list = t.list
<1>1. b.epoch \in Nat
  BY DEF Stream
<1>2. Learnt(t, b) = [t EXCEPT !.epoch = b.epoch]
  BY DEF Learnt
<1>. QED BY <1>1, <1>2 DEF Task

LEMMA LearntSeq ==
  ASSUME NEW t \in Task, NEW b \in Stream, Command(t) \in {"seq", "incr"}
  PROVE  LET u == Learnt(t, b) IN
         /\ u = [t EXCEPT !.seq = b.seq]
         /\ u \in Task /\ u.seq = b.seq /\ u.op = t.op /\ u.next = t.next /\ u.msg = t.msg
         /\ u.cursor = t.cursor /\ u.epoch = t.epoch /\ u.list = t.list
<1>1. b.seq \in Nat
  BY DEF Stream
<1>2. Learnt(t, b) = [t EXCEPT !.seq = b.seq]
  BY DEF Learnt
<1>. QED BY <1>1, <1>2 DEF Task

LEMMA LearntList ==
  ASSUME NEW t \in Task, NEW b \in Stream, Command(t) = "list"
  PROVE  LET u == Learnt(t, b) IN
         /\ u \in Task /\ u.list = InOrder(b.events) /\ u.op = t.op /\ u.next = t.next /\ u.msg = t.msg
         /\ u.cursor = t.cursor /\ u.epoch = t.epoch /\ u.seq = t.seq
<1>1. InOrder(b.events) \in Seq(Event)
  BY Sorts DEF Stream
<1>2. Learnt(t, b) = [t EXCEPT !.list = InOrder(b.events)]
  BY DEF Learnt
<1>. QED BY <1>1, <1>2 DEF Task

\* A task of the same operation and place has the same command.
LEMMA SameCommand ==
  ASSUME NEW t, NEW u, u.op = t.op, u.next = t.next
  PROVE  Command(u) = Command(t)
  BY DEF Command

\* A command that leaves the stream alone.
LEMMA Unchanging ==
  ASSUME Types, Stages, Queue, BufferAnswers,
         Command(task[Head(calls)]) \in {"epoch", "list", "seq", "expire"}
  PROVE  SameStreamAs
<1>1. /\ stream' = Executed(stream, task[Head(calls)])
      /\ epochs' = IF stream'.epoch > epochs THEN epochs + 1 ELSE epochs
  BY Answering
<1>2. stream' = stream
  BY <1>1 DEF Executed
<1>. QED BY <1>1, <1>2 DEF SameStreamAs, Types, Stream

\* A handler that is done, or turns to something else that asks nothing yet.
LEMMA Leaving ==
  ASSUME Types, Stages, Queue, BufferAnswers, NEW k, k = Head(calls), NEW u \in Task,
         task' = [task EXCEPT ![k] = u]
  PROVE  Turn(k) /\ task'[k] = u /\ k \in Conn
<1>1. /\ k \in Conn /\ calls # <<>> /\ conn' = conn /\ client' = client
      /\ shared' = shared /\ said' = said /\ mishaps' = mishaps /\ torn' = torn
  BY Answering
<1>2. task' \in [Conn -> Task] /\ task'[k] = u /\ \A j \in Conn : j # k => task'[j] = task[j]
  BY <1>1, TaskChanges DEF Types
<1>. QED BY <1>1, <1>2 DEF Turn

LEMMA LeavesSnapshot ==
  ASSUME Types, Stages, Queue, BufferAnswers, NEW k, k = Head(calls),
         task' = [task EXCEPT ![k] = [Idle EXCEPT !.op = "snapshot"]]
  PROVE  Turn(k) /\ task'[k] = [Idle EXCEPT !.op = "snapshot"]
  BY SnapshotTask, Leaving, ZenonT(60)

LEMMA LeavesReport ==
  ASSUME Types, Stages, Queue, BufferAnswers, NEW k, k = Head(calls),
         task' = [task EXCEPT ![k] = [Idle EXCEPT !.op = "report", !.next = 1]]
  PROVE  Turn(k) /\ task'[k] = [Idle EXCEPT !.op = "report", !.next = 1]
<1>1. [Idle EXCEPT !.op = "report", !.next = 1] \in Task
  BY NewTask DEF Op
<1>. QED BY <1>1, Leaving

LEMMA EpochIs ==
  ASSUME Types, Stages, Queue, BufferAnswers, NEW k, k = Head(calls),
         Command(task[k]) = "epoch", task[k].next < Len(Commands(task[k].op)), task[k].next < 8, AtEpoch(task[k])
  PROVE  Reading(k) \/ Failing(k) \/ TurningBack(k)
<1> DEFINE t == task[k]
           u == Learnt(t, stream')
<1>1. t \in Task /\ Answered(k, u) /\ k \in Conn
  BY Answering
<1>2. stream' = stream /\ epochs' = epochs
  BY Unchanging DEF SameStreamAs
<1>3. /\ u \in Task /\ u.epoch = stream.epoch /\ u.op = t.op /\ u.next = t.next /\ u.msg = t.msg
      /\ u.cursor = t.cursor /\ u.seq = t.seq /\ u.list = t.list
  BY <1>1, <1>2, LearntEpoch DEF Types
<1>4. Command(u) = "epoch"
  BY <1>3, SameCommand
<1>. HIDE DEF u
<1>5. CASE ~EndsEarly(u)
  <2>1. stream.epoch # 0 /\ (t.op = "replay" => stream.epoch = t.cursor.epoch)
    BY <1>3, <1>4, <1>5 DEF EndsEarly, SameStream
  <2>2. /\ Turn(k) /\ GoesOn(k) /\ wire' = wire
        /\ task'[k].msg = u.msg /\ task'[k].cursor = u.cursor /\ task'[k].epoch = u.epoch
        /\ task'[k].seq = u.seq /\ task'[k].list = u.list
    BY <1>3, <1>5, GoingOn DEF u
  <2>. QED BY <1>2, <1>3, <2>1, <2>2 DEF Reading, KeepsRest, KeepsSeq, KeepsList, SameStreamAs
<1>6. CASE EndsEarly(u) /\ u.epoch = 0
  <2>1. Ends(k) /\ wire' = wire
    BY <1>1, <1>6 DEF Answered
  <2>2. Turn(k) /\ task'[k] = Idle
    BY <2>1, IdleTasks, Leaving DEF Ends
  <2>. QED BY <1>2, <1>3, <1>6, <2>1, <2>2 DEF Failing, Ends, SameStreamAs
<1>7. CASE EndsEarly(u) /\ u.epoch # 0
  <2>1. NeedsSnapshot(k) /\ wire' = wire
    BY <1>1, <1>7 DEF Answered
  <2>2. Turn(k) /\ task'[k] = [Idle EXCEPT !.op = "snapshot"]
    BY <2>1, LeavesSnapshot DEF NeedsSnapshot
  <2>3. t.op = "replay"
    BY <1>3, <1>7 DEF EndsEarly
  <2>. QED BY <1>2, <2>1, <2>2, <2>3 DEF TurningBack, NeedsSnapshot, SameStreamAs
<1>. QED BY <1>5, <1>6, <1>7

LEMMA IncrIs ==
  ASSUME Types, Stages, Queue, BufferAnswers, NEW k, k = Head(calls),
         Command(task[k]) = "incr", task[k].next < Len(Commands(task[k].op)), task[k].op = "chat", task[k].next = 3
  PROVE  Numbering(k)
<1> DEFINE t == task[k]
           u == Learnt(t, stream')
<1>1. /\ t \in Task /\ stream' = Executed(stream, t)
      /\ epochs' = IF stream'.epoch > epochs THEN epochs + 1 ELSE epochs
  BY Answering
<1>2. stream' = [stream EXCEPT !.seq = @ + 1]
  BY <1>1 DEF Executed
<1>3. /\ stream' \in Stream /\ stream'.epoch = stream.epoch /\ stream'.events = stream.events
      /\ stream'.seq = stream.seq + 1
  <2>1. stream \in Stream /\ stream.seq + 1 \in Nat
    BY DEF Types, Stream
  <2>2. [stream EXCEPT !.seq = @ + 1] \in Stream
    BY <2>1 DEF Stream
  <2>. QED BY <1>2, <2>1, <2>2 DEF Stream
<1>4. epochs' = epochs
  BY <1>1, <1>3 DEF Types, Stream
<1>5. /\ u \in Task /\ u.seq = stream.seq + 1 /\ u.op = t.op /\ u.next = t.next /\ u.msg = t.msg
      /\ u.cursor = t.cursor /\ u.epoch = t.epoch /\ u.list = t.list
  BY <1>1, <1>3, LearntSeq
<1>6. Command(u) = "incr"
  BY <1>5, SameCommand
<1>. HIDE DEF u
<1>7. ~EndsEarly(u)
  BY <1>6 DEF EndsEarly
<1>8. /\ Turn(k) /\ GoesOn(k) /\ wire' = wire
      /\ task'[k].msg = u.msg /\ task'[k].cursor = u.cursor /\ task'[k].epoch = u.epoch
      /\ task'[k].seq = u.seq /\ task'[k].list = u.list
  BY <1>5, <1>7, GoingOn DEF u
<1>. QED BY <1>3, <1>4, <1>5, <1>8 DEF Numbering, KeepsRest, KeepsEpoch, KeepsList

\* Commands of append that tell it nothing.
LEMMA Silent ==
  ASSUME Types, Stages, Queue, BufferAnswers, NEW k, k = Head(calls),
         Command(task[k]) \in {"push", "trim", "expire"}, task[k].next < Len(Commands(task[k].op)), task[k].next < 8
  PROVE  /\ Turn(k) /\ GoesOn(k) /\ wire' = wire
         /\ KeepsRest(k) /\ KeepsEpoch(k) /\ KeepsSeq(k) /\ KeepsList(k)
<1>1. task[k] \in Task
  BY Answering
<1>2. Learnt(task[k], stream') = task[k] /\ ~EndsEarly(task[k])
  BY DEF Learnt, EndsEarly
<1>. QED BY <1>1, <1>2, GoingOn DEF KeepsRest, KeepsEpoch, KeepsSeq, KeepsList

LEMMA PushIs ==
  ASSUME Types, Stages, Queue, BufferAnswers, NEW k, k = Head(calls),
         Command(task[k]) = "push", task[k].next < Len(Commands(task[k].op)), task[k].op = "chat", task[k].next = 4
  PROVE  Pushing(k)
<1>1. /\ stream' = Executed(stream, task[k])
      /\ epochs' = IF stream'.epoch > epochs THEN epochs + 1 ELSE epochs
  BY Answering
<1>2. stream' = [stream EXCEPT !.events = Append(@, [msg |-> task[k].msg, seq |-> task[k].seq])]
  BY <1>1 DEF Executed
<1>3. /\ stream'.epoch = stream.epoch /\ stream'.seq = stream.seq
      /\ stream'.events = Append(stream.events, [msg |-> task[k].msg, seq |-> task[k].seq])
  BY <1>2 DEF Types, Stream
<1>4. epochs' = epochs
  BY <1>1, <1>3 DEF Types, Stream
<1>5. stream' \in Stream
  <2>1. [msg |-> task[k].msg, seq |-> task[k].seq] \in Event
    <3>1. task[k] \in Task /\ InStage(task[k])
      BY Answering DEF Stages
    <3>. QED BY <3>1, TaskFields DEF InStage, Event
  <2>2. stream \in Stream /\ Append(stream.events, [msg |-> task[k].msg, seq |-> task[k].seq]) \in Seq(Event)
    BY <2>1, AppendProperties DEF Types, Stream
  <2>. QED BY <1>2, <2>2 DEF Stream
<1>. QED BY <1>3, <1>4, <1>5, Silent DEF Pushing

LEMMA TrimIs ==
  ASSUME Types, Stages, Queue, BufferAnswers, NEW k, k = Head(calls),
         Command(task[k]) = "trim", task[k].next < Len(Commands(task[k].op)), task[k].op = "chat", task[k].next = 5
  PROVE  Trimming(k)
<1>1. /\ stream' = Executed(stream, task[k])
      /\ epochs' = IF stream'.epoch > epochs THEN epochs + 1 ELSE epochs
  BY Answering
<1>2. stream' = [stream EXCEPT !.events = Trimmed(@)]
  BY <1>1 DEF Executed
<1>3. stream'.epoch = stream.epoch /\ stream'.seq = stream.seq /\ stream'.events = Trimmed(stream.events)
  BY <1>2 DEF Types, Stream
<1>4. epochs' = epochs
  BY <1>1, <1>3 DEF Types, Stream
<1>5. stream' \in Stream
  <2>1. stream \in Stream /\ Trimmed(stream.events) \in Seq(Event)
    BY TrimmedIs DEF Types, Stream
  <2>. QED BY <1>2, <2>1 DEF Stream
<1>. QED BY <1>3, <1>4, <1>5, Silent DEF Trimming

LEMMA ListIs ==
  ASSUME Types, Stages, Queue, BufferAnswers, NEW k, k = Head(calls),
         Command(task[k]) = "list", task[k].next < Len(Commands(task[k].op)), task[k].next < 8, AtList(task[k])
  PROVE  Listing(k)
<1> DEFINE t == task[k]
           u == Learnt(t, stream')
<1>1. t \in Task
  BY Answering
<1>2. stream' = stream /\ epochs' = epochs
  BY Unchanging DEF SameStreamAs
<1>3. /\ u \in Task /\ u.list = InOrder(stream.events) /\ u.op = t.op /\ u.next = t.next /\ u.msg = t.msg
      /\ u.cursor = t.cursor /\ u.epoch = t.epoch /\ u.seq = t.seq
  BY <1>1, <1>2, LearntList DEF Types
<1>4. Command(u) = "list"
  BY <1>3, SameCommand
<1>. HIDE DEF u
<1>5. ~EndsEarly(u)
  BY <1>4 DEF EndsEarly
<1>6. /\ Turn(k) /\ GoesOn(k) /\ wire' = wire
      /\ task'[k].msg = u.msg /\ task'[k].cursor = u.cursor /\ task'[k].epoch = u.epoch
      /\ task'[k].seq = u.seq /\ task'[k].list = u.list
  BY <1>3, <1>5, GoingOn DEF u
<1>. QED BY <1>2, <1>3, <1>6 DEF Listing, KeepsRest, KeepsEpoch, KeepsSeq, SameStreamAs

LEMMA RenewIs ==
  ASSUME Types, Stages, Queue, BufferAnswers, NEW k, k = Head(calls),
         Command(task[k]) = "expire", task[k].next < Len(Commands(task[k].op)), task[k].op = "chat", task[k].next \in 6..7
  PROVE  Renewing(k)
<1>1. task[k].next < 8
  OBVIOUS
<1>2. SameStreamAs
  BY Unchanging
<1>. QED BY <1>1, <1>2, Silent DEF Renewing

LEMMA TellIs ==
  ASSUME Types, Stages, Queue, BufferAnswers, NEW k, k = Head(calls),
         Command(task[k]) = "expire", task[k].next = Len(Commands(task[k].op)), task[k].op = "chat", task[k].next = 8
  PROVE  Telling(k)
<1> DEFINE t == task[k]
<1>1. Answered(k, Learnt(t, stream')) /\ k \in Conn
  BY Answering
<1>2. Learnt(t, stream') = t /\ ~EndsEarly(t)
  BY DEF Learnt, EndsEarly
<1>3. Finished(k, t)
  BY <1>1, <1>2 DEF Answered
<1>4. Broadcast([msg |-> t.msg, seq |-> t.seq]) /\ Ends(k)
  BY <1>3 DEF Finished
<1>5. Turn(k) /\ task'[k] = Idle
  BY <1>4, IdleTasks, Leaving DEF Ends
<1>. QED BY <1>4, <1>5, Unchanging DEF Telling, Ends

\* The answer to the last command of a read.
LEMMA SeqIs ==
  ASSUME Types, Stages, Queue, BufferAnswers, NEW k, k = Head(calls),
         Command(task[k]) = "seq", task[k].next = Len(Commands(task[k].op))
  PROVE  LET u == [task[k] EXCEPT !.seq = stream.seq] IN
         /\ Finished(k, u) /\ SameStreamAs /\ k \in Conn
         /\ u \in Task /\ u.seq = stream.seq /\ u.op = task[k].op /\ u.cursor = task[k].cursor
         /\ u.epoch = task[k].epoch /\ u.list = task[k].list
<1> DEFINE t == task[k]
           u == Learnt(t, stream')
<1>1. t \in Task /\ Answered(k, u) /\ k \in Conn
  BY Answering
<1>2. stream' = stream /\ epochs' = epochs
  BY Unchanging DEF SameStreamAs
<1>3. /\ u = [t EXCEPT !.seq = stream.seq]
      /\ u \in Task /\ u.seq = stream.seq /\ u.op = t.op /\ u.next = t.next /\ u.msg = t.msg
      /\ u.cursor = t.cursor /\ u.epoch = t.epoch /\ u.list = t.list
  BY <1>1, <1>2, LearntSeq, ZenonT(60) DEF Types
<1>4. Command(u) = "seq"
  BY <1>3, SameCommand
<1>. HIDE DEF u
<1>5. ~EndsEarly(u) /\ u.next = Len(Commands(u.op)) /\ ~(u.next < Len(Commands(u.op)))
  BY <1>1, <1>3, <1>4, TaskFields DEF EndsEarly
<1>6. Finished(k, u)
  BY <1>1, <1>5 DEF Answered
<1>. QED BY <1>1, <1>2, <1>3, <1>6 DEF SameStreamAs

LEMMA ShowIs ==
  ASSUME Types, Stages, Queue, BufferAnswers, NEW k, k = Head(calls),
         Command(task[k]) = "seq", task[k].next = Len(Commands(task[k].op)), task[k].op = "snapshot", task[k].next = 4
  PROVE  Showing(k)
<1> DEFINE u == [task[k] EXCEPT !.seq = stream.seq]
<1>1. Finished(k, u) /\ SameStreamAs /\ k \in Conn /\ u.op = "snapshot"
  BY SeqIs
<1>. HIDE DEF u
<1>2. Send(k, <<SnapshotFrame(u)>>) /\ Ends(k)
  BY <1>1 DEF Finished
<1>3. Turn(k) /\ task'[k] = Idle
  BY <1>2, IdleTasks, Leaving DEF Ends
<1>. QED BY <1>1, <1>2, <1>3 DEF Showing, Ends, u

LEMMA ReportIs ==
  ASSUME Types, Stages, Queue, BufferAnswers, NEW k, k = Head(calls),
         Command(task[k]) = "seq", task[k].next = Len(Commands(task[k].op)), task[k].op = "report", task[k].next = 3
  PROVE  Resuming(k)
<1> DEFINE u == [task[k] EXCEPT !.seq = stream.seq]
<1>1. Finished(k, u) /\ SameStreamAs /\ k \in Conn /\ u.op = "report"
  BY SeqIs
<1>. HIDE DEF u
<1>2. Send(k, <<ResumedFrame(u)>>) /\ Ends(k)
  BY <1>1 DEF Finished
<1>3. Turn(k) /\ task'[k] = Idle
  BY <1>2, IdleTasks, Leaving DEF Ends
<1>. QED BY <1>1, <1>2, <1>3 DEF Resuming, Ends, u

LEMMA ReplayIs ==
  ASSUME Types, Stages, Queue, BufferAnswers, NEW k, k = Head(calls),
         Command(task[k]) = "seq", task[k].next = Len(Commands(task[k].op)), task[k].op = "replay", task[k].next = 4
  PROVE  Replaying(k) \/ TurningBack(k)
<1> DEFINE u == [task[k] EXCEPT !.seq = stream.seq]
<1>1. Finished(k, u) /\ SameStreamAs /\ k \in Conn
  BY SeqIs
<1>2. u \in Task /\ u.op = "replay" /\ u.seq = stream.seq /\ u.cursor = task[k].cursor
  BY SeqIs
<1>3. stream.seq \in Nat /\ u.cursor.seq \in Nat
  BY <1>2, TaskFields DEF Types, Stream, Cursor
<1>. DEFINE G == Send(k, [i \in DOMAIN Gap(u) |-> ChatFrame(Gap(u)[i])])
<1>4. CASE Replayable(u)
  <2>. HIDE DEF u
  <2>1. G /\ AsksOn(k, [Idle EXCEPT !.op = "report", !.next = 1])
    BY <1>1, <1>2, <1>4 DEF Finished
  <2>2. stream.seq >= task[k].cursor.seq
    BY <1>2, <1>3, <1>4 DEF Replayable
  <2>3. Turn(k) /\ task'[k] = [Idle EXCEPT !.op = "report", !.next = 1]
    BY <2>1, LeavesReport DEF AsksOn
  <2>. QED BY <1>1, <2>1, <2>2, <2>3 DEF Replaying, AsksOn, u
<1>5. CASE ~Replayable(u)
  <2>. HIDE DEF u
  <2>1. NeedsSnapshot(k) /\ wire' = wire
    BY <1>1, <1>2, <1>5 DEF Finished
  <2>2. Turn(k) /\ task'[k] = [Idle EXCEPT !.op = "snapshot"]
    BY <2>1, LeavesSnapshot DEF NeedsSnapshot
  <2>. QED BY <1>1, <2>1, <2>2 DEF TurningBack, NeedsSnapshot
<1>. QED BY <1>4, <1>5

\* Every answer is of one of the kinds.
LEMMA Kinds ==
  ASSUME Types, Stages, Queue, BufferAnswers, NEW k, k = Head(calls)
  PROVE  AnyAnswer(k)
<1> DEFINE t == task[k]
<1>1. k \in Conn /\ t \in Task /\ t.next # 0
  BY Answering
<1>2. t.op \in Op /\ t.next \in 1..8 /\ InStage(t)
  BY <1>1, TaskFields DEF Stages
<1>3. CASE t.op = "chat"
  <2>1. /\ Len(Commands(t.op)) = 8 /\ (t.next = 1 => Command(t) = "touch") /\ (t.next = 2 => Command(t) = "epoch")
        /\ (t.next = 3 => Command(t) = "incr") /\ (t.next = 4 => Command(t) = "push")
        /\ (t.next = 5 => Command(t) = "trim") /\ (t.next \in 6..8 => Command(t) = "expire")
    BY <1>3, ChatPlaces
  <2>2. CASE t.next = 1
    <3>1. Command(t) = "touch" /\ t.next < Len(Commands(t.op)) /\ t.next < 8
      BY <2>1, <2>2
    <3>2. AtTouch(t)
      BY <1>3, <2>2 DEF AtTouch
    <3>. QED BY <3>1, <3>2, TouchIs DEF AnyAnswer
  <2>3. CASE t.next = 2
    <3>1. Command(t) = "epoch" /\ t.next < Len(Commands(t.op)) /\ t.next < 8
      BY <2>1, <2>3
    <3>2. AtEpoch(t)
      BY <1>3, <2>3 DEF AtEpoch
    <3>. QED BY <3>1, <3>2, EpochIs DEF AnyAnswer
  <2>4. CASE t.next = 3
    <3>1. Command(t) = "incr" /\ t.next < Len(Commands(t.op))
      BY <2>1, <2>4
    <3>2. t.op = "chat" /\ t.next = 3
      BY <1>3, <2>4
    <3>. QED BY <3>1, <3>2, IncrIs DEF AnyAnswer
  <2>5. CASE t.next = 4
    <3>1. Command(t) = "push" /\ t.next < Len(Commands(t.op))
      BY <2>1, <2>5
    <3>2. t.op = "chat" /\ t.next = 4
      BY <1>3, <2>5
    <3>. QED BY <3>1, <3>2, PushIs DEF AnyAnswer
  <2>6. CASE t.next = 5
    <3>1. Command(t) = "trim" /\ t.next < Len(Commands(t.op))
      BY <2>1, <2>6
    <3>2. t.op = "chat" /\ t.next = 5
      BY <1>3, <2>6
    <3>. QED BY <3>1, <3>2, TrimIs DEF AnyAnswer
  <2>7. CASE t.next \in 6..7
    <3>1. Command(t) = "expire" /\ t.next < Len(Commands(t.op))
      BY <2>1, <2>7
    <3>2. t.op = "chat" /\ t.next \in 6..7
      BY <1>3, <2>7
    <3>. QED BY <3>1, <3>2, RenewIs DEF AnyAnswer
  <2>8. CASE t.next = 8
    <3>1. Command(t) = "expire" /\ t.next = Len(Commands(t.op))
      BY <2>1, <2>8
    <3>2. t.op = "chat" /\ t.next = 8
      BY <1>3, <2>8
    <3>. QED BY <3>1, <3>2, TellIs DEF AnyAnswer
  <2>9. t.next = 1 \/ t.next = 2 \/ t.next = 3 \/ t.next = 4 \/ t.next = 5 \/ t.next \in 6..7 \/ t.next = 8
    BY <1>2
  <2>. QED BY <1>1, <2>2, <2>3, <2>4, <2>5, <2>6, <2>7, <2>8, <2>9
<1>4. CASE t.op = "replay"
  <2>1. /\ Len(Commands(t.op)) = 4 /\ (t.next = 1 => Command(t) = "touch") /\ (t.next = 2 => Command(t) = "epoch")
        /\ (t.next = 3 => Command(t) = "list") /\ (t.next = 4 => Command(t) = "seq")
    BY <1>4, ReplayPlaces
  <2>2. CASE t.next = 1
    <3>1. Command(t) = "touch" /\ t.next < Len(Commands(t.op)) /\ t.next < 8
      BY <2>1, <2>2
    <3>2. AtTouch(t)
      BY <1>4, <2>2 DEF AtTouch
    <3>. QED BY <3>1, <3>2, TouchIs DEF AnyAnswer
  <2>3. CASE t.next = 2
    <3>1. Command(t) = "epoch" /\ t.next < Len(Commands(t.op)) /\ t.next < 8
      BY <2>1, <2>3
    <3>2. AtEpoch(t)
      BY <1>4, <2>3 DEF AtEpoch
    <3>. QED BY <3>1, <3>2, EpochIs DEF AnyAnswer
  <2>4. CASE t.next = 3
    <3>1. Command(t) = "list" /\ t.next < Len(Commands(t.op)) /\ t.next < 8
      BY <2>1, <2>4
    <3>2. AtList(t)
      BY <1>4, <2>4 DEF AtList
    <3>. QED BY <3>1, <3>2, ListIs DEF AnyAnswer
  <2>5. CASE t.next = 4
    BY <1>4, <2>1, <2>5, ReplayIs DEF AnyAnswer
  <2>6. t.next = 1 \/ t.next = 2 \/ t.next = 3 \/ t.next = 4
    BY <1>2, <1>4 DEF InStage
  <2>. QED BY <1>1, <2>2, <2>3, <2>4, <2>5, <2>6
<1>5. CASE t.op = "report"
  <2>1. /\ Len(Commands(t.op)) = 3 /\ (t.next = 1 => Command(t) = "touch") /\ (t.next = 2 => Command(t) = "epoch")
        /\ (t.next = 3 => Command(t) = "seq")
    BY <1>5, ReportPlaces
  <2>2. CASE t.next = 1
    <3>1. Command(t) = "touch" /\ t.next < Len(Commands(t.op)) /\ t.next < 8
      BY <2>1, <2>2
    <3>2. AtTouch(t)
      BY <1>5, <2>2 DEF AtTouch
    <3>. QED BY <3>1, <3>2, TouchIs DEF AnyAnswer
  <2>3. CASE t.next = 2
    <3>1. Command(t) = "epoch" /\ t.next < Len(Commands(t.op)) /\ t.next < 8
      BY <2>1, <2>3
    <3>2. AtEpoch(t)
      BY <1>5, <2>3 DEF AtEpoch
    <3>. QED BY <3>1, <3>2, EpochIs DEF AnyAnswer
  <2>4. CASE t.next = 3
    BY <1>5, <2>1, <2>4, ReportIs DEF AnyAnswer
  <2>5. t.next = 1 \/ t.next = 2 \/ t.next = 3
    BY <1>2, <1>5 DEF InStage
  <2>. QED BY <1>1, <2>2, <2>3, <2>4, <2>5
<1>6. CASE t.op = "snapshot"
  <2>1. /\ Len(Commands(t.op)) = 4 /\ (t.next = 1 => Command(t) = "list") /\ (t.next = 2 => Command(t) = "touch")
        /\ (t.next = 3 => Command(t) = "epoch") /\ (t.next = 4 => Command(t) = "seq")
    BY <1>6, SnapshotPlaces
  <2>2. CASE t.next = 1
    <3>1. Command(t) = "list" /\ t.next < Len(Commands(t.op)) /\ t.next < 8
      BY <2>1, <2>2
    <3>2. AtList(t)
      BY <1>6, <2>2 DEF AtList
    <3>. QED BY <3>1, <3>2, ListIs DEF AnyAnswer
  <2>3. CASE t.next = 2
    <3>1. Command(t) = "touch" /\ t.next < Len(Commands(t.op)) /\ t.next < 8
      BY <2>1, <2>3
    <3>2. AtTouch(t)
      BY <1>6, <2>3 DEF AtTouch
    <3>. QED BY <3>1, <3>2, TouchIs DEF AnyAnswer
  <2>4. CASE t.next = 3
    <3>1. Command(t) = "epoch" /\ t.next < Len(Commands(t.op)) /\ t.next < 8
      BY <2>1, <2>4
    <3>2. AtEpoch(t)
      BY <1>6, <2>4 DEF AtEpoch
    <3>. QED BY <3>1, <3>2, EpochIs DEF AnyAnswer
  <2>5. CASE t.next = 4
    BY <1>6, <2>1, <2>5, ShowIs DEF AnyAnswer
  <2>6. t.next = 1 \/ t.next = 2 \/ t.next = 3 \/ t.next = 4
    BY <1>2, <1>6 DEF InStage
  <2>. QED BY <1>1, <2>2, <2>3, <2>4, <2>5, <2>6
<1>7. ~(t.op \in {"idle", "resume"})
  BY <1>2 DEF InStage
<1>. QED BY <1>2, <1>3, <1>4, <1>5, <1>6, <1>7 DEF Op

-----------------------------------------------------------------------------
(* What the other actions do, variable by variable.                        *)

Mine(k) == task' \in [Conn -> Task] /\ \A j \in Conn : j # k => task'[j] = task[j]
Joined(k) == conn' \in [Conn -> Link] /\ \A j \in Conn : j # k => conn'[j] = conn[j]
Meant(c) == client' \in [Client -> Session] /\ \A d \in Client : d # c => client'[d] = client[d]
KeepsAll(k) == KeepsRest(k) /\ KeepsEpoch(k) /\ KeepsSeq(k) /\ KeepsList(k)

Receiving(k) ==
  /\ MayRun /\ task[k] = Idle /\ Mine(k) /\ Joined(k)
  /\ conn[k].inbox # <<>> /\ conn'[k].inbox = Tail(conn[k].inbox)
  /\ conn'[k].open = conn[k].open /\ conn'[k].subscribed = conn[k].subscribed
  /\ \/ ~conn[k].subscribed /\ task'[k] = Idle
     \/ conn[k].subscribed /\ task'[k] = Chatting(Head(conn[k].inbox))
  /\ SameStreamAs /\ calls' = calls /\ wire' = wire /\ client' = client
  /\ shared' = shared /\ said' = said /\ mishaps' = mishaps /\ torn' = torn

Admitting(k) ==
  /\ MayRun /\ task[k].op = "resume" /\ task[k].next = 0 /\ Mine(k) /\ Joined(k) /\ KeepsAll(k)
  /\ conn'[k].inbox = conn[k].inbox /\ conn'[k].open = conn[k].open /\ conn'[k].subscribed
  /\ \/ task[k].cursor = NoCursor /\ task'[k].op = "snapshot" /\ task'[k].next = 0 /\ calls' = calls
     \/ task[k].cursor # NoCursor /\ task'[k].op = "replay" /\ task'[k].next = 1 /\ calls' = Append(calls, k)
  /\ SameStreamAs /\ wire' = wire /\ client' = client
  /\ shared' = shared /\ said' = said /\ mishaps' = mishaps /\ torn' = torn

Asking(k) ==
  /\ MayRun /\ task[k].op \in {"snapshot", "chat"} /\ task[k].next = 0 /\ Mine(k) /\ KeepsAll(k)
  /\ task'[k].op = task[k].op /\ task'[k].next = 1 /\ calls' = Append(calls, k)
  /\ SameStreamAs /\ conn' = conn /\ wire' = wire /\ client' = client
  /\ shared' = shared /\ said' = said /\ mishaps' = mishaps /\ torn' = torn

Aging ==
  /\ MayRun /\ stream.events # <<>> /\ stream'.events = Tail(stream.events)
  /\ stream'.epoch = stream.epoch /\ stream'.seq = stream.seq /\ stream' \in Stream /\ epochs' = epochs
  /\ conn' = conn /\ task' = task /\ calls' = calls /\ wire' = wire /\ client' = client
  /\ shared' = shared /\ said' = said /\ torn' = torn /\ mishaps' = mishaps + 1

Connecting(c, k) ==
  /\ MayRun /\ client[c].conn = NoConn /\ Mine(k) /\ Joined(k) /\ Meant(c)
  /\ ~conn[k].open /\ conn[k].inbox = <<>> /\ task[k] = Idle
  /\ conn'[k].open /\ ~conn'[k].subscribed /\ conn'[k].inbox = <<>>
  /\ task'[k] = [Idle EXCEPT !.op = "resume", !.cursor = client[c].cursor]
  /\ client'[c].conn = k /\ ~client'[c].answered /\ ~client'[c].moved
  /\ client'[c].cursor = client[c].cursor /\ client'[c].seen = client[c].seen
  /\ client'[c].older = client[c].older /\ client'[c].twice = client[c].twice
  /\ SameStreamAs /\ calls' = calls /\ wire' = wire
  /\ shared' = shared /\ said' = said /\ mishaps' = mishaps /\ torn' = torn

Saying(c) ==
  /\ MayRun /\ client[c].conn # NoConn /\ said < MaxMessages /\ said' = said + 1 /\ said' \in Message
  /\ Joined(client[c].conn)
  /\ conn'[client[c].conn].inbox = Append(conn[client[c].conn].inbox, said + 1)
  /\ conn'[client[c].conn].open = conn[client[c].conn].open
  /\ conn'[client[c].conn].subscribed = conn[client[c].conn].subscribed
  /\ SameStreamAs /\ task' = task /\ calls' = calls /\ wire' = wire /\ client' = client
  /\ shared' = shared /\ mishaps' = mishaps /\ torn' = torn

Hearing(c) ==
  LET k == client[c].conn f == Head(wire[client[c].conn]) IN
  /\ MayRun /\ k # NoConn /\ k \in Conn /\ wire[k] # <<>> /\ f \in Frame /\ Meant(c)
  /\ wire' \in [Conn -> Seq(Frame)] /\ wire'[k] = Tail(wire[k]) /\ \A j \in Conn : j # k => wire'[j] = wire[j]
  /\ client'[c] = Heard(client[c], f) /\ client'[c].conn = k
  /\ SameStreamAs /\ conn' = conn /\ task' = task /\ calls' = calls
  /\ shared' = shared /\ said' = said /\ mishaps' = mishaps /\ torn' = torn

Dropping(c) ==
  LET k == client[c].conn IN
  /\ MayRun /\ k # NoConn /\ k \in Conn /\ Meant(c) /\ Joined(k)
  /\ client'[c] = [client[c] EXCEPT !.conn = NoConn]
  /\ client'[c].conn = NoConn /\ client'[c].answered = client[c].answered /\ client'[c].moved = client[c].moved
  /\ client'[c].cursor = client[c].cursor /\ client'[c].seen = client[c].seen
  /\ client'[c].older = client[c].older /\ client'[c].twice = client[c].twice
  /\ ~conn'[k].open /\ ~conn'[k].subscribed /\ conn'[k].inbox = conn[k].inbox
  /\ wire' \in [Conn -> Seq(Frame)] /\ wire'[k] = <<>> /\ \A j \in Conn : j # k => wire'[j] = wire[j]
  /\ torn' = (torn \/ Unlucky(c)) /\ torn' \in BOOLEAN
  /\ SameStreamAs /\ task' = task /\ calls' = calls
  /\ shared' = shared /\ said' = said /\ mishaps' = mishaps + 1

Restarting ==
  /\ MayRun
  /\ client' \in [Client -> Session]
  /\ \A c \in Client :
       /\ client'[c].conn = NoConn /\ client'[c].answered = client[c].answered /\ client'[c].moved = client[c].moved
       /\ client'[c].cursor = client[c].cursor /\ client'[c].seen = client[c].seen
       /\ client'[c].older = client[c].older /\ client'[c].twice = client[c].twice
  /\ conn' \in [Conn -> Link]
  /\ \A k \in Conn : ~conn'[k].open /\ ~conn'[k].subscribed /\ conn'[k].inbox = <<>>
  /\ task' \in [Conn -> Task] /\ \A k \in Conn : task'[k] = Idle
  /\ calls' = <<>> /\ wire' \in [Conn -> Seq(Frame)] /\ \A k \in Conn : wire'[k] = <<>>
  /\ stream' = (IF shared THEN stream ELSE NoStream) /\ epochs' = epochs
  /\ torn' = (torn \/ \E c \in Client : Unlucky(c)) /\ torn' \in BOOLEAN
  /\ shared' = shared /\ said' = said /\ mishaps' = mishaps + 1

Flushing ==
  /\ shared /\ stream' = NoStream /\ epochs' = epochs
  /\ torn' = (torn \/ calls # <<>>) /\ torn' \in BOOLEAN
  /\ conn' = conn /\ task' = task /\ calls' = calls /\ wire' = wire /\ client' = client
  /\ shared' = shared /\ said' = said /\ mishaps' = mishaps + 1

Standing ==
  /\ SameStreamAs /\ conn' = conn /\ task' = task /\ calls' = calls /\ wire' = wire /\ client' = client
  /\ shared' = shared /\ said' = said /\ mishaps' = mishaps /\ torn' = torn

LEMMA SessionFields ==
  ASSUME NEW s \in Session
  PROVE  /\ s.conn \in Conn \cup {NoConn} /\ s.answered \in BOOLEAN /\ s.moved \in BOOLEAN /\ s.cursor \in Cursor
         /\ s.seen \in SUBSET Message /\ s.older \in SUBSET Message /\ s.twice \in BOOLEAN
  BY DEF Session

LEMMA LinkFields ==
  ASSUME NEW k \in Conn, Types
  PROVE  conn[k] \in Link /\ conn[k].open \in BOOLEAN /\ conn[k].subscribed \in BOOLEAN /\ conn[k].inbox \in Seq(Message)
  BY DEF Types, Link

LEMMA ReceiveDoes ==
  ASSUME Types, NEW k \in Conn, Receive(k)
  PROVE  Receiving(k)
<1>1. /\ MayRun /\ task[k] = Idle /\ conn[k].inbox # <<>>
      /\ conn' = [conn EXCEPT ![k].inbox = Tail(@)]
      /\ task' = IF conn[k].subscribed THEN [task EXCEPT ![k] = Chatting(Head(conn[k].inbox))] ELSE task
  BY DEF Receive
<1>2. /\ stream' = stream /\ epochs' = epochs /\ calls' = calls /\ wire' = wire /\ client' = client
      /\ shared' = shared /\ said' = said /\ mishaps' = mishaps /\ torn' = torn
  BY DEF Receive, buffer, bounds
<1>3. conn[k] \in Link /\ conn[k].inbox \in Seq(Message)
  BY LinkFields
<1>4. Tail(conn[k].inbox) \in Seq(Message) /\ Head(conn[k].inbox) \in Message
  BY <1>1, <1>3, HeadAndTail
<1>5. Joined(k) /\ conn'[k].inbox = Tail(conn[k].inbox) /\ conn'[k].open = conn[k].open /\ conn'[k].subscribed = conn[k].subscribed
  BY <1>1, <1>3, <1>4 DEF Joined, Types, Link
<1>6. /\ Mine(k)
      /\ \/ ~conn[k].subscribed /\ task'[k] = Idle
         \/ conn[k].subscribed /\ task'[k] = Chatting(Head(conn[k].inbox))
  <2>1. CASE conn[k].subscribed
    <3>1. Chatting(Head(conn[k].inbox)) \in Task
      BY <1>4, ChatTask
    <3>2. task' = [task EXCEPT ![k] = Chatting(Head(conn[k].inbox))]
      BY <1>1, <2>1
    <3>. QED BY <2>1, <3>1, <3>2, TaskChanges DEF Mine, Types
  <2>2. CASE ~conn[k].subscribed
    BY <1>1, <2>2 DEF Mine, Types
  <2>. QED BY <2>1, <2>2
<1>. QED BY <1>1, <1>2, <1>5, <1>6 DEF Receiving, SameStreamAs

LEMMA AskDoes ==
  ASSUME Types, NEW k \in Conn, NEW op \in Op, Ask(k, op)
  PROVE  /\ Mine(k) /\ KeepsAll(k) /\ task'[k].op = op /\ task'[k].next = 1 /\ calls' = Append(calls, k)
<1>1. task' = [task EXCEPT ![k] = [task[k] EXCEPT !.op = op, !.next = 1]] /\ calls' = Append(calls, k)
  <2>1. task' = [task EXCEPT ![k].op = op, ![k].next = 1] /\ calls' = Append(calls, k)
    BY DEF Ask
  <2>. QED BY <2>1 DEF Types, Task
<1>2. task[k] \in Task /\ 1 \in 0..8
  BY DEF Types
<1>. DEFINE u == [task[k] EXCEPT !.op = op, !.next = 1]
<1>3. /\ u \in Task /\ u.op = op /\ u.next = 1 /\ u.msg = task[k].msg /\ u.cursor = task[k].cursor
      /\ u.epoch = task[k].epoch /\ u.seq = task[k].seq /\ u.list = task[k].list
  BY <1>2 DEF Task
<1>. HIDE DEF u
<1>4. task' \in [Conn -> Task] /\ task'[k] = u /\ \A j \in Conn : j # k => task'[j] = task[j]
  BY <1>1, <1>3, TaskChanges DEF u, Types
<1>. QED BY <1>1, <1>3, <1>4 DEF Mine, KeepsAll, KeepsRest, KeepsEpoch, KeepsSeq, KeepsList

LEMMA MembershipDoes ==
  ASSUME Types, NEW k \in Conn, MembershipRead(k)
  PROVE  Admitting(k)
<1>1. /\ MayRun /\ task[k].op = "resume" /\ task[k].next = 0
      /\ conn' = [conn EXCEPT ![k].subscribed = TRUE]
      /\ IF task[k].cursor = NoCursor
         THEN task' = [task EXCEPT ![k].op = "snapshot"] /\ calls' = calls
         ELSE Ask(k, "replay")
  BY DEF MembershipRead, AtStore
<1>2. /\ stream' = stream /\ epochs' = epochs /\ wire' = wire /\ client' = client
      /\ shared' = shared /\ said' = said /\ mishaps' = mishaps /\ torn' = torn
  BY DEF MembershipRead, buffer, bounds
<1>3. Joined(k) /\ conn'[k].inbox = conn[k].inbox /\ conn'[k].open = conn[k].open /\ conn'[k].subscribed
  BY <1>1, LinkFields DEF Joined, Types, Link
<1>4. CASE task[k].cursor = NoCursor
  <2>1. task' = [task EXCEPT ![k].op = "snapshot"] /\ calls' = calls
    BY <1>1, <1>4
  <2>2. task[k] \in Task /\ "snapshot" \in Op
    BY DEF Types, Op
  <2>3. Mine(k) /\ task'[k].op = "snapshot" /\ task'[k].next = 0 /\ KeepsAll(k)
    BY <1>1, <2>1, <2>2 DEF Mine, KeepsAll, KeepsRest, KeepsEpoch, KeepsSeq, KeepsList, Types, Task
  <2>. QED BY <1>1, <1>2, <1>3, <1>4, <2>1, <2>3 DEF Admitting, SameStreamAs
<1>5. CASE task[k].cursor # NoCursor
  <2>1. "replay" \in Op /\ Ask(k, "replay")
    BY <1>1, <1>5 DEF Op
  <2>2. /\ Mine(k) /\ KeepsAll(k) /\ task'[k].op = "replay" /\ task'[k].next = 1 /\ calls' = Append(calls, k)
    BY <2>1, AskDoes
  <2>. QED BY <1>1, <1>2, <1>3, <1>5, <2>2 DEF Admitting, SameStreamAs
<1>. QED BY <1>4, <1>5

LEMMA StoreDoes ==
  ASSUME Types, NEW k \in Conn, RosterRead(k) \/ NameRead(k)
  PROVE  Asking(k)
<1>1. PICK op \in {"snapshot", "chat"} : MayRun /\ AtStore(k, op) /\ Ask(k, op)
  BY DEF RosterRead, NameRead
<1>2. /\ stream' = stream /\ epochs' = epochs /\ conn' = conn /\ wire' = wire /\ client' = client
      /\ shared' = shared /\ said' = said /\ mishaps' = mishaps /\ torn' = torn
  BY DEF RosterRead, NameRead, buffer, bounds
<1>3. op \in Op
  BY DEF Op
<1>4. /\ Mine(k) /\ KeepsAll(k) /\ task'[k].op = op /\ task'[k].next = 1 /\ calls' = Append(calls, k)
  BY <1>1, <1>3, AskDoes
<1>. QED BY <1>1, <1>2, <1>4 DEF Asking, SameStreamAs, AtStore

LEMMA AgesDoes ==
  ASSUME Types, EventAges
  PROVE  Aging
<1>1. MayRun /\ stream.events # <<>> /\ stream' = [stream EXCEPT !.events = Tail(@)] /\ mishaps' = mishaps + 1
  BY DEF EventAges, Mishap
<1>2. /\ epochs' = epochs /\ conn' = conn /\ task' = task /\ calls' = calls /\ wire' = wire /\ client' = client
      /\ shared' = shared /\ said' = said /\ torn' = torn
  BY DEF EventAges, hub
<1>3. stream \in Stream /\ Tail(stream.events) \in Seq(Event)
  BY <1>1, HeadAndTail DEF Types, Stream
<1>4. /\ stream'.events = Tail(stream.events) /\ stream'.epoch = stream.epoch /\ stream'.seq = stream.seq
      /\ stream' \in Stream
  BY <1>1, <1>3 DEF Stream
<1>. QED BY <1>1, <1>2, <1>4 DEF Aging

LEMMA SessionCut ==
  ASSUME NEW s \in Session
  PROVE  LET u == [s EXCEPT !.conn = NoConn] IN
         /\ u \in Session /\ u.conn = NoConn /\ u.answered = s.answered /\ u.moved = s.moved /\ u.cursor = s.cursor
         /\ u.seen = s.seen /\ u.older = s.older /\ u.twice = s.twice
  BY DEF Session

LEMMA ClientChanges ==
  ASSUME client \in [Client -> Session], NEW c \in Client, NEW u \in Session, client' = [client EXCEPT ![c] = u]
  PROVE  Meant(c) /\ client'[c] = u
  BY DEF Meant

LEMMA Opened ==
  LET w == [Closed EXCEPT !.open = TRUE] IN w \in Link /\ w.open /\ ~w.subscribed /\ w.inbox = <<>>
<1>1. <<>> \in Seq(Message)
  BY EmptySeq
<1>. QED BY <1>1 DEF Closed, Link

LEMMA ConnectDoes ==
  ASSUME Types, NEW c \in Client, Connect(c)
  PROVE  \E k \in Conn : Connecting(c, k)
<1>1. PICK k \in Conn :
        /\ Free(k) /\ conn' = [conn EXCEPT ![k] = [Closed EXCEPT !.open = TRUE]]
        /\ task' = [task EXCEPT ![k] = [Idle EXCEPT !.op = "resume", !.cursor = client[c].cursor]]
        /\ client' = [client EXCEPT ![c].conn = k, ![c].answered = FALSE, ![c].moved = FALSE]
  BY DEF Connect
<1>2. /\ MayRun /\ client[c].conn = NoConn /\ stream' = stream /\ epochs' = epochs /\ calls' = calls /\ wire' = wire
      /\ shared' = shared /\ said' = said /\ mishaps' = mishaps /\ torn' = torn
  BY DEF Connect, buffer, bounds
<1>3. client[c] \in Session /\ client[c].cursor \in Cursor
  BY SessionFields DEF Types
<1>4. Joined(k) /\ conn'[k].open /\ ~conn'[k].subscribed /\ conn'[k].inbox = <<>>
  BY <1>1, Opened DEF Joined, Types
<1>. DEFINE t == [Idle EXCEPT !.op = "resume", !.cursor = client[c].cursor]
<1>5. t \in Task
  BY <1>3, ResumeTask
<1>6. Mine(k) /\ task'[k] = t
  <2>. HIDE DEF t
  <2>1. task' = [task EXCEPT ![k] = t]
    BY <1>1 DEF t
  <2>. QED BY <1>5, <2>1, TaskChanges DEF Mine, Types
<1>. DEFINE u == [client[c] EXCEPT !.conn = k, !.answered = FALSE, !.moved = FALSE]
<1>7. /\ u \in Session /\ u.conn = k /\ ~u.answered /\ ~u.moved /\ u.cursor = client[c].cursor /\ u.seen = client[c].seen
      /\ u.older = client[c].older /\ u.twice = client[c].twice
  BY <1>3 DEF Session
<1>8. client' = [client EXCEPT ![c] = u]
  BY <1>1, <1>3 DEF Types, Session
<1>9. Meant(c) /\ client'[c] = u
  <2>. HIDE DEF u
  <2>. QED BY <1>7, <1>8, ClientChanges DEF Types
<1>10. Connecting(c, k)
  <2>. HIDE DEF u
  <2>. QED BY <1>1, <1>2, <1>4, <1>6, <1>7, <1>9 DEF Connecting, Free, SameStreamAs
<1>. QED BY <1>10

LEMMA SayDoes ==
  ASSUME Types, NEW c \in Client, Say(c)
  PROVE  Saying(c)
<1>1. /\ MayRun /\ client[c].conn # NoConn /\ said < MaxMessages /\ said' = said + 1
      /\ conn' = [conn EXCEPT ![client[c].conn].inbox = Append(@, said')]
      /\ stream' = stream /\ epochs' = epochs /\ task' = task /\ calls' = calls /\ wire' = wire /\ client' = client
      /\ shared' = shared /\ mishaps' = mishaps /\ torn' = torn
  BY DEF Say, buffer
<1>2. said' \in Message
  BY <1>1, SyncAssumption DEF Types, Message
<1>3. client[c].conn \in Conn
  BY <1>1, SessionFields DEF Types
<1>. DEFINE k == client[c].conn
<1>4. conn[k] \in Link /\ conn[k].inbox \in Seq(Message) /\ Append(conn[k].inbox, said') \in Seq(Message)
  BY <1>2, <1>3, LinkFields, AppendProperties
<1>5. Joined(k) /\ conn'[k].inbox = Append(conn[k].inbox, said') /\ conn'[k].open = conn[k].open /\ conn'[k].subscribed = conn[k].subscribed
  <2>. HIDE DEF k
  <2>1. conn' = [conn EXCEPT ![k].inbox = Append(@, said')] /\ k \in Conn
    BY <1>1, <1>3 DEF k
  <2>. QED BY <1>4, <2>1 DEF Joined, Types, Link
<1>. QED BY <1>1, <1>2, <1>5 DEF Saying, SameStreamAs

LEMMA FrameKinds ==
  ASSUME NEW f \in Frame
  PROVE  \/ f.t = "chat.message" /\ f.msg \in Message /\ f.seq \in Nat
         \/ f.t = "resumed" /\ f.epoch \in Nat /\ f.seq \in Nat
         \/ /\ f.t = "snapshot" /\ f.epoch \in Nat /\ f.seq \in Nat
            /\ f.recent \in SUBSET Message /\ f.older \in SUBSET Message
  BY DEF Frame

LEMMA CursorMoves ==
  ASSUME NEW cursor \in Cursor, NEW seq \in Nat
  PROVE  /\ CursorAfter(cursor, seq) \in Cursor
         /\ CursorAfter(cursor, seq).epoch = cursor.epoch
         /\ CursorAfter(cursor, seq).seq = IF cursor # NoCursor /\ seq > cursor.seq THEN seq ELSE cursor.seq
         /\ CursorAfter(cursor, seq).seq >= cursor.seq
  BY DEF CursorAfter, Cursor

\* What hearing a frame does, kind by kind.
LEMMA HeardChat ==
  ASSUME NEW s \in Session, NEW f, f.t = "chat.message", f.msg \in Message, f.seq \in Nat
  PROVE  LET u == Heard(s, f) IN
         /\ u \in Session /\ u.conn = s.conn /\ u.answered = s.answered /\ u.cursor = CursorAfter(s.cursor, f.seq)
         /\ u.seen = s.seen \cup {f.msg} /\ u.older = s.older /\ (u.twice <=> s.twice \/ f.msg \in s.seen)
         /\ (u.moved <=> s.moved \/ (~s.answered /\ CursorAfter(s.cursor, f.seq) # s.cursor))
<1>1. CursorAfter(s.cursor, f.seq) \in Cursor /\ s.seen \cup {f.msg} \in SUBSET Message
  BY SessionFields, CursorMoves
<1>2. Heard(s, f) = [s EXCEPT !.cursor = CursorAfter(s.cursor, f.seq), !.seen = s.seen \cup {f.msg},
                              !.twice = s.twice \/ f.msg \in s.seen,
                              !.moved = s.moved \/ (~s.answered /\ CursorAfter(s.cursor, f.seq) # s.cursor)]
  BY DEF Heard
<1>. DEFINE cursor == CursorAfter(s.cursor, f.seq)
            seen == s.seen \cup {f.msg}
            twice == s.twice \/ f.msg \in s.seen
            moved == s.moved \/ (~s.answered /\ CursorAfter(s.cursor, f.seq) # s.cursor)
<1>3. twice \in BOOLEAN /\ moved \in BOOLEAN
  OBVIOUS
<1>. HIDE DEF cursor, seen, twice, moved
<1>4. Heard(s, f) = [s EXCEPT !.cursor = cursor, !.seen = seen, !.twice = twice, !.moved = moved]
  BY <1>2 DEF cursor, seen, twice, moved
<1>5. cursor \in Cursor /\ seen \in SUBSET Message
  BY <1>1 DEF cursor, seen
<1>6. LET u == Heard(s, f) IN
      /\ u \in Session /\ u.conn = s.conn /\ u.answered = s.answered /\ u.cursor = cursor
      /\ u.seen = seen /\ u.older = s.older /\ (u.twice <=> twice) /\ (u.moved <=> moved)
  BY <1>3, <1>4, <1>5 DEF Session
<1>. QED BY <1>6 DEF cursor, seen, twice, moved

LEMMA HeardSnapshot ==
  ASSUME NEW s \in Session, NEW f, f.t = "snapshot", f.epoch \in Nat, f.seq \in Nat,
         f.recent \in SUBSET Message, f.older \in SUBSET Message
  PROVE  LET u == Heard(s, f) IN
         /\ u \in Session /\ u.conn = s.conn /\ u.answered /\ u.cursor.epoch = f.epoch /\ u.cursor.seq = f.seq
         /\ u.seen = f.recent /\ u.older = f.older /\ u.twice = s.twice /\ u.moved = s.moved
<1> DEFINE r == [epoch |-> f.epoch, seq |-> f.seq]
<1>1. r \in Cursor /\ r.epoch = f.epoch /\ r.seq = f.seq
  BY DEF Cursor
<1>2. Heard(s, f) = [s EXCEPT !.cursor = r, !.answered = TRUE, !.seen = f.recent, !.older = f.older]
  BY DEF Heard
<1>. HIDE DEF r
<1>3. LET u == Heard(s, f) IN
      /\ u \in Session /\ u.conn = s.conn /\ u.answered /\ u.cursor = r
      /\ u.seen = f.recent /\ u.older = f.older /\ u.twice = s.twice /\ u.moved = s.moved
  BY <1>1, <1>2 DEF Session
<1>. QED BY <1>1, <1>3

LEMMA HeardResumed ==
  ASSUME NEW s \in Session, NEW f, f.t = "resumed", f.epoch \in Nat, f.seq \in Nat
  PROVE  LET u == Heard(s, f) IN
         /\ u \in Session /\ u.conn = s.conn /\ u.answered /\ u.cursor.epoch = f.epoch /\ u.cursor.seq = f.seq
         /\ u.seen = s.seen /\ u.older = s.older /\ u.twice = s.twice /\ u.moved = s.moved
<1> DEFINE r == [epoch |-> f.epoch, seq |-> f.seq]
<1>1. r \in Cursor /\ r.epoch = f.epoch /\ r.seq = f.seq
  BY DEF Cursor
<1>2. Heard(s, f) = [s EXCEPT !.cursor = r, !.answered = TRUE]
  BY DEF Heard
<1>. HIDE DEF r
<1>3. LET u == Heard(s, f) IN
      /\ u \in Session /\ u.conn = s.conn /\ u.answered /\ u.cursor = r
      /\ u.seen = s.seen /\ u.older = s.older /\ u.twice = s.twice /\ u.moved = s.moved
  BY <1>1, <1>2 DEF Session
<1>. QED BY <1>1, <1>3

LEMMA HearDoes ==
  ASSUME Types, NEW c \in Client, Hear(c)
  PROVE  Hearing(c)
<1>1. /\ MayRun /\ client[c].conn # NoConn /\ wire[client[c].conn] # <<>>
      /\ client' = [client EXCEPT ![c] = Heard(@, Head(wire[client[c].conn]))]
      /\ wire' = [wire EXCEPT ![client[c].conn] = Tail(@)]
      /\ stream' = stream /\ epochs' = epochs /\ conn' = conn /\ task' = task /\ calls' = calls
      /\ shared' = shared /\ said' = said /\ mishaps' = mishaps /\ torn' = torn
  BY DEF Hear, buffer, bounds
<1>2. client[c].conn \in Conn /\ client[c] \in Session
  BY <1>1, SessionFields DEF Types
<1>. DEFINE k == client[c].conn
           f == Head(wire[k])
<1>3. f \in Frame /\ Tail(wire[k]) \in Seq(Frame)
  BY <1>1, <1>2, HeadAndTail DEF Types
<1>4. Heard(client[c], f) \in Session /\ Heard(client[c], f).conn = k
  <2>. HIDE DEF f
  <2>. QED BY <1>2, <1>3, FrameKinds, HeardChat, HeardSnapshot, HeardResumed
<1>5. Meant(c) /\ client'[c] = Heard(client[c], f)
  <2>1. client' = [client EXCEPT ![c] = Heard(client[c], f)]
    BY <1>1 DEF Types
  <2>. HIDE DEF f
  <2>. QED BY <1>4, <2>1, ClientChanges DEF Types
<1>6. wire' \in [Conn -> Seq(Frame)] /\ wire'[k] = Tail(wire[k]) /\ \A j \in Conn : j # k => wire'[j] = wire[j]
  BY <1>1, <1>2, <1>3 DEF Types
<1>. QED BY <1>1, <1>2, <1>3, <1>4, <1>5, <1>6 DEF Hearing, SameStreamAs

LEMMA DropDoes ==
  ASSUME Types, NEW c \in Client, Drop(c)
  PROVE  Dropping(c)
<1>1. /\ MayRun /\ mishaps' = mishaps + 1 /\ client[c].conn # NoConn
      /\ client' = [client EXCEPT ![c].conn = NoConn]
      /\ conn' = [conn EXCEPT ![client[c].conn].open = FALSE, ![client[c].conn].subscribed = FALSE]
      /\ wire' = [wire EXCEPT ![client[c].conn] = <<>>]
      /\ torn' = (torn \/ Unlucky(c))
      /\ stream' = stream /\ epochs' = epochs /\ task' = task /\ calls' = calls
      /\ shared' = shared /\ said' = said
  BY DEF Drop, Mishap, buffer
<1>2. client[c].conn \in Conn /\ client[c] \in Session
  BY <1>1, SessionFields DEF Types
<1>. DEFINE k == client[c].conn
<1>3. /\ Joined(k) /\ ~conn'[k].open /\ ~conn'[k].subscribed /\ conn'[k].inbox = conn[k].inbox
  <2>. HIDE DEF k
  <2>1. conn' = [conn EXCEPT ![k].open = FALSE, ![k].subscribed = FALSE] /\ k \in Conn
    BY <1>1, <1>2 DEF k
  <2>. QED BY <2>1 DEF Joined, Types, Link
<1>4. wire' \in [Conn -> Seq(Frame)] /\ wire'[k] = <<>> /\ \A j \in Conn : j # k => wire'[j] = wire[j]
  <2>1. <<>> \in Seq(Frame)
    BY EmptySeq
  <2>. QED BY <1>1, <1>2, <2>1 DEF Types
<1>. DEFINE u == [client[c] EXCEPT !.conn = NoConn]
<1>5. /\ u \in Session /\ u.conn = NoConn /\ u.answered = client[c].answered /\ u.moved = client[c].moved
      /\ u.cursor = client[c].cursor /\ u.seen = client[c].seen /\ u.older = client[c].older /\ u.twice = client[c].twice
  BY <1>2, SessionCut
<1>6. client' = [client EXCEPT ![c] = u]
  BY <1>1 DEF Types, Session
<1>7. Meant(c) /\ client'[c] = u
  <2>. HIDE DEF u
  <2>. QED BY <1>5, <1>6, ClientChanges DEF Types
<1>8. torn' \in BOOLEAN
  BY <1>1 DEF Types
<1>. QED BY <1>1, <1>2, <1>3, <1>4, <1>5, <1>7, <1>8 DEF Dropping, SameStreamAs

LEMMA RestartDoes ==
  ASSUME Types, Restart
  PROVE  Restarting
<1>1. /\ MayRun /\ mishaps' = mishaps + 1
      /\ client' = [c \in Client |-> [client[c] EXCEPT !.conn = NoConn]]
      /\ conn' = [k \in Conn |-> Closed]
      /\ task' = [k \in Conn |-> Idle] /\ calls' = <<>> /\ wire' = [k \in Conn |-> <<>>]
      /\ stream' = (IF shared THEN stream ELSE NoStream)
      /\ torn' = (torn \/ \E c \in Client : Unlucky(c))
      /\ shared' = shared /\ epochs' = epochs /\ said' = said
  BY DEF Restart, Mishap
<1>2. \A c \in Client : /\ [client[c] EXCEPT !.conn = NoConn] \in Session
                        /\ client'[c] = [client[c] EXCEPT !.conn = NoConn]
  BY <1>1, SessionCut DEF Types
<1>3. client' \in [Client -> Session]
  BY <1>1, <1>2
<1>4. \A c \in Client :
        /\ client'[c].conn = NoConn /\ client'[c].answered = client[c].answered /\ client'[c].moved = client[c].moved
        /\ client'[c].cursor = client[c].cursor /\ client'[c].seen = client[c].seen
        /\ client'[c].older = client[c].older /\ client'[c].twice = client[c].twice
  <2>1. SUFFICES ASSUME NEW c \in Client
        PROVE  /\ client'[c].conn = NoConn /\ client'[c].answered = client[c].answered /\ client'[c].moved = client[c].moved
               /\ client'[c].cursor = client[c].cursor /\ client'[c].seen = client[c].seen
               /\ client'[c].older = client[c].older /\ client'[c].twice = client[c].twice
    OBVIOUS
  <2>2. client'[c] = [client[c] EXCEPT !.conn = NoConn] /\ client[c] \in Session
    BY <1>2 DEF Types
  <2>. QED BY <2>2, SessionCut
<1>5. Closed \in Link /\ ~Closed.open /\ ~Closed.subscribed /\ Closed.inbox = <<>>
  BY EmptySeq DEF Closed, Link
<1>6. conn' \in [Conn -> Link] /\ \A k \in Conn : ~conn'[k].open /\ ~conn'[k].subscribed /\ conn'[k].inbox = <<>>
  BY <1>1, <1>5
<1>7. task' \in [Conn -> Task] /\ \A k \in Conn : task'[k] = Idle
  BY <1>1, IdleTasks
<1>8. wire' \in [Conn -> Seq(Frame)] /\ \A k \in Conn : wire'[k] = <<>>
  <2>1. <<>> \in Seq(Frame)
    BY EmptySeq
  <2>. QED BY <1>1, <2>1
<1>9. torn' \in BOOLEAN
  BY <1>1 DEF Types
<1>. QED BY <1>1, <1>3, <1>4, <1>6, <1>7, <1>8, <1>9 DEF Restarting

LEMMA FlushDoes ==
  ASSUME Types, Flush
  PROVE  Flushing
<1>1. torn' \in BOOLEAN
  BY DEF Types, Flush
<1>. QED BY <1>1 DEF Flush, Flushing, Mishap, hub

AnyStep ==
  \/ \E k \in Conn : k = Head(calls) /\ AnyAnswer(k)
  \/ \E k \in Conn : Receiving(k) \/ Admitting(k) \/ Asking(k)
  \/ \E c \in Client : \E k \in Conn : Connecting(c, k)
  \/ \E c \in Client : Saying(c) \/ Hearing(c) \/ Dropping(c)
  \/ Aging \/ Restarting \/ Flushing \/ Standing

LEMMA Steps ==
  ASSUME Types, Stages, Queue, [Next]_vars
  PROVE  AnyStep
<1>1. CASE BufferAnswers
  <2>1. Head(calls) \in Conn
    BY <1>1, Answering
  <2>2. AnyAnswer(Head(calls))
    BY <1>1, Kinds
  <2>. QED BY <2>1, <2>2 DEF AnyStep
<1>2. ASSUME NEW k \in Conn, Receive(k) \/ MembershipRead(k) \/ RosterRead(k) \/ NameRead(k)
      PROVE  AnyStep
  <2>1. Receiving(k) \/ Admitting(k) \/ Asking(k)
    BY <1>2, ReceiveDoes, MembershipDoes, StoreDoes
  <2>. QED BY <2>1 DEF AnyStep
<1>3. ASSUME NEW c \in Client, Connect(c) \/ Hear(c) \/ Drop(c) \/ Say(c)
      PROVE  AnyStep
  <2>1. (\E k \in Conn : Connecting(c, k)) \/ Saying(c) \/ Hearing(c) \/ Dropping(c)
    BY <1>3, ConnectDoes, HearDoes, DropDoes, SayDoes
  <2>. QED BY <2>1 DEF AnyStep
<1>4. CASE EventAges \/ Restart \/ Flush
  BY <1>4, AgesDoes, RestartDoes, FlushDoes DEF AnyStep
<1>5. CASE vars' = vars
  BY <1>5 DEF AnyStep, Standing, SameStreamAs, vars, buffer, hub, bounds
<1>6. \/ BufferAnswers
      \/ \E k \in Conn : Receive(k) \/ MembershipRead(k) \/ RosterRead(k) \/ NameRead(k)
      \/ \E c \in Client : Connect(c) \/ Hear(c) \/ Drop(c) \/ Say(c)
      \/ EventAges \/ Restart \/ Flush \/ vars' = vars
  BY DEF Next, HubStep, ClientStep
<1>. QED BY <1>1, <1>2, <1>3, <1>4, <1>5, <1>6

-----------------------------------------------------------------------------
(* Frames that are sent.                                                   *)

IsChat(f) == f.t = "chat.message"

\* The frame f reaches the client of k, if k is still open.
Adds(k, f) ==
  /\ wire' \in [Conn -> Seq(Frame)] /\ \A j \in Conn : j # k => wire'[j] = wire[j]
  /\ wire'[k] = IF conn[k].open THEN Append(wire[k], f) ELSE wire[k]

LEMMA SendsOne ==
  ASSUME Types, NEW k \in Conn, NEW f \in Frame, Send(k, <<f>>)
  PROVE  Adds(k, f)
<1>1. wire[k] \in Seq(Frame) /\ wire[k] \o <<f>> = Append(wire[k], f) /\ Append(wire[k], f) \in Seq(Frame)
  BY AppendIsConcat, AppendProperties DEF Types
<1>2. wire' = IF conn[k].open THEN [wire EXCEPT ![k] = @ \o <<f>>] ELSE wire
  BY DEF Send
<1>3. CASE conn[k].open
  <2>1. wire' = [wire EXCEPT ![k] = Append(wire[k], f)]
    BY <1>1, <1>2, <1>3 DEF Types
  <2>. QED BY <1>1, <1>3, <2>1 DEF Adds, Types
<1>4. CASE ~conn[k].open
  BY <1>2, <1>4 DEF Adds, Types
<1>. QED BY <1>3, <1>4

LEMMA ChatFrames ==
  ASSUME NEW e, e.msg \in Message, e.seq \in Nat
  PROVE  /\ ChatFrame(e) \in Frame /\ IsChat(ChatFrame(e)) /\ ChatFrame(e).msg = e.msg /\ ChatFrame(e).seq = e.seq
  BY DEF ChatFrame, Frame, IsChat

LEMMA Told ==
  ASSUME Types, Stages, NEW k \in Conn, Telling(k)
  PROVE  LET e == [msg |-> task[k].msg, seq |-> task[k].seq] f == ChatFrame(e) IN
         /\ e \in Event /\ f \in Frame /\ IsChat(f) /\ f.msg = task[k].msg /\ f.seq = task[k].seq /\ e.seq # 0
         /\ wire' \in [Conn -> Seq(Frame)]
         /\ \A j \in Conn : wire'[j] = IF conn[j].open /\ conn[j].subscribed THEN Append(wire[j], f) ELSE wire[j]
<1> DEFINE e == [msg |-> task[k].msg, seq |-> task[k].seq]
           f == ChatFrame(e)
<1>1. task[k] \in Task /\ task[k].op = "chat" /\ task[k].next = 8 /\ InStage(task[k])
  BY DEF Types, Telling, Stages
<1>2. task[k].msg \in Message /\ task[k].seq \in Nat /\ task[k].seq # 0
  BY <1>1, TaskFields DEF InStage
<1>3. e \in Event /\ e.msg = task[k].msg /\ e.seq = task[k].seq
  BY <1>2 DEF Event
<1>4. f \in Frame /\ IsChat(f) /\ f.msg = task[k].msg /\ f.seq = task[k].seq
  <2>. HIDE DEF e
  <2>. QED BY <1>2, <1>3, ChatFrames
<1>5. wire' = [j \in Conn |-> IF conn[j].open /\ conn[j].subscribed THEN Append(wire[j], f) ELSE wire[j]]
  BY DEF Telling, Broadcast
<1>. HIDE DEF f
<1>6. \A j \in Conn : wire[j] \in Seq(Frame) /\ Append(wire[j], f) \in Seq(Frame)
  BY <1>4, AppendProperties DEF Types
<1>. QED BY <1>2, <1>3, <1>4, <1>5, <1>6 DEF f

LEMMA RecentPart ==
  ASSUME NEW l \in Seq(Event)
  PROVE  /\ Messages(l) \in SUBSET Message /\ Messages(RecentOf(l)) \subseteq Messages(l)
         /\ \A e \in ToSet(l) : e.msg \in Messages(l)
         /\ \A m \in Messages(l) : \E e \in ToSet(l) : e.msg = m
<1>1. Len(l) \in Nat /\ DOMAIN l = 1..Len(l) /\ \A i \in DOMAIN l : l[i] \in Event /\ l[i].msg \in Message
  BY EventSeq
<1>2. Messages(l) \in SUBSET Message
  BY <1>1 DEF Messages
<1>3. Messages(RecentOf(l)) \subseteq Messages(l)
  <2>1. CASE Len(l) > MaxRecent
    <3> DEFINE n == Len(l) - MaxRecent
               r == SubSeq(l, n + 1, Len(l))
    <3>1. MaxRecent \in Nat \ {0}
      BY SyncAssumption
    <3>2. n \in Nat /\ n + 1 \in 1..Len(l) /\ Len(l) \in n..Len(l)
      BY <1>1, <2>1, <3>1
    <3>. HIDE DEF n
    <3>3. r \in Seq(Event) /\ Len(r) = Len(l) - n /\ \A i \in 1..Len(r) : r[i] = l[i + n]
      BY <1>1, <3>2
    <3>4. \A i \in DOMAIN r : i + n \in DOMAIN l /\ r[i] = l[i + n]
      BY <1>1, <3>2, <3>3, LenProperties
    <3>5. RecentOf(l) = r
      BY <2>1 DEF RecentOf, n
    <3>. HIDE DEF r
    <3>. QED BY <3>4, <3>5 DEF Messages
  <2>2. CASE ~(Len(l) > MaxRecent)
    BY <2>2 DEF RecentOf
  <2>. QED BY <2>1, <2>2
<1>. QED BY <1>1, <1>2, <1>3 DEF Messages, ToSet

LEMMA Shows ==
  ASSUME Types, NEW k \in Conn, Showing(k)
  PROVE  LET f == SnapshotFrame([task[k] EXCEPT !.seq = stream.seq]) IN
         /\ f \in Frame /\ f.t = "snapshot" /\ f.epoch = task[k].epoch /\ f.seq = stream.seq
         /\ f.recent \subseteq Messages(task[k].list) /\ f.recent \cup f.older = Messages(task[k].list)
         /\ Adds(k, f)
<1> DEFINE u == [task[k] EXCEPT !.seq = stream.seq]
           f == SnapshotFrame(u)
<1>1. task[k] \in Task /\ stream.seq \in Nat
  BY DEF Types, Stream
<1>2. u.epoch = task[k].epoch /\ u.seq = stream.seq /\ u.list = task[k].list
  BY <1>1 DEF Task
<1>3. task[k].epoch \in Nat /\ task[k].list \in Seq(Event)
  BY <1>1, TaskFields
<1>. HIDE DEF u
<1>4. /\ f.t = "snapshot" /\ f.epoch = task[k].epoch /\ f.seq = stream.seq
      /\ f.recent = Messages(RecentOf(task[k].list))
      /\ f.older = Messages(task[k].list) \ Messages(RecentOf(task[k].list))
      /\ f = [t |-> "snapshot", epoch |-> f.epoch, seq |-> f.seq, recent |-> f.recent, older |-> f.older]
  BY <1>2 DEF SnapshotFrame
<1>5. Send(k, <<f>>)
  BY DEF Showing, u
<1>. HIDE DEF f
<1>6. f.recent \in SUBSET Message /\ f.older \in SUBSET Message
  BY <1>3, <1>4, RecentPart
<1>7. f \in Frame
  BY <1>1, <1>3, <1>4, <1>6 DEF Frame
<1>8. f.recent \subseteq Messages(task[k].list) /\ f.recent \cup f.older = Messages(task[k].list)
  BY <1>3, <1>4, RecentPart
<1>9. Adds(k, f)
  BY <1>5, <1>7, SendsOne
<1>. QED BY <1>4, <1>7, <1>8, <1>9 DEF f, u

LEMMA Reports ==
  ASSUME Types, NEW k \in Conn, Resuming(k)
  PROVE  LET f == ResumedFrame([task[k] EXCEPT !.seq = stream.seq]) IN
         /\ f \in Frame /\ f.t = "resumed" /\ f.epoch = task[k].epoch /\ f.seq = stream.seq
         /\ Adds(k, f)
<1> DEFINE u == [task[k] EXCEPT !.seq = stream.seq]
           f == ResumedFrame(u)
<1>1. task[k] \in Task /\ stream.seq \in Nat
  BY DEF Types, Stream
<1>2. u.epoch = task[k].epoch /\ u.seq = stream.seq
  BY <1>1 DEF Task
<1>3. task[k].epoch \in Nat
  BY <1>1, TaskFields
<1>. HIDE DEF u
<1>4. /\ f.t = "resumed" /\ f.epoch = task[k].epoch /\ f.seq = stream.seq
      /\ f = [t |-> "resumed", epoch |-> f.epoch, seq |-> f.seq]
  BY <1>2 DEF ResumedFrame
<1>5. Send(k, <<f>>)
  BY DEF Resuming, u
<1>. HIDE DEF f
<1>6. f \in Frame
  BY <1>1, <1>3, <1>4 DEF Frame
<1>7. Adds(k, f)
  BY <1>5, <1>6, SendsOne
<1>. QED BY <1>4, <1>6, <1>7 DEF f, u

\* A replay: the frames g carry events of the list that are beyond the cursor.
Replays(k, g) ==
  /\ g \in Seq(Frame)
  /\ \A i \in DOMAIN g : /\ IsChat(g[i]) /\ g[i].seq > task[k].cursor.seq /\ g[i].seq \in Nat /\ g[i].msg \in Message
                         /\ \E e \in ToSet(task[k].list) : g[i] = ChatFrame(e)
  /\ wire' \in [Conn -> Seq(Frame)] /\ \A j \in Conn : j # k => wire'[j] = wire[j]
  /\ wire'[k] = IF conn[k].open THEN wire[k] \o g ELSE wire[k]

\* The frames of a gap.
LEMMA GapIs ==
  ASSUME NEW t \in Task, Ordered(t.list)
  PROVE  /\ Gap(t) \in Seq(Event)
         /\ \A i \in DOMAIN Gap(t) : Gap(t)[i].seq > t.cursor.seq /\ Gap(t)[i] \in ToSet(t.list)
         /\ t.seq # t.cursor.seq => \A e \in ToSet(t.list) : e.seq > t.cursor.seq => \E i \in DOMAIN Gap(t) : Gap(t)[i] = e
<1>1. t.list \in Seq(Event) /\ t.cursor.seq \in Int
  BY TaskFields DEF Cursor
<1>2. CASE t.seq = t.cursor.seq
  <2>1. Gap(t) = <<>>
    BY <1>2 DEF Gap
  <2>2. <<>> \in Seq(Event)
    BY EmptySeq
  <2>. QED BY <1>2, <2>1, <2>2
<1>3. CASE t.seq # t.cursor.seq
  <2> DEFINE b == Beyond(t.list, t.cursor.seq)
             n == Cardinality(UpTo(t.list, t.cursor.seq))
  <2>1. Gap(t) = b
    BY <1>3 DEF Gap
  <2>2. /\ b \in Seq(Event)
        /\ \A i \in DOMAIN b : b[i].seq > t.cursor.seq /\ i + n \in DOMAIN t.list /\ b[i] = t.list[i + n]
        /\ \A e \in ToSet(t.list) : e.seq > t.cursor.seq => \E i \in DOMAIN b : b[i] = e
    BY <1>1, BeyondIt
  <2>. HIDE DEF b, n
  <2>. QED BY <2>1, <2>2 DEF ToSet
<1>. QED BY <1>2, <1>3

LEMMA ReplaysThem ==
  ASSUME Types, Stages, NEW k \in Conn, Replaying(k)
  PROVE  LET gap == Gap([task[k] EXCEPT !.seq = stream.seq]) IN
         /\ gap \in Seq(Event)
         /\ \A i \in DOMAIN gap : gap[i].seq > task[k].cursor.seq /\ gap[i] \in ToSet(task[k].list)
         /\ stream.seq # task[k].cursor.seq =>
              \A e \in ToSet(task[k].list) : e.seq > task[k].cursor.seq => \E i \in DOMAIN gap : gap[i] = e
         /\ Replays(k, [i \in DOMAIN gap |-> ChatFrame(gap[i])])
<1> DEFINE u == [task[k] EXCEPT !.seq = stream.seq]
           gap == Gap(u)
           g == [i \in DOMAIN gap |-> ChatFrame(gap[i])]
<1>1. task[k] \in Task /\ stream.seq \in Nat /\ InStage(task[k])
  BY DEF Types, Stream, Stages
<1>2. u \in Task /\ u.seq = stream.seq /\ u.list = task[k].list /\ u.cursor = task[k].cursor
  BY <1>1 DEF Task
<1>3. Ordered(u.list)
  BY <1>1, <1>2 DEF InStage
<1>. HIDE DEF u
<1>4. /\ gap \in Seq(Event)
      /\ \A i \in DOMAIN gap : gap[i].seq > task[k].cursor.seq /\ gap[i] \in ToSet(task[k].list)
      /\ stream.seq # task[k].cursor.seq =>
           \A e \in ToSet(task[k].list) : e.seq > task[k].cursor.seq => \E i \in DOMAIN gap : gap[i] = e
  BY <1>2, <1>3, GapIs
<1>5. Send(k, g)
  BY DEF Replaying, u
<1>. HIDE DEF gap
<1>6. \A i \in DOMAIN gap : gap[i].seq \in Nat /\ gap[i].msg \in Message
  BY <1>4, EventSeq
<1>7. \A i \in DOMAIN gap : /\ ChatFrame(gap[i]) \in Frame /\ IsChat(ChatFrame(gap[i]))
                            /\ ChatFrame(gap[i]).msg = gap[i].msg /\ ChatFrame(gap[i]).seq = gap[i].seq
  BY <1>6, ChatFrames
<1>8. g \in Seq(Frame)
  <2>1. DOMAIN gap = 1..Len(gap) /\ Len(gap) \in Nat
    BY <1>4, EventSeq
  <2>2. g \in [1..Len(gap) -> Frame]
    BY <1>7, <2>1
  <2>. QED BY <2>1, <2>2
<1>9. \A i \in DOMAIN g : /\ IsChat(g[i]) /\ g[i].seq > task[k].cursor.seq /\ g[i].seq \in Nat /\ g[i].msg \in Message
                          /\ \E e \in ToSet(task[k].list) : g[i] = ChatFrame(e)
  BY <1>4, <1>6, <1>7
<1>. HIDE DEF g
<1>10. /\ wire' \in [Conn -> Seq(Frame)] /\ \A j \in Conn : j # k => wire'[j] = wire[j]
       /\ wire'[k] = IF conn[k].open THEN wire[k] \o g ELSE wire[k]
  <2>1. wire[k] \in Seq(Frame) /\ wire[k] \o g \in Seq(Frame)
    BY <1>8, ConcatProperties DEF Types
  <2>2. wire' = IF conn[k].open THEN [wire EXCEPT ![k] = @ \o g] ELSE wire
    BY <1>5 DEF Send
  <2>. QED BY <2>1, <2>2 DEF Types
<1>11. Replays(k, g)
  BY <1>8, <1>9, <1>10 DEF Replays
<1>. QED BY <1>4, <1>11 DEF gap, g, u

-----------------------------------------------------------------------------
(* The variables keep their types.                                         *)

LEMMA AnswerTypes ==
  ASSUME Types, Stages, NEW k \in Conn, AnyAnswer(k)
  PROVE  Types'
<1>1. Turn(k)
  BY DEF AnyAnswer, Touching, Reading, Failing, TurningBack, Numbering, Pushing, Trimming, Renewing, Telling,
         Listing, Showing, Resuming, Replaying
<1>2. calls' \in Seq(Conn)
  <2>1. Tail(calls) \in Seq(Conn) /\ Append(Tail(calls), k) \in Seq(Conn)
    BY <1>1, HeadAndTail, AppendProperties DEF Types, Turn
  <2>2. calls' = Tail(calls) \/ calls' = Append(Tail(calls), k)
    BY DEF AnyAnswer, Touching, Reading, Failing, TurningBack, Numbering, Pushing, Trimming, Renewing, Telling,
           Listing, Showing, Resuming, Replaying, GoesOn
  <2>. QED BY <2>1, <2>2
<1>3. wire' \in [Conn -> Seq(Frame)]
  <2>1. CASE Telling(k)
    BY <2>1, Told
  <2>2. CASE Showing(k)
    BY <2>2, Shows DEF Adds
  <2>3. CASE Resuming(k)
    BY <2>3, Reports DEF Adds
  <2>4. CASE Replaying(k)
    BY <2>4, ReplaysThem DEF Replays
  <2>5. CASE wire' = wire
    BY <2>5 DEF Types
  <2>. QED BY <2>1, <2>2, <2>3, <2>4, <2>5 DEF AnyAnswer, Touching, Reading, Failing, TurningBack, Numbering,
           Pushing, Trimming, Renewing, Listing
<1>4. epochs' \in Nat /\ stream' \in Stream /\ stream'.epoch <= epochs'
  <2>1. stream \in Stream /\ stream.epoch \in Nat /\ stream.seq \in Nat /\ stream.events \in Seq(Event) /\ epochs \in Nat /\ stream.epoch <= epochs
    BY DEF Types, Stream
  <2>2. CASE SameStreamAs
    BY <2>1, <2>2 DEF SameStreamAs
  <2>3. CASE Touching(k)
    BY <2>1, <2>3 DEF Touching, SameStreamAs
  <2>4. CASE Numbering(k) \/ Pushing(k) \/ Trimming(k)
    BY <2>1, <2>4 DEF Numbering, Pushing, Trimming
  <2>. QED BY <2>2, <2>3, <2>4 DEF AnyAnswer, Reading, Failing, TurningBack, Renewing, Telling,
           Listing, Showing, Resuming, Replaying
<1>. QED BY <1>1, <1>2, <1>3, <1>4 DEF Types, Turn

LEMMA NoStreamIs ==
  NoStream \in Stream /\ NoStream.epoch = 0 /\ NoStream.seq = 0 /\ NoStream.events = <<>>
  BY EmptySeq DEF NoStream, Stream

LEMMA TypesStep ==
  ASSUME Types, Stages, AnyStep
  PROVE  Types'
<1>1. ASSUME NEW k \in Conn, k = Head(calls), AnyAnswer(k)
      PROVE  Types'
  BY <1>1, AnswerTypes
<1>2. ASSUME NEW k \in Conn, Receiving(k)
      PROVE  Types'
  BY <1>2 DEF Types, Receiving, Mine, Joined, SameStreamAs
<1>3. ASSUME NEW k \in Conn, Admitting(k)
      PROVE  Types'
  <2>1. calls' = calls \/ calls' = Append(calls, k)
    BY <1>3 DEF Admitting
  <2>2. calls' \in Seq(Conn)
    <3>1. Append(calls, k) \in Seq(Conn) /\ calls \in Seq(Conn)
      BY AppendProperties DEF Types
    <3>. QED BY <2>1, <3>1
  <2>. QED BY <1>3, <2>2 DEF Types, Admitting, Mine, Joined, SameStreamAs
<1>4. ASSUME NEW k \in Conn, Asking(k)
      PROVE  Types'
  <2>1. calls' \in Seq(Conn)
    BY <1>4, AppendProperties DEF Asking, Types
  <2>. QED BY <1>4, <2>1 DEF Types, Asking, Mine, SameStreamAs
<1>5. ASSUME NEW c \in Client, NEW k \in Conn, Connecting(c, k)
      PROVE  Types'
  BY <1>5 DEF Types, Connecting, Mine, Joined, Meant, SameStreamAs
<1>6. ASSUME NEW c \in Client, Saying(c)
      PROVE  Types'
  BY <1>6, SyncAssumption, SMTT(30) DEF Types, Saying, Joined, SameStreamAs, Message
<1>7. ASSUME NEW c \in Client, Hearing(c)
      PROVE  Types'
  BY <1>7 DEF Types, Hearing, Meant, SameStreamAs
<1>8. ASSUME NEW c \in Client, Dropping(c)
      PROVE  Types'
  BY <1>8 DEF Types, Dropping, Meant, Joined, SameStreamAs
<1>9. CASE Aging
  BY <1>9 DEF Types, Aging
<1>10. CASE Restarting
  <2>1. <<>> \in Seq(Conn)
    BY EmptySeq
  <2>. QED BY <1>10, <2>1, NoStreamIs DEF Types, Restarting
<1>11. CASE Flushing
  BY <1>11, NoStreamIs DEF Types, Flushing
<1>12. CASE Standing
  BY <1>12 DEF Types, Standing, SameStreamAs
<1>. QED BY <1>1, <1>2, <1>3, <1>4, <1>5, <1>6, <1>7, <1>8, <1>9, <1>10, <1>11, <1>12 DEF AnyStep

-----------------------------------------------------------------------------
(* The handlers keep to their scripts.                                     *)

LEMMA NoneOrdered == Ordered(<<>>)
  BY DEF Ordered

LEMMA FreshInStage ==
  /\ InStage(Idle) /\ \A m \in Message : InStage(Chatting(m))
  /\ InStage([Idle EXCEPT !.op = "snapshot"]) /\ InStage([Idle EXCEPT !.op = "report", !.next = 1])
  /\ \A cursor \in Cursor : InStage([Idle EXCEPT !.op = "resume", !.cursor = cursor])
<1>1. InStage(Idle)
  BY IdleTasks, NoneOrdered DEF InStage, EpochRead
<1>2. ASSUME NEW m \in Message PROVE InStage(Chatting(m))
  <2> DEFINE u == Chatting(m)
  <2>1. u.op = "chat" /\ u.next = 0 /\ u.epoch = 0 /\ u.seq = 0 /\ u.list = <<>> /\ u.msg = m
    BY ChatTask
  <2>. HIDE DEF u
  <2>2. InStage(u)
    BY <2>1, NoneOrdered DEF InStage, EpochRead
  <2>. QED BY <2>2 DEF u
<1>3. InStage([Idle EXCEPT !.op = "snapshot"])
  <2> DEFINE u == [Idle EXCEPT !.op = "snapshot"]
  <2>1. u.op = "snapshot" /\ u.next = 0 /\ u.epoch = 0 /\ u.seq = 0 /\ u.list = <<>>
    BY SnapshotTask
  <2>. HIDE DEF u
  <2>2. InStage(u)
    BY <2>1, NoneOrdered DEF InStage, EpochRead
  <2>. QED BY <2>2 DEF u
<1>4. InStage([Idle EXCEPT !.op = "report", !.next = 1])
  <2> DEFINE u == [Idle EXCEPT !.op = "report", !.next = 1]
  <2>1. u.op = "report" /\ u.next = 1 /\ u.epoch = 0 /\ u.seq = 0 /\ u.list = <<>>
    <3>1. "report" \in Op /\ 1 \in {0, 1}
      BY DEF Op
    <3>. QED BY <3>1, NewTask
  <2>. HIDE DEF u
  <2>2. InStage(u)
    BY <2>1, NoneOrdered DEF InStage, EpochRead
  <2>. QED BY <2>2 DEF u
<1>5. ASSUME NEW cursor \in Cursor PROVE InStage([Idle EXCEPT !.op = "resume", !.cursor = cursor])
  <2> DEFINE u == [Idle EXCEPT !.op = "resume", !.cursor = cursor]
  <2>1. u.op = "resume" /\ u.next = 0 /\ u.epoch = 0 /\ u.seq = 0 /\ u.list = <<>>
    BY ResumeTask
  <2>. HIDE DEF u
  <2>2. InStage(u)
    BY <2>1, NoneOrdered DEF InStage, EpochRead
  <2>. QED BY <2>2 DEF u
<1>. QED BY <1>1, <1>2, <1>3, <1>4, <1>5

LEMMA AnswerTurns ==
  ASSUME NEW k, AnyAnswer(k)
  PROVE  Turn(k)
  BY DEF AnyAnswer, Touching, Reading, Failing, TurningBack, Numbering, Pushing, Trimming, Renewing, Telling,
         Listing, Showing, Resuming, Replaying

LEMMA AnswerInStage ==
  ASSUME Types, Stages, NEW k \in Conn, AnyAnswer(k)
  PROVE  InStage(task'[k])
<1> DEFINE t == task[k]
           u == task'[k]
<1>1. t \in Task /\ u \in Task /\ InStage(t)
  BY AnswerTurns DEF Types, Turn, Stages
<1>2. t.next \in 0..8 /\ u.next \in 0..8 /\ t.seq \in Nat /\ u.seq \in Nat /\ t.epoch \in Nat /\ u.epoch \in Nat
  BY <1>1, TaskFields
<1>. HIDE DEF t, u
<1>3. CASE Touching(k)
  <2>1. /\ u.next = t.next + 1 /\ u.op = t.op /\ u.msg = t.msg /\ u.cursor = t.cursor /\ u.epoch = t.epoch
        /\ u.seq = t.seq /\ u.list = t.list /\ AtTouch(t)
    BY <1>3 DEF Touching, GoesOn, KeepsRest, KeepsEpoch, KeepsSeq, KeepsList, t, u
  <2>2. InStage(u)
    BY <1>1, <1>2, <2>1 DEF InStage, EpochRead, AtTouch
  <2>. QED BY <2>2 DEF u
<1>4. CASE Reading(k)
  <2>1. /\ u.next = t.next + 1 /\ u.op = t.op /\ u.msg = t.msg /\ u.cursor = t.cursor /\ u.epoch # 0
        /\ u.seq = t.seq /\ u.list = t.list /\ AtEpoch(t) /\ (t.op = "replay" => u.epoch = t.cursor.epoch)
    BY <1>4 DEF Reading, GoesOn, KeepsRest, KeepsSeq, KeepsList, t, u
  <2>2. InStage(u)
    BY <1>1, <1>2, <2>1 DEF InStage, EpochRead, AtEpoch
  <2>. QED BY <2>2 DEF u
<1>5. CASE Failing(k) \/ Telling(k) \/ Showing(k) \/ Resuming(k)
  BY <1>5, FreshInStage DEF Failing, Telling, Showing, Resuming
<1>6. CASE TurningBack(k) \/ Replaying(k)
  BY <1>6, FreshInStage DEF TurningBack, Replaying
<1>7. CASE Numbering(k)
  <2>1. /\ u.next = t.next + 1 /\ u.op = t.op /\ u.msg = t.msg /\ u.cursor = t.cursor /\ u.epoch = t.epoch
        /\ u.seq = stream.seq + 1 /\ u.list = t.list /\ t.op = "chat" /\ t.next = 3
    BY <1>7 DEF Numbering, GoesOn, KeepsRest, KeepsEpoch, KeepsList, t, u
  <2>2. stream.seq \in Nat
    BY DEF Types, Stream
  <2>3. InStage(u)
    BY <1>1, <1>2, <2>1, <2>2 DEF InStage, EpochRead
  <2>. QED BY <2>3 DEF u
<1>8. CASE Pushing(k) \/ Trimming(k) \/ Renewing(k)
  <2>1. /\ u.next = t.next + 1 /\ u.op = t.op /\ u.msg = t.msg /\ u.cursor = t.cursor /\ u.epoch = t.epoch
        /\ u.seq = t.seq /\ u.list = t.list /\ t.op = "chat" /\ t.next \in 4..7
    BY <1>8 DEF Pushing, Trimming, Renewing, GoesOn, KeepsRest, KeepsEpoch, KeepsSeq, KeepsList, t, u
  <2>2. InStage(u)
    BY <1>1, <1>2, <2>1 DEF InStage, EpochRead
  <2>. QED BY <2>2 DEF u
<1>9. CASE Listing(k)
  <2>1. /\ u.next = t.next + 1 /\ u.op = t.op /\ u.msg = t.msg /\ u.cursor = t.cursor /\ u.epoch = t.epoch
        /\ u.seq = t.seq /\ u.list = InOrder(stream.events) /\ AtList(t)
    BY <1>9 DEF Listing, GoesOn, KeepsRest, KeepsEpoch, KeepsSeq, t, u
  <2>2. Ordered(u.list)
    BY <2>1, Sorts DEF Types, Stream
  <2>3. InStage(u)
    BY <1>1, <1>2, <2>1, <2>2 DEF InStage, EpochRead, AtList
  <2>. QED BY <2>3 DEF u
<1>. QED BY <1>3, <1>4, <1>5, <1>6, <1>7, <1>8, <1>9 DEF AnyAnswer

LEMMA StagesStep ==
  ASSUME Types, Stages, AnyStep
  PROVE  Stages'
<1>1. ASSUME NEW k \in Conn, k = Head(calls), AnyAnswer(k)
      PROVE  Stages'
  <2>1. InStage(task'[k]) /\ \A j \in Conn : j # k => task'[j] = task[j]
    BY <1>1, AnswerInStage, AnswerTurns DEF Turn
  <2>. QED BY <2>1 DEF Stages
<1>2. ASSUME NEW k \in Conn, Receiving(k)
      PROVE  Stages'
  <2>1. Head(conn[k].inbox) \in Message
    BY <1>2, LinkFields, HeadAndTail DEF Receiving
  <2>2. InStage(task'[k]) /\ \A j \in Conn : j # k => task'[j] = task[j]
    BY <1>2, <2>1, FreshInStage DEF Receiving, Mine
  <2>. QED BY <2>2 DEF Stages
<1>3. ASSUME NEW k \in Conn, Admitting(k) \/ Asking(k)
      PROVE  Stages'
  <2> DEFINE t == task[k]
             u == task'[k]
  <2>1. /\ u.epoch = t.epoch /\ u.seq = t.seq /\ u.list = t.list /\ u.msg = t.msg /\ t.next = 0
        /\ \/ t.op = "resume" /\ u.op = "snapshot" /\ u.next = 0
           \/ t.op = "resume" /\ u.op = "replay" /\ u.next = 1
           \/ t.op \in {"chat", "snapshot"} /\ u.op = t.op /\ u.next = 1
    BY <1>3 DEF Admitting, Asking, KeepsAll, KeepsRest, KeepsEpoch, KeepsSeq, KeepsList
  <2>2. InStage(t)
    BY DEF Stages
  <2>. HIDE DEF t, u
  <2>3. InStage(u)
    BY <2>1, <2>2 DEF InStage, EpochRead
  <2>4. \A j \in Conn : j # k => task'[j] = task[j]
    BY <1>3 DEF Admitting, Asking, Mine
  <2>. QED BY <2>3, <2>4 DEF Stages, u
<1>4. ASSUME NEW c \in Client, NEW k \in Conn, Connecting(c, k)
      PROVE  Stages'
  <2>1. client[c].cursor \in Cursor
    BY SessionFields DEF Types
  <2>2. InStage(task'[k]) /\ \A j \in Conn : j # k => task'[j] = task[j]
    BY <1>4, <2>1, FreshInStage DEF Connecting, Mine
  <2>. QED BY <2>2 DEF Stages
<1>5. ASSUME task' = task
      PROVE  Stages'
  BY <1>5 DEF Stages
<1>6. CASE Restarting
  BY <1>6, FreshInStage DEF Stages, Restarting
<1>. QED BY <1>1, <1>2, <1>3, <1>4, <1>5, <1>6 DEF AnyStep, Saying, Hearing, Dropping, Aging, Flushing, Standing

-----------------------------------------------------------------------------
(* The queue of the buffer.                                                *)

\* The handler at the head asks again, or leaves.
LEMMA Requeued ==
  ASSUME calls \in Seq(Conn), calls # <<>>, NEW k \in Conn, k = Head(calls), calls' = Append(Tail(calls), k)
  PROVE  /\ Len(calls) \in Nat \ {0} /\ DOMAIN calls = 1..Len(calls) /\ DOMAIN calls' = 1..Len(calls)
         /\ calls[1] = k /\ calls'[Len(calls)] = k
         /\ \A i \in 1..Len(calls) - 1 : calls'[i] = calls[i + 1]
<1> DEFINE n == Len(calls)
           s == Tail(calls)
           a == Append(s, k)
<1>1. calls[1] = k /\ s \in Seq(Conn) /\ Len(s) = n - 1 /\ n \in Nat \ {0} /\ \A i \in 1..n - 1 : s[i] = calls[i + 1]
  BY HeadAndTail
<1>. HIDE DEF n, s
<1>2. a \in Seq(Conn) /\ Len(a) = Len(s) + 1 /\ (\A i \in 1..Len(s) : a[i] = s[i]) /\ a[Len(s) + 1] = k
  BY <1>1, AppendProperties
<1>3. calls' = a
  BY DEF a, s
<1>. HIDE DEF a
<1>4. Len(a) = n /\ DOMAIN a = 1..n
  BY <1>1, <1>2, LenProperties
<1>5. DOMAIN calls = 1..n
  BY LenProperties DEF n
<1>. QED BY <1>1, <1>2, <1>3, <1>4, <1>5 DEF n

LEMMA Dequeued ==
  ASSUME calls \in Seq(Conn), calls # <<>>, NEW k \in Conn, k = Head(calls), calls' = Tail(calls)
  PROVE  /\ Len(calls) \in Nat \ {0} /\ DOMAIN calls = 1..Len(calls) /\ DOMAIN calls' = 1..Len(calls) - 1
         /\ calls[1] = k
         /\ \A i \in 1..Len(calls) - 1 : calls'[i] = calls[i + 1]
<1>1. /\ calls[1] = k /\ calls' \in Seq(Conn) /\ Len(calls') = Len(calls) - 1 /\ Len(calls) \in Nat \ {0}
      /\ \A i \in 1..Len(calls) - 1 : calls'[i] = calls[i + 1]
  BY HeadAndTail
<1>2. DOMAIN calls = 1..Len(calls) /\ DOMAIN calls' = 1..Len(calls')
  BY <1>1, LenProperties
<1>. QED BY <1>1, <1>2

LEMMA Queued ==
  ASSUME calls \in Seq(Conn), NEW k \in Conn, calls' = Append(calls, k)
  PROVE  /\ Len(calls) \in Nat /\ DOMAIN calls = 1..Len(calls) /\ DOMAIN calls' = 1..Len(calls) + 1
         /\ calls'[Len(calls) + 1] = k
         /\ \A i \in 1..Len(calls) : calls'[i] = calls[i]
<1>1. /\ calls' \in Seq(Conn) /\ Len(calls') = Len(calls) + 1 /\ Len(calls) \in Nat
      /\ (\A i \in 1..Len(calls) : calls'[i] = calls[i]) /\ calls'[Len(calls) + 1] = k
  BY AppendProperties, LenProperties
<1>2. DOMAIN calls = 1..Len(calls) /\ DOMAIN calls' = 1..Len(calls')
  BY <1>1, LenProperties
<1>. QED BY <1>1, <1>2

LEMMA QueueStays ==
  ASSUME Queue, calls' = calls, \A k \in Conn : task'[k].next # 0 <=> task[k].next # 0
  PROVE  Queue'
  BY DEF Queue

LEMMA QueueAnswered ==
  ASSUME Types, Stages, Queue, NEW k \in Conn, AnyAnswer(k)
  PROVE  Queue'
<1>1. /\ calls \in Seq(Conn) /\ calls # <<>> /\ k = Head(calls)
      /\ \A j \in Conn : j # k => task'[j] = task[j]
  BY AnswerTurns DEF Turn, Types
<1>2. \/ calls' = Append(Tail(calls), k) /\ task'[k].next # 0
      \/ calls' = Tail(calls) /\ task'[k].next = 0
  <2>1. task[k].next \in 0..8
    BY TaskFields DEF Types
  <2>2. CASE Touching(k) \/ Reading(k) \/ Numbering(k) \/ Pushing(k) \/ Trimming(k) \/ Renewing(k) \/ Listing(k)
    <3>1. GoesOn(k)
      BY <2>2 DEF Touching, Reading, Numbering, Pushing, Trimming, Renewing, Listing
    <3>. QED BY <2>1, <3>1 DEF GoesOn
  <2>3. CASE Failing(k) \/ Telling(k) \/ Showing(k) \/ Resuming(k)
    BY <2>3, IdleTasks DEF Failing, Telling, Showing, Resuming
  <2>4. CASE TurningBack(k)
    BY <2>4, SnapshotTask DEF TurningBack
  <2>5. CASE Replaying(k)
    <3>1. "report" \in Op /\ 1 \in {0, 1}
      BY DEF Op
    <3>2. task'[k].next = 1
      BY <2>5, <3>1, NewTask DEF Replaying
    <3>. QED BY <2>5, <3>2 DEF Replaying
  <2>. QED BY <2>2, <2>3, <2>4, <2>5 DEF AnyAnswer
<1>. DEFINE n == Len(calls)
<1>3. CASE calls' = Append(Tail(calls), k) /\ task'[k].next # 0
  <2>1. /\ n \in Nat \ {0} /\ DOMAIN calls = 1..n /\ DOMAIN calls' = 1..n
        /\ calls[1] = k /\ calls'[n] = k /\ \A i \in 1..n - 1 : calls'[i] = calls[i + 1]
    BY <1>1, <1>3, Requeued
  <2>. HIDE DEF n
  <2>2. \A i, j \in DOMAIN calls' : calls'[i] = calls'[j] => i = j
    <3>1. SUFFICES ASSUME NEW i \in 1..n, NEW j \in 1..n, calls'[i] = calls'[j] PROVE i = j
      BY <2>1
    <3>2. CASE i = n /\ j # n
      BY <2>1, <3>1, <3>2 DEF Queue
    <3>3. CASE i # n /\ j = n
      BY <2>1, <3>1, <3>3 DEF Queue
    <3>4. CASE i # n /\ j # n
      <4>1. calls[i + 1] = calls[j + 1] /\ i + 1 \in 1..n /\ j + 1 \in 1..n
        BY <2>1, <3>1, <3>4
      <4>2. i + 1 = j + 1
        BY <2>1, <4>1 DEF Queue
      <4>. QED BY <2>1, <4>2
    <3>. QED BY <3>2, <3>3, <3>4
  <2>3. \A j \in Conn : task'[j].next # 0 <=> \E i \in DOMAIN calls' : calls'[i] = j
    <3>1. SUFFICES ASSUME NEW j \in Conn PROVE task'[j].next # 0 <=> \E i \in 1..n : calls'[i] = j
      BY <2>1
    <3>2. CASE j = k
      BY <1>3, <2>1, <3>2
    <3>3. CASE j # k
      <4>1. task'[j].next # 0 <=> \E i \in 1..n : calls[i] = j
        BY <1>1, <2>1, <3>3 DEF Queue
      <4>2. ASSUME NEW i \in 1..n, calls[i] = j PROVE \E p \in 1..n : calls'[p] = j
        <5>1. i # 1 /\ i - 1 \in 1..n - 1 /\ (i - 1) + 1 = i /\ i - 1 \in 1..n
          BY <2>1, <3>3, <4>2
        <5>. QED BY <2>1, <4>2, <5>1
      <4>3. ASSUME NEW i \in 1..n, calls'[i] = j PROVE \E p \in 1..n : calls[p] = j
        <5>1. i # n /\ i \in 1..n - 1 /\ i + 1 \in 1..n
          BY <2>1, <3>3, <4>3
        <5>. QED BY <2>1, <4>3, <5>1
      <4>. QED BY <4>1, <4>2, <4>3
    <3>. QED BY <3>2, <3>3
  <2>. QED BY <2>2, <2>3 DEF Queue
<1>4. CASE calls' = Tail(calls) /\ task'[k].next = 0
  <2>1. /\ n \in Nat \ {0} /\ DOMAIN calls = 1..n /\ DOMAIN calls' = 1..n - 1
        /\ calls[1] = k /\ \A i \in 1..n - 1 : calls'[i] = calls[i + 1]
    BY <1>1, <1>4, Dequeued
  <2>. HIDE DEF n
  <2>2. \A i, j \in DOMAIN calls' : calls'[i] = calls'[j] => i = j
    <3>1. SUFFICES ASSUME NEW i \in 1..n - 1, NEW j \in 1..n - 1, calls'[i] = calls'[j] PROVE i = j
      BY <2>1
    <3>2. calls[i + 1] = calls[j + 1] /\ i + 1 \in 1..n /\ j + 1 \in 1..n
      BY <2>1, <3>1
    <3>3. i + 1 = j + 1
      BY <2>1, <3>2 DEF Queue
    <3>. QED BY <2>1, <3>3
  <2>3. \A j \in Conn : task'[j].next # 0 <=> \E i \in DOMAIN calls' : calls'[i] = j
    <3>1. SUFFICES ASSUME NEW j \in Conn PROVE task'[j].next # 0 <=> \E i \in 1..n - 1 : calls'[i] = j
      BY <2>1
    <3>2. CASE j = k
      <4>1. ASSUME NEW i \in 1..n - 1, calls'[i] = k PROVE FALSE
        <5>1. calls[i + 1] = calls[1] /\ i + 1 \in 1..n /\ 1 \in 1..n
          BY <2>1, <4>1
        <5>2. i + 1 = 1
          BY <2>1, <5>1 DEF Queue
        <5>. QED BY <2>1, <5>2
      <4>. QED BY <1>4, <3>2, <4>1
    <3>3. CASE j # k
      <4>1. task'[j].next # 0 <=> \E i \in 1..n : calls[i] = j
        BY <1>1, <2>1, <3>3 DEF Queue
      <4>2. ASSUME NEW i \in 1..n, calls[i] = j PROVE \E p \in 1..n - 1 : calls'[p] = j
        <5>1. i # 1 /\ i - 1 \in 1..n - 1 /\ (i - 1) + 1 = i
          BY <2>1, <3>3, <4>2
        <5>. QED BY <2>1, <4>2, <5>1
      <4>3. ASSUME NEW i \in 1..n - 1, calls'[i] = j PROVE \E p \in 1..n : calls[p] = j
        <5>1. i + 1 \in 1..n
          BY <2>1
        <5>. QED BY <2>1, <4>3, <5>1
      <4>. QED BY <4>1, <4>2, <4>3
    <3>. QED BY <3>2, <3>3
  <2>. QED BY <2>2, <2>3 DEF Queue
<1>. QED BY <1>2, <1>3, <1>4

LEMMA QueueAsked ==
  ASSUME Types, Queue, NEW k \in Conn, task[k].next = 0, task'[k].next # 0, calls' = Append(calls, k),
         \A j \in Conn : j # k => task'[j] = task[j]
  PROVE  Queue'
<1> DEFINE n == Len(calls)
<1>1. /\ n \in Nat /\ DOMAIN calls = 1..n /\ DOMAIN calls' = 1..n + 1
      /\ calls'[n + 1] = k /\ \A i \in 1..n : calls'[i] = calls[i]
  BY Queued DEF Types
<1>. HIDE DEF n
<1>2. \A i \in 1..n : calls[i] # k
  BY <1>1 DEF Queue
<1>3. \A i, j \in DOMAIN calls' : calls'[i] = calls'[j] => i = j
  <2>1. SUFFICES ASSUME NEW i \in 1..n + 1, NEW j \in 1..n + 1, calls'[i] = calls'[j] PROVE i = j
    BY <1>1
  <2>2. CASE i \in 1..n /\ j \in 1..n
    BY <1>1, <2>1, <2>2 DEF Queue
  <2>3. CASE ~(i \in 1..n /\ j \in 1..n)
    <3>1. i = n + 1 \/ j = n + 1
      BY <1>1, <2>3
    <3>. QED BY <1>1, <1>2, <2>1, <3>1
  <2>. QED BY <2>2, <2>3
<1>4. \A j \in Conn : task'[j].next # 0 <=> \E i \in DOMAIN calls' : calls'[i] = j
  <2>1. SUFFICES ASSUME NEW j \in Conn PROVE task'[j].next # 0 <=> \E i \in 1..n + 1 : calls'[i] = j
    BY <1>1
  <2>2. CASE j = k
    <3>1. n + 1 \in 1..n + 1
      BY <1>1
    <3>. QED BY <1>1, <2>2, <3>1
  <2>3. CASE j # k
    <3>1. task'[j].next # 0 <=> \E i \in 1..n : calls[i] = j
      BY <1>1, <2>3 DEF Queue
    <3>2. \A i \in 1..n : i \in 1..n + 1
      BY <1>1
    <3>3. \A i \in 1..n + 1 : calls'[i] = j => i \in 1..n
      BY <1>1, <2>3
    <3>. QED BY <1>1, <3>1, <3>2, <3>3
  <2>. QED BY <2>2, <2>3
<1>. QED BY <1>3, <1>4 DEF Queue

LEMMA QueueStep ==
  ASSUME Types, Stages, Queue, AnyStep
  PROVE  Queue'
<1>1. ASSUME NEW k \in Conn, k = Head(calls), AnyAnswer(k)
      PROVE  Queue'
  BY <1>1, QueueAnswered
<1>2. ASSUME NEW k \in Conn, Receiving(k)
      PROVE  Queue'
  <2>1. task'[k].next = 0 /\ task[k].next = 0
    <3>1. Head(conn[k].inbox) \in Message
      BY <1>2, LinkFields, HeadAndTail DEF Receiving
    <3>. QED BY <1>2, <3>1, IdleTasks, ChatTask DEF Receiving
  <2>. QED BY <1>2, <2>1, QueueStays DEF Receiving, Mine
<1>3. ASSUME NEW k \in Conn, Admitting(k)
      PROVE  Queue'
  <2>1. CASE calls' = calls /\ task'[k].next = 0
    BY <1>3, <2>1, QueueStays DEF Admitting, Mine
  <2>2. CASE calls' = Append(calls, k) /\ task'[k].next = 1
    BY <1>3, <2>2, QueueAsked DEF Admitting, Mine
  <2>. QED BY <1>3, <2>1, <2>2 DEF Admitting
<1>4. ASSUME NEW k \in Conn, Asking(k)
      PROVE  Queue'
  BY <1>4, QueueAsked DEF Asking, Mine
<1>5. ASSUME NEW c \in Client, NEW k \in Conn, Connecting(c, k)
      PROVE  Queue'
  <2>1. client[c].cursor \in Cursor
    BY SessionFields DEF Types
  <2>2. task'[k].next = 0 /\ task[k].next = 0
    BY <1>5, <2>1, IdleTasks, ResumeTask, ZenonT(60) DEF Connecting
  <2>. QED BY <1>5, <2>2, QueueStays DEF Connecting, Mine
<1>6. ASSUME task' = task, calls' = calls
      PROVE  Queue'
  BY <1>6, QueueStays
<1>7. CASE Restarting
  BY <1>7, IdleTasks DEF Queue, Restarting
<1>. QED BY <1>1, <1>2, <1>3, <1>4, <1>5, <1>6, <1>7 DEF AnyStep, Saying, Hearing, Dropping, Aging, Flushing, Standing

-----------------------------------------------------------------------------
(* What is on the wires.                                                   *)

LEMMA WireAppend ==
  ASSUME NEW w \in Seq(Frame), NEW f \in Frame, NEW v, v = Append(w, f)
  PROVE  /\ Len(w) \in Nat /\ DOMAIN w = 1..Len(w) /\ v \in Seq(Frame) /\ DOMAIN v = 1..Len(w) + 1
         /\ Len(v) = Len(w) + 1 /\ v[Len(w) + 1] = f /\ \A i \in 1..Len(w) : v[i] = w[i]
<1>1. v \in Seq(Frame) /\ Len(v) = Len(w) + 1 /\ (\A i \in 1..Len(w) : v[i] = w[i]) /\ v[Len(w) + 1] = f
  BY AppendProperties
<1>. QED BY <1>1, LenProperties

LEMMA WireConcat ==
  ASSUME NEW w \in Seq(Frame), NEW g \in Seq(Frame), NEW v, v = w \o g
  PROVE  /\ Len(w) \in Nat /\ DOMAIN w = 1..Len(w) /\ Len(g) \in Nat /\ DOMAIN g = 1..Len(g)
         /\ v \in Seq(Frame) /\ DOMAIN v = 1..Len(w) + Len(g) /\ Len(v) = Len(w) + Len(g)
         /\ (\A i \in 1..Len(w) : v[i] = w[i]) /\ \A i \in 1..Len(g) : v[Len(w) + i] = g[i]
<1>1. /\ v \in Seq(Frame) /\ Len(v) = Len(w) + Len(g) /\ Len(w) \in Nat /\ Len(g) \in Nat
      /\ \A i \in 1..Len(v) : v[i] = IF i <= Len(w) THEN w[i] ELSE g[i - Len(w)]
  BY ConcatProperties, LenProperties
<1>2. \A i \in 1..Len(w) : i \in 1..Len(v) /\ i <= Len(w)
  BY <1>1
<1>3. \A i \in 1..Len(g) : Len(w) + i \in 1..Len(v) /\ ~(Len(w) + i <= Len(w)) /\ (Len(w) + i) - Len(w) = i
  BY <1>1
<1>4. DOMAIN v = 1..Len(v) /\ DOMAIN w = 1..Len(w) /\ DOMAIN g = 1..Len(g)
  BY <1>1, LenProperties
<1>. QED BY <1>1, <1>2, <1>3, <1>4

LEMMA WireTail ==
  ASSUME NEW w \in Seq(Frame), w # <<>>, NEW v, v = Tail(w)
  PROVE  /\ Len(w) \in Nat \ {0} /\ DOMAIN w = 1..Len(w) /\ v \in Seq(Frame) /\ DOMAIN v = 1..Len(w) - 1
         /\ Len(v) = Len(w) - 1 /\ w[1] = Head(w) /\ \A i \in 1..Len(w) - 1 : v[i] = w[i + 1]
<1>1. /\ v \in Seq(Frame) /\ Len(v) = Len(w) - 1 /\ Len(w) \in Nat \ {0} /\ w[1] = Head(w)
      /\ \A i \in 1..Len(w) - 1 : v[i] = w[i + 1]
  BY HeadAndTail
<1>. QED BY <1>1, LenProperties

LEMMA FramesOn ==
  ASSUME Types, NEW k \in Conn
  PROVE  /\ wire[k] \in Seq(Frame) /\ Len(wire[k]) \in Nat /\ DOMAIN wire[k] = 1..Len(wire[k])
         /\ \A i \in DOMAIN wire[k] : wire[k][i] \in Frame /\ wire[k][i].seq \in Nat
<1>1. wire[k] \in Seq(Frame)
  BY DEF Types
<1>. QED BY <1>1, Elements, FrameKinds

\* What an answer of the buffer adds to a wire.
LEMMA WireAnswered ==
  ASSUME Types, Stages, NEW k \in Conn, AnyAnswer(k), NEW j \in Conn
  PROVE  \/ wire'[j] = wire[j]
         \/ /\ Telling(k) /\ conn[j].open /\ conn[j].subscribed
            /\ \E f \in Frame : /\ IsChat(f) /\ f.msg = task[k].msg /\ f.seq = task[k].seq
                                /\ f = ChatFrame([msg |-> task[k].msg, seq |-> task[k].seq])
                                /\ wire'[j] = Append(wire[j], f)
         \/ /\ j = k /\ conn[k].open /\ Showing(k)
            /\ \E f \in Frame : /\ f.t = "snapshot" /\ f.epoch = task[k].epoch /\ f.seq = stream.seq
                                /\ f.recent \subseteq Messages(task[k].list)
                                /\ f.recent \cup f.older = Messages(task[k].list)
                                /\ wire'[k] = Append(wire[k], f)
         \/ /\ j = k /\ conn[k].open /\ Resuming(k)
            /\ \E f \in Frame : /\ f.t = "resumed" /\ f.epoch = task[k].epoch /\ f.seq = stream.seq
                                /\ wire'[k] = Append(wire[k], f)
         \/ /\ j = k /\ conn[k].open /\ Replaying(k)
            /\ \E g : Replays(k, g) /\ wire'[k] = wire[k] \o g
<1>1. CASE Telling(k)
  BY <1>1, Told
<1>2. CASE Showing(k)
  <2> DEFINE f == SnapshotFrame([task[k] EXCEPT !.seq = stream.seq])
  <2>1. /\ f \in Frame /\ f.t = "snapshot" /\ f.epoch = task[k].epoch /\ f.seq = stream.seq
        /\ f.recent \subseteq Messages(task[k].list) /\ f.recent \cup f.older = Messages(task[k].list)
        /\ Adds(k, f)
    BY <1>2, Shows
  <2>. HIDE DEF f
  <2>. QED BY <1>2, <2>1 DEF Adds
<1>3. CASE Resuming(k)
  <2> DEFINE f == ResumedFrame([task[k] EXCEPT !.seq = stream.seq])
  <2>1. /\ f \in Frame /\ f.t = "resumed" /\ f.epoch = task[k].epoch /\ f.seq = stream.seq
        /\ Adds(k, f)
    BY <1>3, Reports
  <2>. HIDE DEF f
  <2>. QED BY <1>3, <2>1 DEF Adds
<1>4. CASE Replaying(k)
  <2>1. \E g : Replays(k, g)
    BY <1>4, ReplaysThem
  <2>. QED BY <1>4, <2>1 DEF Replays
<1>5. CASE wire' = wire
  BY <1>5
<1>. QED BY <1>1, <1>2, <1>3, <1>4, <1>5 DEF AnyAnswer, Touching, Reading, Failing, TurningBack, Numbering,
           Pushing, Trimming, Renewing, Listing

-----------------------------------------------------------------------------
(* Connections, and the epochs that anyone knows.                          *)

\* A connection is open exactly if it is a client's, and no two clients share one.
Bound ==
  /\ \A k \in Conn : conn[k].open <=> \E c \in Client : client[c].conn = k
  /\ \A c, d \in Client : client[c].conn = client[d].conn /\ client[c].conn # NoConn => c = d

\* A buffer in memory is within its limit but between the push and the trim of an append.
Limited ==
  ~shared /\ (\A k \in Conn : ~(task[k].op = "chat" /\ task[k].next = 5)) => Len(stream.events) <= MaxEvents

\* A buffer in memory answers one handler at a time.
Alone == ~shared => Len(calls) <= 1

\* No epoch that anyone has was never made up, and no answer is without one.
Known ==
  /\ \A c \in Client :
       LET s == client[c] IN
       /\ s.cursor.epoch <= epochs /\ (s.cursor.epoch = 0 => s.cursor.seq = 0)
       /\ s.answered => s.cursor.epoch # 0
  /\ \A k \in Conn :
       LET t == task[k] IN
       t.cursor.epoch <= epochs /\ (t.cursor.epoch = 0 => t.cursor.seq = 0) /\ t.epoch <= epochs
  /\ \A k \in Conn : \A i \in DOMAIN wire[k] : ~IsChat(wire[k][i]) => wire[k][i].epoch \in 1..epochs

LEMMA BoundStep ==
  ASSUME Types, Bound, AnyStep
  PROVE  Bound'
<1>1. ASSUME client' = client, \A k \in Conn : conn'[k].open = conn[k].open
      PROVE  Bound'
  BY <1>1 DEF Bound
<1>2. ASSUME NEW k \in Conn, k = Head(calls), AnyAnswer(k)
      PROVE  Bound'
  BY <1>1, <1>2, AnswerTurns DEF Turn
<1>3. ASSUME NEW k \in Conn, Receiving(k) \/ Admitting(k) \/ Asking(k)
      PROVE  Bound'
  <2>1. client' = client /\ \A j \in Conn : conn'[j].open = conn[j].open
    BY <1>3 DEF Receiving, Admitting, Asking, Joined
  <2>. QED BY <1>1, <2>1
<1>4. ASSUME NEW c \in Client, NEW k \in Conn, Connecting(c, k)
      PROVE  Bound'
  <2>1. /\ client'[c].conn = k /\ (\A d \in Client : d # c => client'[d] = client[d]) /\ conn'[k].open
        /\ (\A j \in Conn : j # k => conn'[j] = conn[j]) /\ ~conn[k].open /\ client[c].conn = NoConn
    BY <1>4 DEF Connecting, Meant, Joined
  <2>2. k # NoConn /\ \A d \in Client : client[d].conn # k
    BY <2>1 DEF Bound, Conn, NoConn
  <2>3. \A j \in Conn : j # NoConn
    BY DEF Conn, NoConn
  <2>4. \A j \in Conn : conn'[j].open <=> \E d \in Client : client'[d].conn = j
    <3>1. SUFFICES ASSUME NEW j \in Conn PROVE conn'[j].open <=> \E d \in Client : client'[d].conn = j
      OBVIOUS
    <3>2. CASE j = k
      BY <2>1, <3>2
    <3>3. CASE j # k
      BY <2>1, <2>3, <3>3 DEF Bound
    <3>. QED BY <3>2, <3>3
  <2>5. \A d, e \in Client : client'[d].conn = client'[e].conn /\ client'[d].conn # NoConn => d = e
    BY <2>1, <2>2 DEF Bound
  <2>. QED BY <2>4, <2>5 DEF Bound
<1>5. ASSUME NEW c \in Client, Saying(c)
      PROVE  Bound'
  <2>1. client' = client /\ \A j \in Conn : conn'[j].open = conn[j].open
    BY <1>5 DEF Saying, Joined
  <2>. QED BY <1>1, <2>1
<1>6. ASSUME NEW c \in Client, Hearing(c)
      PROVE  Bound'
  <2>1. conn' = conn /\ \A d \in Client : client'[d].conn = client[d].conn
    BY <1>6 DEF Hearing, Meant
  <2>. QED BY <2>1 DEF Bound
<1>7. ASSUME NEW c \in Client, Dropping(c)
      PROVE  Bound'
  <2> DEFINE k == client[c].conn
  <2>1. /\ client'[c].conn = NoConn /\ (\A d \in Client : d # c => client'[d] = client[d]) /\ ~conn'[k].open
        /\ (\A j \in Conn : j # k => conn'[j] = conn[j]) /\ k # NoConn
    BY <1>7 DEF Dropping, Meant, Joined
  <2>2. \A j \in Conn : j # NoConn
    BY DEF Conn, NoConn
  <2>. QED BY <2>1, <2>2 DEF Bound
<1>8. CASE Restarting
  <2>1. \A j \in Conn : j # NoConn
    BY DEF Conn, NoConn
  <2>. QED BY <1>8, <2>1 DEF Bound, Restarting
<1>. QED BY <1>1, <1>2, <1>3, <1>4, <1>5, <1>6, <1>7, <1>8 DEF AnyStep, Aging, Flushing, Standing

LEMMA LimitedStep ==
  ASSUME Types, Stages, Limited, AnyStep
  PROVE  Limited'
<1>1. stream.events \in Seq(Event) /\ Len(stream.events) \in Nat /\ MaxEvents \in Nat
  BY EventSeq, SyncAssumption DEF Types, Stream
<1>2. ASSUME Len(stream'.events) <= Len(stream.events), shared' = shared,
             \A k \in Conn : task[k].op = "chat" /\ task[k].next = 5 => task'[k] = task[k]
      PROVE  Limited'
  <2>1. SUFFICES ASSUME ~shared, \A k \in Conn : ~(task'[k].op = "chat" /\ task'[k].next = 5)
                 PROVE  Len(stream'.events) <= MaxEvents
    BY <1>2 DEF Limited
  <2>2. \A k \in Conn : ~(task[k].op = "chat" /\ task[k].next = 5)
    BY <1>2, <2>1
  <2>3. Len(stream.events) <= MaxEvents
    BY <2>1, <2>2 DEF Limited
  <2>4. Len(stream'.events) \in Nat
    <3>1. stream'.events \in Seq(Event)
      BY TypesStep DEF Types, Stream
    <3>. QED BY <3>1, LenProperties
  <2>. QED BY <1>1, <1>2, <2>3, <2>4
<1>3. Len(stream.events) <= Len(stream.events)
  BY <1>1
<1>4. ASSUME NEW k \in Conn, k = Head(calls), AnyAnswer(k)
      PROVE  Limited'
  <2>1. /\ shared' = shared /\ \A j \in Conn : j # k => task'[j] = task[j]
    BY <1>4, AnswerTurns DEF Turn
  <2>2. CASE Trimming(k)
    BY <1>1, <2>2, TrimmedIs DEF Trimming, Limited
  <2>3. CASE Pushing(k)
    <3>1. task'[k].op = "chat" /\ task'[k].next = 5
      BY <2>3 DEF Pushing, GoesOn
    <3>. QED BY <3>1 DEF Limited
  <2>4. CASE ~Trimming(k) /\ ~Pushing(k)
    <3>1. stream'.events = stream.events
      BY <1>4, <2>4 DEF AnyAnswer, Touching, Reading, Failing, TurningBack, Numbering, Renewing, Telling,
         Listing, Showing, Resuming, Replaying, SameStreamAs
    <3>2. ~(task[k].op = "chat" /\ task[k].next = 5)
      BY <1>4, <2>4 DEF AnyAnswer, Touching, Reading, Failing, TurningBack, Numbering, Renewing, Telling,
         Listing, Showing, Resuming, Replaying, AtTouch, AtEpoch, AtList
    <3>. QED BY <1>2, <1>3, <2>1, <3>1, <3>2
  <2>. QED BY <2>2, <2>3, <2>4
<1>5. ASSUME NEW k \in Conn, Receiving(k) \/ Admitting(k) \/ Asking(k)
      PROVE  Limited'
  <2>1. /\ stream' = stream /\ shared' = shared /\ task[k].next = 0
        /\ \A j \in Conn : j # k => task'[j] = task[j]
    BY <1>5, IdleTasks DEF Receiving, Admitting, Asking, Mine, SameStreamAs
  <2>2. \A j \in Conn : task[j].op = "chat" /\ task[j].next = 5 => task'[j] = task[j]
    BY <2>1
  <2>. QED BY <1>2, <1>3, <2>1, <2>2
<1>6. ASSUME NEW c \in Client, NEW k \in Conn, Connecting(c, k)
      PROVE  Limited'
  <2>1. /\ stream' = stream /\ shared' = shared /\ task[k].next = 0
        /\ \A j \in Conn : j # k => task'[j] = task[j]
    BY <1>6, IdleTasks DEF Connecting, Mine, SameStreamAs
  <2>2. \A j \in Conn : task[j].op = "chat" /\ task[j].next = 5 => task'[j] = task[j]
    BY <2>1
  <2>. QED BY <1>2, <1>3, <2>1, <2>2
<1>7. ASSUME NEW c \in Client, Saying(c) \/ Hearing(c) \/ Dropping(c)
      PROVE  Limited'
  <2>1. stream' = stream /\ shared' = shared /\ task' = task
    BY <1>7 DEF Saying, Hearing, Dropping, SameStreamAs
  <2>. QED BY <1>2, <1>3, <2>1
<1>8. CASE Aging
  <2>1. Len(stream'.events) <= Len(stream.events) /\ shared' = shared /\ task' = task
    <3>1. Len(Tail(stream.events)) = Len(stream.events) - 1
      BY <1>1, <1>8, HeadAndTail DEF Aging
    <3>. QED BY <1>1, <1>8, <3>1 DEF Aging
  <2>. QED BY <1>2, <2>1
<1>9. CASE Restarting
  <2>1. CASE shared
    BY <1>9, <2>1 DEF Restarting, Limited
  <2>2. CASE ~shared
    <3>1. stream'.events = <<>>
      BY <1>9, <2>2, NoStreamIs DEF Restarting
    <3>. QED BY <1>1, <3>1 DEF Limited
  <2>. QED BY <2>1, <2>2 DEF Types
<1>10. CASE Flushing
  BY <1>10 DEF Flushing, Limited
<1>11. CASE Standing
  BY <1>2, <1>3, <1>11 DEF Standing, SameStreamAs
<1>. QED BY <1>4, <1>5, <1>6, <1>7, <1>8, <1>9, <1>10, <1>11 DEF AnyStep

LEMMA AloneStep ==
  ASSUME Types, Stages, Alone, AnyStep
  PROVE  Alone'
<1>1. calls \in Seq(Conn) /\ Len(calls) \in Nat
  BY LenProperties DEF Types
<1>2. ASSUME NEW k \in Conn, k = Head(calls), AnyAnswer(k)
      PROVE  Alone'
  <2>1. calls # <<>> /\ shared' = shared
    BY <1>2, AnswerTurns DEF Turn
  <2>2. calls' = Tail(calls) \/ calls' = Append(Tail(calls), k)
    BY <1>2 DEF AnyAnswer, Touching, Reading, Failing, TurningBack, Numbering, Pushing, Trimming, Renewing, Telling,
           Listing, Showing, Resuming, Replaying, GoesOn
  <2>3. /\ Tail(calls) \in Seq(Conn) /\ Len(Tail(calls)) = Len(calls) - 1
    BY <1>1, <2>1, HeadAndTail
  <2>4. Len(Append(Tail(calls), k)) = Len(calls)
    BY <1>1, <2>3, AppendProperties
  <2>5. Len(calls') <= Len(calls)
    BY <1>1, <2>2, <2>3, <2>4
  <2>6. Len(calls') \in Nat
    BY <1>1, <2>2, <2>3, <2>4, LenProperties
  <2>. QED BY <1>1, <2>1, <2>5, <2>6 DEF Alone
<1>3. ASSUME NEW k \in Conn, MayRun, calls' = Append(calls, k), shared' = shared
      PROVE  Alone'
  <2>1. Len(calls') = Len(calls) + 1
    BY <1>1, <1>3, AppendProperties
  <2>2. ~shared => Len(calls) = 0
    BY <1>3 DEF MayRun
  <2>. QED BY <1>1, <1>3, <2>1, <2>2 DEF Alone
<1>4. ASSUME calls' = calls, shared' = shared
      PROVE  Alone'
  BY <1>4 DEF Alone
<1>5. CASE Restarting
  BY <1>5 DEF Alone, Restarting
<1>6. ASSUME NEW k \in Conn, Admitting(k) \/ Asking(k)
      PROVE  Alone'
  BY <1>3, <1>4, <1>6 DEF Admitting, Asking
<1>. QED BY <1>2, <1>4, <1>5, <1>6 DEF AnyStep, Receiving, Connecting, Saying, Hearing, Dropping, Aging, Flushing, Standing


\* Epochs are only added, and what is learnt of one is one there is.
LEMMA EpochsGrow ==
  ASSUME Types, AnyStep
  PROVE  epochs' \in Nat /\ epochs' >= epochs
<1>1. epochs \in Nat /\ epochs + 1 \in Nat
  BY DEF Types
<1>2. ASSUME epochs' = epochs \/ epochs' = epochs + 1
      PROVE  epochs' \in Nat /\ epochs' >= epochs
  BY <1>1, <1>2
<1>3. ASSUME NEW k \in Conn, AnyAnswer(k)
      PROVE  epochs' = epochs \/ epochs' = epochs + 1
  <2>1. CASE Touching(k)
    BY <2>1 DEF Touching, SameStreamAs
  <2>2. CASE Numbering(k) \/ Pushing(k) \/ Trimming(k)
    BY <2>2 DEF Numbering, Pushing, Trimming
  <2>3. CASE SameStreamAs
    BY <2>3 DEF SameStreamAs
  <2>. QED BY <1>3, <2>1, <2>2, <2>3 DEF AnyAnswer, Reading, Failing, TurningBack, Renewing, Telling, Listing,
           Showing, Resuming, Replaying
<1>4. ASSUME NEW k \in Conn, Receiving(k) \/ Admitting(k) \/ Asking(k)
      PROVE  epochs' = epochs
  BY <1>4 DEF Receiving, Admitting, Asking, SameStreamAs
<1>5. ASSUME NEW c \in Client, (\E k \in Conn : Connecting(c, k)) \/ Saying(c) \/ Hearing(c) \/ Dropping(c)
      PROVE  epochs' = epochs
  BY <1>5 DEF Connecting, Saying, Hearing, Dropping, SameStreamAs
<1>6. ASSUME Aging \/ Restarting \/ Flushing \/ Standing
      PROVE  epochs' = epochs
  BY <1>6 DEF Aging, Restarting, Flushing, Standing, SameStreamAs
<1>. QED BY <1>2, <1>3, <1>4, <1>5, <1>6 DEF AnyStep

LEMMA KnownStep ==
  ASSUME Types, Stages, Known, AnyStep
  PROVE  Known'
<1>1. epochs \in Nat /\ epochs' \in Nat /\ epochs' >= epochs
  BY EpochsGrow DEF Types
<1>2. Types'
  BY TypesStep
<1>3. /\ \A k \in Conn : task[k] \in Task /\ task[k].cursor.epoch \in Nat /\ task[k].epoch \in Nat
      /\ \A c \in Client : client[c] \in Session /\ client[c].cursor.epoch \in Nat /\ client[c].cursor.seq \in Nat
  BY TaskFields, SessionFields DEF Types, Cursor
<1>. DEFINE KnowsC(s) == /\ s.cursor.epoch <= epochs' /\ (s.cursor.epoch = 0 => s.cursor.seq = 0)
                         /\ s.answered => s.cursor.epoch # 0
            KnowsT(t) == t.cursor.epoch <= epochs' /\ (t.cursor.epoch = 0 => t.cursor.seq = 0) /\ t.epoch <= epochs'
            KnowsW(w) == \A i \in DOMAIN w : ~IsChat(w[i]) => w[i].epoch \in 1..epochs'
<1>4. /\ \A c \in Client : KnowsC(client[c])
      /\ \A k \in Conn : KnowsT(task[k]) /\ KnowsW(wire[k])
  <2>1. \A k \in Conn : KnowsW(wire[k])
    BY <1>1 DEF Known
  <2>2. \A k \in Conn : KnowsT(task[k])
    BY <1>1, <1>3 DEF Known
  <2>3. \A c \in Client : KnowsC(client[c])
    BY <1>1, <1>3 DEF Known
  <2>. QED BY <2>1, <2>2, <2>3
<1>5. SUFFICES (\A c \in Client : KnowsC(client'[c])) /\ \A k \in Conn : KnowsT(task'[k]) /\ KnowsW(wire'[k])
  BY DEF Known
<1>6. KnowsT(Idle) /\ KnowsW(<<>>)
  BY <1>1, IdleTasks DEF NoCursor
<1>7. ASSUME NEW k \in Conn, k = Head(calls), AnyAnswer(k)
      PROVE  (\A c \in Client : KnowsC(client'[c])) /\ \A j \in Conn : KnowsT(task'[j]) /\ KnowsW(wire'[j])
  <2>1. client' = client /\ \A j \in Conn : j # k => task'[j] = task[j]
    BY <1>7, AnswerTurns DEF Turn
  <2>2. KnowsT(task'[k])
    <3>1. CASE Failing(k) \/ Telling(k) \/ Showing(k) \/ Resuming(k)
      BY <1>6, <3>1 DEF Failing, Telling, Showing, Resuming
    <3>2. CASE TurningBack(k)
      <4>1. task'[k].cursor = NoCursor /\ task'[k].epoch = 0
        BY <3>2, SnapshotTask DEF TurningBack
      <4>. QED BY <1>1, <4>1 DEF NoCursor
    <3>3. CASE Replaying(k)
      <4>1. "report" \in Op /\ 1 \in {0, 1}
        BY DEF Op
      <4>2. task'[k].cursor = NoCursor /\ task'[k].epoch = 0
        BY <3>3, <4>1, NewTask DEF Replaying
      <4>. QED BY <1>1, <4>2 DEF NoCursor
    <3>4. CASE Reading(k)
      <4>1. task'[k].cursor = task[k].cursor /\ task'[k].epoch = stream.epoch /\ stream.epoch <= epochs /\ stream.epoch \in Nat
        BY <3>4 DEF Reading, KeepsRest, Types, Stream
      <4>. QED BY <1>1, <1>4, <4>1
    <3>5. CASE Touching(k) \/ Numbering(k) \/ Pushing(k) \/ Trimming(k) \/ Renewing(k) \/ Listing(k)
      <4>1. task'[k].cursor = task[k].cursor /\ task'[k].epoch = task[k].epoch
        BY <3>5 DEF Touching, Numbering, Pushing, Trimming, Renewing, Listing, KeepsRest, KeepsEpoch
      <4>. QED BY <1>4, <4>1
    <3>. QED BY <1>7, <3>1, <3>2, <3>3, <3>4, <3>5 DEF AnyAnswer
  <2>3. ASSUME NEW j \in Conn PROVE KnowsW(wire'[j])
    <3>1. wire[j] \in Seq(Frame)
      BY DEF Types
    <3>2. ASSUME NEW f \in Frame, wire'[j] = Append(wire[j], f), ~IsChat(f) => f.epoch \in 1..epochs'
          PROVE  KnowsW(wire'[j])
      <4> DEFINE v == wire'[j]
      <4>1. /\ Len(wire[j]) \in Nat /\ DOMAIN wire[j] = 1..Len(wire[j]) /\ DOMAIN v = 1..Len(wire[j]) + 1
            /\ v[Len(wire[j]) + 1] = f /\ \A i \in 1..Len(wire[j]) : v[i] = wire[j][i]
        BY <3>1, <3>2, WireAppend
      <4>. HIDE DEF v
      <4>2. \A i \in DOMAIN v : (i \in DOMAIN wire[j] /\ v[i] = wire[j][i]) \/ v[i] = f
        BY <4>1
      <4>3. KnowsW(v)
        BY <1>4, <3>2, <4>2
      <4>. QED BY <4>3 DEF v
    <3>3. CASE Showing(k) \/ Resuming(k)
      <4>1. task[k].epoch \in 1..epochs'
        <5>1. task[k].epoch # 0
          BY <3>3 DEF Stages, InStage, EpochRead, Showing, Resuming
        <5>. QED BY <1>1, <1>3, <1>4, <5>1
      <4>2. PICK f \in Frame : f.epoch = task[k].epoch /\ Adds(k, f)
        BY <3>3, Shows, Reports
      <4>3. wire'[j] = wire[j] \/ wire'[j] = Append(wire[j], f)
        BY <4>2 DEF Adds
      <4>. QED BY <1>4, <3>2, <4>1, <4>2, <4>3
    <3>4. CASE Replaying(k)
      <4>1. CASE wire'[j] = wire[j]
        BY <1>4, <4>1
      <4>2. CASE wire'[j] # wire[j]
        <5>1. PICK g : Replays(k, g) /\ wire'[j] = wire[j] \o g
          <6>1. PICK g : Replays(k, g)
            BY <3>4, ReplaysThem
          <6>2. j = k /\ wire'[j] = wire[j] \o g
            BY <4>2, <6>1 DEF Replays
          <6>. QED BY <6>1, <6>2
        <5> DEFINE v == wire'[j]
        <5>2. g \in Seq(Frame) /\ \A i \in DOMAIN g : IsChat(g[i])
          BY <5>1 DEF Replays
        <5>3. /\ Len(wire[j]) \in Nat /\ DOMAIN wire[j] = 1..Len(wire[j]) /\ Len(g) \in Nat /\ DOMAIN g = 1..Len(g)
              /\ DOMAIN v = 1..Len(wire[j]) + Len(g)
              /\ (\A i \in 1..Len(wire[j]) : v[i] = wire[j][i]) /\ \A i \in 1..Len(g) : v[Len(wire[j]) + i] = g[i]
          BY <3>1, <5>1, <5>2, WireConcat
        <5>. HIDE DEF v
        <5>4. \A i \in DOMAIN v : i \in DOMAIN wire[j] \/ (i - Len(wire[j]) \in DOMAIN g /\ Len(wire[j]) + (i - Len(wire[j])) = i)
          BY <5>3
        <5>5. \A i \in DOMAIN v : (i \in DOMAIN wire[j] /\ v[i] = wire[j][i]) \/ IsChat(v[i])
          BY <5>2, <5>3, <5>4
        <5>6. KnowsW(v)
          BY <1>4, <5>5
        <5>. QED BY <5>6 DEF v
      <4>. QED BY <4>1, <4>2
    <3>5. CASE Telling(k)
      <4>1. wire'[j] = wire[j] \/ \E f \in Frame : IsChat(f) /\ wire'[j] = Append(wire[j], f)
        BY <3>5, Told
      <4>. QED BY <1>4, <3>2, <4>1
    <3>6. CASE wire' = wire
      BY <1>4, <3>6
    <3>. QED BY <1>7, <3>3, <3>4, <3>5, <3>6 DEF AnyAnswer, Touching, Reading, Failing, TurningBack, Numbering,
             Pushing, Trimming, Renewing, Listing
  <2>. QED BY <1>4, <2>1, <2>2, <2>3
<1>8. ASSUME NEW k \in Conn, Receiving(k) \/ Admitting(k) \/ Asking(k)
      PROVE  (\A c \in Client : KnowsC(client'[c])) /\ \A j \in Conn : KnowsT(task'[j]) /\ KnowsW(wire'[j])
  <2>1. client' = client /\ wire' = wire /\ \A j \in Conn : j # k => task'[j] = task[j]
    BY <1>8 DEF Receiving, Admitting, Asking, Mine
  <2>2. KnowsT(task'[k])
    <3>1. CASE Receiving(k)
      <4>1. Head(conn[k].inbox) \in Message
        BY <3>1, LinkFields, HeadAndTail DEF Receiving
      <4>2. task'[k].cursor = NoCursor /\ task'[k].epoch = 0
        BY <3>1, <4>1, IdleTasks, ChatTask DEF Receiving
      <4>. QED BY <1>1, <4>2 DEF NoCursor
    <3>2. CASE Admitting(k) \/ Asking(k)
      <4>1. task'[k].cursor = task[k].cursor /\ task'[k].epoch = task[k].epoch
        BY <3>2 DEF Admitting, Asking, KeepsAll, KeepsRest, KeepsEpoch
      <4>. QED BY <1>4, <4>1
    <3>. QED BY <1>8, <3>1, <3>2
  <2>. QED BY <1>4, <2>1, <2>2
<1>9. ASSUME NEW c \in Client, NEW k \in Conn, Connecting(c, k)
      PROVE  (\A d \in Client : KnowsC(client'[d])) /\ \A j \in Conn : KnowsT(task'[j]) /\ KnowsW(wire'[j])
  <2>1. /\ wire' = wire /\ (\A j \in Conn : j # k => task'[j] = task[j])
        /\ (\A d \in Client : d # c => client'[d] = client[d])
        /\ client'[c].cursor = client[c].cursor /\ ~client'[c].answered
    BY <1>9 DEF Connecting, Mine, Meant
  <2>2. task'[k].cursor = client[c].cursor /\ task'[k].epoch = 0
    <3>1. client[c].cursor \in Cursor
      BY <1>3, SessionFields
    <3>2. task'[k] = [Idle EXCEPT !.op = "resume", !.cursor = client[c].cursor]
      BY <1>9 DEF Connecting
    <3>. QED BY <3>1, <3>2, ResumeTask
  <2>3. KnowsT(task'[k])
    BY <1>1, <1>4, <2>2
  <2>4. KnowsC(client'[c])
    BY <1>4, <2>1
  <2>. QED BY <1>4, <2>1, <2>3, <2>4
<1>10. ASSUME NEW c \in Client, Saying(c) \/ Dropping(c)
       PROVE  (\A d \in Client : KnowsC(client'[d])) /\ \A j \in Conn : KnowsT(task'[j]) /\ KnowsW(wire'[j])
  <2>1. /\ task' = task /\ \A j \in Conn : wire'[j] = wire[j] \/ wire'[j] = <<>>
    BY <1>10 DEF Saying, Dropping
  <2>2. \A d \in Client : client'[d].cursor = client[d].cursor /\ client'[d].answered = client[d].answered
    BY <1>10 DEF Saying, Dropping, Meant
  <2>3. \A j \in Conn : KnowsW(wire'[j])
    BY <1>4, <1>6, <2>1
  <2>4. \A d \in Client : KnowsC(client'[d])
    BY <1>4, <2>2
  <2>. QED BY <1>4, <2>1, <2>3, <2>4
<1>11. ASSUME NEW c \in Client, Hearing(c)
       PROVE  (\A d \in Client : KnowsC(client'[d])) /\ \A j \in Conn : KnowsT(task'[j]) /\ KnowsW(wire'[j])
  <2> DEFINE k == client[c].conn
             f == Head(wire[k])
  <2>1. /\ task' = task /\ (\A d \in Client : d # c => client'[d] = client[d])
        /\ (\A j \in Conn : j # k => wire'[j] = wire[j]) /\ wire'[k] = Tail(wire[k])
        /\ client'[c] = Heard(client[c], f) /\ f \in Frame /\ k \in Conn /\ wire[k] # <<>>
    BY <1>11 DEF Hearing, Meant
  <2>2. wire[k] \in Seq(Frame)
    BY <2>1 DEF Types
  <2>3. /\ Len(wire[k]) \in Nat \ {0} /\ DOMAIN wire[k] = 1..Len(wire[k])
        /\ DOMAIN wire'[k] = 1..Len(wire[k]) - 1
        /\ wire[k][1] = f /\ \A i \in 1..Len(wire[k]) - 1 : wire'[k][i] = wire[k][i + 1]
    BY <2>1, <2>2, WireTail
  <2>. HIDE DEF f, k
  <2>4. ~IsChat(f) => f.epoch \in 1..epochs'
    BY <1>4, <2>1, <2>3
  <2>5. KnowsW(wire'[k])
    <3>1. \A i \in DOMAIN wire'[k] : i + 1 \in DOMAIN wire[k] /\ wire'[k][i] = wire[k][i + 1]
      BY <2>3
    <3>. QED BY <1>4, <2>1, <3>1
  <2>6. KnowsC(client'[c])
    <3>1. CASE IsChat(f)
      <4>1. /\ client'[c].cursor = CursorAfter(client[c].cursor, f.seq) /\ client'[c].answered = client[c].answered
            /\ f.seq \in Nat
        BY <1>3, <2>1, <3>1, FrameKinds, HeardChat DEF IsChat
      <4>2. CursorAfter(client[c].cursor, f.seq) = client[c].cursor \/ client[c].cursor # NoCursor
        BY DEF CursorAfter
      <4>3. client[c].cursor \in Cursor
        BY <1>3, SessionFields
      <4>4. CursorAfter(client[c].cursor, f.seq).epoch = client[c].cursor.epoch
        BY <4>1, <4>3, CursorMoves
      <4>5. client[c].cursor # NoCursor => client[c].cursor.epoch # 0
        BY <1>4, <4>3 DEF Cursor, NoCursor
      <4>. QED BY <1>4, <4>1, <4>2, <4>4, <4>5
    <3>2. CASE ~IsChat(f)
      <4>1. client'[c].cursor.epoch = f.epoch
        BY <1>3, <2>1, <3>2, FrameKinds, HeardSnapshot, HeardResumed DEF IsChat
      <4>. QED BY <1>1, <2>4, <3>2, <4>1
    <3>. QED BY <3>1, <3>2
  <2>. QED BY <1>4, <2>1, <2>5, <2>6
<1>12. CASE Restarting
  BY <1>4, <1>6, <1>12 DEF Restarting
<1>13. CASE Aging \/ Flushing \/ Standing
  BY <1>4, <1>13 DEF Aging, Flushing, Standing
<1>. QED BY <1>7, <1>8, <1>9, <1>10, <1>11, <1>12, <1>13 DEF AnyStep

===============================================================================
