---------------------------- MODULE CampaignsProofs ----------------------------
(* Proofs about Campaigns, for any users, characters and requests: it implements Roster until an   *)
(* update is lost, and what holds even then.                                                       *)
EXTENDS Campaigns, TLAPS

Row == Members!Row
Invites == [made : BOOLEAN, revoked : BOOLEAN, uses : Nat]

\* A row that may stand for a user when the characters of A exist.
Good(m) ==
  /\ m \in Row
  /\ m.role # "player" => m.active = NoCharacter
  /\ m.role # "dm" => m.parked = NoCharacter
Mine(u, m, A) == \A c \in Character : c \in {m.active, m.parked} => c \in A /\ Owner[c] = u
Fits(u, m, A) == Good(m) /\ Mine(u, m, A)

\* What a request has read before each of its reads, when the rows are R.
Reading(t, R, A, p) ==
  /\ t.user \in User /\ t.other \in User
  /\ \/ t.at = "settings" /\ t.op \in {"create", "invite"}
     \/ /\ t.at = "member" /\ t.op \in {"join", "invite", "revoke", "add", "activate", "swap", "leave"}
        /\ t.op = "join" => t.seen \in Invites
        /\ t.op = "add" => t.char \in Character /\ Owner[t.char] = t.user
        /\ t.op = "activate" => t.char \in Character
     \/ /\ t.at = "character" /\ t.op = "activate" /\ t.char \in Character
        /\ Fits(t.user, t.row, A) /\ t.row.role = "player"
     \/ /\ t.at = "actor" /\ t.op = "swap" /\ t.user # t.other
        /\ ~p => R[t.user].role = "dm"
     \/ /\ t.at = "other" /\ t.op = "swap" /\ t.user # t.other
        /\ Fits(t.user, t.row, A) /\ t.row.role # "none" /\ (~p => t.row.role = "dm")
     \/ t.at = "invite" /\ t.op \in {"revoke", "join"}

\* The writes of each kind of request.
Created(t) ==
  /\ t.op = "create" /\ t.first = NoWrite
  /\ \E u \in User : t.second = MemberWrite(u, NotMember, Members!NewMember("dm"))

OfInvite(t) ==
  /\ t.op \in {"invite", "revoke"} /\ t.first = NoWrite
  /\ \/ t.second = InviteWrite(NoInvite, [NoInvite EXCEPT !.made = TRUE])
     \/ \E i \in Invites : t.second = InviteWrite(i, [i EXCEPT !.revoked = TRUE])

Joins(t) ==
  /\ t.op = "join"
  /\ \E u \in User, i \in Invites :
       /\ t.first = MemberWrite(u, NotMember, Members!NewMember("player"))
       /\ t.second = InviteWrite(i, [i EXCEPT !.uses = @ + 1])

Leaves(t) ==
  /\ t.op = "leave" /\ t.first = NoWrite
  /\ \E u \in User, m \in Row : m.role = "player" /\ t.second = MemberWrite(u, m, NotMember)

Activates(t, A) ==
  /\ t.op = "activate" /\ t.first = NoWrite
  /\ \E u \in User, m \in Row, c \in Character :
       /\ Fits(u, m, A) /\ m.role = "player" /\ c \in A /\ Owner[c] = u
       /\ t.second = MemberWrite(u, m, [m EXCEPT !.active = c])

AddsOnly(t) ==
  /\ t.op = "add" /\ t.first = NoWrite
  /\ \E c \in Character : t.second = CharacterWrite(c)

AddsAndPlays(t, A) ==
  /\ t.op = "add"
  /\ \E u \in User, m \in Row, c \in Character :
       /\ Fits(u, m, A) /\ Owner[c] = u /\ t.first = CharacterWrite(c)
       /\ \/ m.role = "player" /\ t.second = MemberWrite(u, m, [m EXCEPT !.active = c])
          \/ m.role = "dm" /\ m.parked = NoCharacter /\ t.second = MemberWrite(u, m, [m EXCEPT !.parked = c])

Swaps(t, A, p) ==
  /\ t.op = "swap"
  /\ \E u, v \in User, d, m \in Row :
       /\ u # v /\ Fits(u, d, A) /\ Fits(v, m, A)
       /\ d.role # "none" /\ (~p => d.role = "dm") /\ m.role = "player"
       /\ t.first = MemberWrite(u, d, Members!Demoted(d)) /\ t.second = MemberWrite(v, m, Members!Promoted(m))

Shape(t, A, p) ==
  \/ Created(t) \/ OfInvite(t) \/ Joins(t) \/ Leaves(t) \/ AddsOnly(t)
  \/ Activates(t, A) \/ AddsAndPlays(t, A) \/ Swaps(t, A, p)

Fine(t, R, A, p) ==
  /\ DOMAIN t = DOMAIN Idle
  /\ t = Idle \/ Reading(t, R, A, p) \/ (Writing(t) /\ Shape(t, A, p))

\* A swap in memory is alone, so that it finds the DM it has read; the rest is true of every request.
Alone(r) == \A s \in Request : s # r => task[s] = Idle
Empty == \A u \in User : rows[u] = NotMember
Busy(op) == op \notin {"idle", "create"}

Tasks1 == \A r \in Request : Fine(task[r], rows, added, postgres)
Creating == \A r \in Request : task[r].op = "create" => Empty /\ Alone(r)
Memory == ~postgres => \A r \in Request : task[r] # Idle => Alone(r)

\* Until an update is lost there is one DM, if there is anybody.
OneUnlessLost == ~lost => OneDM
SomebodyIsThere == ~lost => \A r \in Request : Busy(task[r].op) => \E u \in User : rows[u].role # "none"

Inv ==
  /\ task = [r \in Request |-> task[r]] /\ rows \in [User -> Row] /\ invite \in Invites
  /\ added \subseteq Character /\ lost \in BOOLEAN /\ overtaken \in BOOLEAN
  /\ \A u \in User : Fits(u, rows[u], added)
  /\ Tasks1 /\ Creating /\ Memory /\ OneUnlessLost /\ SomebodyIsThere
  /\ InviteCounts

-----------------------------------------------------------------------------
(* Rows.                                                                   *)

LEMMA RowsTyped ==
  /\ NotMember \in Row /\ Good(NotMember) /\ \A u \in User : \A A : Mine(u, NotMember, A)
  /\ \A role \in {"player", "dm"} :
       LET m == Members!NewMember(role) IN
       Good(m) /\ m.role = role /\ \A u \in User : \A A : Mine(u, m, A)
  BY CampaignsAssumption DEF Row, Members!Row, NotMember, Members!NotMember, Members!NewMember, Good, Mine

LEMMA SwapTyped ==
  ASSUME NEW m, Good(m), NEW u \in User, NEW A, Mine(u, m, A)
  PROVE  /\ Fits(u, Members!Demoted(m), A) /\ Members!Demoted(m).role = "player"
         /\ m.role = "player" => Fits(u, Members!Promoted(m), A) /\ Members!Promoted(m).role = "dm"
  BY CampaignsAssumption DEF Good, Mine, Fits, Row, Members!Row, Members!Demoted, Members!Promoted

LEMMA PlayTyped ==
  ASSUME NEW u \in User, NEW A, NEW B, A \subseteq B, NEW m, Fits(u, m, A),
         NEW c \in Character, c \in B, Owner[c] = u
  PROVE  /\ m.role = "player" => Fits(u, [m EXCEPT !.active = c], B) /\ [m EXCEPT !.active = c].role = "player"
         /\ m.role = "dm" => Fits(u, [m EXCEPT !.parked = c], B) /\ [m EXCEPT !.parked = c].role = "dm"
<1>. DEFINE a == [m EXCEPT !.active = c]
            b == [m EXCEPT !.parked = c]
<1>1. m \in Row /\ Good(m) /\ Mine(u, m, B)
  BY DEF Fits, Good, Mine
<1>2. a \in Row /\ a.role = m.role /\ a.active = c /\ a.parked = m.parked
  BY <1>1 DEF Row, Members!Row
<1>3. b \in Row /\ b.role = m.role /\ b.active = m.active /\ b.parked = c
  BY <1>1 DEF Row, Members!Row
<1>4. Mine(u, a, B) /\ Mine(u, b, B)
  BY <1>1, <1>2, <1>3 DEF Mine
<1>5. (m.role = "player" => Good(a)) /\ (m.role = "dm" => Good(b))
  BY <1>1, <1>2, <1>3 DEF Good
<1>. QED BY <1>2, <1>3, <1>4, <1>5 DEF Fits

LEMMA FitsGrows ==
  ASSUME NEW u, NEW m, NEW A, NEW B, A \subseteq B, Fits(u, m, A)
  PROVE  Fits(u, m, B)
  BY DEF Fits, Mine

\* Whoever is no member has nothing.
LEMMA NobodyHasNothing ==
  ASSUME NEW m, Good(m), m.role = "none"
  PROVE  m = NotMember
  BY DEF Good, Row, Members!Row, NotMember, Members!NotMember

LEMMA InvitesTyped ==
  /\ NoInvite \in Invites /\ NoInvite.uses = 0
  /\ [NoInvite EXCEPT !.made = TRUE] \in Invites /\ [NoInvite EXCEPT !.made = TRUE].uses = 0
  /\ \A i \in Invites : /\ [i EXCEPT !.revoked = TRUE] \in Invites /\ [i EXCEPT !.revoked = TRUE].uses = i.uses
                        /\ [i EXCEPT !.uses = @ + 1] \in Invites /\ [i EXCEPT !.uses = @ + 1].uses = i.uses + 1
<1>1. ASSUME NEW i \in Invites
      PROVE  /\ [i EXCEPT !.revoked = TRUE] \in Invites /\ [i EXCEPT !.revoked = TRUE].uses = i.uses
             /\ [i EXCEPT !.made = TRUE] \in Invites /\ [i EXCEPT !.made = TRUE].uses = i.uses
  BY DEF Invites
<1>2. ASSUME NEW i \in Invites
      PROVE  [i EXCEPT !.uses = @ + 1] \in Invites /\ [i EXCEPT !.uses = @ + 1].uses = i.uses + 1
  <2>1. i.uses + 1 \in Nat
    BY DEF Invites
  <2>. QED BY <2>1 DEF Invites
<1>3. NoInvite \in Invites /\ NoInvite.uses = 0
  BY DEF Invites, NoInvite
<1>. QED BY <1>1, <1>2, <1>3

LEMMA IdleIsFine ==
  /\ Idle.op = "idle" /\ Idle.at = "-"
  /\ \A R, A, p : Fine(Idle, R, A, p)
  BY DEF Idle, Fine

\* A request that stays as it is stays fine while others write.
LEMMA FineStays ==
  ASSUME NEW t, NEW R, NEW S, NEW A, NEW B, NEW p, A \subseteq B, Fine(t, R, A, p), R = S \/ p
  PROVE  Fine(t, S, B, p)
<1>1. CASE t = Idle
  BY <1>1 DEF Fine
<1>2. CASE Reading(t, R, A, p)
  <2>1. Reading(t, S, B, p)
    BY <1>2, FitsGrows DEF Reading
  <2>. QED BY <2>1 DEF Fine
<1>3. CASE Writing(t) /\ Shape(t, A, p)
  <2>1. Activates(t, A) => Activates(t, B)
    BY FitsGrows DEF Activates
  <2>2. AddsAndPlays(t, A) => AddsAndPlays(t, B)
    BY FitsGrows DEF AddsAndPlays
  <2>3. Swaps(t, A, p) => Swaps(t, B, p)
    BY FitsGrows DEF Swaps
  <2>. QED BY <1>3, <2>1, <2>2, <2>3 DEF Fine, Shape
<1>. QED BY <1>1, <1>2, <1>3 DEF Fine

-----------------------------------------------------------------------------
(* The steps that only read.                                               *)

\* A request goes on to a task that is fine.
LEMMA GoesKeeps ==
  ASSUME Inv, NEW r \in Request, NEW t, Fine(t, rows, added, postgres), Goes(r, t),
         t.op = "create" => Empty /\ Alone(r),
         t # Idle /\ ~postgres => Alone(r),
         t # Idle => task[r] # Idle \/ \A s \in Request : task[s].op # "create",
         ~lost /\ Busy(t.op) => \E u \in User : rows[u].role # "none"
  PROVE  Inv' /\ UNCHANGED <<rows, lost>>
<1>1. /\ UNCHANGED <<postgres, rows, added, invite, joins, lost, overtaken>>
      /\ task' = [task EXCEPT ![r] = t]
  BY DEF Goes, data, ghosts
<1>2. task = [s \in Request |-> task[s]]
  BY DEF Inv
<1>3. /\ task' = [s \in Request |-> task'[s]]
      /\ \A s \in Request : task'[s] = IF s = r THEN t ELSE task[s]
  BY <1>1, <1>2
<1>4. Tasks1'
  BY <1>1, <1>3 DEF Inv, Tasks1
<1>5. Creating'
  <2>1. ASSUME NEW s \in Request, task'[s].op = "create"
        PROVE  Empty /\ \A q \in Request : q # s => task'[q] = Idle
    <3>1. CASE s = r
      BY <1>3, <2>1, <3>1 DEF Alone
    <3>2. CASE s # r
      <4>1. task[s].op = "create"
        BY <1>3, <2>1, <3>2
      <4>2. Empty /\ \A q \in Request : q # s => task[q] = Idle
        BY <4>1 DEF Inv, Creating, Alone
      <4>3. t = Idle
        BY <3>2, <4>1, <4>2
      <4>. QED BY <1>3, <3>2, <4>2, <4>3
    <3>. QED BY <3>1, <3>2
  <2>2. Empty' <=> Empty
    BY <1>1 DEF Empty
  <2>. QED BY <2>1, <2>2 DEF Creating, Alone
<1>6. Memory'
  <2>1. ASSUME ~postgres, NEW s \in Request, task'[s] # Idle
        PROVE  \A q \in Request : q # s => task'[q] = Idle
    <3>1. CASE s = r
      BY <1>3, <2>1, <3>1 DEF Alone
    <3>2. CASE s # r
      <4>1. task[s] # Idle /\ \A q \in Request : q # s => task[q] = Idle
        BY <1>3, <2>1, <3>2 DEF Inv, Memory, Alone
      <4>2. t = Idle
        BY <2>1, <3>2, <4>1 DEF Alone
      <4>. QED BY <1>3, <3>2, <4>1, <4>2
    <3>. QED BY <3>1, <3>2
  <2>. QED BY <1>1, <2>1 DEF Memory, Alone
<1>7. SomebodyIsThere'
  <2>1. ASSUME ~lost, NEW s \in Request, Busy(task'[s].op)
        PROVE  \E u \in User : rows[u].role # "none"
    <3>1. CASE s = r
      BY <1>3, <2>1, <3>1
    <3>2. CASE s # r
      BY <1>3, <2>1, <3>2 DEF Inv, SomebodyIsThere
    <3>. QED BY <3>1, <3>2
  <2>. QED BY <1>1, <2>1 DEF SomebodyIsThere, Busy
<1>8. OneUnlessLost'
  BY <1>1 DEF Inv, OneUnlessLost, OneDM, Members!OneDM, Members!DM
<1>9. /\ rows' \in [User -> Row] /\ invite' \in Invites
      /\ added' \subseteq Character /\ lost' \in BOOLEAN /\ overtaken' \in BOOLEAN
      /\ InviteCounts'
  BY <1>1 DEF Inv, InviteCounts
<1>10. \A u \in User : Fits(u, rows'[u], added')
  BY <1>1 DEF Inv
<1>. QED BY <1>1, <1>3, <1>4, <1>5, <1>6, <1>7, <1>8, <1>9, <1>10 DEF Inv

LEMMA ReadsOn ==
  ASSUME Inv, NEW r \in Request, NEW t, Goes(r, t), task[r] # Idle,
         t = Idle \/ (Fine(t, rows, added, postgres) /\ t.op = task[r].op)
  PROVE  Inv' /\ UNCHANGED <<rows, lost>>
<1>1. CASE t = Idle
  BY <1>1, GoesKeeps, IdleIsFine DEF Busy
<1>2. CASE Fine(t, rows, added, postgres) /\ t.op = task[r].op
  <2>1. t.op = "create" => Empty /\ Alone(r)
    BY <1>2 DEF Inv, Creating
  <2>2. ~postgres => Alone(r)
    BY DEF Inv, Memory
  <2>3. ~lost /\ Busy(t.op) => \E u \in User : rows[u].role # "none"
    BY <1>2 DEF Inv, SomebodyIsThere
  <2>. QED BY <1>2, <2>1, <2>2, <2>3, GoesKeeps
<1>. QED BY <1>1, <1>2

LEMMA WritesTyped ==
  ASSUME NEW t, NEW v, NEW w
  PROVE  /\ LET x == Writes1(t, w)
            IN  x.op = t.op /\ x.at = "second" /\ x.first = NoWrite /\ x.second = w /\ DOMAIN x = DOMAIN Idle
         /\ LET x == Writes2(t, v, w)
            IN  x.op = t.op /\ x.at = "first" /\ x.first = v /\ x.second = w /\ DOMAIN x = DOMAIN Idle
  BY DEF Writes1, Writes2, Idle

\* A request that is about to read is neither idle nor writing, and what it has read still holds.
LEMMA ReadsFine ==
  ASSUME Inv, NEW r \in Request,
         task[r].at \in {"settings", "member", "character", "actor", "other", "invite"}
  PROVE  /\ task[r] # Idle /\ Reading(task[r], rows, added, postgres) /\ DOMAIN task[r] = DOMAIN Idle
         /\ task[r].user \in User /\ task[r].other \in User
<1>1. Fine(task[r], rows, added, postgres)
  BY DEF Inv, Tasks1
<1>. QED BY <1>1, IdleIsFine DEF Fine, Reading, Writing

LEMMA RowsFine ==
  ASSUME Inv, NEW u \in User
  PROVE  rows[u] \in Row /\ Fits(u, rows[u], added)
  BY DEF Inv, Fits, Good

LEMMA SettingsKeeps ==
  ASSUME Inv, NEW r \in Request, ReadSettings(r)
  PROVE  Inv' /\ UNCHANGED <<rows, lost>>
<1>. DEFINE t == task[r]
<1>1. t.at = "settings"
  BY DEF ReadSettings
<1>2. t # Idle /\ t.user \in User
  BY <1>1, ReadsFine
<1>3. CASE Refuses(r)
  BY <1>2, <1>3, ReadsOn DEF Refuses
<1>4. CASE /\ t.op = "create"
           /\ Goes(r, Writes1(t, MemberWrite(t.user, NotMember, Members!NewMember("dm"))))
  <2>. DEFINE x == Writes1(t, MemberWrite(t.user, NotMember, Members!NewMember("dm")))
  <2>1. Created(x) /\ Writing(x) /\ x.op = t.op /\ DOMAIN x = DOMAIN Idle
    BY <1>2, <1>4, WritesTyped DEF Created, Writing
  <2>. QED BY <1>2, <1>4, <2>1, ReadsOn DEF Fine, Shape
<1>5. CASE /\ t.op = "invite"
           /\ Goes(r, Writes1(t, InviteWrite(NoInvite, [NoInvite EXCEPT !.made = TRUE])))
  <2>. DEFINE x == Writes1(t, InviteWrite(NoInvite, [NoInvite EXCEPT !.made = TRUE]))
  <2>1. OfInvite(x) /\ Writing(x) /\ x.op = t.op /\ DOMAIN x = DOMAIN Idle
    BY <1>5, WritesTyped DEF OfInvite, Writing
  <2>. QED BY <1>2, <1>5, <2>1, ReadsOn DEF Fine, Shape
<1>. QED BY <1>3, <1>4, <1>5 DEF ReadSettings

LEMMA CharacterKeeps ==
  ASSUME Inv, NEW r \in Request, ReadCharacter(r)
  PROVE  Inv' /\ UNCHANGED <<rows, lost>>
<1>. DEFINE t == task[r]
            x == Writes1(t, MemberWrite(t.user, t.row, [t.row EXCEPT !.active = t.char]))
<1>1. t.at = "character"
  BY DEF ReadCharacter
<1>2. t # Idle /\ t.user \in User /\ Reading(t, rows, added, postgres)
  BY <1>1, ReadsFine
<1>3. t.op = "activate" /\ t.char \in Character /\ Fits(t.user, t.row, added) /\ t.row.role = "player"
  BY <1>1, <1>2 DEF Reading
<1>4. CASE Refuses(r)
  BY <1>2, <1>4, ReadsOn DEF Refuses
<1>5. CASE t.char \in added /\ Owner[t.char] = t.user /\ Goes(r, x)
  <2>1. /\ x.op = t.op /\ x.first = NoWrite /\ Writing(x) /\ DOMAIN x = DOMAIN Idle
        /\ x.second = MemberWrite(t.user, t.row, [t.row EXCEPT !.active = t.char])
    BY WritesTyped DEF Writing
  <2>2. t.row \in Row
    BY <1>3 DEF Fits, Good
  <2>3. Activates(x, added)
    BY <1>2, <1>3, <1>5, <2>1, <2>2 DEF Activates
  <2>. QED BY <1>2, <1>5, <2>1, <2>3, ReadsOn DEF Fine, Shape
<1>. QED BY <1>4, <1>5 DEF ReadCharacter

LEMMA InviteKeeps ==
  ASSUME Inv, NEW r \in Request, ReadInvite(r)
  PROVE  Inv' /\ UNCHANGED <<rows, lost>>
<1>. DEFINE t == task[r]
<1>1. t.at = "invite" /\ invite \in Invites
  BY DEF ReadInvite, Inv
<1>2. t # Idle /\ t.user \in User /\ t.other \in User
  BY <1>1, ReadsFine
<1>3. CASE Refuses(r)
  BY <1>2, <1>3, ReadsOn DEF Refuses
<1>4. CASE t.op = "revoke" /\ Goes(r, Writes1(t, InviteWrite(invite, [invite EXCEPT !.revoked = TRUE])))
  <2>. DEFINE x == Writes1(t, InviteWrite(invite, [invite EXCEPT !.revoked = TRUE]))
  <2>1. /\ x.op = t.op /\ x.first = NoWrite /\ Writing(x) /\ DOMAIN x = DOMAIN Idle
        /\ x.second = InviteWrite(invite, [invite EXCEPT !.revoked = TRUE])
    BY WritesTyped DEF Writing
  <2>2. OfInvite(x)
    BY <1>1, <1>4, <2>1 DEF OfInvite
  <2>. QED BY <1>2, <1>4, <2>1, <2>2, ReadsOn DEF Fine, Shape
<1>5. CASE t.op = "join" /\ Goes(r, [t EXCEPT !.at = "member", !.seen = invite])
  <2>. DEFINE x == [t EXCEPT !.at = "member", !.seen = invite]
  <2>1. DOMAIN t = {"op", "at", "user", "other", "char", "row", "seen", "first", "second"}
    BY <1>1, ReadsFine DEF Idle
  <2>2. /\ x.op = t.op /\ x.at = "member" /\ x.seen = invite /\ x.user = t.user /\ x.other = t.other
        /\ DOMAIN x = DOMAIN t
    BY <2>1
  <2>3. Reading(x, rows, added, postgres)
    BY <1>1, <1>2, <1>5, <2>2 DEF Reading
  <2>. QED BY <1>1, <1>2, <1>5, <2>2, <2>3, ReadsFine, ReadsOn DEF Fine
<1>. QED BY <1>3, <1>4, <1>5 DEF ReadInvite

\* What a record is when some of its fields have changed.
LEMMA Fields ==
  ASSUME NEW t, DOMAIN t = DOMAIN Idle, NEW a, NEW m
  PROVE  /\ LET x == [t EXCEPT !.at = a]
            IN  /\ x.op = t.op /\ x.at = a /\ x.user = t.user /\ x.other = t.other /\ x.char = t.char
                /\ x.first = t.first /\ x.second = t.second /\ DOMAIN x = DOMAIN Idle
         /\ LET x == [t EXCEPT !.at = a, !.row = m]
            IN  /\ x.op = t.op /\ x.at = a /\ x.user = t.user /\ x.other = t.other /\ x.char = t.char
                /\ x.row = m /\ DOMAIN x = DOMAIN Idle
<1>1. DOMAIN t = {"op", "at", "user", "other", "char", "row", "seen", "first", "second"}
  BY DEF Idle
<1>. QED BY <1>1

LEMMA ActorKeeps ==
  ASSUME Inv, NEW r \in Request, ReadActor(r)
  PROVE  Inv' /\ UNCHANGED <<rows, lost>>
<1>. DEFINE t == task[r]
            d == rows[t.user]
            x == [t EXCEPT !.at = "other", !.row = d]
<1>1. t.at = "actor"
  BY DEF ReadActor
<1>2. /\ t # Idle /\ t.user \in User /\ t.other \in User /\ Reading(t, rows, added, postgres)
      /\ DOMAIN t = DOMAIN Idle
  BY <1>1, ReadsFine
<1>3. t.op = "swap" /\ t.user # t.other /\ (~postgres => d.role = "dm")
  BY <1>1, <1>2 DEF Reading
<1>4. CASE Refuses(r)
  BY <1>2, <1>4, ReadsOn DEF Refuses
<1>5. CASE d # NotMember /\ Goes(r, x)
  <2>1. Fits(t.user, d, added) /\ d.role # "none"
    BY <1>2, <1>5, RowsFine, NobodyHasNothing DEF Fits
  <2>2. /\ x.op = t.op /\ x.at = "other" /\ x.user = t.user /\ x.other = t.other /\ x.row = d
        /\ DOMAIN x = DOMAIN Idle
    BY <1>2, Fields
  <2>3. Reading(x, rows, added, postgres)
    BY <1>2, <1>3, <2>1, <2>2 DEF Reading
  <2>. QED BY <1>2, <1>5, <2>2, <2>3, ReadsOn DEF Fine
<1>. QED BY <1>4, <1>5 DEF ReadActor

LEMMA OtherKeeps ==
  ASSUME Inv, NEW r \in Request, ReadOther(r)
  PROVE  Inv' /\ UNCHANGED <<rows, lost>>
<1>. DEFINE t == task[r]
            d == t.row
            p == rows[t.other]
            x == Swapped(t, d, p)
<1>1. t.at = "other"
  BY DEF ReadOther
<1>2. t # Idle /\ t.user \in User /\ t.other \in User /\ Reading(t, rows, added, postgres)
  BY <1>1, ReadsFine
<1>3. /\ t.op = "swap" /\ t.user # t.other
      /\ Fits(t.user, d, added) /\ d.role # "none" /\ (~postgres => d.role = "dm")
  BY <1>1, <1>2 DEF Reading
<1>4. CASE Refuses(r)
  BY <1>2, <1>4, ReadsOn DEF Refuses
<1>5. CASE p.role = "player" /\ Goes(r, x)
  <2>1. Fits(t.other, p, added) /\ p \in Row /\ d \in Row
    BY <1>2, <1>3, RowsFine DEF Fits, Good
  <2>2. /\ x.op = t.op /\ Writing(x) /\ DOMAIN x = DOMAIN Idle
        /\ x.first = MemberWrite(t.user, d, Members!Demoted(d))
        /\ x.second = MemberWrite(t.other, p, Members!Promoted(p))
    BY WritesTyped DEF Swapped, Writing
  <2>3. Swaps(x, added, postgres)
    BY <1>2, <1>3, <1>5, <2>1, <2>2 DEF Swaps
  <2>. QED BY <1>2, <1>5, <2>2, <2>3, ReadsOn DEF Fine, Shape
<1>. QED BY <1>4, <1>5 DEF ReadOther

\* A character is added, with the change of the membership that follows from it.
LEMMA AddTyped ==
  ASSUME Inv, NEW t, t.op = "add", t.user \in User, t.char \in Character, Owner[t.char] = t.user,
         NEW m, Fits(t.user, m, added)
  PROVE  LET x == WithCharacter(t, m)
         IN  x.op = "add" /\ DOMAIN x = DOMAIN Idle /\ Writing(x) /\ Shape(x, added, postgres)
<1>. DEFINE c == t.char
            u == t.user
            x == WithCharacter(t, m)
            w == CharacterWrite(c)
            a == MemberWrite(u, m, [m EXCEPT !.active = c])
            b == MemberWrite(u, m, [m EXCEPT !.parked = c])
<1>1. m \in Row
  BY DEF Fits, Good
<1>2. CASE m.role = "player" /\ x = Writes2(t, w, a)
  <2>1. x.op = "add" /\ Writing(x) /\ DOMAIN x = DOMAIN Idle /\ x.first = w /\ x.second = a
    BY <1>2, WritesTyped DEF Writing
  <2>2. AddsAndPlays(x, added)
    BY <1>1, <1>2, <2>1 DEF AddsAndPlays
  <2>. QED BY <2>1, <2>2 DEF Shape
<1>3. CASE m.role = "dm" /\ m.parked = NoCharacter /\ x = Writes2(t, w, b)
  <2>1. x.op = "add" /\ Writing(x) /\ DOMAIN x = DOMAIN Idle /\ x.first = w /\ x.second = b
    BY <1>3, WritesTyped DEF Writing
  <2>2. AddsAndPlays(x, added)
    BY <1>1, <1>3, <2>1 DEF AddsAndPlays
  <2>. QED BY <2>1, <2>2 DEF Shape
<1>4. CASE x = Writes1(t, w)
  <2>1. x.op = "add" /\ Writing(x) /\ DOMAIN x = DOMAIN Idle /\ x.first = NoWrite /\ x.second = w
    BY <1>4, WritesTyped DEF Writing
  <2>2. AddsOnly(x)
    BY <2>1 DEF AddsOnly
  <2>. QED BY <2>1, <2>2 DEF Shape
<1>. QED BY <1>2, <1>3, <1>4 DEF WithCharacter

LEMMA MemberKeeps ==
  ASSUME Inv, NEW r \in Request, ReadMember(r)
  PROVE  Inv' /\ UNCHANGED <<rows, lost>>
<1>. DEFINE t == task[r]
            m == rows[t.user]
            To(a) == [t EXCEPT !.at = a]
<1>1. t.at = "member"
  BY DEF ReadMember
<1>2. /\ t # Idle /\ t.user \in User /\ t.other \in User /\ Reading(t, rows, added, postgres)
      /\ DOMAIN t = DOMAIN Idle
  BY <1>1, ReadsFine
<1>3. m \in Row /\ Fits(t.user, m, added)
  BY <1>2, RowsFine
<1>4. CASE Refuses(r)
  BY <1>2, <1>4, ReadsOn DEF Refuses
<1>5. CASE t.op = "join" /\ Goes(r, Joined(t))
  <2>. DEFINE x == Joined(t)
              i == t.seen
  <2>1. /\ x.op = t.op /\ Writing(x) /\ DOMAIN x = DOMAIN Idle
        /\ x.first = MemberWrite(t.user, NotMember, Members!NewMember("player"))
        /\ x.second = InviteWrite(i, [i EXCEPT !.uses = @ + 1])
    BY WritesTyped DEF Joined, Writing
  <2>2. i \in Invites
    BY <1>1, <1>2, <1>5 DEF Reading
  <2>3. Joins(x)
    BY <1>2, <1>5, <2>1, <2>2 DEF Joins
  <2>. QED BY <1>2, <1>5, <2>1, <2>3, ReadsOn DEF Fine, Shape
<1>6. CASE t.op = "leave" /\ m.role = "player" /\ Goes(r, Writes1(t, MemberWrite(t.user, m, NotMember)))
  <2>. DEFINE x == Writes1(t, MemberWrite(t.user, m, NotMember))
  <2>1. /\ x.op = t.op /\ x.first = NoWrite /\ Writing(x) /\ DOMAIN x = DOMAIN Idle
        /\ x.second = MemberWrite(t.user, m, NotMember)
    BY WritesTyped DEF Writing
  <2>2. Leaves(x)
    BY <1>2, <1>3, <1>6, <2>1 DEF Leaves
  <2>. QED BY <1>2, <1>6, <2>1, <2>2, ReadsOn DEF Fine, Shape
<1>7. CASE t.op = "add" /\ Goes(r, WithCharacter(t, m))
  <2>1. t.char \in Character /\ Owner[t.char] = t.user
    BY <1>1, <1>2, <1>7 DEF Reading
  <2>. QED BY <1>2, <1>3, <1>7, <2>1, AddTyped, ReadsOn DEF Fine
<1>8. CASE t.op = "activate" /\ m.role = "player" /\ Goes(r, [t EXCEPT !.at = "character", !.row = m])
  <2>. DEFINE x == [t EXCEPT !.at = "character", !.row = m]
  <2>1. /\ x.op = t.op /\ x.at = "character" /\ x.user = t.user /\ x.other = t.other /\ x.char = t.char
        /\ x.row = m /\ DOMAIN x = DOMAIN Idle
    BY <1>2, Fields
  <2>2. t.char \in Character
    BY <1>1, <1>2, <1>8 DEF Reading
  <2>3. Reading(x, rows, added, postgres)
    BY <1>2, <1>3, <1>8, <2>1, <2>2 DEF Reading
  <2>. QED BY <1>2, <1>8, <2>1, <2>3, ReadsOn DEF Fine
<1>9. ASSUME NEW a \in {"actor", "settings", "invite"}, Goes(r, To(a)), m.role = "dm",
             a = "actor" => t.op = "swap" /\ t.other # t.user,
             a = "settings" => t.op = "invite",
             a = "invite" => t.op = "revoke"
      PROVE  Inv' /\ UNCHANGED <<rows, lost>>
  <2>1. /\ To(a).op = t.op /\ To(a).at = a /\ To(a).user = t.user /\ To(a).other = t.other
        /\ DOMAIN To(a) = DOMAIN Idle
    BY <1>2, Fields
  <2>2. Reading(To(a), rows, added, postgres)
    BY <1>2, <1>9, <2>1 DEF Reading
  <2>. QED BY <1>2, <1>9, <2>1, <2>2, ReadsOn DEF Fine
<1>. QED BY <1>4, <1>5, <1>6, <1>7, <1>8, <1>9 DEF ReadMember

\* A new request.  Campaigns are created where there is none; the rest is asked of a campaign.
LEMMA BeginKeeps ==
  ASSUME Inv, NEW r \in Request, NEW op \in Op, NEW u \in User, Begin(r, op, u)
  PROVE  Inv' /\ UNCHANGED <<rows, lost>>
<1>1. PICK v \in User, c \in Character \cup {NoCharacter} :
        /\ op \in {"add", "activate"} <=> c # NoCharacter
        /\ op = "add" => Owner[c] = u
        /\ op # "swap" => v = u
        /\ Goes(r, [Idle EXCEPT !.op = op, !.user = u, !.other = v, !.char = c,
                    !.at = IF op = "create" THEN "settings" ELSE IF op = "join" THEN "invite" ELSE "member"])
  BY DEF Begin
<1>. DEFINE a == IF op = "create" THEN "settings" ELSE IF op = "join" THEN "invite" ELSE "member"
            t == [Idle EXCEPT !.op = op, !.user = u, !.other = v, !.char = c, !.at = a]
<1>2. /\ t.op = op /\ t.user = u /\ t.other = v /\ t.char = c /\ t.at = a
      /\ DOMAIN t = DOMAIN Idle
  BY DEF Idle
<1>3. Reading(t, rows, added, postgres)
  BY <1>1, <1>2 DEF Reading, Op
<1>4. (op = "create" <=> Empty) /\ (op = "create" => ~lost /\ \A s \in Request : task[s] = Idle)
  BY DEF Begin, Empty
<1>5. op = "create" => Empty /\ Alone(r)
  BY <1>4 DEF Alone
<1>6. ~postgres => Alone(r)
  BY DEF Begin, MayBegin, Alone
<1>7. \A s \in Request : task[s].op # "create"
  BY <1>4, IdleIsFine DEF Inv, Creating
<1>8. op # "create" => \E w \in User : rows[w].role # "none"
  <2>1. ASSUME NEW w \in User, rows[w] # NotMember
        PROVE  rows[w].role # "none"
    BY <2>1, RowsFine, NobodyHasNothing DEF Fits
  <2>. QED BY <1>4, <2>1 DEF Empty
<1>. QED BY <1>1, <1>2, <1>3, <1>5, <1>6, <1>7, <1>8, GoesKeeps DEF Fine, Busy

LEMMA EndsKeeps ==
  ASSUME Inv, NEW r \in Request, Ends(r), UNCHANGED <<postgres, data, ghosts>>
  PROVE  Inv' /\ UNCHANGED <<rows, lost>>
<1>1. Goes(r, Idle)
  BY DEF Goes, Ends
<1>. QED BY <1>1, GoesKeeps, IdleIsFine DEF Busy

\* The write that opens the transaction.
LEMMA FirstKeeps ==
  ASSUME Inv, NEW r \in Request, task[r].at = "first", task' = [task EXCEPT ![r].at = "second"],
         UNCHANGED <<postgres, data, ghosts>>
  PROVE  Inv' /\ UNCHANGED <<rows, lost>>
<1>. DEFINE t == task[r]
            x == [t EXCEPT !.at = "second"]
<1>1. Fine(t, rows, added, postgres) /\ t # Idle
  BY IdleIsFine DEF Inv, Tasks1
<1>2. Shape(t, added, postgres) /\ DOMAIN t = DOMAIN Idle
  BY <1>1 DEF Fine, Reading
<1>3. x.op = t.op /\ x.at = "second" /\ x.first = t.first /\ x.second = t.second /\ DOMAIN x = DOMAIN Idle
  BY <1>2, Fields
<1>4. Shape(x, added, postgres)
  <2>1. (Created(t) => Created(x)) /\ (OfInvite(t) => OfInvite(x))
    BY <1>3 DEF Created, OfInvite
  <2>2. (Joins(t) => Joins(x)) /\ (Leaves(t) => Leaves(x)) /\ (AddsOnly(t) => AddsOnly(x))
    BY <1>3 DEF Joins, Leaves, AddsOnly
  <2>3. Activates(t, added) => Activates(x, added)
    BY <1>3 DEF Activates
  <2>4. AddsAndPlays(t, added) => AddsAndPlays(x, added)
    BY <1>3 DEF AddsAndPlays
  <2>5. Swaps(t, added, postgres) => Swaps(x, added, postgres)
    BY <1>3 DEF Swaps
  <2>. QED BY <1>2, <2>1, <2>2, <2>3, <2>4, <2>5 DEF Shape
<1>5. task' = [task EXCEPT ![r] = x]
  OBVIOUS
<1>6. Goes(r, x)
  BY <1>5 DEF Goes
<1>. QED BY <1>1, <1>3, <1>4, <1>6, ReadsOn DEF Fine, Writing

-----------------------------------------------------------------------------
(* The step that commits.                                                  *)

\* What holds of the memberships and characters after a commit.
Committed ==
  /\ rows' \in [User -> Row] /\ added \subseteq added' /\ added' \subseteq Character
  /\ \A u \in User : Fits(u, rows'[u], added')
  /\ ~lost' => Members!Operation \/ UNCHANGED rows

LEMMA WriteFields ==
  /\ NoWrite.table = "none"
  /\ \A u, m, n : LET w == MemberWrite(u, m, n) IN w.table = "memberships" /\ w.key = u /\ w.from = m /\ w.to = n
  /\ \A i, j : LET w == InviteWrite(i, j) IN w.table = "invites" /\ w.from = i /\ w.to = j
  /\ \A c : LET w == CharacterWrite(c) IN w.table = "characters" /\ w.to = c
  BY DEF NoWrite, MemberWrite, InviteWrite, CharacterWrite

LEMMA CommitRows ==
  ASSUME NEW r, NEW t, t.at = "second", Commit(r, t)
  PROVE  /\ t.first.table # "memberships" /\ t.second.table # "memberships" => rows' = rows
         /\ \A u, m, n : t.first.table # "memberships" /\ t.second = MemberWrite(u, m, n)
              => rows' = [rows EXCEPT ![u] = n]
         /\ \A u, m, n : t.first = MemberWrite(u, m, n) /\ t.second.table # "memberships"
              => rows' = [rows EXCEPT ![u] = n]
<1>1. rows' = Put(Put(rows, t.first), t.second)
  BY DEF Commit, View, Written
<1>2. ASSUME NEW R, NEW w, w.table # "memberships"
      PROVE  Put(R, w) = R
  BY <1>2 DEF Put
<1>3. ASSUME NEW R, NEW u, NEW m, NEW n
      PROVE  Put(R, MemberWrite(u, m, n)) = [R EXCEPT ![u] = n]
  BY DEF Put, MemberWrite
<1>4. ASSUME t.first.table # "memberships", t.second.table # "memberships"
      PROVE  rows' = rows
  BY <1>1, <1>2, <1>4
<1>5. ASSUME NEW u, NEW m, NEW n, t.first.table # "memberships", t.second = MemberWrite(u, m, n)
      PROVE  rows' = [rows EXCEPT ![u] = n]
  BY <1>1, <1>2, <1>3, <1>5
<1>6. ASSUME NEW u, NEW m, NEW n, t.first = MemberWrite(u, m, n), t.second.table # "memberships"
      PROVE  rows' = [rows EXCEPT ![u] = n]
  BY <1>1, <1>2, <1>3, <1>6
<1>. QED BY <1>4, <1>5, <1>6

LEMMA CommitCharacters ==
  ASSUME NEW r, NEW t, Commit(r, t), added \subseteq Character
  PROVE  /\ added \subseteq added'
         /\ t.first.table # "characters" /\ t.second.table # "characters"
              => added' = added /\ added' \subseteq Character
         /\ \A c \in Character :
              (t.first = CharacterWrite(c) /\ t.second.table # "characters")
              \/ (t.first.table # "characters" /\ t.second = CharacterWrite(c))
              => c \in added' /\ added' \subseteq Character
<1>. DEFINE new == {w \in {t.first, t.second} : w.table = "characters"}
<1>1. added' = added \cup {w.to : w \in new}
  BY DEF Commit
<1>2. ASSUME t.first.table # "characters", t.second.table # "characters"
      PROVE  added' = added
  <2>1. new = {}
    BY <1>2
  <2>. QED BY <1>1, <2>1
<1>3. ASSUME NEW c \in Character,
             (t.first = CharacterWrite(c) /\ t.second.table # "characters")
             \/ (t.first.table # "characters" /\ t.second = CharacterWrite(c))
      PROVE  c \in added' /\ added' \subseteq Character
  <2>1. new = {CharacterWrite(c)}
    BY <1>3, WriteFields
  <2>2. CharacterWrite(c).to = c
    BY WriteFields
  <2>3. added' = added \cup {c}
    BY <1>1, <2>1, <2>2
  <2>. QED BY <2>3
<1>. QED BY <1>1, <1>2, <1>3

\* Nothing is lost: whoever writes a membership has read it as it is.
LEMMA CommitInTime ==
  ASSUME NEW r, NEW t, Commit(r, t), ~lost'
  PROVE  ~lost /\ \A u, m, n : MemberWrite(u, m, n) \in {t.first, t.second} => rows[u] = m
<1>1. ~lost /\ \A w \in {t.first, t.second} : ~StaleMember(w)
  BY DEF Commit
<1>2. ASSUME NEW u, NEW m, NEW n, MemberWrite(u, m, n) \in {t.first, t.second}
      PROVE  rows[u] = m
  BY <1>1, <1>2, WriteFields DEF StaleMember
<1>. QED BY <1>1, <1>2

\* One row changes.
LEMMA OneRow ==
  ASSUME Inv, added \subseteq added', added' \subseteq Character,
         NEW u \in User, NEW m, Fits(u, m, added'), rows' = [rows EXCEPT ![u] = m]
  PROVE  rows' \in [User -> Row] /\ \A v \in User : Fits(v, rows'[v], added')
<1>1. m \in Row /\ rows \in [User -> Row]
  BY DEF Inv, Fits, Good
<1>2. ASSUME NEW v \in User
      PROVE  Fits(v, rows'[v], added')
  <2>1. Fits(v, rows[v], added')
    BY RowsFine, FitsGrows
  <2>. QED BY <1>1, <2>1
<1>. QED BY <1>1, <1>2

LEMMA SameRows ==
  ASSUME Inv, added \subseteq added', added' \subseteq Character, UNCHANGED rows
  PROVE  Committed
  BY RowsFine, FitsGrows DEF Inv, Committed

\* There is a DM, whoever else is there.
LEMMA SomeDM ==
  ASSUME Inv, ~lost, NEW r \in Request, Busy(task[r].op)
  PROVE  Members!DM # {} /\ \A d, e \in User : rows[d].role = "dm" /\ rows[e].role = "dm" => d = e
<1>1. PICK u \in User : rows[u].role # "none"
  BY DEF Inv, SomebodyIsThere
<1>2. PICK d \in User : Members!DM = {d}
  BY <1>1 DEF Inv, OneUnlessLost, OneDM, Members!OneDM
<1>. QED BY <1>2 DEF Members!DM

LEMMA CommitCreate ==
  ASSUME Inv, NEW r \in Request, task[r].at = "second", Created(task[r]), Commit(r, task[r])
  PROVE  Committed
<1>. DEFINE t == task[r]
<1>1. PICK u \in User : t.second = MemberWrite(u, NotMember, Members!NewMember("dm"))
  BY DEF Created
<1>2. t.first.table = "none" /\ t.second.table = "memberships" /\ t.op = "create"
  BY <1>1, WriteFields DEF Created
<1>3. rows' = [rows EXCEPT ![u] = Members!NewMember("dm")]
  BY <1>1, <1>2, CommitRows
<1>4. added \subseteq added' /\ added' \subseteq Character
  BY <1>2, CommitCharacters DEF Inv
<1>5. Fits(u, Members!NewMember("dm"), added')
  BY RowsTyped DEF Fits
<1>6. Empty
  BY <1>2 DEF Inv, Creating
<1>7. Members!Operation
  BY <1>3, <1>6 DEF Members!Operation, Members!Create, Empty, NotMember
<1>. QED BY <1>3, <1>4, <1>5, <1>7, OneRow DEF Committed

LEMMA CommitOfInvite ==
  ASSUME Inv, NEW r \in Request, task[r].at = "second", OfInvite(task[r]), Commit(r, task[r])
  PROVE  Committed
<1>1. task[r].first.table = "none"
  BY WriteFields DEF OfInvite
<1>2. task[r].second.table = "invites"
  <2>1. PICK i, j : task[r].second = InviteWrite(i, j)
    BY DEF OfInvite
  <2>. QED BY <2>1, WriteFields
<1>3. rows' = rows
  BY <1>1, <1>2, CommitRows
<1>4. added \subseteq added' /\ added' \subseteq Character
  BY <1>1, <1>2, CommitCharacters DEF Inv
<1>. QED BY <1>3, <1>4, SameRows

LEMMA CommitJoin ==
  ASSUME Inv, NEW r \in Request, task[r].at = "second", Joins(task[r]), Commit(r, task[r])
  PROVE  Committed
<1>. DEFINE t == task[r]
            n == Members!NewMember("player")
<1>1. PICK u \in User, i \in Invites :
        t.first = MemberWrite(u, NotMember, n) /\ t.second = InviteWrite(i, [i EXCEPT !.uses = @ + 1])
  BY DEF Joins
<1>2. t.first.table = "memberships"
  BY <1>1, WriteFields
<1>3. t.second.table = "invites"
  BY <1>1, WriteFields
<1>4. rows' = [rows EXCEPT ![u] = n]
  BY <1>1, <1>3, CommitRows
<1>5. added \subseteq added' /\ added' \subseteq Character
  BY <1>2, <1>3, CommitCharacters DEF Inv
<1>6. Fits(u, n, added')
  BY RowsTyped DEF Fits
<1>7. ASSUME ~lost'
      PROVE  Members!Operation
  <2>1. ~lost /\ rows[u] = NotMember
    BY <1>1, <1>7, CommitInTime
  <2>2. t.op = "join"
    BY DEF Joins
  <2>3. Members!DM # {}
    BY <2>1, <2>2, SomeDM DEF Busy
  <2>4. Members!Join(u)
    BY <1>4, <2>1, <2>3 DEF Members!Join, NotMember
  <2>. QED BY <2>4 DEF Members!Operation
<1>. QED BY <1>4, <1>5, <1>6, <1>7, OneRow DEF Committed

LEMMA CommitLeave ==
  ASSUME Inv, NEW r \in Request, task[r].at = "second", Leaves(task[r]), Commit(r, task[r])
  PROVE  Committed
<1>. DEFINE t == task[r]
<1>1. PICK u \in User, m \in Row : m.role = "player" /\ t.second = MemberWrite(u, m, NotMember)
  BY DEF Leaves
<1>2. t.first.table = "none" /\ t.second.table = "memberships"
  BY <1>1, WriteFields DEF Leaves
<1>3. rows' = [rows EXCEPT ![u] = NotMember]
  BY <1>1, <1>2, CommitRows
<1>4. added \subseteq added' /\ added' \subseteq Character
  BY <1>2, CommitCharacters DEF Inv
<1>5. Fits(u, NotMember, added')
  BY RowsTyped DEF Fits
<1>6. ASSUME ~lost'
      PROVE  Members!Operation
  <2>1. rows[u].role = "player"
    BY <1>1, <1>6, CommitInTime
  <2>2. Members!Leave(u)
    BY <1>3, <2>1 DEF Members!Leave, NotMember
  <2>. QED BY <2>2 DEF Members!Operation
<1>. QED BY <1>3, <1>4, <1>5, <1>6, OneRow DEF Committed

LEMMA CommitActivate ==
  ASSUME Inv, NEW r \in Request, task[r].at = "second", Activates(task[r], added), Commit(r, task[r])
  PROVE  Committed
<1>. DEFINE t == task[r]
<1>1. PICK u \in User, m \in Row, c \in Character :
        /\ Fits(u, m, added) /\ m.role = "player" /\ c \in added /\ Owner[c] = u
        /\ t.second = MemberWrite(u, m, [m EXCEPT !.active = c])
  BY DEF Activates
<1>2. t.first.table = "none" /\ t.second.table = "memberships"
  BY <1>1, WriteFields DEF Activates
<1>3. rows' = [rows EXCEPT ![u] = [m EXCEPT !.active = c]]
  BY <1>1, <1>2, CommitRows
<1>4. added \subseteq added' /\ added' \subseteq Character
  BY <1>2, CommitCharacters DEF Inv
<1>5. Fits(u, [m EXCEPT !.active = c], added')
  BY <1>1, <1>4, PlayTyped
<1>6. ASSUME ~lost'
      PROVE  Members!Operation
  <2>1. rows[u] = m
    BY <1>1, <1>6, CommitInTime
  <2>2. Members!Activate(u, c)
    BY <1>1, <1>3, <2>1 DEF Members!Activate
  <2>. QED BY <2>2 DEF Members!Operation
<1>. QED BY <1>3, <1>4, <1>5, <1>6, OneRow DEF Committed

LEMMA CommitAddOnly ==
  ASSUME Inv, NEW r \in Request, task[r].at = "second", AddsOnly(task[r]), Commit(r, task[r])
  PROVE  Committed
<1>1. PICK c \in Character : task[r].second = CharacterWrite(c)
  BY DEF AddsOnly
<1>2. task[r].first.table = "none" /\ task[r].second.table = "characters"
  BY <1>1, WriteFields DEF AddsOnly
<1>3. rows' = rows
  BY <1>2, CommitRows
<1>4. added \subseteq added' /\ added' \subseteq Character
  BY <1>1, <1>2, CommitCharacters DEF Inv
<1>. QED BY <1>3, <1>4, SameRows

LEMMA CommitAddAndPlay ==
  ASSUME Inv, NEW r \in Request, task[r].at = "second", AddsAndPlays(task[r], added), Commit(r, task[r])
  PROVE  Committed
<1>. DEFINE t == task[r]
<1>1. PICK u \in User, m \in Row, c \in Character :
        /\ Fits(u, m, added) /\ Owner[c] = u /\ t.first = CharacterWrite(c)
        /\ \/ m.role = "player" /\ t.second = MemberWrite(u, m, [m EXCEPT !.active = c])
           \/ m.role = "dm" /\ m.parked = NoCharacter /\ t.second = MemberWrite(u, m, [m EXCEPT !.parked = c])
  BY DEF AddsAndPlays
<1>2. t.first.table = "characters" /\ t.second.table = "memberships"
  BY <1>1, WriteFields
<1>3. c \in added' /\ added \subseteq added' /\ added' \subseteq Character
  BY <1>1, <1>2, CommitCharacters DEF Inv
<1>4. CASE m.role = "player" /\ t.second = MemberWrite(u, m, [m EXCEPT !.active = c])
  <2>1. rows' = [rows EXCEPT ![u] = [m EXCEPT !.active = c]]
    BY <1>2, <1>4, CommitRows
  <2>2. Fits(u, [m EXCEPT !.active = c], added')
    BY <1>1, <1>3, <1>4, PlayTyped
  <2>3. ASSUME ~lost'
        PROVE  Members!Operation
    <3>1. rows[u] = m
      BY <1>4, <2>3, CommitInTime
    <3>2. Members!Activate(u, c)
      BY <1>4, <2>1, <3>1 DEF Members!Activate
    <3>. QED BY <3>2 DEF Members!Operation
  <2>. QED BY <1>3, <2>1, <2>2, <2>3, OneRow DEF Committed
<1>5. CASE m.role = "dm" /\ m.parked = NoCharacter /\ t.second = MemberWrite(u, m, [m EXCEPT !.parked = c])
  <2>1. rows' = [rows EXCEPT ![u] = [m EXCEPT !.parked = c]]
    BY <1>2, <1>5, CommitRows
  <2>2. Fits(u, [m EXCEPT !.parked = c], added')
    BY <1>1, <1>3, <1>5, PlayTyped
  <2>3. ASSUME ~lost'
        PROVE  Members!Operation
    <3>1. rows[u] = m
      BY <1>5, <2>3, CommitInTime
    <3>2. Members!Park(u, c)
      BY <1>5, <2>1, <3>1 DEF Members!Park
    <3>. QED BY <3>2 DEF Members!Operation
  <2>. QED BY <1>3, <2>1, <2>2, <2>3, OneRow DEF Committed
<1>. QED BY <1>1, <1>4, <1>5

\* Two requests may both swap with what they have read as the DM; the index refuses the second,
\* because the DM is somebody else by then.
LEMMA CommitSwap ==
  ASSUME Inv, NEW r \in Request, task[r].at = "second", Swaps(task[r], added, postgres),
         Commit(r, task[r]), ~Clashes(task[r], task[r].second)
  PROVE  Committed
<1>. DEFINE t == task[r]
<1>1. PICK u \in User, v \in User, d \in Row, m \in Row :
        /\ u # v /\ Fits(u, d, added) /\ Fits(v, m, added)
        /\ d.role # "none" /\ (~postgres => d.role = "dm") /\ m.role = "player"
        /\ t.first = MemberWrite(u, d, Members!Demoted(d)) /\ t.second = MemberWrite(v, m, Members!Promoted(m))
  BY DEF Swaps
<1>2. PICK R : R = [rows EXCEPT ![u] = Members!Demoted(d)]
  OBVIOUS
<1>3. rows' = [R EXCEPT ![v] = Members!Promoted(m)]
  BY <1>1, <1>2 DEF Commit, View, Written, Put, MemberWrite
<1>4. t.first.table = "memberships" /\ t.second.table = "memberships"
  BY <1>1, WriteFields
<1>5. added \subseteq added' /\ added' \subseteq Character
  BY <1>4, CommitCharacters DEF Inv
<1>6. /\ Fits(u, Members!Demoted(d), added') /\ Fits(v, Members!Promoted(m), added')
      /\ Members!Promoted(m).role = "dm"
  <2>1. Good(d) /\ Mine(u, d, added) /\ Good(m) /\ Mine(v, m, added)
    BY <1>1 DEF Fits
  <2>2. /\ Fits(u, Members!Demoted(d), added) /\ Fits(v, Members!Promoted(m), added)
        /\ Members!Promoted(m).role = "dm"
    BY <1>1, <2>1, SwapTyped
  <2>. QED BY <1>5, <2>2, FitsGrows
<1>7. rows \in [User -> Row]
  BY DEF Inv
<1>8. /\ DOMAIN rows' = User /\ rows'[u] = Members!Demoted(d) /\ rows'[v] = Members!Promoted(m)
      /\ \A w \in User \ {u, v} : rows'[w] = rows[w]
      /\ rows' = [w \in User |-> rows'[w]]
  BY <1>1, <1>2, <1>3, <1>7
<1>9. \A w \in User : Fits(w, rows'[w], added')
  <2>1. \A w \in User : Fits(w, rows[w], added')
    BY <1>5, RowsFine, FitsGrows
  <2>. QED BY <1>6, <1>8, <2>1
<1>10. rows' \in [User -> Row]
  BY <1>8, <1>9 DEF Fits, Good
<1>11. ASSUME ~lost'
       PROVE  Members!Operation
  <2>1. ~lost /\ rows[u] = d /\ rows[v] = m
    BY <1>1, <1>11, CommitInTime
  <2>2. PICK e \in User : rows[e].role = "dm"
    <3>1. t.op = "swap"
      BY DEF Swaps
    <3>. QED BY <2>1, <3>1, SomeDM DEF Busy, Members!DM
  <2>3. d.role = "dm"
    <3>1. SUFFICES ASSUME d.role # "dm"
                   PROVE  FALSE
      OBVIOUS
    <3>2. postgres = TRUE \/ ~postgres
      OBVIOUS
    <3>3. e # u /\ e # v
      BY <1>1, <2>1, <2>2, <3>1
    <3>4. View(t) = R
      BY <1>1, <1>2, <1>4 DEF View, Written, Put, MemberWrite
    <3>5. View(t)[e].role = "dm"
      BY <1>2, <1>7, <2>2, <3>3, <3>4
    <3>6. MakesDM(t.second) /\ t.second.key = v
      BY <1>1, <1>6, WriteFields DEF MakesDM
    <3>. QED BY <1>1, <3>1, <3>3, <3>5, <3>6 DEF Clashes
  <2>4. Members!Swap(u, v)
    <3>1. rows' = [rows EXCEPT ![u] = Members!Demoted(rows[u]), ![v] = Members!Promoted(rows[v])]
      BY <1>1, <1>7, <1>8, <2>1
    <3>. QED BY <1>1, <2>1, <2>3, <3>1 DEF Members!Swap
  <2>. QED BY <2>4 DEF Members!Operation
<1>. QED BY <1>5, <1>9, <1>10, <1>11 DEF Committed

\* The count of an invite that nobody has overwritten follows the joins.
LEMMA CommitCounts ==
  ASSUME Inv, NEW r \in Request, Shape(task[r], added, postgres), Commit(r, task[r])
  PROVE  invite' \in Invites /\ InviteCounts'
<1>. DEFINE t == task[r]
<1>1. invite \in Invites /\ invite.uses \in Nat /\ (~overtaken => invite.uses = joins)
  BY DEF Inv, InviteCounts, Invites
<1>2. ~overtaken' => ~overtaken /\ ~StaleInvite(t.second)
  BY DEF Commit
<1>3. CASE OfInvite(t)
  <2>1. joins' = joins
    BY <1>3 DEF Commit, OfInvite
  <2>2. PICK i \in Invites, j \in Invites : t.second = InviteWrite(i, j) /\ j.uses = i.uses
    <3>1. CASE t.second = InviteWrite(NoInvite, [NoInvite EXCEPT !.made = TRUE])
      BY <3>1, InvitesTyped
    <3>2. ASSUME NEW i \in Invites, t.second = InviteWrite(i, [i EXCEPT !.revoked = TRUE])
          PROVE  \E k, j \in Invites : t.second = InviteWrite(k, j) /\ j.uses = k.uses
      BY <3>2, InvitesTyped
    <3>. QED BY <1>3, <3>1, <3>2 DEF OfInvite
  <2>3. t.second.table = "invites" /\ t.second.from = i /\ t.second.to = j
    BY <2>2, WriteFields
  <2>4. invite' = j
    BY <2>3 DEF Commit
  <2>5. ~overtaken' => invite = i
    BY <1>2, <2>3 DEF StaleInvite
  <2>. QED BY <1>1, <1>2, <2>1, <2>2, <2>4, <2>5 DEF InviteCounts
<1>4. CASE Joins(t)
  <2>1. joins' = joins + 1
    BY <1>4 DEF Commit, Joins
  <2>2. PICK i \in Invites : t.second = InviteWrite(i, [i EXCEPT !.uses = @ + 1])
    BY <1>4 DEF Joins
  <2>3. PICK j \in Invites : t.second = InviteWrite(i, j) /\ j.uses = i.uses + 1
    BY <2>2, InvitesTyped
  <2>4. t.second.table = "invites" /\ t.second.from = i /\ t.second.to = j
    BY <2>3, WriteFields
  <2>5. invite' = j
    BY <2>4 DEF Commit
  <2>6. ~overtaken' => invite = i
    BY <1>2, <2>4 DEF StaleInvite
  <2>. QED BY <1>1, <1>2, <2>1, <2>3, <2>5, <2>6 DEF InviteCounts
<1>5. CASE t.op # "join" /\ t.second.table # "invites"
  BY <1>1, <1>2, <1>5 DEF Commit, InviteCounts
<1>6. \/ OfInvite(t) \/ Joins(t)
      \/ t.op # "join" /\ t.second.table # "invites"
  <2>1. Created(t) => t.op # "join" /\ t.second.table # "invites"
    BY WriteFields DEF Created
  <2>2. Leaves(t) => t.op # "join" /\ t.second.table # "invites"
    BY WriteFields DEF Leaves
  <2>3. AddsOnly(t) => t.op # "join" /\ t.second.table # "invites"
    BY WriteFields DEF AddsOnly
  <2>4. Activates(t, added) => t.op # "join" /\ t.second.table # "invites"
    BY WriteFields DEF Activates
  <2>5. AddsAndPlays(t, added) => t.op # "join" /\ t.second.table # "invites"
    BY WriteFields DEF AddsAndPlays
  <2>6. Swaps(t, added, postgres) => t.op # "join" /\ t.second.table # "invites"
    BY WriteFields DEF Swaps
  <2>. QED BY <2>1, <2>2, <2>3, <2>4, <2>5, <2>6 DEF Shape
<1>. QED BY <1>3, <1>4, <1>5, <1>6

\* An operation of the roster leaves one DM, and somebody.
LEMMA OperationKeeps ==
  ASSUME rows \in [User -> Row], OneDM, Members!Operation
  PROVE  OneDM' /\ \E u \in User : rows'[u].role # "none"
<1>. USE DEF OneDM, Members!OneDM, Members!DM
<1>1. ASSUME NEW d \in User, rows'[d].role = "dm", \A u \in User \ {d} : rows'[u].role # "dm"
      PROVE  OneDM' /\ \E u \in User : rows'[u].role # "none"
  BY <1>1
<1>3. ASSUME NEW u \in User, Members!Create(u)
      PROVE  OneDM' /\ \E w \in User : rows'[w].role # "none"
  <2>1. rows'[u].role = "dm" /\ \A w \in User \ {u} : rows'[w] = NotMember
    BY <1>3, RowsTyped DEF Members!Create, NotMember
  <2>. QED BY <1>1, <2>1 DEF NotMember, Members!NotMember
<1>4. ASSUME NEW u \in User, rows[u].role # "none"
      PROVE  \E d \in User : rows[d].role = "dm" /\ \A w \in User \ {d} : rows[w].role # "dm"
  BY <1>4
<1>5. ASSUME NEW u \in User, NEW m, rows' = [rows EXCEPT ![u] = m], rows[u].role = "dm" <=> m.role = "dm",
             NEW d \in User, rows[d].role = "dm"
      PROVE  OneDM' /\ \E w \in User : rows'[w].role # "none"
  <2>1. PICK e \in User : rows[e].role = "dm" /\ \A w \in User \ {e} : rows[w].role # "dm"
    BY <1>4, <1>5
  <2>2. rows'[e].role = "dm" /\ \A w \in User \ {e} : rows'[w].role # "dm"
    BY <1>5, <2>1
  <2>. QED BY <1>1, <2>2
<1>6. ASSUME NEW u \in User, Members!Join(u)
      PROVE  OneDM' /\ \E w \in User : rows'[w].role # "none"
  <2>1. PICK d \in User : rows[d].role = "dm"
    BY <1>6 DEF Members!Join
  <2>2. rows[u].role = "none" /\ Members!NewMember("player").role = "player"
    BY <1>6, RowsTyped DEF Members!Join, Members!NotMember
  <2>. QED BY <1>5, <1>6, <2>1, <2>2 DEF Members!Join
<1>7. ASSUME NEW u \in User, Members!Leave(u)
      PROVE  OneDM' /\ \E w \in User : rows'[w].role # "none"
  <2>1. rows[u].role = "player" /\ Members!NotMember.role = "none"
    BY <1>7 DEF Members!Leave, Members!NotMember
  <2>2. PICK d \in User : rows[d].role = "dm"
    BY <1>4, <2>1
  <2>. QED BY <1>5, <1>7, <2>1, <2>2 DEF Members!Leave
<1>8. ASSUME NEW u \in User, NEW c \in Character, Members!Activate(u, c)
      PROVE  OneDM' /\ \E w \in User : rows'[w].role # "none"
  <2>1. rows[u].role = "player" /\ rows' = [rows EXCEPT ![u] = [rows[u] EXCEPT !.active = c]]
    BY <1>8 DEF Members!Activate
  <2>2. [rows[u] EXCEPT !.active = c].role = rows[u].role
    BY DEF Row, Members!Row
  <2>3. PICK d \in User : rows[d].role = "dm"
    BY <1>4, <2>1
  <2>. QED BY <1>5, <2>1, <2>2, <2>3
<1>9. ASSUME NEW u \in User, NEW c \in Character, Members!Park(u, c)
      PROVE  OneDM' /\ \E w \in User : rows'[w].role # "none"
  <2>1. rows[u].role = "dm" /\ rows' = [rows EXCEPT ![u] = [rows[u] EXCEPT !.parked = c]]
    BY <1>9 DEF Members!Park
  <2>2. [rows[u] EXCEPT !.parked = c].role = rows[u].role
    BY DEF Row, Members!Row
  <2>. QED BY <1>5, <2>1, <2>2
<1>10. ASSUME NEW d \in User, NEW p \in User, Members!Swap(d, p)
       PROVE  OneDM' /\ \E w \in User : rows'[w].role # "none"
  <2>1. rows[d].role = "dm" /\ rows[p].role = "player" /\ d # p
    BY <1>10 DEF Members!Swap
  <2>2. PICK e \in User : rows[e].role = "dm" /\ \A w \in User \ {e} : rows[w].role # "dm"
    BY <1>4, <2>1
  <2>3. /\ rows'[d] = Members!Demoted(rows[d]) /\ rows'[p] = Members!Promoted(rows[p])
        /\ \A w \in User \ {d, p} : rows'[w] = rows[w]
    BY <1>10, <2>1 DEF Members!Swap
  <2>4. Members!Demoted(rows[d]).role = "player" /\ Members!Promoted(rows[p]).role = "dm"
    BY DEF Members!Demoted, Members!Promoted
  <2>5. rows'[p].role = "dm" /\ \A w \in User \ {p} : rows'[w].role # "dm"
    BY <2>1, <2>2, <2>3, <2>4
  <2>. QED BY <1>1, <2>5
<1>. QED BY <1>3, <1>6, <1>7, <1>8, <1>9, <1>10 DEF Members!Operation

LEMMA CommitKeeps ==
  ASSUME Inv, NEW r \in Request, task[r].at = "second", Commit(r, task[r]),
         ~Clashes(task[r], task[r].second), UNCHANGED postgres
  PROVE  Inv' /\ (lost' \/ Members!Operation \/ UNCHANGED rows) /\ (lost => lost')
<1>. DEFINE t == task[r]
<1>1. t # Idle /\ Fine(t, rows, added, postgres)
  BY IdleIsFine DEF Inv, Tasks1
<1>2. Shape(t, added, postgres)
  BY <1>1 DEF Fine, Reading
<1>3. Committed
  BY <1>2, CommitCreate, CommitOfInvite, CommitJoin, CommitLeave, CommitActivate, CommitAddOnly,
     CommitAddAndPlay, CommitSwap DEF Shape
<1>4. invite' \in Invites /\ InviteCounts'
  BY <1>2, CommitCounts
<1>5. lost' \in BOOLEAN /\ overtaken' \in BOOLEAN /\ (lost => lost') /\ task' = [task EXCEPT ![r] = Idle]
  BY DEF Inv, Commit, Ends
<1>6. task = [s \in Request |-> task[s]]
  BY DEF Inv
<1>7. /\ task' = [s \in Request |-> task'[s]]
      /\ \A s \in Request : task'[s] = IF s = r THEN Idle ELSE task[s]
  BY <1>5, <1>6
<1>8. Tasks1'
  <2>1. ASSUME NEW s \in Request
        PROVE  Fine(task'[s], rows', added', postgres)
    <3>1. CASE task'[s] = Idle
      BY <3>1, IdleIsFine
    <3>2. CASE task'[s] # Idle
      <4>1. s # r /\ task'[s] = task[s]
        BY <1>7, <3>2
      <4>2. postgres
        BY <1>1, <3>2, <4>1 DEF Inv, Memory, Alone
      <4>3. Fine(task[s], rows, added, postgres)
        BY DEF Inv, Tasks1
      <4>. QED BY <1>3, <4>1, <4>2, <4>3, FineStays DEF Committed
    <3>. QED BY <3>1, <3>2
  <2>. QED BY <2>1 DEF Tasks1
<1>9. Creating'
  <2>1. ASSUME NEW s \in Request, task'[s].op = "create"
        PROVE  FALSE
    <3>1. s # r /\ task[s].op = "create"
      BY <1>7, <2>1, IdleIsFine
    <3>. QED BY <1>1, <3>1 DEF Inv, Creating, Alone
  <2>. QED BY <2>1 DEF Creating
<1>10. Memory'
  <2>1. ASSUME ~postgres, NEW s \in Request
        PROVE  task'[s] = Idle
    BY <1>1, <1>7, <2>1 DEF Inv, Memory, Alone
  <2>. QED BY <2>1 DEF Memory
<1>11. ~lost' => OneDM' /\ (UNCHANGED rows \/ \E u \in User : rows'[u].role # "none")
  <2>1. ASSUME ~lost'
        PROVE  OneDM /\ rows \in [User -> Row]
    BY <1>5, <2>1 DEF Inv, OneUnlessLost
  <2>2. CASE UNCHANGED rows
    BY <2>1, <2>2 DEF OneDM, Members!OneDM, Members!DM
  <2>. QED BY <1>3, <2>1, <2>2, OperationKeeps DEF Committed
<1>12. SomebodyIsThere'
  <2>1. ASSUME ~lost', NEW s \in Request, Busy(task'[s].op)
        PROVE  \E u \in User : rows'[u].role # "none"
    <3>1. s # r /\ task'[s] = task[s]
      BY <1>7, <2>1, IdleIsFine DEF Busy
    <3>2. \E u \in User : rows[u].role # "none"
      BY <1>5, <2>1, <3>1 DEF Inv, SomebodyIsThere
    <3>. QED BY <1>11, <2>1, <3>2
  <2>. QED BY <2>1 DEF SomebodyIsThere, Busy
<1>13. OneUnlessLost'
  BY <1>11 DEF OneUnlessLost
<1>14. rows' \in [User -> Row] /\ added' \subseteq Character /\ \A u \in User : Fits(u, rows'[u], added')
  BY <1>3 DEF Committed
<1>15. Inv'
  BY <1>4, <1>5, <1>7, <1>8, <1>9, <1>10, <1>12, <1>13, <1>14 DEF Inv
<1>. QED BY <1>3, <1>5, <1>15 DEF Committed

LEMMA WriteKeeps ==
  ASSUME Inv, NEW r \in Request, Write(r)
  PROVE  Inv' /\ (lost' \/ Members!Operation \/ UNCHANGED rows) /\ (lost => lost')
<1>. DEFINE t == task[r]
<1>1. UNCHANGED postgres
  BY DEF Write
<1>2. CASE Ends(r) /\ UNCHANGED <<data, ghosts>>
  BY <1>1, <1>2, EndsKeeps
<1>3. CASE t.at = "first" /\ task' = [task EXCEPT ![r].at = "second"] /\ UNCHANGED <<data, ghosts>>
  BY <1>1, <1>3, FirstKeeps
<1>4. CASE ~Clashes(t, Due(t)) /\ t.at = "second" /\ Commit(r, t)
  BY <1>1, <1>4, CommitKeeps DEF Due
<1>. QED BY <1>2, <1>3, <1>4 DEF Write

-----------------------------------------------------------------------------

LEMMA InitHolds == Init => Inv
<1>. SUFFICES ASSUME Init PROVE Inv
  OBVIOUS
<1>1. /\ rows = [u \in User |-> NotMember] /\ task = [r \in Request |-> Idle] /\ added = {}
      /\ invite = NoInvite /\ joins = 0 /\ lost = FALSE /\ overtaken = FALSE
  BY DEF Init
<1>2. Empty /\ \A r \in Request : task[r] = Idle
  BY <1>1 DEF Empty
<1>3. rows \in [User -> Row] /\ \A u \in User : Fits(u, rows[u], added) /\ rows[u].role = "none"
  BY <1>1, RowsTyped DEF Fits, NotMember, Members!NotMember
<1>4. Tasks1 /\ Creating /\ Memory /\ SomebodyIsThere
  BY <1>2, IdleIsFine DEF Tasks1, Creating, Memory, SomebodyIsThere, Busy
<1>5. OneUnlessLost
  BY <1>3 DEF OneUnlessLost, OneDM, Members!OneDM
<1>6. invite \in Invites /\ InviteCounts
  BY <1>1, InvitesTyped DEF InviteCounts
<1>7. task = [r \in Request |-> task[r]]
  BY <1>1
<1>. QED BY <1>1, <1>3, <1>4, <1>5, <1>6, <1>7 DEF Inv

\* Every step keeps the invariant, and is one of the roster or none at all.
LEMMA StepHolds == Inv /\ [Next]_vars => Inv' /\ [Members!Next]_<<rows, lost>>
<1>. SUFFICES ASSUME Inv, [Next]_vars
              PROVE  Inv' /\ (Members!Next \/ UNCHANGED <<rows, lost>>)
  OBVIOUS
<1>1. CASE UNCHANGED vars
  <2>1. UNCHANGED <<postgres, rows, added, invite, task, joins, lost, overtaken>>
    BY <1>1 DEF vars, data, ghosts
  <2>2. Tasks1' /\ Creating' /\ Memory' /\ OneUnlessLost' /\ SomebodyIsThere' /\ InviteCounts'
    BY <2>1 DEF Inv, Tasks1, Creating, Memory, OneUnlessLost, SomebodyIsThere, InviteCounts, Empty, Alone, Busy,
                OneDM, Members!OneDM, Members!DM
  <2>. QED BY <2>1, <2>2 DEF Inv
<1>2. ASSUME NEW r \in Request, NEW op \in Op, NEW u \in User, Begin(r, op, u)
      PROVE  Inv' /\ UNCHANGED <<rows, lost>>
  BY <1>2, BeginKeeps
<1>3. ASSUME NEW r \in Request, Step(r) \/ Fail(r), ~Write(r)
      PROVE  Inv' /\ UNCHANGED <<rows, lost>>
  <2>1. CASE BreakDeadlock(r) \/ Fail(r)
    BY <2>1, EndsKeeps DEF BreakDeadlock, Fail
  <2>. QED BY <1>3, <2>1, SettingsKeeps, MemberKeeps, CharacterKeeps, InviteKeeps, ActorKeeps, OtherKeeps DEF Step
<1>4. ASSUME NEW r \in Request, Write(r)
      PROVE  Inv' /\ (Members!Next \/ UNCHANGED <<rows, lost>>)
  <2>1. Inv' /\ (lost' \/ Members!Operation \/ UNCHANGED rows) /\ (lost => lost')
    BY <1>4, WriteKeeps
  <2>2. lost \in BOOLEAN /\ lost' \in BOOLEAN /\ rows' \in [User -> Row]
    BY <2>1 DEF Inv
  <2>3. CASE lost'
    <3>1. lost' = TRUE
      BY <2>2, <2>3
    <3>. QED BY <2>1, <2>2, <3>1 DEF Members!Next, Row
  <2>4. CASE ~lost'
    <3>1. ~lost /\ UNCHANGED lost
      BY <2>1, <2>2, <2>4
    <3>. QED BY <2>1, <2>4, <3>1 DEF Members!Next
  <2>. QED BY <2>3, <2>4
<1>. QED BY <1>1, <1>2, <1>3, <1>4 DEF Next, Step

LEMMA Invariant == Spec => []Inv
<1>. QED BY InitHolds, StepHolds, PTL DEF Spec

LEMMA InitRefines == Init => Members!Init
  BY DEF Init, Members!Init, NotMember

\* campaignService.ts:152: with any number of requests at once, of any users, the memberships change as the
\* roster says, one operation at a time, until an update is lost.
THEOREM Refines == Spec => KeepsPromise
<1>. QED BY InitRefines, StepHolds, Invariant, PTL DEF Spec, KeepsPromise, Members!Spec, Members!vars

\* 0001_init.sql:79: the characters that a member plays or has parked fit their role and are their own,
\* even when updates are lost.
THEOREM Roles == Spec => []RolesAndCharacters
<1>1. Inv => RolesAndCharacters
  BY DEF Inv, Fits, Good, Mine, RolesAndCharacters, Members!RolesAndCharacters
<1>. QED BY <1>1, Invariant, PTL

\* types: the uses of an invite that no request has overwritten are the members it brought.
THEOREM Counts == Spec => []InviteCounts
<1>1. Inv => InviteCounts
  BY DEF Inv
<1>. QED BY <1>1, Invariant, PTL

\* campaignService.ts:152,180: there is one DM as long as no update is lost (only until then: the run
\* campaigns_no_dm).
THEOREM OneDMUntilLost == Spec => [](~lost => OneDM)
<1>1. Inv => (~lost => OneDM)
  BY DEF Inv, OneUnlessLost
<1>. QED BY <1>1, Invariant, PTL

=============================================================================
