------------------------------ MODULE Campaigns ------------------------------
(***************************************************************************)
(* The requests that change a campaign (campaigns/campaignService.ts, with *)
(* the routes that call it) over the store: every call of the store is a   *)
(* step, and what a request has read may be old when it writes.            *)
(*                                                                         *)
(* With Postgres (postgresStore.ts, 0001_init.sql) a statement sees what   *)
(* is committed and what its own transaction wrote, a row written by an    *)
(* open transaction is locked, the index one_dm_per_campaign refuses a     *)
(* second DM and waits for whoever is about to change one, and a circle of *)
(* waiting transactions is broken.  In memory (memoryStore.ts) nothing     *)
(* happens between the calls of a request.  Campaigns do not influence     *)
(* each other: this is one of them, with one invite.                       *)
(***************************************************************************)
EXTENDS Integers, FiniteSets

CONSTANTS
  User, Character, NoCharacter,
  Owner,       \* whose each character is
  Admin,       \* the admin of the instance
  Request,     \* bound: requests at once
  MaxJoins,    \* bound: joins through the invite
  EndsWithLoss, \* bound: no request begins after an update was lost
  Deployments  \* the values of `postgres' to consider

ASSUME CampaignsAssumption ==
  /\ NoCharacter \notin Character /\ Owner \in [Character -> User] /\ Admin \in User
  /\ MaxJoins \in Nat /\ EndsWithLoss \in BOOLEAN /\ Deployments \subseteq BOOLEAN

VARIABLES
  postgres,  \* whether DATABASE_URL is set
  rows,      \* memberships: the committed row of every user
  added,     \* characters: those that were added
  invite,    \* invites: the committed row of the invite
  task,      \* what each request is doing
  joins,     \* how many joins through the invite were committed
  lost,      \* ghost: a membership was overwritten by a request that had read an older one
  overtaken  \* ghost: the same of the invite

data == <<rows, added, invite>>
ghosts == <<joins, lost, overtaken>>
vars == <<postgres, data, task, ghosts>>

Members == INSTANCE Roster

NotMember == Members!NotMember
NoInvite == [made |-> FALSE, revoked |-> FALSE, uses |-> 0]
Invite == [made : BOOLEAN, revoked : BOOLEAN, uses : 0..MaxJoins]

Op == {"create", "invite", "revoke", "join", "add", "activate", "swap", "leave"}

\* A write, and the value that the request read before.
MemberWrite(u, from, to) == [table |-> "memberships", key |-> u, from |-> from, to |-> to]
InviteWrite(from, to) == [table |-> "invites", key |-> Admin, from |-> from, to |-> to]
CharacterWrite(c) == [table |-> "characters", key |-> Owner[c], from |-> NoCharacter, to |-> c]
NoWrite == [table |-> "none", key |-> Admin, from |-> NotMember, to |-> NotMember]

\* `row' is the membership that was read, `seen' the invite; `first' and `second' are the writes of the
\* transaction, which is open when the second is due.
Idle == [op |-> "idle", at |-> "-", user |-> Admin, other |-> Admin, char |-> NoCharacter,
         row |-> NotMember, seen |-> NoInvite, first |-> NoWrite, second |-> NoWrite]

Writes ==
  {NoWrite} \cup [table : {"memberships"}, key : User, from : Members!Row, to : Members!Row]
    \cup [table : {"invites"}, key : User, from : Invite, to : Invite]
    \cup [table : {"characters"}, key : User, from : {NoCharacter}, to : Character]

Tasks ==
  [op : Op \cup {"idle"}, at : {"-", "settings", "member", "actor", "other", "invite", "character", "first", "second"},
   user : User, other : User, char : Character \cup {NoCharacter}, row : Members!Row, seen : Invite,
   first : Writes, second : Writes]

\* What the variables hold, and: a request in memory is alone.
TypeOK ==
  /\ {postgres, lost, overtaken} \subseteq BOOLEAN
  /\ rows \in [User -> Members!Row] /\ added \subseteq Character /\ invite \in Invite
  /\ joins \in 0..MaxJoins
  /\ DOMAIN task = Request /\ \A r \in Request : task[r] \in Tasks
  /\ ~postgres => \A r, s \in Request : task[r] # Idle /\ task[s] # Idle => r = s

Init ==
  /\ postgres \in Deployments
  /\ rows = [u \in User |-> NotMember] /\ added = {} /\ invite = NoInvite
  /\ task = [r \in Request |-> Idle]
  /\ joins = 0 /\ lost = FALSE /\ overtaken = FALSE

-----------------------------------------------------------------------------
(* The store.                                                              *)

\* What the open transaction of a request has written, and the write it is about to do.
Written(t) == IF t.at = "second" THEN t.first ELSE NoWrite
Due(t) == IF t.at = "first" THEN t.first ELSE t.second

\* The memberships after a write; those a statement of the request sees.
Put(members, w) == IF w.table = "memberships" THEN [members EXCEPT ![w.key] = w.to] ELSE members
View(t) == Put(rows, Written(t))

MakesDM(w) == w.table = "memberships" /\ w.to.role = "dm"

\* The requests whose transaction a write has to wait for: they hold its row, or have made or unmade
\* the DM that it would clash with.
WaitsFor(r) ==
  LET w == Due(task[r]) IN
  {s \in Request \ {r} :
     LET x == Written(task[s]) IN
     /\ x # NoWrite
     /\ \/ x.table = w.table /\ x.key = w.key
        \/ MakesDM(w) /\ (MakesDM(x) \/ (x.table = "memberships" /\ rows[x.key].role = "dm"))}

\* The index one_dm_per_campaign.
Clashes(t, w) == postgres /\ MakesDM(w) /\ \E u \in User \ {w.key} : View(t)[u].role = "dm"

\* A write is stale if its row is not the one that was read.
StaleMember(w) == w.table = "memberships" /\ rows[w.key] # w.from
StaleInvite(w) == w.table = "invites" /\ invite # w.from

Ends(r) == task' = [task EXCEPT ![r] = Idle]

Commit(r, t) ==
  LET writes == {t.first, t.second} IN
  /\ rows' = Put(View(t), t.second)
  /\ invite' = IF t.second.table = "invites" THEN t.second.to ELSE invite
  /\ added' = added \cup {w.to : w \in {x \in writes : x.table = "characters"}}
  /\ joins' = IF t.op = "join" THEN joins + 1 ELSE joins
  /\ lost' = (lost \/ \E w \in writes : StaleMember(w))
  /\ overtaken' = (overtaken \/ \E w \in writes : StaleInvite(w))
  /\ Ends(r)

Writing(t) == t.at \in {"first", "second"}

\* The next statement of a request that writes; the second, or only, one is followed by the COMMIT.
Write(r) ==
  LET t == task[r] IN
  /\ Writing(t) /\ WaitsFor(r) = {}
  /\ \/ /\ Clashes(t, Due(t)) /\ Ends(r)
        /\ UNCHANGED <<data, ghosts>>
     \/ /\ ~Clashes(t, Due(t)) /\ t.at = "first"
        /\ task' = [task EXCEPT ![r].at = "second"]
        /\ UNCHANGED <<data, ghosts>>
     \/ ~Clashes(t, Due(t)) /\ t.at = "second" /\ Commit(r, t)
  /\ UNCHANGED postgres

\* Postgres breaks a circle of transactions that wait for each other.
BreakDeadlock(r) ==
  /\ \E S \in SUBSET Request :
       /\ r \in S
       /\ \A s \in S : Writing(task[s]) /\ WaitsFor(s) \cap S # {}
  /\ Ends(r) /\ UNCHANGED <<postgres, data, ghosts>>

\* The database refuses a call, or the backend restarts: what was not committed is gone.
Fail(r) ==
  /\ postgres /\ task[r] # Idle
  /\ Ends(r) /\ UNCHANGED <<postgres, data, ghosts>>

-----------------------------------------------------------------------------
(* The requests: what each reads, and the writes that follow.              *)

Goes(r, t) == task' = [task EXCEPT ![r] = t] /\ UNCHANGED <<postgres, data, ghosts>>
Refuses(r) == Goes(r, Idle)
Writes1(t, w) == [Idle EXCEPT !.op = t.op, !.char = t.char, !.at = "second", !.second = w]
Writes2(t, v, w) == [Idle EXCEPT !.op = t.op, !.char = t.char, !.at = "first", !.first = v, !.second = w]

\* In memory no call of the store lets another request run.
MayBegin == postgres \/ \A s \in Request : task[s] = Idle

\* A request arrives.  There is one campaign and one invite for it; a character is new when it is added.
Begin(r, op, u) ==
  /\ ~(EndsWithLoss /\ (lost \/ overtaken))
  /\ task[r] = Idle /\ MayBegin
  /\ op = "create" <=> \A v \in User : rows[v] = NotMember
  /\ op = "create" => ~lost /\ \A s \in Request : task[s] = Idle
  /\ op = "invite" => ~invite.made /\ \A s \in Request : task[s].op # "invite"
  /\ op = "join" => joins + Cardinality({s \in Request : task[s].op = "join"}) < MaxJoins
  /\ \E v \in User, c \in Character \cup {NoCharacter} :
       /\ op \in {"add", "activate"} <=> c # NoCharacter
       /\ op = "add" => Owner[c] = u /\ c \notin added /\ \A s \in Request : task[s].op = "add" => task[s].char # c
       /\ op # "swap" => v = u
       /\ Goes(r, [Idle EXCEPT !.op = op, !.user = u, !.other = v, !.char = c,
                   !.at = IF op = "create" THEN "settings" ELSE IF op = "join" THEN "invite" ELSE "member"])

\* createCampaign, whose settings the admin may have set to `closed', and createInvite.
ReadSettings(r) ==
  LET t == task[r] IN
  /\ t.at = "settings"
  /\ \/ /\ t.op = "create"
        /\ Goes(r, Writes1(t, MemberWrite(t.user, NotMember, Members!NewMember("dm"))))
     \/ t.op = "create" /\ t.user # Admin /\ Refuses(r)
     \/ /\ t.op = "invite"
        /\ Goes(r, Writes1(t, InviteWrite(NoInvite, [NoInvite EXCEPT !.made = TRUE])))

\* requireDm
OnlyDM(op) == op \in {"invite", "revoke", "swap"}

\* joinWithInvite: the new player, and one more use of the invite.
\* Mutant: it is not counted.
NotCounted(t) ==
  Writes2(t, MemberWrite(t.user, NotMember, Members!NewMember("player")), InviteWrite(t.seen, t.seen))
Joined(t) ==
  Writes2(t, MemberWrite(t.user, NotMember, Members!NewMember("player")),
             InviteWrite(t.seen, [t.seen EXCEPT !.uses = @ + 1]))

\* addCharacter: the first character is played at once, or parked.
\* Mutant: a DM plays it, too.
PlayedAtOnce(t, m) ==
  IF m.active = NoCharacter
  THEN Writes2(t, CharacterWrite(t.char), MemberWrite(t.user, m, [m EXCEPT !.active = t.char]))
  ELSE Writes1(t, CharacterWrite(t.char))
WithCharacter(t, m) ==
  LET c == CharacterWrite(t.char) IN
  IF m.role = "player" /\ m.active = NoCharacter
  THEN Writes2(t, c, MemberWrite(t.user, m, [m EXCEPT !.active = t.char]))
  ELSE IF m.role = "dm" /\ m.parked = NoCharacter
  THEN Writes2(t, c, MemberWrite(t.user, m, [m EXCEPT !.parked = t.char]))
  ELSE Writes1(t, c)

\* The membership of whoever asks: requireMember, requireDm, and for `join' whether there is one.
ReadMember(r) ==
  LET t == task[r] m == rows[t.user] IN
  /\ t.at = "member"
  /\ \/ t.op = "join" /\ m # NotMember /\ Refuses(r)
     \/ t.op = "join" /\ m = NotMember /\ Goes(r, Joined(t))
     \/ t.op # "join" /\ m.role = "none" /\ Refuses(r)
     \/ OnlyDM(t.op) /\ m.role = "player" /\ Refuses(r)
     \/ t.op \in {"activate", "leave"} /\ m.role = "dm" /\ Refuses(r)
     \/ t.op = "leave" /\ m.role = "player" /\ Goes(r, Writes1(t, MemberWrite(t.user, m, NotMember)))
     \/ t.op = "add" /\ m.role # "none" /\ Goes(r, WithCharacter(t, m))
     \/ t.op = "activate" /\ m.role = "player" /\ Goes(r, [t EXCEPT !.at = "character", !.row = m])
     \/ t.op = "swap" /\ m.role = "dm" /\ t.other = t.user /\ Refuses(r)
     \/ t.op = "swap" /\ m.role = "dm" /\ t.other # t.user /\ Goes(r, [t EXCEPT !.at = "actor"])
     \/ t.op = "invite" /\ m.role = "dm" /\ Goes(r, [t EXCEPT !.at = "settings"])
     \/ t.op = "revoke" /\ m.role = "dm" /\ Goes(r, [t EXCEPT !.at = "invite"])

\* setActiveCharacter: the character must be theirs.
ReadCharacter(r) ==
  LET t == task[r] IN
  /\ t.at = "character"
  /\ IF t.char \in added /\ Owner[t.char] = t.user
     THEN Goes(r, Writes1(t, MemberWrite(t.user, t.row, [t.row EXCEPT !.active = t.char])))
     ELSE Refuses(r)

\* revokeInvite, and joinWithInvite unless the code is unknown, revoked or expired.
ReadInvite(r) ==
  LET t == task[r] IN
  /\ t.at = "invite"
  /\ \/ /\ t.op = "revoke" /\ invite.made
        /\ Goes(r, Writes1(t, InviteWrite(invite, [invite EXCEPT !.revoked = TRUE])))
     \/ /\ t.op = "join" /\ invite.made /\ ~invite.revoked
        /\ Goes(r, [t EXCEPT !.at = "member", !.seen = invite])
     \/ (t.op = "join" \/ ~invite.made) /\ Refuses(r)

\* swapDm, in its transaction: the rows of both, then demote and promote.
\* Mutant: the parked character is not given back.
ParkedIsGone(t, d, p) ==
  Writes2(t, MemberWrite(t.user, d, [Members!Demoted(d) EXCEPT !.active = NoCharacter]),
             MemberWrite(t.other, p, Members!Promoted(p)))
Swapped(t, d, p) ==
  Writes2(t, MemberWrite(t.user, d, Members!Demoted(d)), MemberWrite(t.other, p, Members!Promoted(p)))

ReadActor(r) ==
  LET t == task[r] d == rows[t.user] IN
  /\ t.at = "actor"
  /\ IF d = NotMember THEN Refuses(r) ELSE Goes(r, [t EXCEPT !.at = "other", !.row = d])

ReadOther(r) ==
  LET t == task[r] p == rows[t.other] IN
  /\ t.at = "other"
  /\ IF p.role # "player" THEN Refuses(r) ELSE Goes(r, Swapped(t, t.row, p))

-----------------------------------------------------------------------------

Step(r) ==
  \/ ReadSettings(r) \/ ReadMember(r) \/ ReadCharacter(r) \/ ReadInvite(r) \/ ReadActor(r) \/ ReadOther(r)
  \/ Write(r) \/ BreakDeadlock(r)

Next ==
  \/ \E r \in Request : Step(r) \/ Fail(r) \/ \E op \in Op, u \in User : Begin(r, op, u)

Spec == Init /\ [][Next]_vars

-----------------------------------------------------------------------------

\* campaignService.ts:152: until an update of a membership is lost the requests do what Roster promises,
\* as if they came one at a time.
KeepsPromise == Members!Spec

\* campaignService.ts:152,180: there is always exactly one DM (it is not so: see the README).
OneDM == Members!OneDM

\* 0001_init.sql:79: lost updates or not, a DM has no active character, a player no parked one, and
\* everybody's are their own.
RolesAndCharacters ==
  /\ Members!RolesAndCharacters
  /\ \A u \in User, c \in Character :
       c \in {rows[u].active, rows[u].parked} => c \in added /\ Owner[c] = u

\* types: the uses of an invite are the members it brought, unless its row was overwritten.
InviteCounts == ~overtaken => invite.uses = joins

=============================================================================
