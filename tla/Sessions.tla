------------------------------- MODULE Sessions -------------------------------
(***************************************************************************)
(* Sessions of accounts and who is signed in: the session part of          *)
(* AccountService (auth/accountService.ts) under the REST routes           *)
(* (middleware.ts, authRoutes.ts) and under the hub (hub.ts, wsServer.ts), *)
(* which keeps authenticated connections and checks them again at          *)
(* intervals.                                                              *)
(*                                                                         *)
(* Every check of a token is a ping: it reads the row of the session and   *)
(* later writes the whole row back with the time.  Requests, connections   *)
(* and the recheck interleave at every call of the store.                  *)
(***************************************************************************)
EXTENDS Integers, FiniteSets

CONSTANTS
  User, Session,
  UserOf,       \* whose each session is
  NoSession,
  Request,      \* bound: REST requests at once
  MaxConns      \* bound: connections at once

ASSUME SessionsAssumption ==
  /\ UserOf \in [Session -> User] /\ NoSession \notin Session /\ MaxConns \in Nat

Conn == 1..MaxConns

VARIABLES
  row,       \* the row of every session, `silent' when it was not used for longer than the offline limit
  request,   \* what each REST request is doing
  conn,      \* Hub.connections: the socket, the session it has proved, and its `auth' frame
  recheck,   \* what recheckSessions is doing
  told       \* ghost: sessions revoked one by one, of which the hub was told

vars == <<row, request, conn, recheck, told>>

\* Whoever checks a token: `read' is to come, or `touch', which writes back what was read.
NoCheck == [at |-> "-", token |-> NoSession]
Check == {NoCheck} \cup [at : {"read", "touch"}, token : Session]
Checking(s) == [at |-> "read", token |-> s]

NoRequest == [at |-> "idle", check |-> NoCheck, user |-> {}, target |-> NoSession, todo |-> {}]
Closed == [open |-> FALSE, auth |-> NoSession, check |-> NoCheck]
NoRecheck == [todo |-> {}, cur |-> {}, check |-> NoCheck]

TypeOK ==
  /\ row \in [Session -> {"none", "live", "silent", "revoked"}] /\ told \subseteq Session
  /\ request \in [Request -> [at : {"idle", "check", "target", "put", "list", "each", "start"}, check : Check,
                              user : {{}} \cup {{u} : u \in User}, target : Session \cup {NoSession}, todo : SUBSET Session]]
  /\ conn \in [Conn -> [open : BOOLEAN, auth : Session \cup {NoSession}, check : Check]]
  /\ recheck \in [todo : SUBSET Conn, cur : SUBSET Conn, check : Check]
  /\ \A k \in Conn : conn[k].open /\ conn[k].auth # NoSession => row[conn[k].auth] # "silent"

Init ==
  /\ row = [s \in Session |-> "none"]
  /\ request = [r \in Request |-> NoRequest]
  /\ conn = [k \in Conn |-> Closed] /\ recheck = NoRecheck
  /\ told = {}

-----------------------------------------------------------------------------
(* AccountService.authenticate.                                            *)

\* Mutant: a revoked session is as good as another.
Known(s) == row[s] \in {"live", "revoked"}
Valid(s) == row[s] = "live"

HasRead(c) == [c EXCEPT !.at = "touch"]

\* What was read was a live session.
Touched(c) == [row EXCEPT ![c.token] = "live"]

\* A write that undoes a revocation leaves the hub behind.
ToldAfter(newRow) == {s \in told : newRow[s] = "revoked"}

-----------------------------------------------------------------------------
(* Signing in, and the requests.                                           *)

\* signInWithPassword, and redeemMagicLink with a link to sign in: a new session.
SignIn(s) ==
  /\ row[s] = "none"
  /\ row' = [row EXCEPT ![s] = "live"]
  /\ UNCHANGED <<request, conn, recheck, told>>

\* A request with a token is checked first; a reset comes with a link instead.
Begin(r) ==
  /\ request[r] = NoRequest
  /\ \E s \in Session : row[s] # "none" /\ request' \in
       {[request EXCEPT ![r] = [NoRequest EXCEPT !.at = "check", !.check = Checking(s)]],
        [request EXCEPT ![r] = [NoRequest EXCEPT !.at = "list", !.user = {UserOf[s]}]]}
  /\ UNCHANGED <<row, conn, recheck, told>>

CheckRead(r) ==
  LET c == request[r].check IN
  /\ request[r].at = "check" /\ c.at = "read"
  /\ request' = [request EXCEPT ![r] = IF Valid(c.token) THEN [@ EXCEPT !.check = HasRead(c)] ELSE NoRequest]
  /\ UNCHANGED <<row, conn, recheck, told>>

\* The ping of requireAuth; then most requests have nothing to do with sessions, but
\* DELETE /sessions/:id and /logout go on.
CheckTouch(r) ==
  LET t == request[r] IN
  /\ t.at = "check" /\ t.check.at = "touch"
  /\ row' = Touched(t.check) /\ told' = ToldAfter(row')
  /\ \/ request' = [request EXCEPT ![r] = NoRequest]
     \/ \E s \in Session :
          /\ row[s] # "none"
          /\ request' = [request EXCEPT ![r] =
               [NoRequest EXCEPT !.at = "target", !.user = {UserOf[t.check.token]}, !.target = s]]
  /\ UNCHANGED <<conn, recheck>>

\* A socket that is closed; the recheck and a handler that is under way still know it.
Shut(k) == IF conn[k].check # NoCheck \/ k \in recheck.todo \cup recheck.cur
           THEN [conn[k] EXCEPT !.open = FALSE] ELSE Closed

\* hub.revokeSession, in the step that follows the write: every open connection of the session is
\* closed.
\* Mutant: only one of them.
FirstOf(s) == {k \in Conn : conn[k].open /\ conn[k].auth = s /\ \A j \in 1..k - 1 : conn[j].auth # s}
OpenOf(s)  == {k \in Conn : conn[k].open /\ conn[k].auth = s}
TellHub(s) ==
  /\ conn' = [k \in Conn |-> IF k \in OpenOf(s) THEN Shut(k) ELSE conn[k]]
  /\ told' = told \cup {s}

\* revokeSession: only their own; one that is revoked already is not written again, but the hub is
\* told.
RevokeRead(r) ==
  LET t == request[r] mine == UserOf[t.target] \in t.user IN
  /\ t.at = "target"
  /\ IF mine /\ row[t.target] # "revoked"
     THEN /\ request' = [request EXCEPT ![r].at = "put"]
          /\ UNCHANGED <<conn, told>>
     ELSE /\ request' = [request EXCEPT ![r] = NoRequest]
          /\ IF mine THEN TellHub(t.target) ELSE UNCHANGED <<conn, told>>
  /\ UNCHANGED <<row, recheck>>

RevokePut(r) ==
  LET t == request[r] IN
  /\ t.at = "put"
  /\ row' = [row EXCEPT ![t.target] = "revoked"]
  /\ TellHub(t.target)
  /\ request' = [request EXCEPT ![r] = NoRequest]
  /\ UNCHANGED <<recheck>>

\* redeemMagicLink with a link to reset the password: revokeAllSessions lists the sessions and writes
\* them one by one, and a new one is started; nobody tells the hub.
ResetList(r) ==
  LET t == request[r] IN
  /\ t.at = "list"
  /\ request' = [request EXCEPT ![r].at = "each",
       ![r].todo = {s \in Session : UserOf[s] \in t.user /\ row[s] \in {"live", "silent"}}]
  /\ UNCHANGED <<row, conn, recheck, told>>

ResetPut(r) ==
  /\ request[r].at = "each"
  /\ \E s \in request[r].todo :
       /\ row' = [row EXCEPT ![s] = "revoked"]
       /\ request' = [request EXCEPT ![r].todo = @ \ {s}]
  /\ UNCHANGED <<conn, recheck, told>>

ResetStart(r) ==
  /\ request[r].at = "each" /\ request[r].todo = {}
  /\ \/ \E s \in Session :
          /\ row[s] = "none" /\ UserOf[s] \in request[r].user
          /\ row' = [row EXCEPT ![s] = "live"]
     \/ /\ \A s \in Session : UserOf[s] \in request[r].user => row[s] # "none"
        /\ UNCHANGED row
  /\ request' = [request EXCEPT ![r] = NoRequest]
  /\ UNCHANGED <<conn, recheck, told>>

\* The database fails.
Fails(r) ==
  /\ request[r] # NoRequest
  /\ request' = [request EXCEPT ![r] = NoRequest]
  /\ UNCHANGED <<row, conn, recheck, told>>

-----------------------------------------------------------------------------
(* The hub.                                                                *)

Free(k) == ~conn[k].open /\ conn[k].check = NoCheck /\ k \notin recheck.todo \cup recheck.cur

\* accept, and the `auth' frame of the client.
Accept(k) ==
  /\ Free(k) /\ \A j \in 1..k - 1 : ~Free(j)
  /\ conn' = [conn EXCEPT ![k] = [Closed EXCEPT !.open = TRUE]]
  /\ UNCHANGED <<row, request, recheck, told>>

Auth(k, s) ==
  /\ conn[k].open /\ conn[k].auth = NoSession /\ conn[k].check = NoCheck /\ row[s] # "none"
  /\ conn' = [conn EXCEPT ![k].check = Checking(s)]
  /\ UNCHANGED <<row, request, recheck, told>>

\* authenticate: a connection whose token is not valid is closed.
AuthRead(k) ==
  LET c == conn[k].check IN
  /\ c.at = "read"
  /\ conn' = [conn EXCEPT ![k] = IF Valid(c.token) THEN [@ EXCEPT !.check = HasRead(c)] ELSE Closed]
  /\ UNCHANGED <<row, request, recheck, told>>

AuthTouch(k) ==
  LET c == conn[k].check IN
  /\ c.at = "touch"
  /\ row' = Touched(c) /\ told' = ToldAfter(row')
  /\ conn' = [conn EXCEPT ![k] = IF conn[k].open THEN [@ EXCEPT !.check = NoCheck, !.auth = c.token] ELSE Closed]
  /\ UNCHANGED <<request, recheck>>

\* closed: the socket is gone (or the 5 seconds to authenticate are over).
Close(k) ==
  /\ conn[k].open
  /\ conn' = [conn EXCEPT ![k] = Shut(k)]
  /\ UNCHANGED <<row, request, recheck, told>>

\* recheckSessions goes through the connections there are when it starts, closed meanwhile or not.
RecheckStarts ==
  /\ recheck = NoRecheck /\ \E k \in Conn : conn[k].open
  /\ recheck' = [NoRecheck EXCEPT !.todo = {k \in Conn : conn[k].open}]
  /\ UNCHANGED <<row, request, conn, told>>

RecheckNext(k) ==
  /\ recheck.cur = {} /\ k \in recheck.todo
  /\ recheck' = IF conn[k].auth = NoSession THEN [recheck EXCEPT !.todo = @ \ {k}]
                ELSE [todo |-> recheck.todo \ {k}, cur |-> {k}, check |-> Checking(conn[k].auth)]
  /\ UNCHANGED <<row, request, conn, told>>

\* A connection whose session is not valid any more is dropped.
\* Mutant: it stays.
DropNone(k) == conn
Drop(k) == [conn EXCEPT ![k].open = FALSE]

RecheckRead(k) ==
  /\ k \in recheck.cur /\ recheck.check.at = "read"
  /\ IF Valid(recheck.check.token)
     THEN recheck' = [recheck EXCEPT !.check = HasRead(@)] /\ UNCHANGED conn
     ELSE recheck' = [recheck EXCEPT !.check = NoCheck, !.cur = {}] /\ conn' = Drop(k)
  /\ UNCHANGED <<row, request, told>>

RecheckTouch ==
  /\ recheck.check.at = "touch"
  /\ row' = Touched(recheck.check) /\ told' = ToldAfter(row')
  /\ recheck' = [recheck EXCEPT !.check = NoCheck, !.cur = {}]
  /\ UNCHANGED <<request, conn>>

\* The database fails: the round is over.
RecheckFails ==
  /\ recheck.cur # {} /\ recheck' = NoRecheck
  /\ UNCHANGED <<row, request, conn, told>>

\* The checks of a token that are under way.
Checks == {request[r].check : r \in Request} \cup {conn[k].check : k \in Conn} \cup {recheck.check}

\* A device was off for longer than the limit; one that is connected is pinged every minute.
GoesSilent(s) ==
  /\ row[s] = "live"
  /\ \A c \in Checks : c.token # s
  /\ \A k \in Conn : conn[k].open => conn[k].auth # s
  /\ row' = [row EXCEPT ![s] = "silent"]
  /\ UNCHANGED <<request, conn, recheck, told>>

-----------------------------------------------------------------------------

RequestStep(r) ==
  \/ CheckRead(r) \/ CheckTouch(r) \/ RevokeRead(r) \/ RevokePut(r)
  \/ ResetList(r) \/ ResetPut(r) \/ ResetStart(r)

HubStep(k) == AuthRead(k) \/ AuthTouch(k)
RecheckStep == RecheckTouch \/ \E k \in Conn : RecheckNext(k) \/ RecheckRead(k)

Next ==
  \/ \E s \in Session : SignIn(s) \/ GoesSilent(s)
  \/ \E r \in Request : Begin(r) \/ RequestStep(r) \/ Fails(r)
  \/ \E k \in Conn : Accept(k) \/ HubStep(k) \/ Close(k) \/ \E s \in Session : Auth(k, s)
  \/ RecheckStarts \/ RecheckStep \/ RecheckFails

Spec == Init /\ [][Next]_vars

\* The store answers, the interval of the recheck comes round, and the database does not fail every
\* time a connection is checked.
Fairness ==
  /\ \A r \in Request : WF_vars(RequestStep(r))
  /\ \A k \in Conn : WF_vars(HubStep(k))
  /\ WF_vars(RecheckStarts) /\ WF_vars(RecheckTouch)
  /\ \A k \in Conn : SF_vars(RecheckNext(k)) /\ SF_vars(RecheckRead(k))

FairSpec == Spec /\ Fairness

-----------------------------------------------------------------------------

\* A session is over for good: it is revoked or silent for too long, and nobody has read it before and
\* still has to write it back.
Dead(s) == row[s] \in {"silent", "revoked"} /\ \A c \in Checks : c.token = s => c.at # "touch"

\* accountService.ts:205, 0001_init.sql:29: the revocation of a session is final.
RevocationIsFinal == [][\A s \in Session : row[s] = "revoked" => row'[s] = "revoked"]_vars

\* The same once no check that began before it is under way.
DeadForGood == [][\A s \in Session : Dead(s) => Dead(s)']_vars

\* hub.ts:134: signing out a device closes its connections at once (when it is signed out at all).
SignOutIsPrompt == \A s \in told : ~\E k \in Conn : conn[k].open /\ conn[k].auth = s

\* wsServer.ts:16: a remote sign-out, a reset of the password as well, takes effect on a connection
\* that is already open.
DeadIsDropped == \A s \in Session : Dead(s) ~> ~\E k \in Conn : conn[k].open /\ conn[k].auth = s

=============================================================================
