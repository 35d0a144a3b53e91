---------------------------- MODULE SessionsProofs ----------------------------
(* Proofs about Sessions, for any users, sessions, requests and connections.                       *)
EXTENDS Sessions, TLAPS

Rows == [Session -> {"none", "live", "silent", "revoked"}]
Req ==
  {t \in [at : {"idle", "check", "target", "put", "list", "each", "start"}, check : Check,
          user : {{}} \cup {{u} : u \in User}, target : Session \cup {NoSession}, todo : SUBSET Session] :
     t.at \in {"target", "put"} => t.target \in Session}
Link == [open : BOOLEAN, auth : Session \cup {NoSession}, check : Check]
Rechecks == [todo : SUBSET Conn, cur : SUBSET Conn, check : Check]

\* What the variables hold, without what TypeOK says of silent sessions.
Typed == row \in Rows /\ told \subseteq Session /\ request \in [Request -> Req] /\ conn \in [Conn -> Link] /\ recheck \in Rechecks

-----------------------------------------------------------------------------
(* The records.                                                            *)

LEMMA ChecksTyped ==
  /\ NoCheck \in Check
  /\ \A s \in Session : Checking(s) \in Check
  /\ \A c \in Check : c.at = "read" => HasRead(c) \in Check
<1>1. NoCheck \in Check
  BY DEF NoCheck, Check
<1>2. \A s \in Session : Checking(s) \in Check
  BY DEF Checking, Check
<1>3. \A c \in Check : c.at = "read" => HasRead(c) \in Check
  BY DEF HasRead, Check, NoCheck
<1>. QED BY <1>1, <1>2, <1>3

LEMMA NewTyped ==
  /\ NoRequest \in Req
  /\ Closed \in Link
  /\ NoRecheck \in Rechecks
  BY ChecksTyped DEF NoRequest, Closed, NoRecheck, Rechecks, Req, Link

\* A socket that is closed is a connection of the right type, of which only the socket and what is over
\* is gone.
LEMMA ShutTyped ==
  ASSUME Typed, NEW k \in Conn
  PROVE  /\ Shut(k) \in Link
         /\ ~Shut(k).open /\ Shut(k).check \in {conn[k].check, NoCheck}
<1>1. conn[k] \in Link
  BY DEF Typed
<1>2. Closed \in Link /\ ~Closed.open
      /\ Closed.check = NoCheck
  BY NewTyped DEF Closed
<1>3. [conn[k] EXCEPT !.open = FALSE] \in Link /\ ~[conn[k] EXCEPT !.open = FALSE].open
      /\ [conn[k] EXCEPT !.open = FALSE].check = conn[k].check
  BY <1>1 DEF Link
<1>. QED BY <1>2, <1>3 DEF Shut

\* A read only leads to a write if the session was live.
LEMMA TouchTyped ==
  ASSUME Typed, NEW c \in Check, row' = Touched(c), told' = ToldAfter(row')
  PROVE  /\ row' \in Rows /\ told' \subseteq told
         /\ \A s \in told' : row'[s] = "revoked"
         /\ \A s \in Session : row'[s] = IF s = c.token THEN "live" ELSE row[s]
  BY DEF Typed, Rows, Touched, ToldAfter

LEMMA TellHubTyped ==
  ASSUME Typed, NEW s \in Session, TellHub(s)
  PROVE  /\ conn' \in [Conn -> Link] /\ told' = told \cup {s}
         /\ \A k \in Conn : conn'[k].open => conn'[k] = conn[k] /\ conn[k].auth # s
         /\ \A k \in Conn : conn'[k].check \in {conn[k].check, NoCheck}
<1>1. \A k \in Conn : conn'[k] = IF k \in OpenOf(s) THEN Shut(k) ELSE conn[k]
  BY DEF TellHub
<1>2. \A k \in Conn : conn[k] \in Link
  BY DEF Typed
<1>3. conn' \in [Conn -> Link]
  BY <1>1, <1>2, ShutTyped DEF TellHub
<1>4. ASSUME NEW k \in Conn, conn'[k].open
      PROVE  conn'[k] = conn[k] /\ conn[k].auth # s
  BY <1>1, <1>4, ShutTyped DEF OpenOf
<1>5. \A k \in Conn : conn'[k].check \in {conn[k].check, NoCheck}
  BY <1>1, ShutTyped
<1>. QED BY <1>3, <1>4, <1>5 DEF TellHub

-----------------------------------------------------------------------------
(* What every step keeps.                                                  *)

\* A write that is due was due before, or its session has just been read and was live.
Fresh(c) == c.at = "touch" => c \in Checks \/ Valid(c.token)

OnlyFresh ==
  /\ \A r \in Request : Fresh(request'[r].check)
  /\ \A k \in Conn : Fresh(conn'[k].check)
  /\ Fresh(recheck'.check)

\* A session that is over comes back only by a write that was due.
OverStays ==
  \A s \in Session : row[s] \in {"silent", "revoked"} =>
    row'[s] \in {"silent", "revoked"} \/ \E c \in Checks : c.token = s /\ c.at = "touch"

\* A session of which the hub was told is revoked, and no connection has it.
Prompt ==
  \A s \in told : row[s] = "revoked" /\ \A k \in Conn : conn[k].open => conn[k].auth # s

Kept == Typed' /\ OnlyFresh /\ OverStays /\ (Prompt => Prompt')

LEMMA OldAreFresh ==
  /\ \A r \in Request : Fresh(request[r].check)
  /\ \A k \in Conn : Fresh(conn[k].check)
  /\ Fresh(recheck.check) /\ Fresh(NoCheck) /\ \A s \in Session : Fresh(Checking(s))
  BY DEF Fresh, Checks, NoCheck, Checking

LEMMA ReadIsFresh ==
  ASSUME NEW c, Valid(c.token), NEW d, d = HasRead(c)
  PROVE  Fresh(d)
  BY DEF Fresh, HasRead

\* What a step of a request does to its record; `request' is all that may change besides what is said.
LEMMA RequestOnly ==
  ASSUME Typed, NEW r \in Request, NEW t \in Req,
         Fresh(t.check), request' = [request EXCEPT ![r] = t]
  PROVE  request' \in [Request -> Req] /\ \A q \in Request : Fresh(request'[q].check)
<1>1. request' \in [Request -> Req]
  BY DEF Typed
<1>2. \A q \in Request : request'[q] = IF q = r THEN t ELSE request[q]
  BY DEF Typed
<1>. QED BY <1>1, <1>2, OldAreFresh

LEMMA SessionSteps ==
  ASSUME Typed, NEW s \in Session, SignIn(s) \/ GoesSilent(s)
  PROVE  Kept
<1>1. /\ row' \in Rows /\ row[s] \in {"none", "live"}
      /\ \A z \in Session : z # s => row'[z] = row[z]
      /\ UNCHANGED <<request, conn, recheck, told>>
  BY DEF SignIn, GoesSilent, Typed, Rows
<1>2. Typed' /\ OverStays
  BY <1>1 DEF Typed, OverStays
<1>3. OnlyFresh
  BY <1>1, OldAreFresh DEF OnlyFresh
<1>4. Prompt => Prompt'
  BY <1>1 DEF Prompt, Typed
<1>. QED BY <1>2, <1>3, <1>4 DEF Kept

\* The steps of a request that leave the rows and the hub.
LEMMA QuietSteps ==
  ASSUME Typed, NEW r \in Request, UNCHANGED <<row, conn, recheck, told>>,
         request' \in [Request -> Req], \A q \in Request : Fresh(request'[q].check)
  PROVE  Kept
<1>1. Typed' /\ OverStays /\ (Prompt => Prompt')
  BY DEF Typed, OverStays, Prompt
<1>2. OnlyFresh
  BY OldAreFresh DEF OnlyFresh
<1>. QED BY <1>1, <1>2 DEF Kept

LEMMA CheckSteps ==
  ASSUME Typed, SessionsAssumption, NEW r \in Request, Begin(r) \/ CheckRead(r) \/ Fails(r)
  PROVE  Kept
<1>1. UNCHANGED <<row, conn, recheck, told>>
  BY DEF Begin, CheckRead, Fails
<1>2. PICK t \in Req : Fresh(t.check) /\ request' = [request EXCEPT ![r] = t]
  <2>1. NoRequest \in Req /\ Fresh(NoRequest.check)
    BY NewTyped, OldAreFresh DEF NoRequest
  <2>2. CASE Fails(r)
    BY <2>1, <2>2 DEF Fails
  <2>3. CASE Begin(r)
    <3>1. PICK s \in Session : request' \in
            {[request EXCEPT ![r] = [NoRequest EXCEPT !.at = "check", !.check = Checking(s)]],
             [request EXCEPT ![r] = [NoRequest EXCEPT !.at = "list", !.user = {UserOf[s]}]]}
      BY <2>3 DEF Begin
    <3>2. [NoRequest EXCEPT !.at = "check", !.check = Checking(s)] \in Req
      BY <2>1, ChecksTyped DEF Req
    <3>3. [NoRequest EXCEPT !.at = "list", !.user = {UserOf[s]}] \in Req
      BY <2>1, SessionsAssumption DEF Req
    <3>4. /\ Fresh([NoRequest EXCEPT !.at = "check", !.check = Checking(s)].check)
          /\ Fresh([NoRequest EXCEPT !.at = "list", !.user = {UserOf[s]}].check)
      BY <2>1, OldAreFresh DEF NoRequest
    <3>. QED BY <3>1, <3>2, <3>3, <3>4
  <2>4. CASE CheckRead(r)
    <3>1. request[r] \in Req /\ request[r].check \in Check
      BY DEF Typed, Req
    <3>2. [request[r] EXCEPT !.check = HasRead(request[r].check)] \in Req
      BY <2>4, <3>1, ChecksTyped DEF Req, CheckRead
    <3>3. Valid(request[r].check.token) => Fresh([request[r] EXCEPT !.check = HasRead(request[r].check)].check)
      BY <3>1, ReadIsFresh DEF Req
    <3>4. request' = [request EXCEPT ![r] = IF Valid(request[r].check.token)
                        THEN [request[r] EXCEPT !.check = HasRead(request[r].check)] ELSE NoRequest]
      BY <2>4 DEF CheckRead, Typed
    <3>. QED BY <2>1, <3>2, <3>3, <3>4
  <2>. QED BY <2>2, <2>3, <2>4
<1>. QED BY <1>1, <1>2, RequestOnly, QuietSteps

\* The write of a check, whoever does it: it revives no session but the one it has read.
LEMMA TouchKeeps ==
  ASSUME Typed, NEW c \in Checks, c \in Check, c.at = "touch", row' = Touched(c), told' = ToldAfter(row')
  PROVE  /\ row' \in Rows /\ told' \subseteq Session /\ OverStays
         /\ \A s \in told' : s \in told /\ s # c.token /\ row'[s] = "revoked"
<1>1. /\ row' \in Rows /\ told' \subseteq told
      /\ \A s \in told' : row'[s] = "revoked"
      /\ \A s \in Session : row'[s] = IF s = c.token THEN "live" ELSE row[s]
  BY TouchTyped
<1>2. OverStays
  BY <1>1 DEF OverStays
<1>3. told \subseteq Session
  BY DEF Typed
<1>. QED BY <1>1, <1>2, <1>3

LEMMA CheckTouchStep ==
  ASSUME Typed, SessionsAssumption, NEW r \in Request, CheckTouch(r)
  PROVE  Kept
<1>. DEFINE c == request[r].check
<1>1. c \in Checks /\ c \in Check /\ c.at = "touch" /\ row' = Touched(c) /\ told' = ToldAfter(row')
  BY DEF CheckTouch, Checks, Typed, Req
<1>2. /\ row' \in Rows /\ told' \subseteq Session /\ OverStays
      /\ \A s \in told' : s \in told /\ s # c.token /\ row'[s] = "revoked"
  BY <1>1, TouchKeeps
<1>3. PICK t \in Req : Fresh(t.check) /\ request' = [request EXCEPT ![r] = t]
  <2>1. NoRequest \in Req /\ NoRequest.check = NoCheck
    BY NewTyped DEF NoRequest
  <2>2. ASSUME NEW s \in Session, row[s] # "none",
               request' = [request EXCEPT ![r] =
                 [NoRequest EXCEPT !.at = "target", !.user = {UserOf[c.token]}, !.target = s]]
        PROVE  \E t \in Req : Fresh(t.check) /\ request' = [request EXCEPT ![r] = t]
    <3>1. c.token \in Session
      BY <1>1 DEF Check, NoCheck
    <3>2. [NoRequest EXCEPT !.at = "target", !.user = {UserOf[c.token]}, !.target = s] \in Req
      BY <2>1, <3>1, SessionsAssumption DEF Req
    <3>3. [NoRequest EXCEPT !.at = "target", !.user = {UserOf[c.token]}, !.target = s].check = NoCheck
      BY <2>1, <3>2 DEF NoRequest
    <3>. QED BY <2>2, <3>2, <3>3, OldAreFresh
  <2>3. CASE request' = [request EXCEPT ![r] = NoRequest]
    BY <2>1, <2>3, OldAreFresh
  <2>. QED BY <2>2, <2>3 DEF CheckTouch
<1>4. UNCHANGED <<conn, recheck>>
  BY DEF CheckTouch
<1>5. Typed' /\ OnlyFresh
  BY <1>2, <1>3, <1>4, RequestOnly, OldAreFresh DEF Typed, OnlyFresh
<1>6. Prompt => Prompt'
  BY <1>2, <1>4 DEF Prompt
<1>. QED BY <1>2, <1>5, <1>6 DEF Kept

LEMMA RevokeSteps ==
  ASSUME Typed, NEW r \in Request, RevokeRead(r) \/ RevokePut(r)
  PROVE  Kept
<1>. DEFINE s == request[r].target
<1>1. s \in Session /\ request[r] \in Req
  BY DEF RevokeRead, RevokePut, Typed, Req
<1>2. PICK t \in Req : Fresh(t.check) /\ request' = [request EXCEPT ![r] = t]
  <2>1. NoRequest \in Req /\ Fresh(NoRequest.check)
    BY NewTyped, OldAreFresh DEF NoRequest
  <2>2. [request[r] EXCEPT !.at = "put"] \in Req /\ Fresh([request[r] EXCEPT !.at = "put"].check)
    BY <1>1, OldAreFresh DEF Req
  <2>3. request' \in {[request EXCEPT ![r] = NoRequest], [request EXCEPT ![r].at = "put"]}
    BY DEF RevokeRead, RevokePut
  <2>. QED BY <2>1, <2>2, <2>3 DEF Typed
<1>3. recheck' = recheck /\ row' \in Rows
  BY DEF RevokeRead, RevokePut, Typed, Rows
<1>4. \/ TellHub(s) /\ row'[s] = "revoked" /\ \A z \in Session : z # s => row'[z] = row[z]
      \/ UNCHANGED <<row, conn, told>>
  BY <1>1 DEF RevokeRead, RevokePut, Typed, Rows
<1>5. CASE UNCHANGED <<row, conn, told>>
  BY <1>2, <1>3, <1>5, RequestOnly, QuietSteps
<1>6. CASE TellHub(s) /\ row'[s] = "revoked" /\ \A z \in Session : z # s => row'[z] = row[z]
  <2>1. /\ conn' \in [Conn -> Link] /\ told' = told \cup {s}
        /\ \A k \in Conn : conn'[k].open => conn'[k] = conn[k] /\ conn[k].auth # s
        /\ \A k \in Conn : conn'[k].check \in {conn[k].check, NoCheck}
    BY <1>1, <1>6, TellHubTyped
  <2>2. Typed' /\ OnlyFresh
    BY <1>1, <1>2, <1>3, <2>1, RequestOnly, OldAreFresh DEF Typed, OnlyFresh
  <2>3. OverStays /\ (Prompt => Prompt')
    BY <1>6, <2>1 DEF OverStays, Prompt, Typed
  <2>. QED BY <2>2, <2>3 DEF Kept
<1>. QED BY <1>4, <1>5, <1>6

LEMMA ResetSteps ==
  ASSUME Typed, NEW r \in Request, ResetList(r) \/ ResetPut(r) \/ ResetStart(r)
  PROVE  Kept
<1>1. PICK t \in Req : Fresh(t.check) /\ request' = [request EXCEPT ![r] = t]
  <2>1. NoRequest \in Req /\ Fresh(NoRequest.check)
    BY NewTyped, OldAreFresh DEF NoRequest
  <2>2. request[r] \in Req /\ Fresh(request[r].check)
    BY OldAreFresh DEF Typed
  <2>3. ASSUME NEW S \in SUBSET Session, request' = [request EXCEPT ![r].at = "each", ![r].todo = S]
        PROVE  \E t \in Req : Fresh(t.check) /\ request' = [request EXCEPT ![r] = t]
    <3>1. [request[r] EXCEPT !.at = "each", !.todo = S] \in Req
          /\ [request[r] EXCEPT !.at = "each", !.todo = S].check = request[r].check
      BY <2>2 DEF Req
    <3>2. request' = [request EXCEPT ![r] = [request[r] EXCEPT !.at = "each", !.todo = S]]
      BY <2>3 DEF Typed
    <3>. QED BY <2>2, <3>1, <3>2
  <2>4. ASSUME NEW s \in Session, request' = [request EXCEPT ![r].todo = @ \ {s}]
        PROVE  \E t \in Req : Fresh(t.check) /\ request' = [request EXCEPT ![r] = t]
    <3>1. [request[r] EXCEPT !.todo = @ \ {s}] \in Req
          /\ [request[r] EXCEPT !.todo = @ \ {s}].check = request[r].check
      BY <2>2 DEF Req
    <3>2. request' = [request EXCEPT ![r] = [request[r] EXCEPT !.todo = @ \ {s}]]
      BY <2>4 DEF Typed
    <3>. QED BY <2>2, <3>1, <3>2
  <2>5. request[r].todo \subseteq Session
    BY <2>2 DEF Req
  <2>6. \/ request' = [request EXCEPT ![r] = NoRequest]
        \/ \E S \in SUBSET Session : request' = [request EXCEPT ![r].at = "each", ![r].todo = S]
        \/ \E s \in Session : request' = [request EXCEPT ![r].todo = @ \ {s}]
    BY <2>5 DEF ResetList, ResetPut, ResetStart
  <2>. QED BY <2>1, <2>3, <2>4, <2>6
<1>2. UNCHANGED <<conn, recheck, told>>
  BY DEF ResetList, ResetPut, ResetStart
<1>3. /\ row' \in Rows
      /\ \A s \in Session : row[s] \in {"silent", "revoked"} => row'[s] \in {row[s], "revoked"}
  <2>1. request[r].todo \subseteq Session
    BY DEF Typed, Req
  <2>. QED BY <2>1 DEF ResetList, ResetPut, ResetStart, Typed, Rows
<1>4. Typed' /\ OnlyFresh
  BY <1>1, <1>2, <1>3, RequestOnly, OldAreFresh DEF Typed, OnlyFresh
<1>5. OverStays /\ (Prompt => Prompt')
  BY <1>2, <1>3 DEF OverStays, Prompt, Typed
<1>. QED BY <1>4, <1>5 DEF Kept

\* A step of one connection that leaves the rows: nobody signs in by it.
LEMMA LinkOnly ==
  ASSUME Typed, NEW k \in Conn, NEW l \in Link, Fresh(l.check), conn' = [conn EXCEPT ![k] = l],
         l.open => l.auth \in {NoSession, conn[k].auth} /\ (l.auth # NoSession => conn[k].open),
         SessionsAssumption, UNCHANGED <<row, request, told>>, recheck' \in Rechecks, Fresh(recheck'.check)
  PROVE  Kept
<1>1. conn' \in [Conn -> Link] /\ \A j \in Conn : conn'[j] = IF j = k THEN l ELSE conn[j]
  BY DEF Typed
<1>2. Typed' /\ OverStays
  BY <1>1 DEF Typed, OverStays
<1>3. OnlyFresh
  BY <1>1, OldAreFresh DEF OnlyFresh
<1>4. Prompt => Prompt'
  BY <1>1, SessionsAssumption DEF Prompt, Typed
<1>. QED BY <1>2, <1>3, <1>4 DEF Kept

LEMMA LinkSteps ==
  ASSUME Typed, SessionsAssumption, NEW k \in Conn,
         Accept(k) \/ AuthRead(k) \/ Close(k) \/ \E s \in Session : Auth(k, s)
  PROVE  Kept
<1>1. conn[k] \in Link /\ Fresh(conn[k].check) /\ Closed \in Link /\ Fresh(Closed.check)
  BY NewTyped, OldAreFresh DEF Typed, Closed
<1>2. UNCHANGED <<row, request, told, recheck>> /\ recheck' \in Rechecks /\ Fresh(recheck'.check)
  BY OldAreFresh DEF Accept, AuthRead, Close, Auth, Typed
<1>3. CASE Accept(k)
  <2>1. [Closed EXCEPT !.open = TRUE] \in Link /\ [Closed EXCEPT !.open = TRUE].auth = NoSession
        /\ [Closed EXCEPT !.open = TRUE].check = Closed.check
    BY <1>1 DEF Link, Closed
  <2>. QED BY <1>1, <1>2, <1>3, <2>1, LinkOnly DEF Accept
<1>4. CASE Close(k)
  <2>1. Shut(k) \in Link /\ ~Shut(k).open /\ Fresh(Shut(k).check)
    BY <1>1, ShutTyped, OldAreFresh
  <2>. QED BY <1>2, <1>4, <2>1, LinkOnly DEF Close
<1>5. CASE AuthRead(k)
  <2>. DEFINE c == conn[k].check
              l == [conn[k] EXCEPT !.check = HasRead(c)]
  <2>1. c \in Check /\ c.at = "read"
    BY <1>1, <1>5 DEF Link, AuthRead
  <2>2. l \in Link /\ l.open = conn[k].open /\ l.auth = conn[k].auth /\ l.check = HasRead(c)
    BY <1>1, <2>1, ChecksTyped DEF Link
  <2>3. Closed.open = FALSE
    BY DEF Closed
  <2>4. conn' = [conn EXCEPT ![k] = IF Valid(c.token) THEN l ELSE Closed]
    BY <1>5 DEF AuthRead, Typed
  <2>5. CASE Valid(c.token)
    <3>1. Fresh(l.check)
      BY <2>2, <2>5, ReadIsFresh
    <3>. QED BY <1>2, <2>2, <2>4, <2>5, <3>1, LinkOnly
  <2>6. CASE ~Valid(c.token)
    BY <1>1, <1>2, <2>3, <2>4, <2>6, LinkOnly
  <2>. QED BY <2>5, <2>6
<1>6. ASSUME NEW s \in Session, Auth(k, s) PROVE Kept
  <2>. DEFINE l == [conn[k] EXCEPT !.check = Checking(s)]
  <2>1. l \in Link /\ l.open = conn[k].open /\ l.auth = conn[k].auth /\ l.check = Checking(s)
    BY <1>1, ChecksTyped DEF Link
  <2>2. conn' = [conn EXCEPT ![k] = l] /\ conn[k].open
    BY <1>6 DEF Auth, Typed
  <2>. QED BY <1>2, <2>1, <2>2, OldAreFresh, LinkOnly
<1>. QED BY <1>3, <1>4, <1>5, <1>6

\* The sign-in of a connection, the only step that gives it a session.
LEMMA AuthTouchStep ==
  ASSUME Typed, SessionsAssumption, NEW k \in Conn, AuthTouch(k)
  PROVE  Kept
<1>. DEFINE c == conn[k].check
            l == IF conn[k].open THEN [conn[k] EXCEPT !.check = NoCheck, !.auth = c.token] ELSE Closed
<1>1. c \in Checks /\ c \in Check /\ c.at = "touch" /\ row' = Touched(c) /\ told' = ToldAfter(row')
  BY DEF AuthTouch, Checks, Typed, Link
<1>2. /\ row' \in Rows /\ told' \subseteq Session /\ OverStays
      /\ \A s \in told' : s \in told /\ s # c.token /\ row'[s] = "revoked"
  BY <1>1, TouchKeeps
<1>3. l \in Link /\ l.check = NoCheck /\ (l.open => l.auth = c.token)
  <2>1. conn[k] \in Link /\ c.token \in Session
    BY <1>1 DEF Typed, Check, NoCheck
  <2>2. [conn[k] EXCEPT !.check = NoCheck, !.auth = c.token] \in Link
    BY <2>1, ChecksTyped DEF Link
  <2>3. Closed \in Link /\ Closed.check = NoCheck /\ ~Closed.open
    BY NewTyped DEF Closed
  <2>. QED BY <2>1, <2>2, <2>3 DEF Link
<1>4. UNCHANGED <<request, recheck>> /\ conn' = [conn EXCEPT ![k] = l]
  BY DEF AuthTouch, Typed
<1>5. conn' \in [Conn -> Link] /\ \A j \in Conn : conn'[j] = IF j = k THEN l ELSE conn[j]
  BY <1>3, <1>4 DEF Typed
<1>6. Typed'
  BY <1>2, <1>4, <1>5 DEF Typed
<1>7. OnlyFresh
  BY <1>3, <1>4, <1>5, OldAreFresh DEF OnlyFresh
<1>8. Prompt => Prompt'
  BY <1>2, <1>3, <1>5, ZenonT(60) DEF Prompt
<1>. QED BY <1>2, <1>6, <1>7, <1>8 DEF Kept

LEMMA RecheckSteps ==
  ASSUME Typed, SessionsAssumption, RecheckStarts \/ RecheckStep \/ RecheckFails
  PROVE  Kept
<1>1. recheck \in Rechecks /\ recheck.check \in Check /\ NoRecheck \in Rechecks /\ Fresh(NoRecheck.check)
  BY NewTyped, OldAreFresh DEF Typed, Rechecks, NoRecheck
<1>2. request' = request
  BY DEF RecheckStarts, RecheckStep, RecheckFails, RecheckTouch, RecheckNext, RecheckRead
<1>3. ASSUME recheck' \in Rechecks, Fresh(recheck'.check), UNCHANGED <<row, conn, told>>
      PROVE  Kept
  <2>1. Typed' /\ OverStays /\ (Prompt => Prompt')
    BY <1>2, <1>3 DEF Typed, OverStays, Prompt
  <2>2. OnlyFresh
    BY <1>2, <1>3, OldAreFresh DEF OnlyFresh
  <2>. QED BY <2>1, <2>2 DEF Kept
<1>4. CASE RecheckStarts
  <2>1. [NoRecheck EXCEPT !.todo = {k \in Conn : conn[k].open}] \in Rechecks
        /\ [NoRecheck EXCEPT !.todo = {k \in Conn : conn[k].open}].check = NoRecheck.check
    BY <1>1 DEF Rechecks
  <2>. QED BY <1>1, <1>3, <1>4, <2>1 DEF RecheckStarts
<1>5. CASE RecheckFails
  BY <1>1, <1>3, <1>5 DEF RecheckFails
<1>6. ASSUME NEW k \in Conn, RecheckNext(k) PROVE Kept
  <2>1. /\ [recheck EXCEPT !.todo = @ \ {k}] \in Rechecks
        /\ [recheck EXCEPT !.todo = @ \ {k}].check = recheck.check
    BY <1>1 DEF Rechecks
  <2>2. conn[k].auth # NoSession => conn[k].auth \in Session
    BY DEF Typed, Link
  <2>3. conn[k].auth # NoSession =>
          [todo |-> recheck.todo \ {k}, cur |-> {k}, check |-> Checking(conn[k].auth)] \in Rechecks
    BY <1>1, <2>2, ChecksTyped DEF Rechecks
  <2>4. recheck' \in Rechecks /\ Fresh(recheck'.check)
    BY <1>6, <2>1, <2>2, <2>3, OldAreFresh DEF RecheckNext
  <2>. QED BY <1>3, <1>6, <2>4 DEF RecheckNext
<1>7. ASSUME NEW k \in Conn, RecheckRead(k) PROVE Kept
  <2>1. CASE Valid(recheck.check.token)
    <3>1. [recheck EXCEPT !.check = HasRead(recheck.check)] \in Rechecks
          /\ [recheck EXCEPT !.check = HasRead(recheck.check)].check = HasRead(recheck.check)
      BY <1>1, <1>7, ChecksTyped DEF Rechecks, RecheckRead
    <3>2. recheck' = [recheck EXCEPT !.check = HasRead(recheck.check)] /\ UNCHANGED <<row, conn, told>>
      BY <1>7, <2>1 DEF RecheckRead
    <3>. QED BY <1>3, <2>1, <3>1, <3>2, ReadIsFresh
  <2>2. CASE ~Valid(recheck.check.token)
    <3>1. /\ [recheck EXCEPT !.check = NoCheck, !.cur = {}] \in Rechecks
          /\ [recheck EXCEPT !.check = NoCheck, !.cur = {}].check = NoCheck
      BY <1>1, ChecksTyped DEF Rechecks
    <3>2. /\ recheck' = [recheck EXCEPT !.check = NoCheck, !.cur = {}]
          /\ conn' = [conn EXCEPT ![k].open = FALSE] /\ UNCHANGED <<row, told>>
      BY <1>7, <2>2 DEF RecheckRead, Drop
    <3>3. /\ [conn[k] EXCEPT !.open = FALSE] \in Link /\ ~[conn[k] EXCEPT !.open = FALSE].open
          /\ [conn[k] EXCEPT !.open = FALSE].check = conn[k].check
      BY DEF Typed, Link
    <3>4. conn' = [conn EXCEPT ![k] = [conn[k] EXCEPT !.open = FALSE]]
      BY <3>2 DEF Typed
    <3>. QED BY <1>2, <3>1, <3>2, <3>3, <3>4, OldAreFresh, LinkOnly
  <2>. QED BY <2>1, <2>2
<1>8. CASE RecheckTouch
  <2>1. /\ recheck.check \in Checks /\ recheck.check.at = "touch"
        /\ row' = Touched(recheck.check) /\ told' = ToldAfter(row')
    BY <1>8 DEF RecheckTouch, Checks
  <2>2. /\ row' \in Rows /\ told' \subseteq Session /\ OverStays
        /\ \A s \in told' : s \in told /\ s # recheck.check.token /\ row'[s] = "revoked"
    BY <1>1, <2>1, TouchKeeps
  <2>3. recheck' \in Rechecks /\ recheck'.check = NoCheck /\ UNCHANGED <<request, conn>>
    BY <1>1, <1>8, ChecksTyped DEF RecheckTouch, Rechecks
  <2>4. Typed' /\ OnlyFresh
    BY <2>2, <2>3, OldAreFresh DEF Typed, OnlyFresh
  <2>5. Prompt => Prompt'
    BY <2>2, <2>3 DEF Prompt
  <2>. QED BY <2>2, <2>4, <2>5 DEF Kept
<1>. QED BY <1>4, <1>5, <1>6, <1>7, <1>8 DEF RecheckStep

-----------------------------------------------------------------------------
(* The theorems.                                                           *)

LEMMA Inductive ==
  ASSUME Typed, [Next]_vars
  PROVE  Kept
<1>1. CASE Next
  BY <1>1, SessionsAssumption, SessionSteps, CheckSteps, CheckTouchStep, RevokeSteps, ResetSteps, LinkSteps,
     AuthTouchStep, RecheckSteps DEF Next, RequestStep, HubStep
<1>2. CASE UNCHANGED vars
  <2>1. UNCHANGED <<row, request, conn, recheck, told>>
    BY <1>2 DEF vars
  <2>2. Typed' /\ OverStays /\ (Prompt => Prompt')
    BY <2>1 DEF Typed, OverStays, Prompt
  <2>3. OnlyFresh
    BY <2>1, OldAreFresh DEF OnlyFresh
  <2>. QED BY <2>2, <2>3 DEF Kept
<1>. QED BY <1>1, <1>2

LEMMA InitKept == Init => Typed /\ Prompt
  BY NewTyped DEF Init, Typed, Prompt, Rows

\* Once a device is signed out and the hub was told, no connection has its session (hub.ts:134), unless
\* a check that was under way brings the session back.
THEOREM SignedOutAtOnce == Spec => []SignOutIsPrompt
<1>1. Typed /\ Prompt /\ [Next]_vars => (Typed /\ Prompt)'
  BY Inductive DEF Kept
<1>2. Prompt => SignOutIsPrompt
  BY DEF Prompt, SignOutIsPrompt
<1>. QED BY <1>1, <1>2, InitKept, PTL DEF Spec

\* A session that is over, of which no check is under way, is over for good (accountService.ts:205),
\* however many requests, connections and rounds of the recheck there are.
THEOREM OverForGood == Spec => DeadForGood
<1>1. Typed /\ [Next]_vars => Typed'
  BY Inductive DEF Kept
<1>2. Typed /\ [Next]_vars => [\A s \in Session : Dead(s) => Dead(s)']_vars
  <2>. SUFFICES ASSUME Typed, [Next]_vars, NEW s \in Session, Dead(s) PROVE Dead(s)'
    OBVIOUS
  <2>1. OnlyFresh /\ OverStays
    BY Inductive DEF Kept
  <2>2. row'[s] \in {"silent", "revoked"}
    BY <2>1 DEF OverStays, Dead
  <2>3. ASSUME NEW c \in Checks', c.token = s PROVE c.at # "touch"
    <3>1. Fresh(c)
      BY <2>1 DEF OnlyFresh, Checks
    <3>. QED BY <2>3, <3>1 DEF Fresh, Dead, Valid
  <2>. QED BY <2>2, <2>3 DEF Dead
<1>. QED BY <1>1, <1>2, InitKept, PTL DEF Spec, DeadForGood

=============================================================================
