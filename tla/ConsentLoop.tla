------------------------------ MODULE ConsentLoop ------------------------------
(***************************************************************************)
(* The consent loop from end to end, for one campaign and one player: the  *)
(* recording state and the acknowledgements of the server, what the hub    *)
(* tells the player's app, and the app itself, which plays cues, holds the *)
(* capture gate, acknowledges and shows an indicator (src-tauri shell.rs,  *)
(* recording.rs, session.rs; rust-livekit policy.rs).                      *)
(***************************************************************************)
EXTENDS Integers, Sequences

CONSTANTS
  MaxRecordings,  \* bound: recordings started
  MaxPauses,      \* bound: pauses
  MaxMishaps      \* bound: lost connections, restarts, expiries, failed cues, sign-ins and sign-outs

ASSUME ConsentAssumption ==
  MaxRecordings \in Nat /\ MaxPauses \in Nat /\ MaxMishaps \in Nat

VARIABLES
  rec,        \* RecordingState: the recording that is on, or the last one
  acks,       \* AckStore: the recordings that this player has acknowledged
  conn,       \* the player's connection, as the server sees it
  wire,       \* what the server has sent and the shell has not handled
  sent,       \* acknowledgements on their way
  running,    \* whether a SyncClient connects, again and again
  shell,      \* the Coordinator, and the cue that is playing
  gate,       \* MicGate.gate_held
  indicator,  \* TrayModel.indicator
  pauses, mishaps,
  heard,      \* ghost: start cues that were heard to their end
  excused,    \* ghost: recordings whose cue failed, or whose acknowledgement is gone
  skipped,    \* ghost: recordings that the app was told of while they were paused
  cut         \* ghost: a sign-in cut a start cue short

vars == <<rec, acks, conn, wire, sent, running, shell, gate, indicator, pauses, mishaps,
          heard, excused, skipped, cut>>

server == <<rec, acks, conn, pauses>>
app == <<running, shell, gate, indicator>>
ghosts == <<heard, excused, skipped, cut>>

Recording == 1..MaxRecordings
NotRecording == [id |-> 0, status |-> "off"]
NewShell == [cue |-> "none", pending |-> 0, known |-> FALSE]

Frame ==
  [of : {"status"}, id : Recording, status : {"started", "paused", "resumed", "stopped"}]
    \cup [of : {"state"}, id : {0}, status : {"off"}, acked : {FALSE}]
    \cup [of : {"state"}, id : Recording, status : {"on", "paused"}, acked : BOOLEAN]
    \cup [of : {"revoked"}]

\* What the variables hold, and: what is on has an id, and so has what a start cue is about.
TypeOK ==
  /\ rec \in [id : 0..MaxRecordings, status : {"off", "on", "paused"}]
  /\ rec.status # "off" => rec.id \in Recording
  /\ acks \cup heard \cup excused \cup skipped \subseteq Recording
  /\ conn \in {"down", "signed in", "subscribed", "joined"}
  /\ wire \in Seq(Frame) /\ sent \in Seq(Recording)
  /\ running \in BOOLEAN /\ gate \in BOOLEAN /\ cut \in BOOLEAN
  /\ shell \in [cue : {"none", "start", "other"}, pending : 0..MaxRecordings, known : BOOLEAN]
  /\ indicator \in {"off", "on", "paused"}
  /\ pauses \in 0..MaxPauses /\ mishaps \in 0..MaxMishaps
  /\ shell.cue = "start" => shell.pending \in Recording

Init ==
  /\ rec = NotRecording /\ acks = {} /\ conn = "down" /\ wire = <<>> /\ sent = <<>>
  /\ running = TRUE /\ shell = NewShell /\ gate = FALSE /\ indicator = "off"
  /\ pauses = 0 /\ mishaps = 0
  /\ heard = {} /\ excused = {} /\ skipped = {} /\ cut = FALSE

Mishap == mishaps < MaxMishaps /\ mishaps' = mishaps + 1

-----------------------------------------------------------------------------
(* The DM: a change of the state and its announcement are one step.        *)

Subscribed == conn \in {"subscribed", "joined"}

Changes(status, event) ==
  /\ rec' = [id |-> IF event = "started" THEN rec.id + 1 ELSE rec.id, status |-> status]
  /\ wire' = IF Subscribed THEN Append(wire, [of |-> "status", id |-> rec'.id, status |-> event])
             ELSE wire
  /\ UNCHANGED <<acks, conn, sent, app, mishaps, ghosts>>

Start == rec.status = "off" /\ rec.id < MaxRecordings /\ Changes("on", "started") /\ UNCHANGED pauses
Pause == rec.status = "on" /\ pauses < MaxPauses /\ pauses' = pauses + 1 /\ Changes("paused", "paused")
Resume == rec.status = "paused" /\ Changes("on", "resumed") /\ UNCHANGED pauses
Stop == rec.status # "off" /\ Changes("off", "stopped") /\ UNCHANGED pauses

-----------------------------------------------------------------------------
(* The hub and the connection.                                             *)

\* The client has signed in and asked to resume.
Connect ==
  /\ running /\ conn = "down" /\ conn' = "signed in"
  /\ UNCHANGED <<rec, acks, wire, sent, app, pauses, mishaps, ghosts>>

\* Hub.resume: the connection is subscribed, then what it missed is sent, ...
Subscribe ==
  /\ conn = "signed in" /\ conn' = "subscribed"
  /\ UNCHANGED <<rec, acks, wire, sent, app, pauses, mishaps, ghosts>>

\* ... and at the end recordingSnapshot.
RecordingSnapshot ==
  IF rec.status = "off" THEN [of |-> "state", id |-> 0, status |-> "off", acked |-> FALSE]
  ELSE [of |-> "state", id |-> rec.id, status |-> rec.status, acked |-> rec.id \in acks]

SendState ==
  /\ conn = "subscribed" /\ conn' = "joined"
  /\ wire' = Append(wire, RecordingSnapshot)
  /\ UNCHANGED <<rec, acks, sent, app, pauses, mishaps, ghosts>>

\* Hub.recordingAck: of the recording that is on, or else it is stale.
\* Mutant: it is not compared.
AcknowledgedAny(id) == {rec.id}
Acknowledged(id) == IF id = rec.id THEN {id} ELSE {}
RecordingAck ==
  /\ sent # <<>> /\ conn # "down"
  /\ sent' = Tail(sent)
  /\ acks' = IF Subscribed /\ rec.status # "off" THEN acks \cup Acknowledged(Head(sent)) ELSE acks
  /\ UNCHANGED <<rec, conn, wire, app, pauses, mishaps, ghosts>>

AckExpires(id) ==
  /\ id \in acks /\ Mishap
  /\ acks' = acks \ {id} /\ excused' = excused \cup {id}
  /\ UNCHANGED <<rec, conn, wire, sent, app, pauses, heard, skipped, cut>>

\* The connection breaks: the client handles what had come through.
Breaks ==
  /\ conn' = "down" /\ sent' = <<>>
  /\ \E n \in 0..Len(wire) : wire' = SubSeq(wire, 1, n)

Drop ==
  /\ conn # "down" /\ Mishap /\ Breaks
  /\ UNCHANGED <<rec, acks, app, pauses, ghosts>>

\* The server is started again: the state and the acknowledgements were in memory.
Restart ==
  /\ Mishap /\ Breaks
  /\ rec' = [rec EXCEPT !.status = "off"] /\ acks' = {}
  /\ UNCHANGED <<app, pauses, ghosts>>

\* auth.revoked: the client does not connect again.
Revoke ==
  /\ conn # "down" /\ Mishap
  /\ conn' = "down" /\ sent' = <<>> /\ running' = FALSE
  /\ wire' = Append(wire, [of |-> "revoked"])
  /\ UNCHANGED <<rec, acks, shell, gate, indicator, pauses, ghosts>>

-----------------------------------------------------------------------------
(* The shell handles one event at a time, and waits for its cue.           *)

\* policy.rs decide: what to play, and whether the microphone waits for it.
\* Mutant: only live changes count.
DecideLive(f) ==
  IF f.of = "state" THEN "none" ELSE IF f.status = "started" THEN "start" ELSE "other"
Decide(f) ==
  CASE f.of = "status" -> IF f.status = "started" THEN "start" ELSE "other"
    [] f.of = "state" -> IF f.status = "on" /\ ~f.acked THEN "start" ELSE "none"

\* Mutant: the end of a recording leaves it.
ShownUntilStopped(f) ==
  IF f.status \in {"off", "stopped"} THEN indicator ELSE IF f.status = "paused" THEN "paused" ELSE "on"
Shown(f) ==
  CASE f.status \in {"off", "stopped"} -> "off" [] f.status = "paused" -> "paused" [] OTHER -> "on"

\* on_status, on_state and the first phase of execute.
OnServerEvent(f) ==
  /\ shell' = [cue |-> Decide(f),
               pending |-> IF Decide(f) = "start" THEN f.id ELSE 0,
               known |-> f.status \notin {"off", "stopped"}]
  /\ gate' = IF Decide(f) = "start" THEN TRUE
              ELSE IF shell.pending # 0 /\ ~shell'.known THEN FALSE ELSE gate
  /\ indicator' = Shown(f)
  /\ skipped' = IF f.of = "state" /\ f.status = "paused" /\ ~f.acked THEN skipped \cup {f.id} ELSE skipped
  /\ UNCHANGED running

\* sign_out of the shell: Coordinator.reset.
SignedOut ==
  /\ shell' = NewShell
  /\ gate' = IF shell.pending # 0 THEN FALSE ELSE gate
  /\ indicator' = IF shell.known THEN "off" ELSE indicator
  /\ UNCHANGED <<running, skipped>>

Handle ==
  /\ shell.cue = "none" /\ wire # <<>>
  /\ wire' = Tail(wire)
  /\ IF Head(wire).of = "revoked" THEN SignedOut ELSE OnServerEvent(Head(wire))
  /\ UNCHANGED <<server, sent, mishaps, heard, excused, cut>>

\* cue_finished: the acknowledgement, unless there is no connection, and the gate.
CueFinished ==
  /\ shell.cue # "none"
  /\ shell' = [shell EXCEPT !.cue = "none", !.pending = 0]
  /\ IF shell.pending = 0 THEN UNCHANGED <<gate, sent, heard, excused, skipped>>
     ELSE /\ gate' = FALSE
          /\ sent' = IF conn # "down" THEN Append(sent, shell.pending) ELSE sent
          /\ heard' = heard \cup {shell.pending}
          /\ excused' = excused \ {shell.pending} /\ skipped' = skipped \ {shell.pending}
  /\ UNCHANGED <<server, wire, running, indicator, mishaps, cut>>

\* cue_failed: the gate opens all the same, and nothing is acknowledged.
\* Mutant: it stays closed.
GateStays == gate
GateAfterFailure == IF shell.pending # 0 THEN FALSE ELSE gate
CueFailed ==
  /\ shell.cue # "none" /\ Mishap
  /\ shell' = [shell EXCEPT !.cue = "none", !.pending = 0]
  /\ gate' = GateAfterFailure
  /\ excused' = IF shell.pending # 0 THEN excused \cup {shell.pending} ELSE excused
  /\ UNCHANGED <<server, wire, sent, running, indicator, heard, skipped, cut>>

-----------------------------------------------------------------------------
(* The player.                                                             *)

\* stop_active: the shell is aborted, in the middle of a cue too, and the connection closed.
StopActive ==
  /\ conn' = "down" /\ wire' = <<>> /\ sent' = <<>> /\ shell' = NewShell

\* session_sign_in, which replaces the session there is.
SignIn ==
  /\ Mishap /\ StopActive /\ running' = TRUE
  /\ cut' = (cut \/ shell.cue = "start")
  /\ UNCHANGED <<rec, acks, gate, indicator, pauses, heard, excused, skipped>>

\* session_sign_out
SignOut ==
  /\ Mishap /\ StopActive /\ running' = FALSE
  /\ gate' = FALSE /\ indicator' = "off" /\ cut' = FALSE
  /\ UNCHANGED <<rec, acks, pauses, heard, excused, skipped>>

-----------------------------------------------------------------------------

Next ==
  \/ Start \/ Pause \/ Resume \/ Stop
  \/ Connect \/ Subscribe \/ SendState \/ RecordingAck
  \/ \E id \in Recording : AckExpires(id)
  \/ Drop \/ Restart \/ Revoke
  \/ Handle \/ CueFinished \/ CueFailed
  \/ SignIn \/ SignOut

Spec == Init /\ [][Next]_vars

-----------------------------------------------------------------------------

\* recording.rs:113, hub.ts:359: an acknowledgement in the store is of a recording whose own start
\* cue this player has heard to its end, whatever was stopped, started, lost or replayed since.
AckedIsHeard == acks \subseteq heard

\* The app has caught up with the server, and no cue plays.
Settled == conn = "joined" /\ wire = <<>> /\ sent = <<>> /\ shell.cue = "none"

\* policy.rs:6: while a recording is on, everybody in the campaign has acknowledged it, however often
\* they came and went; except whose cue could not be played, whose acknowledgement expired, and who
\* came while it was paused.
EveryoneIsAsked ==
  Settled /\ rec.status = "on" => rec.id \in acks \cup excused \cup skipped

\* RECORDING-AND-SUMMARIES.md:123: who came during a pause as well (it is not so: see the README).
ResumeReplaysTheCue ==
  Settled /\ rec.status = "on" => rec.id \in acks \cup excused

\* recording.rs:18: once the app has handled what it was told, the indicator is right.
IndicatorIsTrue == conn = "joined" /\ wire = <<>> => indicator = rec.status

\* recording.rs:119: the gate is closed while a start cue plays, and nobody is locked out of voice by
\* one that is over; except by a cue that was cut short by a new sign-in.
GateIsLetGo ==
  /\ shell.cue = "start" => gate
  /\ gate => shell.cue = "start" \/ cut

=============================================================================
