-------------------------- MODULE RecordingCapture --------------------------
(***************************************************************************)
(* The server side of recording one campaign: the recording flag           *)
(* (recordingState.ts), the acknowledgements of the start cue              *)
(* (ackStore.ts, Hub.recordingAck), the capture logic that turns both into *)
(* LiveKit egresses, database rows and one processing job (capture.ts),    *)
(* and the restart that cleans up after a crash.                           *)
(*                                                                         *)
(* Work for a campaign runs strictly in order on its own promise chain, so *)
(* campaigns do not interact here and the module follows one of them.  A   *)
(* task of the chain is interrupted at every await: its local state is     *)
(* `task', one step is the completion of one awaited call plus the code up *)
(* to the next await, and anything else may happen in between: requests of *)
(* the DM, acknowledgements, ticks, microphones coming and going, egresses *)
(* ending, and the death of the process.                                   *)
(***************************************************************************)
EXTENDS Integers, Sequences, FiniteSets

CONSTANTS
  User,           \* the players (LiveKit identities)
  Track,          \* the microphone tracks that are ever published (track sids)
  Speaker,        \* [Track -> User]: who publishes each track
  NoTrack,        \* "no track": a task that is not busy with one
  MaxRecordings,  \* bound: recordings ever started
  MaxEgress,      \* bound: egresses ever started
  MaxChain,       \* bound: work waiting on the campaign's promise chain
  MaxPauses,      \* bound: pauses, over all recordings
  MaxCrashes,     \* bound: deaths of the process
  MaxFaults,      \* bound: kinds of faults that happen
  Faults          \* the <<call, outcome>> pairs that may happen at all

ASSUME CaptureAssumption ==
  /\ Speaker \in [Track -> User]
  /\ NoTrack \notin Track
  /\ {MaxRecordings, MaxEgress, MaxChain, MaxPauses, MaxCrashes, MaxFaults} \subseteq Nat

Recording == 1..MaxRecordings   \* recording ids, in the order they were handed out
Egress    == 1..MaxEgress       \* egress ids, likewise
None      == 0                  \* no recording, no egress

VARIABLES
  flag,        \* RecordingState.active: the current recording, and whether it is paused
  issued,      \* how many recording ids RecordingState has handed out
  acks,        \* MemoryAckStore; an ack that expired or was lost stays known as "gone"
  chain,       \* RecordingCapture.chains: the work still waiting
  task,        \* the work being done, and where it is
  live,        \* RecordingCapture.live, and the object a stopping task still holds
  mic,         \* LiveKit: what each microphone track is doing
  egress,      \* LiveKit Egress: every egress ever started
  recordings,  \* table recordings: the status of each row
  events,      \* table recording_events
  trackRows,   \* table recording_tracks: how many rows point at the file of an egress
  jobs,        \* table jobs: the recordings queued for processing
  faults,      \* the faults that happened so far
  spent        \* how much of MaxPauses and MaxCrashes is used up

server   == <<flag, issued, acks>>
livekit  == <<mic, egress>>
database == <<recordings, events, trackRows, jobs>>
bounds   == <<faults, spent>>
vars == <<server, chain, task, live, livekit, database, bounds>>

NoLive  == [rec |-> None, inMap |-> FALSE, capturing |-> FALSE, segments |-> [t \in Track |-> None]]
NoFlag  == [id |-> None, paused |-> FALSE]
Idle    == [op |-> "idle", pc |-> "-", rec |-> None, todo |-> {}, cur |-> NoTrack,
            file |-> None]
Dead    == [Idle EXCEPT !.op = "dead"]
Serving == task.op \notin {"dead", "recover"}

\* The changes of a recording (RecordingEvent), and what one may find on the chain: only a start
\* brings the id of its recording along.
Change == {"started", "paused", "resumed", "stopped"}
Work   == [op : {"started"}, rec : Recording]
          \cup [op : {"paused", "resumed", "stopped", "reconcile"}, rec : {None}]

\* What the variables of a campaign's capture hold at any await (capture.ts, recordingState.ts).
TypeOK ==
  /\ flag \in [id : Recording \cup {None}, paused : BOOLEAN]
  /\ issued \in 0..MaxRecordings
  /\ acks \in [Recording -> [User -> {"none", "given", "gone"}]]
  /\ chain \in Seq(Work)
  /\ task \in [op : {"idle", "dead", "recover", "started", "paused", "resumed", "stopped", "reconcile"},
               pc : {"-", "row", "event", "finish", "poll", "register", "ack", "start", "list",
                     "job", "scan", "interrupted"},
               rec : Recording \cup {None}, todo : SUBSET Track, cur : Track \cup {NoTrack},
               file : Egress \cup {None}]
  /\ live \in [rec : Recording \cup {None}, inMap : BOOLEAN, capturing : BOOLEAN,
               segments : [Track -> Egress \cup {None}]]
  /\ mic \in [Track -> {"unpublished", "on", "muted", "ended"}]
  /\ egress \in [Egress -> [rec : Recording \cup {None}, track : Track \cup {NoTrack},
                            state : {"none", "active", "ending", "complete", "failed"}]]
  /\ recordings \in [Recording -> {"none", "recording", "stopped", "failed"}]
  /\ events \in [Recording -> Seq(Change \cup {"interrupted"})]
  /\ trackRows \in [Egress -> Nat]
  /\ jobs \in SUBSET Recording
  /\ faults \in SUBSET Faults
  /\ spent \in [pauses : Nat, crashes : Nat]

Init ==
  /\ flag = NoFlag
  /\ issued = 0
  /\ acks = [r \in Recording |-> [u \in User |-> "none"]]
  /\ chain = <<>>
  /\ task = Idle
  /\ live = NoLive
  /\ mic = [t \in Track |-> "unpublished"]
  /\ egress = [e \in Egress |-> [rec |-> None, track |-> NoTrack, state |-> "none"]]
  /\ recordings = [r \in Recording |-> "none"]
  /\ events = [r \in Recording |-> <<>>]
  /\ trackRows = [e \in Egress |-> 0]
  /\ jobs = {}
  /\ faults = {}
  /\ spent = [pauses |-> 0, crashes |-> 0]

-----------------------------------------------------------------------------
(* Awaited calls.  A call is answered, or it is rejected without having   *)
(* had an effect, or it took effect and its answer was lost.              *)

Outcome == {"ok", "rejected", "lost"}
Landed(o) == o # "rejected"

\* Call c ends with outcome o; anything but "ok" is a fault, and happens once at most.
Call(c, o) ==
  \/ o = "ok" /\ UNCHANGED faults
  \/ /\ <<c, o>> \in Faults \ faults
     /\ Cardinality(faults) < MaxFaults
     /\ faults' = faults \cup {<<c, o>>}

\* A task that is over, or has thrown (logged by the chain, nothing is undone), leaves the object of
\* a recording that was taken out of the map unreachable.
Done == task' = Idle /\ live' = IF live.inMap THEN live ELSE NoLive

\* After a call with outcome o the task goes on as k, or is over.
Continue(o, k) == IF o = "ok" THEN task' = k /\ UNCHANGED live ELSE Done

At(op, pc) == task.op = op /\ task.pc = pc

\* The recording the task is about.
Current == IF task.op = "started" THEN task.rec ELSE live.rec

-----------------------------------------------------------------------------
(* RecordingState and the hub: requests of the DM and acknowledgements.   *)

Enqueue(op, r) ==
  /\ Len(chain) < MaxChain
  /\ chain' = Append(chain, [op |-> op, rec |-> r])

Start ==
  /\ Serving /\ flag.id = None /\ issued < MaxRecordings
  /\ issued' = issued + 1
  /\ flag' = [id |-> issued', paused |-> FALSE]
  /\ Enqueue("started", issued')
  /\ UNCHANGED <<acks, task, live, livekit, database, bounds>>

Pause ==
  /\ Serving /\ flag.id # None /\ ~flag.paused
  /\ spent.pauses < MaxPauses
  /\ spent' = [spent EXCEPT !.pauses = @ + 1]
  /\ flag' = [flag EXCEPT !.paused = TRUE]
  /\ Enqueue("paused", None)
  /\ UNCHANGED <<issued, acks, task, live, livekit, database, faults>>

\* Mutant: resuming does not ask whether the recording is paused.
ResumeAnytime == flag.id # None
MayResume == flag.id # None /\ flag.paused

Resume ==
  /\ Serving /\ MayResume
  /\ flag' = [flag EXCEPT !.paused = FALSE]
  /\ Enqueue("resumed", None)
  /\ UNCHANGED <<issued, acks, task, live, livekit, database, bounds>>

Stop ==
  /\ Serving /\ flag.id # None
  /\ flag' = NoFlag
  /\ Enqueue("stopped", None)
  /\ UNCHANGED <<issued, acks, task, live, livekit, database, bounds>>

\* A player reports the start cue heard; a report for any other recording is refused as stale.
RecordingAck(u) ==
  /\ Serving /\ flag.id # None
  /\ acks' = [acks EXCEPT ![flag.id][u] = "given"]
  /\ Enqueue("reconcile", None)
  /\ UNCHANGED <<flag, issued, task, live, livekit, database, bounds>>

\* Mutant: the key of an acknowledgement without its recording.
AckedAnyRecording(r, u) == \E q \in Recording : acks[q][u] = "given"
HasAcked(r, u) == acks[r][u] = "given"

\* The 30 minutes are over.
AckExpires(r, u) ==
  /\ Serving /\ HasAcked(r, u)
  /\ acks' = [acks EXCEPT ![r][u] = "gone"]
  /\ UNCHANGED <<flag, issued, chain, task, live, livekit, database, bounds>>

Tick ==
  /\ Serving /\ live.inMap
  /\ Enqueue("reconcile", None)
  /\ UNCHANGED <<server, task, live, livekit, database, bounds>>

-----------------------------------------------------------------------------
(* RecordingCapture: the tasks of the chain.                              *)

Tracked(l) == {t \in Track : l.segments[t] # None}

\* What task k does after the loop of finishSegments.
\* Mutant: a stop forgets to close the recording.
AfterFilesNoClose(k, l) == IF k.op # "paused" /\ l.capturing THEN [k EXCEPT !.pc = "list"] ELSE Idle
AfterFiles(k, l) ==
  CASE k.op = "stopped"                -> [k EXCEPT !.pc = "event"]
    [] k.op = "paused"                 -> Idle
    [] k.op \notin {"stopped", "paused"} ->
         IF l.capturing THEN [k EXCEPT !.pc = "list"] ELSE Idle

\* Where task k goes while the segments `todo' of that loop are left to do.
Finishing(k, l, todo) ==
  LET go == [k EXCEPT !.todo = todo, !.cur = NoTrack, !.file = None] IN
  IF todo # {} THEN [go EXCEPT !.pc = "finish"] ELSE AfterFiles(go, l)

\* Where it goes once the tracks `todo' of the loop of reconcile are left to do.
Starting(k, todo) ==
  IF todo = {} THEN Idle ELSE [k EXCEPT !.pc = "ack", !.todo = todo, !.cur = NoTrack]

\* What a change does to the live recording before its first await.
\* Mutants: a stop leaves it in the map; a resume does not capture again.
BegunKeepingLive(op) == IF op = "reconcile" THEN live ELSE [live EXCEPT !.capturing = (op = "resumed")]
BegunNoResume(op) ==
  IF op = "reconcile" THEN live ELSE [live EXCEPT !.capturing = FALSE, !.inMap = (op # "stopped")]
Begun(op) ==
  IF op = "reconcile" THEN live
  ELSE [live EXCEPT !.capturing = (op = "resumed"), !.inMap = (op # "stopped")]

\* The chain runs its next task, up to that task's first await.
Begin ==
  /\ task = Idle /\ chain # <<>>
  /\ chain' = Tail(chain)
  /\ LET op == Head(chain).op
         k  == [Idle EXCEPT !.op = op, !.rec = Head(chain).rec]
     IN IF op = "started" THEN task' = [k EXCEPT !.pc = "row"] /\ UNCHANGED live
        ELSE IF ~live.inMap THEN UNCHANGED <<task, live>>
        ELSE /\ live' = Begun(op)
             /\ task' = IF op \in {"paused", "resumed"} THEN [k EXCEPT !.pc = "event"]
                        ELSE Finishing(k, live', Tracked(live))
  /\ UNCHANGED <<server, livekit, database, bounds>>

\* The row of a new recording, or of one that stopped.
PutRecording(o) ==
  /\ task.op \in {"started", "stopped"} /\ task.pc = "row" /\ Call("db", o)
  /\ LET status == IF task.op = "started" THEN "recording" ELSE "stopped" IN
     recordings' = IF Landed(o) THEN [recordings EXCEPT ![Current] = status] ELSE recordings
  /\ Continue(o, [task EXCEPT !.pc = IF task.op = "started" THEN "event" ELSE "job"])
  /\ UNCHANGED <<server, chain, livekit, events, trackRows, jobs, spent>>

\* The bookmark of a change, and what its task does next: a started recording becomes live, a
\* paused one ends its files, a resumed one looks for speakers, a stopped one closes its row.
AddEvent(o) ==
  /\ task.op \in Change /\ task.pc = "event" /\ Call("db", o)
  /\ events' = IF Landed(o) THEN [events EXCEPT ![Current] = Append(@, task.op)] ELSE events
  /\ IF task.op = "started" /\ o = "ok"
     THEN /\ live' = [NoLive EXCEPT !.rec = task.rec, !.inMap = TRUE, !.capturing = TRUE]
          /\ task' = [task EXCEPT !.pc = "list"]
     ELSE Continue(o, IF task.op = "stopped" THEN [task EXCEPT !.pc = "row"]
                      ELSE Finishing(task, live, Tracked(live)))
  /\ UNCHANGED <<server, chain, livekit, recordings, trackRows, jobs, spent>>

\* Mutant: a pause only collects what has ended by itself.
StopAllOnStop == task.op = "stopped"
StopAll == task.op \in {"paused", "stopped"}

\* finishSegments, next segment; with stopAll its egress is asked to stop, and a refusal is ignored.
NextSegment(t, o) ==
  /\ task.pc = "finish" /\ t \in task.todo
  /\ IF StopAll THEN o # "lost" /\ Call("stop", o) ELSE o = "ok" /\ UNCHANGED faults
  /\ LET e == live.segments[t] IN
     egress' = IF StopAll /\ Landed(o) /\ egress[e].state = "active"
               THEN [egress EXCEPT ![e].state = "ending"] ELSE egress
  /\ task' = [task EXCEPT !.pc = "poll", !.cur = t]
  /\ UNCHANGED <<server, chain, live, mic, database, spent>>

Ended(e) == egress[e].state \in {"complete", "failed"}

\* With stopAll a running egress is waited for until finalizeTimeoutMs is over.  One whose stop was
\* refused just records on, so that the wait ends by the clock; that one which was asked to end
\* outlasts the wait is a fault.
\* Mutant: nobody waits.
NoWait == UNCHANGED faults
WaitedEnough ==
  IF StopAll /\ egress[live.segments[task.cur]].state = "ending" THEN Call("result", "slow")
  ELSE UNCHANGED faults

\* The egress of the segment is still running and is left for a later tick: at once by a reconcile,
\* at the end of the wait by a pause or a stop, which goes on with the next segment all the same.
LeaveRunning ==
  /\ task.pc = "poll" /\ ~Ended(live.segments[task.cur])
  /\ WaitedEnough
  /\ task' = Finishing(task, live, task.todo \ {task.cur})
  /\ UNCHANGED <<server, chain, live, livekit, database, spent>>

Forget(t) == [live EXCEPT !.segments[t] = None]

\* It has ended: the segment is forgotten, and its file, if there is one, goes on to be registered.
Collect ==
  /\ task.pc = "poll" /\ Ended(live.segments[task.cur])
  /\ LET e == live.segments[task.cur] IN
     /\ live' = Forget(task.cur)
     /\ task' = IF egress[e].state = "complete" THEN [task EXCEPT !.pc = "register", !.file = e]
                ELSE Finishing(task, live', task.todo \ {task.cur})
  /\ UNCHANGED <<server, chain, livekit, database, bounds>>

ResultRejected ==
  /\ task.pc = "poll" /\ Call("result", "rejected")
  /\ Done
  /\ UNCHANGED <<server, chain, livekit, database, spent>>

\* speakerName and putTrack: one row for the file.
RowsAfter(o) == IF Landed(o) THEN [trackRows EXCEPT ![task.file] = @ + 1] ELSE trackRows

PutTrack(o) ==
  /\ task.pc = "register" /\ Call("db", o)
  /\ trackRows' = RowsAfter(o)
  /\ Continue(o, Finishing(task, live, task.todo \ {task.cur}))
  /\ UNCHANGED <<server, chain, livekit, recordings, events, jobs, spent>>

\* reconcile: the tracks that publish unmuted audio and are not being recorded yet.
\* Mutant: the second half is forgotten.
Audible == {t \in Track : mic[t] = "on"}
Unrecorded == Audible \ Tracked(live)

\* The LiveKit client turns an error into "nobody".
ListAudioTracks(o) ==
  /\ task.pc = "list" /\ o # "lost" /\ Call("list", o)
  /\ task' = Starting(task, IF o = "ok" THEN Unrecorded ELSE {})
  /\ UNCHANGED <<server, chain, live, livekit, database, spent>>

\* The consent rule: a player who has not acknowledged this recording's cue is skipped.
CheckAck(t) ==
  /\ task.pc = "ack" /\ t \in task.todo
  /\ task' = IF HasAcked(live.rec, Speaker[t]) THEN [task EXCEPT !.pc = "start", !.cur = t]
             ELSE Starting(task, task.todo \ {t})
  /\ UNCHANGED <<server, chain, live, livekit, database, bounds>>

StartEgress(e, o) ==
  /\ task.pc = "start" /\ Call("start", o)
  /\ egress[e].state = "none" /\ \A d \in Egress : d < e => egress[d].state # "none"
  /\ egress' = IF Landed(o)
               THEN [egress EXCEPT ![e] = [rec |-> live.rec, track |-> task.cur, state |-> "active"]]
               ELSE egress
  /\ IF o = "ok"
     THEN /\ live' = [live EXCEPT !.segments[task.cur] = e]
          /\ task' = Starting(task, task.todo \ {task.cur})
     ELSE task' = Idle /\ UNCHANGED live
  /\ UNCHANGED <<server, chain, mic, database, spent>>

\* The last step of a stop.
EnqueueJob(o) ==
  /\ At("stopped", "job") /\ Call("db", o)
  /\ jobs' = IF Landed(o) THEN jobs \cup {live.rec} ELSE jobs
  /\ Done
  /\ UNCHANGED <<server, chain, livekit, recordings, events, trackRows, spent>>

-----------------------------------------------------------------------------
(* LiveKit: microphones, and egresses that end.                           *)

MicChanges(t, from, to) ==
  /\ mic[t] = from
  /\ mic' = [mic EXCEPT ![t] = to]
  /\ UNCHANGED <<server, chain, task, live, egress, database, bounds>>

Publish(t)   == MicChanges(t, "unpublished", "on")
Mute(t)      == MicChanges(t, "on", "muted")
Unmute(t)    == MicChanges(t, "muted", "on")
Unpublish(t) == MicChanges(t, "on", "ended") \/ MicChanges(t, "muted", "ended")

\* An egress finishes its file after it was asked to stop, or because its track is gone.
EgressCompletes(e) ==
  /\ \/ egress[e].state = "ending"
     \/ egress[e].state = "active" /\ mic[egress[e].track] = "ended"
  /\ egress' = [egress EXCEPT ![e].state = "complete"]
  /\ UNCHANGED <<server, chain, task, live, mic, database, bounds>>

EgressFails(e) ==
  /\ egress[e].state \in {"active", "ending"}
  /\ Call("egress", "failed")
  /\ egress' = [egress EXCEPT ![e].state = "failed"]
  /\ UNCHANGED <<server, chain, task, live, mic, database, spent>>

-----------------------------------------------------------------------------
(* The process dies and starts again.  LiveKit and the database go on.    *)

\* Everything the process holds in memory is lost.
Dies ==
  /\ task' = Dead /\ chain' = <<>> /\ live' = NoLive
  /\ flag' = NoFlag
  /\ acks' = [r \in Recording |-> [u \in User |-> IF HasAcked(r, u) THEN "gone" ELSE acks[r][u]]]
  /\ UNCHANGED issued

Crash ==
  /\ task.op # "dead" /\ spent.crashes < MaxCrashes
  /\ spent' = [spent EXCEPT !.crashes = @ + 1]
  /\ Dies
  /\ UNCHANGED <<livekit, database, faults>>

Boot ==
  /\ task.op = "dead"
  /\ task' = [Idle EXCEPT !.op = "recover", !.pc = "scan"]
  /\ UNCHANGED <<server, chain, live, livekit, database, bounds>>

\* Mutant: nobody waits for it.
ListenAtOnce == TRUE
CutOff(r) == recordings[r] = "recording"
Recovered == \A r \in Recording : ~CutOff(r)

\* recoverInterrupted, before the server listens: a row that still says "recording" is marked failed
\* and then bookmarked.  An error here ends the process.
MarkInterrupted(r, o) ==
  /\ At("recover", "scan") /\ CutOff(r)
  /\ Call("db", o)
  /\ recordings' = IF Landed(o) THEN [recordings EXCEPT ![r] = "failed"] ELSE recordings
  /\ IF o = "ok"
     THEN task' = [task EXCEPT !.pc = "interrupted", !.rec = r] /\ UNCHANGED <<server, chain, live>>
     ELSE Dies
  /\ UNCHANGED <<livekit, events, trackRows, jobs, spent>>

AddInterrupted(o) ==
  /\ At("recover", "interrupted") /\ Call("db", o)
  /\ events' = IF Landed(o) THEN [events EXCEPT ![task.rec] = Append(@, "interrupted")] ELSE events
  /\ IF o = "ok"
     THEN task' = [task EXCEPT !.pc = "scan", !.rec = None] /\ UNCHANGED <<server, chain, live>>
     ELSE Dies
  /\ UNCHANGED <<livekit, recordings, trackRows, jobs, spent>>

Listen ==
  /\ At("recover", "scan") /\ Recovered
  /\ task' = Idle
  /\ UNCHANGED <<server, chain, live, livekit, database, bounds>>

-----------------------------------------------------------------------------

Request == Start \/ Pause \/ Resume \/ Stop

Acknowledge == \E u \in User : RecordingAck(u) \/ \E r \in Recording : AckExpires(r, u)

\* Everything the chain and the boot sequence do by themselves.
TaskStep ==
  \/ Begin \/ LeaveRunning \/ Collect \/ ResultRejected \/ Boot \/ Listen
  \/ \E t \in Track : CheckAck(t)
  \/ \E o \in Outcome :
       \/ PutRecording(o) \/ AddEvent(o) \/ PutTrack(o) \/ ListAudioTracks(o)
       \/ EnqueueJob(o) \/ AddInterrupted(o)
       \/ \E t \in Track : NextSegment(t, o)
       \/ \E e \in Egress : StartEgress(e, o)
       \/ \E r \in Recording : MarkInterrupted(r, o)

LiveKitStep ==
  \/ \E t \in Track : Publish(t) \/ Mute(t) \/ Unmute(t) \/ Unpublish(t)
  \/ \E e \in Egress : EgressCompletes(e) \/ EgressFails(e)

Next == Request \/ Acknowledge \/ Tick \/ TaskStep \/ LiveKitStep \/ Crash

Spec == Init /\ [][Next]_vars

\* The event loop runs the chain and the timer, and Egress finishes what it was told to finish.
Fairness ==
  /\ WF_vars(TaskStep)
  /\ WF_vars(Tick)
  /\ \A e \in Egress : WF_vars(EgressCompletes(e))

FairSpec == Spec /\ Fairness

-----------------------------------------------------------------------------
(* What the capture owes its users.                                       *)

Capturing(e) == egress[e].state \in {"active", "ending"}

DbFaults  == {<<"db", "rejected">>, <<"db", "lost">>}
Without(F) == faults \cap F = {}

\* Nothing is running or waiting on the campaign's chain.
Quiet == task = Idle /\ chain = <<>>

\* capture.ts:65-67: a track is recorded only after its player acknowledged the start cue of this
\* very recording, whatever restarts, late acknowledgements of older recordings and outages do.
Consent ==
  \A e \in Egress : egress[e].state # "none" =>
    acks[egress[e].rec][Speaker[egress[e].track]] # "none"

\* capture.ts:229: a speaker who is already being recorded does not get a second file in parallel,
\* unless the answer to a start got lost.
OneFileAtATime ==
  Without({<<"start", "lost">>}) => \A d, e \in Egress :
    /\ Capturing(d) /\ Capturing(e)
    /\ egress[d].rec = egress[e].rec /\ egress[d].track = egress[e].track
    => d = e

\* What leaves an egress running although a pause or a stop was at it: the refusal of its stop, a
\* failing status query (the loop over the segments ends there), a file that outlasts the wait.
Outage == {<<"stop", "rejected">>, <<"result", "rejected">>, <<"result", "slow">>}

\* Such an egress; as long as its recording is the current one, memory still has its segment.
LeftRunning(e) ==
  /\ ~Without(Outage)
  /\ egress[e].rec = flag.id => live.inMap /\ live.segments[egress[e].track] = e

\* capture.ts:69-71: once the chain has caught up, audio is being written only for the recording
\* that is on and not paused, or for one that a restart already gave up, or by an egress that an
\* outage left running.  The code does leave it running, through the pause (lines 257-264 swallow
\* the refusal and end the wait) and after a stop; of a recording that is only paused it is never
\* lost sight of, so that the next pause or stop asks it again.  A failing database and a start
\* whose answer is lost are excepted.
SilentUnlessRecording ==
  Quiet /\ Without(DbFaults \cup {<<"start", "lost">>}) => \A e \in Egress : Capturing(e) =>
    \/ egress[e].rec = flag.id /\ ~flag.paused
    \/ recordings[egress[e].rec] = "failed"
    \/ LeftRunning(e)

\* Once the chain has caught up, the row that says "recording" is the recording that is on; in
\* particular a restart leaves no such row behind (capture.ts:134-138).
RowMatchesFlag ==
  Quiet /\ Without(DbFaults \cup {<<"result", "rejected">>}) =>
    \A r \in Recording : recordings[r] = "recording" <=> r = flag.id

\* The bookmarks of a recording tell a possible story: it starts once, pauses and resumes alternate,
\* and nothing but an interruption follows a stop (recording_events; they place the pauses on the
\* timeline of the transcript).
MayFollow ==
  ({"started", "resumed"} \X {"paused", "stopped"}) \cup ({"paused"} \X {"resumed", "stopped"})
    \cup (Change \X {"interrupted"})

BookmarksAlternate ==
  Without({<<"db", "rejected">>}) => \A r \in Recording :
    /\ events[r] # <<>> => events[r][1] \in {"started", "interrupted"}
    /\ \A i \in 1..Len(events[r]) - 1 : <<events[r][i], events[r][i + 1]>> \in MayFollow

\* What the database says of the recordings, in rows and in bookmarks, is what happened.
RowsAreTrue == RowMatchesFlag /\ BookmarksAlternate

\* capture.ts:71: when the processing job is queued, every file of the recording is finished and
\* registered (or its egress failed): the worker will not miss one.  Four kinds of faults break this:
\* a failing database, a start whose answer is lost, an egress that outlasts the wait, and one that
\* refuses to stop (the job is queued while it records on).
JobCoversFiles ==
  Without(DbFaults \cup {<<"start", "lost">>, <<"result", "slow">>, <<"stop", "rejected">>}) =>
    \A r \in jobs, e \in Egress : egress[e].rec = r =>
    \/ egress[e].state = "complete" /\ trackRows[e] = 1
    \/ egress[e].state = "failed"

\* No file is added to a recording that is already queued: the worker reads the rows once.
NoFileAfterJob ==
  [][\A e \in Egress : trackRows'[e] # trackRows[e] => egress[e].rec \notin jobs]_vars

\* capture.ts:71 and 73-74: a recording that was stopped is eventually queued for processing, also
\* when LiveKit refuses the stop, a start or a list, loses an answer, is slow or breaks an egress.
\* What keeps it from the queue is the death of the process, or a failing database or status query:
\* those end the task for good.
StopIsProcessed ==
  \A r \in Recording : (issued >= r /\ flag.id # r) ~>
    \/ r \in jobs \/ spent.crashes > 0
    \/ ~Without(DbFaults \cup {<<"result", "rejected">>})

\* capture.ts:66-68 and 73-74: a player who has acknowledged and is publishing unmuted audio is
\* captured, unless the recording, the microphone or the acknowledgement ends first; a call that
\* LiveKit refuses, or an egress that breaks, is made good by a later tick.
SpeakerIsCaptured ==
  \A r \in Recording, t \in Track :
    LET due == flag = [id |-> r, paused |-> FALSE] /\ mic[t] = "on" /\ HasAcked(r, Speaker[t]) IN
    due ~> (~due \/ \E e \in Egress : egress[e].rec = r /\ egress[e].track = t /\ Capturing(e))

\* capture.ts:69: a pause ends every file of the recording, one that outlasts the wait included.
\* Not so after a refused stop, a failing status query or a start whose answer is lost: lines 73-74
\* promise that the next tick retries, but no tick asks anything to stop, and the file goes on
\* through the pause.
PauseSilences ==
  \A r \in Recording :
    LET paused == flag = [id |-> r, paused |-> TRUE] IN
    paused ~>
      \/ ~paused \/ \A e \in Egress : egress[e].rec = r => ~Capturing(e)
      \/ ~Without({<<"stop", "rejected">>, <<"result", "rejected">>, <<"start", "lost">>})

=============================================================================
