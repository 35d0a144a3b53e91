----------------------- MODULE RecordingCaptureProofs -----------------------
(* Proofs about RecordingCapture, for any number of players, tracks, recordings, egresses, faults  *)
(* and crashes: types and consent, what each step does to the fields it touches, where a task may   *)
(* be, in which order recordings come, the files of a recording and when they are finished, the     *)
(* flag and the chain that runs after it, the row, the bookmarks, and silence.                      *)
EXTENDS RecordingCapture, TLAPS

Ops  == {"idle", "dead", "recover", "started", "paused", "resumed", "stopped", "reconcile"}
Pcs  == {"-", "row", "event", "finish", "poll", "register", "ack", "start", "list", "job", "scan",
         "interrupted"}
Tasks == [op : Ops, pc : Pcs, rec : Recording \cup {None}, todo : SUBSET Track,
          cur : Track \cup {NoTrack}, file : Egress \cup {None}]
Lives == [rec : Recording \cup {None}, inMap : BOOLEAN, capturing : BOOLEAN,
          segments : [Track -> Egress \cup {None}]]

Egresses == [Egress -> [rec : Recording \cup {None}, track : Track \cup {NoTrack},
                        state : {"none", "active", "ending", "complete", "failed"}]]

\* Where the loops of finishSegments and reconcile lead is again a task.
LEMMA LoopsAreTasks ==
  ASSUME NEW k \in Tasks, NEW l \in Lives, NEW todo \in SUBSET Track
  PROVE  Finishing(k, l, todo) \in Tasks /\ Starting(k, todo) \in Tasks
<1>1. Idle \in Tasks
  BY DEF Idle, Tasks, Ops, Pcs, None
<1>2. [k EXCEPT !.todo = todo, !.cur = NoTrack, !.file = None] \in Tasks
  BY DEF Tasks, None
<1>3. ASSUME NEW g \in Tasks PROVE AfterFiles(g, l) \in Tasks
  BY <1>1, <1>3 DEF AfterFiles, Tasks, Pcs, Ops
<1>4. Finishing(k, l, todo) \in Tasks
  BY <1>2, <1>3 DEF Finishing, Tasks, Pcs
<1>5. Starting(k, todo) \in Tasks
  BY <1>1 DEF Starting, Tasks, Pcs
<1>. QED BY <1>4, <1>5

\* A campaign starts well typed: nobody records, nothing is waiting.
LEMMA InitTyped == Init => TypeOK
  BY CaptureAssumption DEF Init, TypeOK, NoFlag, Idle, NoLive, None, Recording, Egress, Work

\* The parts of a step that several actions share.
LEMMA CallTyped ==
  ASSUME TypeOK, NEW c, NEW o, Call(c, o)
  PROVE  faults' \in SUBSET Faults
<1>1. faults \in SUBSET Faults
  BY DEF TypeOK
<1>2. faults' = faults \/ \E f \in Faults : faults' = faults \cup {f}
  BY DEF Call
<1>. QED BY <1>1, <1>2

\* What recordingState and the hub put on the chain is work.
LEMMA EnqueueTyped ==
  ASSUME TypeOK, NEW op, NEW r, Enqueue(op, r), [op |-> op, rec |-> r] \in Work
  PROVE  chain' \in Seq(Work)
  BY DEF Enqueue, TypeOK

\* A task that is over, or has thrown, leaves a task and a live recording of the right type.
LEMMA DoneTyped ==
  ASSUME TypeOK, Done
  PROVE  task' \in Tasks /\ live' \in Lives
  BY DEF Done, TypeOK, Tasks, Lives, Ops, Pcs, Idle, NoLive, None

\* So does an awaited call, whether its task goes on or throws.
LEMMA ContinueTyped ==
  ASSUME TypeOK, NEW o, NEW k \in Tasks, Continue(o, k)
  PROVE  task' \in Tasks /\ live' \in Lives
<1>1. live \in Lives
  BY DEF TypeOK, Lives
<1>. QED BY <1>1, DoneTyped DEF Continue

\* The death of the process leaves memory empty, and well typed.
LEMMA DiesTyped ==
  ASSUME TypeOK, Dies
  PROVE  /\ task' \in Tasks /\ live' \in Lives /\ chain' \in Seq(Work)
         /\ flag' \in [id : Recording \cup {None}, paused : BOOLEAN]
         /\ acks' \in [Recording -> [User -> {"none", "given", "gone"}]]
         /\ issued' \in 0..MaxRecordings
<1>1. task' \in Tasks /\ live' \in Lives /\ chain' \in Seq(Work)
  BY DEF Dies, Tasks, Lives, Ops, Pcs, Dead, Idle, NoLive, None
<1>2. flag' \in [id : Recording \cup {None}, paused : BOOLEAN] /\ issued' \in 0..MaxRecordings
  BY DEF Dies, TypeOK, NoFlag, None
<1>3. acks' \in [Recording -> [User -> {"none", "given", "gone"}]]
  BY DEF Dies, TypeOK
<1>. QED BY <1>1, <1>2, <1>3

\* A request changes the flag, the chain and the count of pauses: their types are enough.
LEMMA RequestStepTyped ==
  ASSUME TypeOK, flag' \in [id : Recording \cup {None}, paused : BOOLEAN], chain' \in Seq(Work),
         spent' \in [pauses : Nat, crashes : Nat],
         UNCHANGED <<issued, acks, task, live, livekit, database, faults>>
  PROVE  TypeOK'
<1>1. UNCHANGED <<issued, acks, task, live, mic, egress, recordings, events, trackRows, jobs, faults>>
  BY DEF livekit, database
<1>. QED BY <1>1 DEF TypeOK

\* start, pause, resume and stop (recordingState.ts) keep the types.
LEMMA RequestTyped == TypeOK /\ Request => TypeOK'
<1>. SUFFICES ASSUME TypeOK, Request PROVE TypeOK'
  OBVIOUS
<1>1. CASE Start
  <2>1. issued' \in Recording
    BY <1>1, CaptureAssumption DEF Start, TypeOK, Recording
  <2>2. [op |-> "started", rec |-> issued'] \in Work
    BY <2>1 DEF Work, Change
  <2>3. chain' \in Seq(Work)
    BY <1>1, <2>2 DEF Start, TypeOK, Enqueue
  <2>. QED
    BY <1>1, <2>1, <2>3 DEF Start, TypeOK, database, livekit, bounds, Recording
<1>2. CASE Pause
  <2>1. chain' \in Seq(Work)
    BY <1>2, EnqueueTyped DEF Pause, Work, Change
  <2>2. flag' \in [id : Recording \cup {None}, paused : BOOLEAN]
    BY <1>2 DEF Pause, TypeOK
  <2>3. spent' \in [pauses : Nat, crashes : Nat]
    <3>1. spent' = [spent EXCEPT !.pauses = @ + 1] /\ spent \in [pauses : Nat, crashes : Nat]
      BY <1>2 DEF Pause, TypeOK
    <3>. QED BY <3>1
  <2>. QED BY <1>2, <2>1, <2>2, <2>3, RequestStepTyped DEF Pause
<1>3. CASE Resume
  <2>1. chain' \in Seq(Work)
    BY <1>3, EnqueueTyped DEF Resume, Work, Change
  <2>2. flag' \in [id : Recording \cup {None}, paused : BOOLEAN]
    <3>1. flag' = [flag EXCEPT !.paused = FALSE]
      BY <1>3 DEF Resume
    <3>. QED BY <3>1 DEF TypeOK
  <2>. QED BY <1>3, <2>1, <2>2 DEF Resume, TypeOK, database, livekit, bounds
<1>4. CASE Stop
  <2>1. chain' \in Seq(Work)
    BY <1>4, EnqueueTyped DEF Stop, Work, Change
  <2>. QED BY <1>4, <2>1, SMTT(30) DEF Stop, TypeOK, database, livekit, bounds, NoFlag
<1>. QED BY <1>1, <1>2, <1>3, <1>4 DEF Request

\* So do an acknowledgement, its expiry and a tick.
LEMMA AcknowledgeTyped == TypeOK /\ (Acknowledge \/ Tick) => TypeOK'
<1>. SUFFICES ASSUME TypeOK, Acknowledge \/ Tick PROVE TypeOK'
  OBVIOUS
<1>1. ASSUME NEW u \in User, RecordingAck(u) PROVE TypeOK'
  <2>1. chain' \in Seq(Work)
    BY <1>1, EnqueueTyped DEF RecordingAck, Work, Change
  <2>. QED BY <1>1, <2>1, SMTT(30) DEF RecordingAck, TypeOK, database, livekit, bounds, None
<1>2. ASSUME NEW u \in User, NEW r \in Recording, AckExpires(r, u) PROVE TypeOK'
  BY <1>2, SMTT(30) DEF AckExpires, TypeOK, database, livekit, bounds
<1>3. CASE Tick
  <2>1. chain' \in Seq(Work)
    BY <1>3, EnqueueTyped DEF Tick, Work, Change
  <2>. QED BY <1>3, <2>1, SMTT(30) DEF Tick, TypeOK, server, database, livekit, bounds
<1>. QED BY <1>1, <1>2, <1>3 DEF Acknowledge

\* An egress that changes its state alone is still one.
LEMMA StateChangeTyped ==
  ASSUME TypeOK, NEW e \in Egress, NEW s \in {"ending", "complete", "failed"}
  PROVE  [egress EXCEPT ![e].state = s] \in Egresses
<1>. DEFINE E == [rec : Recording \cup {None}, track : Track \cup {NoTrack},
                  state : {"none", "active", "ending", "complete", "failed"}]
<1>1. egress \in [Egress -> E]
  BY DEF TypeOK
<1>2. [egress[e] EXCEPT !.state = s] \in E
  BY <1>1
<1>. HIDE DEF E
<1>3. [egress EXCEPT ![e] = [egress[e] EXCEPT !.state = s]] \in [Egress -> E]
  BY <1>1, <1>2
<1>. QED BY <1>3 DEF E, Egresses

\* Microphones that change and egresses that end keep the types.
LEMMA LiveKitTyped == TypeOK /\ LiveKitStep => TypeOK'
<1>. SUFFICES ASSUME TypeOK, LiveKitStep PROVE TypeOK'
  OBVIOUS
<1>1. ASSUME NEW t \in Track, Publish(t) \/ Mute(t) \/ Unmute(t) \/ Unpublish(t) PROVE TypeOK'
  <2>1. PICK s \in {"on", "muted", "ended"} : mic' = [mic EXCEPT ![t] = s]
    BY <1>1 DEF Publish, Mute, Unmute, Unpublish, MicChanges
  <2>2. mic \in [Track -> {"unpublished", "on", "muted", "ended"}]
    BY DEF TypeOK
  <2>3. mic' \in [Track -> {"unpublished", "on", "muted", "ended"}]
    BY <2>1, <2>2
  <2>4. UNCHANGED <<server, chain, task, live, egress, database, bounds>>
    BY <1>1 DEF Publish, Mute, Unmute, Unpublish, MicChanges
  <2>. QED BY <2>3, <2>4, SMTT(30) DEF TypeOK, server, database, bounds
<1>2. ASSUME NEW e \in Egress, EgressCompletes(e) PROVE TypeOK'
  <2>1. egress' \in Egresses
    BY <1>2, StateChangeTyped DEF EgressCompletes
  <2>. QED BY <1>2, <2>1, SMTT(30) DEF EgressCompletes, TypeOK, Egresses, server, database, bounds
<1>3. ASSUME NEW e \in Egress, EgressFails(e) PROVE TypeOK'
  <2>1. faults' \in SUBSET Faults
    BY <1>3, CallTyped DEF EgressFails
  <2>2. egress' \in Egresses
    BY <1>3, StateChangeTyped DEF EgressFails
  <2>. QED BY <1>3, <2>1, <2>2, SMTT(30) DEF EgressFails, TypeOK, Egresses, server, database
<1>. QED BY <1>1, <1>2, <1>3 DEF LiveKitStep
\* The parts of a step of the chain: everything else stays as it is.
LEMMA TaskStepTyped ==
  ASSUME TypeOK, task' \in Tasks, live' \in Lives, chain' \in Seq(Work), egress' \in Egresses,
         recordings' \in [Recording -> {"none", "recording", "stopped", "failed"}],
         events' \in [Recording -> Seq(Change \cup {"interrupted"})],
         trackRows' \in [Egress -> Nat], jobs' \in SUBSET Recording, faults' \in SUBSET Faults,
         UNCHANGED <<server, mic, spent>>
  PROVE  TypeOK'
  BY DEF TypeOK, Tasks, Ops, Pcs, Lives, Egresses, server

\* What TypeOK says, with the sets named as above.
LEMMA Named ==
  ASSUME TypeOK
  PROVE  /\ task \in Tasks /\ live \in Lives /\ chain \in Seq(Work) /\ egress \in Egresses
         /\ recordings \in [Recording -> {"none", "recording", "stopped", "failed"}]
         /\ events \in [Recording -> Seq(Change \cup {"interrupted"})]
         /\ trackRows \in [Egress -> Nat] /\ jobs \in SUBSET Recording /\ faults \in SUBSET Faults
         /\ Tracked(live) \subseteq Track /\ task.todo \subseteq Track
  BY DEF TypeOK, Tasks, Ops, Pcs, Lives, Egresses, Tracked

\* The chain takes its first piece of work, whose recording becomes the recording of the task.
LEMMA BeginTyped == TypeOK /\ Begin => TypeOK'
<1>. SUFFICES ASSUME TypeOK, Begin PROVE TypeOK'
  OBVIOUS
<1>. DEFINE op == Head(chain).op
            k  == [Idle EXCEPT !.op = op, !.rec = Head(chain).rec]
<1>1. Head(chain) \in Work /\ chain' \in Seq(Work)
  BY DEF Begin, TypeOK
<1>2. k \in Tasks /\ op \in Ops
  BY <1>1 DEF Work, Change, Tasks, Ops, Pcs, Idle, None
<1>3. CASE op = "started"
  <2>1. task' = [k EXCEPT !.pc = "row"] /\ UNCHANGED live
    BY <1>3 DEF Begin
  <2>2. task' \in Tasks
    BY <1>2, <2>1 DEF Tasks, Pcs
  <2>. QED BY <1>1, <2>1, <2>2, Named, TaskStepTyped DEF Begin, livekit, database, bounds
<1>4. CASE op # "started" /\ ~live.inMap
  <2>1. UNCHANGED <<task, live>>
    BY <1>4 DEF Begin
  <2>. QED BY <1>1, <2>1, Named, TaskStepTyped DEF Begin, livekit, database, bounds
<1>5. CASE op # "started" /\ live.inMap
  <2>1. /\ live' = Begun(op)
        /\ task' = IF op \in {"paused", "resumed"} THEN [k EXCEPT !.pc = "event"]
                   ELSE Finishing(k, live', Tracked(live))
    BY <1>5 DEF Begin
  <2>2. live' \in Lives
    BY <2>1, Named DEF Begun, Lives
  <2>3. task' \in Tasks
    <3>1. [k EXCEPT !.pc = "event"] \in Tasks
      BY <1>2 DEF Tasks, Pcs
    <3>2. Finishing(k, live', Tracked(live)) \in Tasks
      BY <1>2, <2>2, Named, LoopsAreTasks
    <3>. QED BY <2>1, <3>1, <3>2
  <2>. QED BY <1>1, <2>2, <2>3, Named, TaskStepTyped DEF Begin, livekit, database, bounds
<1>. QED BY <1>3, <1>4, <1>5
\* A task that moves on within a loop, or to another place of its code, is still a task.
LEMMA TaskMoves ==
  ASSUME TypeOK, NEW pc \in Pcs, NEW cur \in Track \cup {NoTrack}, NEW file \in Egress \cup {None},
         NEW todo \in SUBSET Track
  PROVE  /\ [task EXCEPT !.pc = pc] \in Tasks
         /\ [task EXCEPT !.pc = pc, !.cur = cur] \in Tasks
         /\ [task EXCEPT !.pc = pc, !.file = file] \in Tasks
         /\ Finishing(task, live, todo) \in Tasks
         /\ Starting(task, todo) \in Tasks
<1>1. task \in Tasks /\ live \in Lives
  BY Named
<1>. QED BY <1>1, LoopsAreTasks DEF Tasks

\* Writing the row of a recording keeps the types.
LEMMA PutRecordingTyped == ASSUME TypeOK, NEW o, PutRecording(o) PROVE TypeOK'
<1>1. [task EXCEPT !.pc = IF task.op = "started" THEN "event" ELSE "job"] \in Tasks
  BY TaskMoves DEF Pcs, None
<1>2. task' \in Tasks /\ live' \in Lives
  BY <1>1, ContinueTyped DEF PutRecording
<1>3. recordings' \in [Recording -> {"none", "recording", "stopped", "failed"}]
  BY Named DEF PutRecording
<1>4. faults' \in SUBSET Faults
  BY CallTyped DEF PutRecording
<1>. QED BY <1>2, <1>3, <1>4, Named, TaskStepTyped DEF PutRecording, livekit

\* Writing a bookmark does: a task at this point has a change for its operation.
LEMMA AddEventTyped == ASSUME TypeOK, NEW o, AddEvent(o) PROVE TypeOK'
<1>1. task' \in Tasks /\ live' \in Lives
  <2>1. CASE task.op = "started" /\ o = "ok"
    <3>1. task' = [task EXCEPT !.pc = "list"]
      BY <2>1 DEF AddEvent
    <3>2. live' \in Lives
      <4>1. task.rec \in Recording \cup {None}
        BY DEF TypeOK
      <4>2. NoLive \in Lives
        BY DEF NoLive, Lives, None
      <4>3. live' = [NoLive EXCEPT !.rec = task.rec, !.inMap = TRUE, !.capturing = TRUE]
        BY <2>1 DEF AddEvent
      <4>. QED BY <4>1, <4>2, <4>3 DEF Lives
    <3>. QED BY <3>1, <3>2, TaskMoves DEF Pcs, None
  <2>2. CASE ~(task.op = "started" /\ o = "ok")
    <3>. DEFINE k == IF task.op = "stopped" THEN [task EXCEPT !.pc = "row"]
                     ELSE Finishing(task, live, Tracked(live))
    <3>1. Continue(o, k)
      BY <2>2 DEF AddEvent
    <3>2. k \in Tasks
      BY Named, TaskMoves DEF Pcs, None
    <3>. QED BY <3>1, <3>2, ContinueTyped
  <2>. QED BY <2>1, <2>2
<1>2. events' \in [Recording -> Seq(Change \cup {"interrupted"})]
  <2>1. task.pc = "event" /\ events' = IF Landed(o) THEN [events EXCEPT ![Current] = Append(@, task.op)]
                                       ELSE events
    BY DEF AddEvent
  <2>2. task.op \in Change \cup {"interrupted"}
    BY DEF AddEvent
  <2>3. CASE Current \in Recording
    <3>1. Append(events[Current], task.op) \in Seq(Change \cup {"interrupted"})
      BY <2>2, <2>3, Named
    <3>. QED BY <2>1, <3>1, Named
  <2>4. CASE Current \notin Recording
    BY <2>1, <2>4, Named
  <2>. QED BY <2>3, <2>4
<1>3. faults' \in SUBSET Faults
  BY CallTyped DEF AddEvent
<1>. QED BY <1>1, <1>2, <1>3, Named, TaskStepTyped DEF AddEvent, livekit

\* A segment that exists is an egress.
LEMMA SegmentTyped ==
  ASSUME TypeOK, NEW t \in Track, live.segments[t] # None
  PROVE  live.segments[t] \in Egress
  BY DEF TypeOK, Lives

\* finishSegments asking the next egress to stop keeps the types.
LEMMA NextSegmentTyped == ASSUME TypeOK, NEW t \in Track, NEW o, NextSegment(t, o) PROVE TypeOK'
<1>. DEFINE e == live.segments[t]
<1>1. task' \in Tasks
  BY TaskMoves DEF NextSegment, Pcs, None
<1>2. faults' \in SUBSET Faults
  BY Named, CallTyped DEF NextSegment
<1>3. egress' \in Egresses
  <2>1. egress' = egress \/ egress' = [egress EXCEPT ![e].state = "ending"]
    BY DEF NextSegment
  <2>2. CASE e \in Egress
    BY <2>1, <2>2, Named, StateChangeTyped
  <2>3. CASE e \notin Egress
    BY <2>1, <2>3, Named DEF Egresses
  <2>. QED BY <2>2, <2>3
<1>. QED BY <1>1, <1>2, <1>3, Named, TaskStepTyped DEF NextSegment, database

\* So does leaving an egress that is still running.
LEMMA LeaveRunningTyped == TypeOK /\ LeaveRunning => TypeOK'
<1>. SUFFICES ASSUME TypeOK, LeaveRunning PROVE TypeOK'
  OBVIOUS
<1>1. task' \in Tasks
  <2>1. task.todo \ {task.cur} \subseteq Track
    BY Named
  <2>. QED BY <2>1, TaskMoves DEF LeaveRunning, Pcs, None
<1>2. faults' \in SUBSET Faults
  BY Named, CallTyped DEF LeaveRunning, WaitedEnough
<1>. QED BY <1>1, <1>2, Named, TaskStepTyped DEF LeaveRunning, livekit, database

\* So does a status query that is rejected.
LEMMA ResultRejectedTyped == TypeOK /\ ResultRejected => TypeOK'
<1>. SUFFICES ASSUME TypeOK, ResultRejected PROVE TypeOK'
  OBVIOUS
<1>1. task' \in Tasks /\ live' \in Lives /\ faults' \in SUBSET Faults
  BY DoneTyped, CallTyped DEF ResultRejected
<1>. QED BY <1>1, Named, TaskStepTyped DEF ResultRejected, livekit, database

\* So does registering a file.
LEMMA PutTrackTyped == ASSUME TypeOK, NEW o, PutTrack(o) PROVE TypeOK'
<1>1. task' \in Tasks /\ live' \in Lives
  <2>1. task.todo \ {task.cur} \subseteq Track
    BY Named
  <2>2. Finishing(task, live, task.todo \ {task.cur}) \in Tasks
    BY <2>1, TaskMoves DEF Pcs, None
  <2>. QED BY <2>2, ContinueTyped DEF PutTrack
<1>2. trackRows' \in [Egress -> Nat]
  <2>1. trackRows' = trackRows \/ trackRows' = [trackRows EXCEPT ![task.file] = @ + 1]
    BY DEF PutTrack, RowsAfter
  <2>2. CASE task.file \in Egress
    BY <2>1, <2>2, Named
  <2>3. CASE task.file \notin Egress
    BY <2>1, <2>3, Named
  <2>. QED BY <2>2, <2>3
<1>3. faults' \in SUBSET Faults
  BY CallTyped DEF PutTrack
<1>. QED BY <1>1, <1>2, <1>3, Named, TaskStepTyped DEF PutTrack, livekit

\* reconcile listing the tracks keeps the types: what it has left to do are tracks.
LEMMA ListTyped == ASSUME TypeOK, NEW o, ListAudioTracks(o) PROVE TypeOK'
<1>1. (IF o = "ok" THEN Unrecorded ELSE {}) \subseteq Track
  BY DEF Unrecorded, Audible
<1>2. task' \in Tasks
  BY <1>1, TaskMoves DEF ListAudioTracks, Pcs, None
<1>3. faults' \in SUBSET Faults
  BY CallTyped DEF ListAudioTracks
<1>. QED BY <1>2, <1>3, Named, TaskStepTyped DEF ListAudioTracks, livekit, database

\* So does the question whether a player has acknowledged.
LEMMA CheckAckTyped == ASSUME TypeOK, NEW t \in Track, CheckAck(t) PROVE TypeOK'
<1>1. task.todo \ {t} \subseteq Track
  BY Named
<1>2. task' \in Tasks
  BY <1>1, TaskMoves DEF CheckAck, Pcs, None
<1>. QED BY <1>2, Named, TaskStepTyped DEF CheckAck, livekit, database, bounds

-----------------------------------------------------------------------------
(* A task in the middle of its code knows the recording and the track it is about.  TypeOK is not *)
(* inductive without this.                                                                        *)

LocatedTask(k, l) ==
  /\ k.op = "started" => k.rec \in Recording
  /\ k.op \in {"paused", "resumed", "stopped", "reconcile"} => l.rec \in Recording
  /\ k.pc \in {"finish", "poll", "register", "list", "ack", "start"} => l.rec \in Recording
  /\ k.pc \in {"poll", "register", "start"} => k.cur \in Track

Located == LocatedTask(task, live) /\ (live.inMap => live.rec \in Recording)

\* The job of a stop is for a recording, because its task knows which (Located).
LEMMA EnqueueJobTyped == ASSUME TypeOK, Located, NEW o, EnqueueJob(o) PROVE TypeOK'
<1>1. task' \in Tasks /\ live' \in Lives /\ faults' \in SUBSET Faults
  BY DoneTyped, CallTyped DEF EnqueueJob
<1>2. jobs' \in SUBSET Recording
  BY Named DEF EnqueueJob, At, Located, LocatedTask
<1>. QED BY <1>1, <1>2, Named, TaskStepTyped DEF EnqueueJob, livekit

\* The file that is collected is an egress, because the task waits for a segment that exists (Located).
LEMMA CollectTyped == TypeOK /\ Located /\ Collect => TypeOK'
<1>. SUFFICES ASSUME TypeOK, Located, Collect PROVE TypeOK'
  OBVIOUS
<1>. DEFINE e == live.segments[task.cur]
<1>1. task.cur \in Track /\ e \in Egress \cup {None}
  BY Named DEF Collect, Located, LocatedTask, Lives
<1>2. live' \in Lives
  <2>1. live' = [live EXCEPT !.segments[task.cur] = None]
    BY DEF Collect, Forget
  <2>2. [live.segments EXCEPT ![task.cur] = None] \in [Track -> Egress \cup {None}]
    BY Named DEF Lives
  <2>3. live' = [live EXCEPT !.segments = [live.segments EXCEPT ![task.cur] = None]]
    BY <2>1
  <2>. QED BY <2>2, <2>3, Named DEF Lives
<1>3. task' \in Tasks
  <2>1. [task EXCEPT !.pc = "register", !.file = e] \in Tasks
    BY <1>1, TaskMoves DEF Pcs
  <2>2. Finishing(task, live', task.todo \ {task.cur}) \in Tasks
    <3>1. task \in Tasks /\ task.todo \ {task.cur} \subseteq Track
      BY Named
    <3>. QED BY <3>1, <1>2, LoopsAreTasks
  <2>. QED BY <2>1, <2>2 DEF Collect
<1>. QED BY <1>2, <1>3, Named, TaskStepTyped DEF Collect, livekit, database, bounds

\* A new egress is for a recording and a track, because the task has both (Located).
LEMMA StartEgressTyped ==
  ASSUME TypeOK, Located, NEW e \in Egress, NEW o, StartEgress(e, o) PROVE TypeOK'
<1>1. task.cur \in Track /\ live.rec \in Recording
  BY DEF StartEgress, Located, LocatedTask
<1>2. egress' \in Egresses
  <2>1. [rec |-> live.rec, track |-> task.cur, state |-> "active"]
          \in [rec : Recording \cup {None}, track : Track \cup {NoTrack},
               state : {"none", "active", "ending", "complete", "failed"}]
    BY <1>1
  <2>. QED BY <2>1, Named DEF StartEgress, Egresses
<1>3. live' \in Lives
  <2>1. CASE o = "ok"
    <3>1. live' = [live EXCEPT !.segments[task.cur] = e]
      BY <2>1 DEF StartEgress
    <3>2. [live.segments EXCEPT ![task.cur] = e] \in [Track -> Egress \cup {None}]
      BY Named DEF Lives
    <3>3. live' = [live EXCEPT !.segments = [live.segments EXCEPT ![task.cur] = e]]
      BY <3>1
    <3>. QED BY <3>2, <3>3, Named DEF Lives
  <2>2. CASE o # "ok"
    BY <2>2, Named DEF StartEgress
  <2>. QED BY <2>1, <2>2
<1>4. task' \in Tasks
  <2>1. task.todo \ {task.cur} \subseteq Track
    BY Named
  <2>2. Starting(task, task.todo \ {task.cur}) \in Tasks
    BY <2>1, TaskMoves DEF Pcs, None
  <2>3. Idle \in Tasks
    BY DEF Idle, Tasks, Ops, Pcs, None
  <2>. QED BY <2>2, <2>3 DEF StartEgress
<1>5. faults' \in SUBSET Faults
  BY CallTyped DEF StartEgress
<1>. QED BY <1>2, <1>3, <1>4, <1>5, Named, TaskStepTyped DEF StartEgress, database

-----------------------------------------------------------------------------
(* The death of the process and its return.                                *)

\* A crash keeps the types.
LEMMA CrashTyped == TypeOK /\ Crash => TypeOK'
<1>. SUFFICES ASSUME TypeOK, Crash PROVE TypeOK'
  OBVIOUS
<1>1. spent' \in [pauses : Nat, crashes : Nat]
  <2>1. spent' = [spent EXCEPT !.crashes = @ + 1] /\ spent \in [pauses : Nat, crashes : Nat]
    BY DEF Crash, TypeOK
  <2>. QED BY <2>1
<1>2. Dies
  BY DEF Crash
<1>3. UNCHANGED <<mic, egress, recordings, events, trackRows, jobs, faults>>
  BY DEF Crash, livekit, database
<1>. QED BY <1>1, <1>2, <1>3, DiesTyped DEF TypeOK, Tasks, Ops, Pcs, Lives

\* A step of the recovery, which either goes on or ends the process.
LEMMA RecoveryTyped ==
  ASSUME TypeOK, NEW k \in Tasks,
         (task' = k /\ UNCHANGED <<server, chain, live>>) \/ Dies,
         recordings' \in [Recording -> {"none", "recording", "stopped", "failed"}],
         events' \in [Recording -> Seq(Change \cup {"interrupted"})],
         faults' \in SUBSET Faults, UNCHANGED <<mic, egress, trackRows, jobs, spent>>
  PROVE  TypeOK'
<1>1. CASE task' = k /\ UNCHANGED <<server, chain, live>>
  BY <1>1, Named, TaskStepTyped
<1>2. CASE Dies
  BY <1>2, DiesTyped DEF TypeOK, Tasks, Ops, Pcs, Lives
<1>. QED BY <1>1, <1>2

\* Marking an interrupted recording failed keeps the types.
LEMMA MarkTyped ==
  ASSUME TypeOK, NEW r \in Recording, NEW o, MarkInterrupted(r, o) PROVE TypeOK'
<1>. DEFINE k == [task EXCEPT !.pc = "interrupted", !.rec = r]
<1>1. k \in Tasks
  BY Named DEF Tasks, Pcs
<1>2. recordings' \in [Recording -> {"none", "recording", "stopped", "failed"}]
  BY Named DEF MarkInterrupted
<1>3. faults' \in SUBSET Faults
  BY CallTyped DEF MarkInterrupted
<1>4. (task' = k /\ UNCHANGED <<server, chain, live>>) \/ Dies
  BY DEF MarkInterrupted
<1>. QED BY <1>1, <1>2, <1>3, <1>4, Named, RecoveryTyped DEF MarkInterrupted, livekit

\* So does its bookmark.
LEMMA AddInterruptedTyped == ASSUME TypeOK, NEW o, AddInterrupted(o) PROVE TypeOK'
<1>. DEFINE k == [task EXCEPT !.pc = "scan", !.rec = None]
<1>1. k \in Tasks
  BY Named DEF Tasks, Pcs
<1>2. events' \in [Recording -> Seq(Change \cup {"interrupted"})]
  <2>1. CASE task.rec \in Recording
    <3>1. Append(events[task.rec], "interrupted") \in Seq(Change \cup {"interrupted"})
      BY <2>1, Named
    <3>. QED BY <3>1, Named DEF AddInterrupted
  <2>2. CASE task.rec \notin Recording
    BY <2>2, Named DEF AddInterrupted
  <2>. QED BY <2>1, <2>2
<1>3. faults' \in SUBSET Faults
  BY CallTyped DEF AddInterrupted
<1>4. (task' = k /\ UNCHANGED <<server, chain, live>>) \/ Dies
  BY DEF AddInterrupted
<1>. QED BY <1>1, <1>2, <1>3, <1>4, Named, RecoveryTyped DEF AddInterrupted, livekit

\* So do booting, and listening once recovery is done.
LEMMA BootTyped == TypeOK /\ (Boot \/ Listen) => TypeOK'
<1>. SUFFICES ASSUME TypeOK, Boot \/ Listen PROVE TypeOK'
  OBVIOUS
<1>1. task' \in Tasks
  <2>1. Idle \in Tasks /\ [Idle EXCEPT !.op = "recover", !.pc = "scan"] \in Tasks
    BY DEF Idle, Tasks, Ops, Pcs, None
  <2>. QED BY <2>1 DEF Boot, Listen
<1>2. UNCHANGED <<server, chain, live, livekit, database, bounds>>
  BY DEF Boot, Listen
<1>. QED BY <1>1, <1>2, Named, TaskStepTyped DEF livekit, database, bounds

\* Every step of a task keeps the types.
LEMMA TaskTyped == TypeOK /\ Located /\ TaskStep => TypeOK'
  BY BeginTyped, LeaveRunningTyped, CollectTyped, ResultRejectedTyped, BootTyped, CheckAckTyped,
     PutRecordingTyped, AddEventTyped, PutTrackTyped, ListTyped, EnqueueJobTyped,
     AddInterruptedTyped, NextSegmentTyped, StartEgressTyped, MarkTyped DEF TaskStep

\* TypeOK is kept by every step that starts from a state that is also Located.
LEMMA TypeInductive == TypeOK /\ Located /\ [Next]_vars => TypeOK'
<1>. SUFFICES ASSUME TypeOK, Located, [Next]_vars PROVE TypeOK'
  OBVIOUS
<1>1. CASE UNCHANGED vars
  BY <1>1 DEF TypeOK, vars, server, livekit, database, bounds
<1>2. CASE Next
  BY <1>2, RequestTyped, AcknowledgeTyped, TaskTyped, LiveKitTyped, CrashTyped DEF Next
<1>. QED BY <1>1, <1>2

\* At the beginning no task is in the middle of anything.
LEMMA InitLocated == Init => Located
  BY DEF Init, Located, LocatedTask, Idle, NoLive, None

\* The loops of finishSegments and reconcile keep to the recording of the task.
LEMMA LoopsAreLocated ==
  ASSUME NEW k \in Tasks, NEW l \in Lives, NEW todo,
         k.op = "started" => k.rec \in Recording, l.rec \in Recording
  PROVE  LocatedTask(Finishing(k, l, todo), l) /\ LocatedTask(Starting(k, todo), l)
<1>1. LocatedTask(Idle, l)
  BY DEF LocatedTask, Idle
<1>2. ASSUME NEW g \in Tasks, g.op = k.op, g.rec = k.rec PROVE LocatedTask(AfterFiles(g, l), l)
  BY <1>1, <1>2 DEF AfterFiles, LocatedTask, Tasks
<1>. DEFINE go == [k EXCEPT !.todo = todo, !.cur = NoTrack, !.file = None]
<1>3. LocatedTask(Finishing(k, l, todo), l)
  <2>1. CASE todo # {}
    BY <2>1 DEF Finishing, LocatedTask, Tasks
  <2>2. CASE todo = {}
    <3>1. go \in Tasks /\ go.op = k.op /\ go.rec = k.rec
      BY <2>2 DEF Tasks, None
    <3>. QED BY <1>2, <2>2, <3>1 DEF Finishing
  <2>. QED BY <2>1, <2>2
<1>4. LocatedTask(Starting(k, todo), l)
  BY <1>1 DEF Starting, LocatedTask, Tasks
<1>. QED BY <1>3, <1>4

\* A task that is over is in the middle of nothing.
LEMMA DoneLocated == ASSUME Located, Done PROVE Located'
  BY DEF Located, LocatedTask, Done, Idle, NoLive

\* Nor is one that died with its process.
LEMMA DiesLocated == ASSUME Dies PROVE Located'
  BY DEF Dies, Located, LocatedTask, Dead, Idle, NoLive

\* A task that begins has what its first position needs.
LEMMA BeginLocated == TypeOK /\ Located /\ Begin => Located'
<1>. SUFFICES ASSUME TypeOK, Located, Begin PROVE Located'
  OBVIOUS
<1>. DEFINE op == Head(chain).op
            k  == [Idle EXCEPT !.op = op, !.rec = Head(chain).rec]
<1>1. Head(chain) \in Work
  BY DEF Begin, TypeOK
<1>2. k \in Tasks
  BY <1>1 DEF Work, Tasks, Ops, Pcs, Idle, None
<1>3. CASE op = "started"
  <2>1. task' = [k EXCEPT !.pc = "row"] /\ UNCHANGED live
    BY <1>3 DEF Begin
  <2>2. Head(chain).rec \in Recording
    BY <1>1, <1>3 DEF Work
  <2>. QED BY <1>3, <2>1, <2>2 DEF Located, LocatedTask, Idle
<1>4. CASE op # "started" /\ ~live.inMap
  BY <1>4 DEF Begin, Located, LocatedTask
<1>5. CASE op # "started" /\ live.inMap
  <2>1. /\ live' = Begun(op)
        /\ task' = IF op \in {"paused", "resumed"} THEN [k EXCEPT !.pc = "event"]
                   ELSE Finishing(k, live', Tracked(live))
    BY <1>5 DEF Begin
  <2>2. live' \in Lives /\ live'.rec = live.rec /\ live.rec \in Recording
    BY <1>5, <2>1, Named DEF Begun, Lives, Located
  <2>3. k.op = op /\ k.op # "started"
    BY <1>5 DEF Idle
  <2>4. LocatedTask(Finishing(k, live', Tracked(live)), live')
    BY <1>2, <2>2, <2>3, LoopsAreLocated
  <2>5. LocatedTask([k EXCEPT !.pc = "event"], live')
    BY <1>2, <2>2, <2>3 DEF LocatedTask, Tasks
  <2>6. LocatedTask(task', live')
    BY <2>1, <2>4, <2>5
  <2>. QED BY <2>2, <2>6 DEF Located, LocatedTask
<1>. QED BY <1>3, <1>4, <1>5

\* After its bookmark a task has what its next position needs; a started one is now live.
LEMMA AddEventLocated == ASSUME TypeOK, Located, NEW o, AddEvent(o) PROVE Located'
<1>1. CASE task.op = "started" /\ o = "ok"
  <2>1. /\ live' = [NoLive EXCEPT !.rec = task.rec, !.inMap = TRUE, !.capturing = TRUE]
        /\ task' = [task EXCEPT !.pc = "list"]
    BY <1>1 DEF AddEvent
  <2>2. task.rec \in Recording /\ live'.rec = task.rec
    BY <1>1, <2>1 DEF Located, LocatedTask, NoLive
  <2>. QED BY <1>1, <2>1, <2>2, Named DEF Located, LocatedTask, Tasks
<1>2. CASE ~(task.op = "started" /\ o = "ok")
  <2>. DEFINE k == IF task.op = "stopped" THEN [task EXCEPT !.pc = "row"]
                   ELSE Finishing(task, live, Tracked(live))
  <2>1. Continue(o, k)
    BY <1>2 DEF AddEvent
  <2>2. CASE o = "ok"
    <3>1. task' = k /\ live' = live
      BY <2>1, <2>2 DEF Continue
    <3>2. live.rec \in Recording /\ task.op # "started"
      BY <1>2, <2>2 DEF AddEvent, Change, Located, LocatedTask
    <3>3. LocatedTask(Finishing(task, live, Tracked(live)), live)
      BY <3>2, Named, LoopsAreLocated
    <3>4. LocatedTask([task EXCEPT !.pc = "row"], live)
      BY <3>2, Named DEF LocatedTask, Tasks
    <3>. QED BY <3>1, <3>3, <3>4 DEF Located, LocatedTask
  <2>3. CASE o # "ok"
    BY <2>1, <2>3, DoneLocated DEF Continue
  <2>. QED BY <2>2, <2>3
<1>. QED BY <1>1, <1>2

\* After its row, too: a stop still holds the recording it took out of the map.
LEMMA PutRecordingLocated == ASSUME TypeOK, Located, NEW o, PutRecording(o) PROVE Located'
<1>. DEFINE k == [task EXCEPT !.pc = IF task.op = "started" THEN "event" ELSE "job"]
<1>1. Continue(o, k)
  BY DEF PutRecording
<1>2. CASE o = "ok"
  <2>1. task' = k /\ live' = live
    BY <1>1, <1>2 DEF Continue
  <2>. QED BY <2>1, Named DEF Located, LocatedTask, Tasks
<1>3. CASE o # "ok"
  BY <1>1, <1>3, DoneLocated DEF Continue
<1>. QED BY <1>2, <1>3

\* A task that goes on with one of its loops, the recording staying what it is.
LEMMA LoopingLocated ==
  ASSUME TypeOK, Located, NEW todo, live.rec \in Recording, live' \in Lives,
         live'.rec = live.rec, live'.inMap = live.inMap,
         task' = Finishing(task, live', todo) \/ task' = Starting(task, todo)
  PROVE  Located'
<1>1. task \in Tasks /\ (task.op = "started" => task.rec \in Recording)
  BY Named DEF Located, LocatedTask
<1>2. LocatedTask(task', live')
  BY <1>1, LoopsAreLocated
<1>. QED BY <1>2 DEF Located, LocatedTask

\* The steps inside the loops of finishSegments and reconcile.
LEMMA LoopLocated ==
  ASSUME TypeOK, Located,
         \/ LeaveRunning \/ Collect \/ ResultRejected
         \/ \E t \in Track : CheckAck(t)
         \/ \E o \in Outcome :
              \/ PutTrack(o) \/ ListAudioTracks(o)
              \/ \E t \in Track : NextSegment(t, o)
              \/ \E e \in Egress : StartEgress(e, o)
  PROVE  Located'
<1>. live.rec \in Recording /\ live \in Lives /\ task \in Tasks
  BY Named DEF LeaveRunning, Collect, ResultRejected, CheckAck, PutTrack, ListAudioTracks,
               NextSegment, StartEgress, Located, LocatedTask
<1>1. CASE LeaveRunning
  BY <1>1, LoopingLocated DEF LeaveRunning
<1>2. CASE Collect
  <2>1. live' \in Lives
    BY <1>2, CollectTyped, Named DEF TypeOK, Lives
  <2>2. live'.rec = live.rec /\ live'.inMap = live.inMap
    BY <1>2 DEF Collect, Forget, Lives
  <2>3. CASE task'.pc = "register" /\ task'.op = task.op /\ task'.rec = task.rec /\ task'.cur = task.cur
    BY <1>2, <2>2, <2>3 DEF Collect, Located, LocatedTask
  <2>4. CASE task' = Finishing(task, live', task.todo \ {task.cur})
    BY <2>1, <2>2, <2>4, LoopingLocated
  <2>. QED BY <1>2, <2>3, <2>4 DEF Collect, Tasks
<1>3. CASE ResultRejected
  BY <1>3, DoneLocated DEF ResultRejected
<1>4. ASSUME NEW t \in Track, CheckAck(t) PROVE Located'
  <2>1. CASE task' = [task EXCEPT !.pc = "start", !.cur = t]
    BY <1>4, <2>1 DEF CheckAck, Located, LocatedTask, Tasks
  <2>2. CASE task' = Starting(task, task.todo \ {t})
    BY <1>4, <2>2, LoopingLocated DEF CheckAck
  <2>. QED BY <1>4, <2>1, <2>2 DEF CheckAck
<1>5. ASSUME NEW o, PutTrack(o) PROVE Located'
  <2>1. Continue(o, Finishing(task, live, task.todo \ {task.cur}))
    BY <1>5 DEF PutTrack
  <2>2. CASE o = "ok"
    BY <2>1, <2>2, LoopingLocated DEF Continue
  <2>3. CASE o # "ok"
    BY <2>1, <2>3, DoneLocated DEF Continue
  <2>. QED BY <2>2, <2>3
<1>6. ASSUME NEW o, ListAudioTracks(o) PROVE Located'
  BY <1>6, LoopingLocated DEF ListAudioTracks
<1>7. ASSUME NEW t \in Track, NEW o, NextSegment(t, o) PROVE Located'
  BY <1>7 DEF NextSegment, Located, LocatedTask, Tasks
<1>8. ASSUME NEW e \in Egress, NEW o, StartEgress(e, o) PROVE Located'
  <2>1. CASE o = "ok"
    <3>1. live' \in Lives
      BY <1>8, StartEgressTyped DEF TypeOK, Lives
    <3>2. live'.rec = live.rec /\ live'.inMap = live.inMap
      BY <1>8, <2>1 DEF StartEgress, Lives
    <3>. QED BY <1>8, <2>1, <3>1, <3>2, LoopingLocated DEF StartEgress
  <2>2. CASE o # "ok"
    BY <1>8, <2>2 DEF StartEgress, Located, LocatedTask, Idle
  <2>. QED BY <2>1, <2>2
<1>. QED BY <1>1, <1>2, <1>3, <1>4, <1>5, <1>6, <1>7, <1>8

\* Booting, recovery and the last step of a stop leave no task in need of a live recording.
LEMMA RecoveryLocated ==
  ASSUME TypeOK, Located,
         \/ Boot \/ Listen
         \/ \E o \in Outcome :
              \/ EnqueueJob(o) \/ AddInterrupted(o)
              \/ \E r \in Recording : MarkInterrupted(r, o)
  PROVE  Located'
<1>1. CASE Boot \/ Listen
  <2>1. UNCHANGED live
    BY <1>1 DEF Boot, Listen
  <2>2. LocatedTask(Idle, live) /\ LocatedTask([Idle EXCEPT !.op = "recover", !.pc = "scan"], live)
    BY DEF LocatedTask, Idle
  <2>3. LocatedTask(task', live)
    BY <1>1, <2>2 DEF Boot, Listen
  <2>. QED BY <2>1, <2>3 DEF Located, LocatedTask
<1>2. ASSUME NEW o, EnqueueJob(o) PROVE Located'
  BY <1>2, DoneLocated DEF EnqueueJob
<1>3. ASSUME NEW o, AddInterrupted(o) PROVE Located'
  BY <1>3, DiesLocated, Named DEF AddInterrupted, At, Located, LocatedTask, Tasks
<1>4. ASSUME NEW r \in Recording, NEW o, MarkInterrupted(r, o) PROVE Located'
  <2>1. CASE Dies
    BY <2>1, DiesLocated
  <2>2. CASE ~Dies
    <3>1. task' = [task EXCEPT !.pc = "interrupted", !.rec = r] /\ UNCHANGED live
      BY <1>4, <2>2 DEF MarkInterrupted
    <3>2. task.op = "recover" /\ task \in Tasks
      BY <1>4, Named DEF MarkInterrupted, At
    <3>. QED BY <3>1, <3>2 DEF Located, LocatedTask, Tasks
  <2>. QED BY <2>1, <2>2
<1>. QED BY <1>1, <1>2, <1>3, <1>4

\* Every step keeps Located.
LEMMA LocatedInductive == TypeOK /\ Located /\ [Next]_vars => Located'
<1>. SUFFICES ASSUME TypeOK, Located, [Next]_vars PROVE Located'
  OBVIOUS
<1>1. CASE UNCHANGED <<task, live>>
  BY <1>1 DEF Located, LocatedTask
<1>2. CASE TaskStep
  BY <1>2, BeginLocated, AddEventLocated, PutRecordingLocated, LoopLocated, RecoveryLocated
     DEF TaskStep
<1>3. CASE Crash
  BY <1>3, DiesLocated DEF Crash
<1>4. CASE Request \/ Acknowledge \/ Tick \/ LiveKitStep \/ UNCHANGED vars
  <2>1. UNCHANGED <<task, live>>
    BY <1>4 DEF Request, Start, Pause, Resume, Stop, Acknowledge, RecordingAck, AckExpires, Tick,
                LiveKitStep, Publish, Mute, Unmute, Unpublish, MicChanges, EgressCompletes,
                EgressFails, vars
  <2>. QED BY <1>1, <2>1
<1>. QED BY <1>2, <1>3, <1>4 DEF Next

\* TypeOK and Located hold together in every reachable state.
LEMMA Inductive == Spec => [](TypeOK /\ Located)
<1>1. Init => TypeOK /\ Located
  BY InitTyped, InitLocated
<1>2. TypeOK /\ Located /\ [Next]_vars => (TypeOK /\ Located)'
  BY TypeInductive, LocatedInductive
<1>. QED BY <1>1, <1>2, PTL DEF Spec

\* The model stays within its types: what the chain, LiveKit and the tables hold is what the code can
\* put there.
THEOREM TypeCorrect == Spec => []TypeOK
  BY Inductive, PTL

-----------------------------------------------------------------------------
(* Consent.  What makes it inductive: between the check of an acknowledgement and the egress that *)
(* is started on the strength of it, nothing can make that acknowledgement undone, and the task   *)
(* still means the same recording and the same track.                                             *)

Acked(r, u) == acks[r][u] # "none"

OfAcked(e) ==
  egress[e].state # "none" =>
    /\ egress[e].rec \in Recording /\ egress[e].track \in Track
    /\ Acked(egress[e].rec, Speaker[egress[e].track])

Consented ==
  /\ task.pc = "start" => Acked(live.rec, Speaker[task.cur])
  /\ \A e \in Egress : OfAcked(e)

\* An acknowledgement that was given expires or is lost, but never becomes one that was not given.
LEMMA AcksAreKept ==
  ASSUME TypeOK, [Next]_vars, NEW r \in Recording, NEW u \in User, Acked(r, u)
  PROVE  Acked(r, u)'
<1>1. CASE UNCHANGED acks
  BY <1>1 DEF Acked
<1>2. ASSUME NEW v \in User, RecordingAck(v) PROVE Acked(r, u)'
  BY <1>2 DEF RecordingAck, Acked, TypeOK
<1>3. ASSUME NEW v \in User, NEW q \in Recording, AckExpires(q, v) PROVE Acked(r, u)'
  BY <1>3 DEF AckExpires, Acked, TypeOK
<1>4. CASE Dies
  BY <1>4 DEF Dies, Acked, TypeOK
<1>5. CASE TaskStep
  <2>1. UNCHANGED acks \/ Dies
    BY <1>5 DEF TaskStep, Begin, LeaveRunning, Collect, ResultRejected, Boot, Listen, CheckAck,
                PutRecording, AddEvent, PutTrack, ListAudioTracks, EnqueueJob, AddInterrupted,
                NextSegment, StartEgress, MarkInterrupted, server
  <2>. QED BY <1>1, <1>4, <2>1
<1>6. CASE Request \/ Tick \/ LiveKitStep \/ UNCHANGED vars
  <2>1. UNCHANGED acks
    BY <1>6 DEF Request, Start, Pause, Resume, Stop, Tick, LiveKitStep, Publish, Mute, Unmute,
                Unpublish, MicChanges, EgressCompletes, EgressFails, vars, server
  <2>. QED BY <1>1, <2>1
<1>7. CASE Crash
  BY <1>4, <1>7 DEF Crash
<1>. QED BY <1>2, <1>3, <1>5, <1>6, <1>7 DEF Next, Acknowledge

\* Egresses that only change their state were started earlier.
LEMMA EgressesConsented ==
  ASSUME TypeOK, Consented, [Next]_vars,
         \A e \in Egress : /\ egress'[e].rec = egress[e].rec /\ egress'[e].track = egress[e].track
                           /\ egress'[e].state # "none" => egress[e].state # "none"
  PROVE  \A e \in Egress : OfAcked(e)'
<1>. TAKE e \in Egress
<1>1. SUFFICES ASSUME egress'[e].state # "none"
               PROVE  OfAcked(e)'
  BY DEF OfAcked
<1>2. /\ egress[e].rec \in Recording /\ egress[e].track \in Track
      /\ Acked(egress[e].rec, Speaker[egress[e].track])
  BY <1>1 DEF Consented, OfAcked
<1>3. Speaker[egress[e].track] \in User
  BY <1>2, CaptureAssumption
<1>4. Acked(egress[e].rec, Speaker[egress[e].track])'
  <2>1. \A r \in Recording, u \in User : Acked(r, u) => Acked(r, u)'
    BY AcksAreKept
  <2>. QED BY <1>2, <1>3, <2>1 DEF Acked
<1>. QED BY <1>2, <1>4 DEF OfAcked

\* Only StartEgress brings an egress into being.
LEMMA EgressesStay ==
  ASSUME TypeOK, Located, [Next]_vars, ~\E e \in Egress, o \in Outcome : StartEgress(e, o)
  PROVE  \A e \in Egress : /\ egress'[e].rec = egress[e].rec /\ egress'[e].track = egress[e].track
                           /\ egress'[e].state # "none" => egress[e].state # "none"
<1>1. CASE UNCHANGED egress
  BY <1>1
<1>2. ASSUME NEW d \in Egress, NEW s, egress' = [egress EXCEPT ![d].state = s],
             egress[d].state # "none"
      PROVE  \A e \in Egress : /\ egress'[e].rec = egress[e].rec
                               /\ egress'[e].track = egress[e].track
                               /\ egress'[e].state # "none" => egress[e].state # "none"
  BY <1>2 DEF TypeOK
<1>3. ASSUME NEW t \in Track, NEW o \in Outcome, NextSegment(t, o), ~UNCHANGED egress
      PROVE  \E d \in Egress : /\ egress' = [egress EXCEPT ![d].state = "ending"]
                               /\ egress[d].state # "none"
  <2>. DEFINE d == live.segments[t]
  <2>1. egress' = [egress EXCEPT ![d].state = "ending"] /\ egress[d].state = "active"
    BY <1>3 DEF NextSegment
  <2>2. d \in Egress
    <3>1. CASE d \notin Egress
      BY <1>3, <2>1, <3>1 DEF TypeOK
    <3>. QED BY <3>1
  <2>. QED BY <2>1, <2>2
<1>4. CASE TaskStep
  <2>1. UNCHANGED egress \/ \E t \in Track, o \in Outcome : NextSegment(t, o)
    BY <1>4 DEF TaskStep, Begin, LeaveRunning, Collect, ResultRejected, Boot, Listen, CheckAck,
                PutRecording, AddEvent, PutTrack, ListAudioTracks, EnqueueJob, AddInterrupted,
                MarkInterrupted, livekit
  <2>. QED BY <1>1, <1>2, <1>3, <2>1
<1>5. CASE LiveKitStep
  <2>1. \/ UNCHANGED egress
        \/ \E e \in Egress, s \in {"complete", "failed"} :
             egress' = [egress EXCEPT ![e].state = s] /\ egress[e].state # "none"
    BY <1>5 DEF LiveKitStep, Publish, Mute, Unmute, Unpublish, MicChanges, EgressCompletes,
                EgressFails
  <2>. QED BY <1>1, <1>2, <2>1
<1>6. CASE Request \/ Acknowledge \/ Tick \/ Crash \/ UNCHANGED vars
  <2>1. UNCHANGED egress
    BY <1>6 DEF Request, Start, Pause, Resume, Stop, Acknowledge, RecordingAck, AckExpires, Tick,
                Crash, vars, livekit
  <2>. QED BY <1>1, <2>1
<1>. QED BY <1>4, <1>5, <1>6 DEF Next

\* Nothing happens to a task that is about to start an egress, except that start or a crash.
LEMMA StartsConsented ==
  ASSUME TypeOK, Located, Consented, [Next]_vars, task'.pc = "start"
  PROVE  Acked(live.rec, Speaker[task.cur])'
<1>1. CASE UNCHANGED <<task, live>>
  <2>1. live.rec \in Recording /\ task.cur \in Track /\ Acked(live.rec, Speaker[task.cur])
    BY <1>1 DEF Consented, Located, LocatedTask
  <2>2. Speaker[task.cur] \in User
    BY <2>1, CaptureAssumption
  <2>. QED BY <1>1, <2>1, <2>2, AcksAreKept DEF Acked
<1>2. ASSUME NEW t \in Track, CheckAck(t) PROVE Acked(live.rec, Speaker[task.cur])'
  <2>1. Starting(task, task.todo \ {t}).pc # "start"
    BY Named DEF Starting, Idle, Tasks
  <2>2. task'.cur = t /\ HasAcked(live.rec, Speaker[t]) /\ UNCHANGED <<live, acks>>
    BY <1>2, <2>1, Named DEF CheckAck, Tasks, server
  <2>. QED BY <2>2 DEF Acked, HasAcked
<1>3. CASE TaskStep /\ ~\E t \in Track : CheckAck(t)
  <2>1. ASSUME NEW k \in Tasks, NEW l, NEW todo
        PROVE  /\ k.pc # "start" => Finishing(k, l, todo).pc # "start"
               /\ Starting(k, todo).pc # "start"
    BY <2>1 DEF Finishing, AfterFiles, Starting, Idle, Tasks
  <2>2. CASE Begin
    <3>. DEFINE k == [Idle EXCEPT !.op = Head(chain).op, !.rec = Head(chain).rec]
    <3>1. k \in Tasks /\ k.pc = "-"
      <4>1. Head(chain) \in Work
        BY <2>2 DEF Begin, TypeOK
      <4>. QED BY <4>1 DEF Work, Tasks, Ops, Pcs, Idle, None
    <3>2. \/ UNCHANGED <<task, live>>
          \/ task' = [k EXCEPT !.pc = "row"] \/ task' = [k EXCEPT !.pc = "event"]
          \/ task' = Finishing(k, live', Tracked(live))
      BY <2>2 DEF Begin
    <3>. QED BY <1>1, <2>1, <3>1, <3>2 DEF Tasks
  <2>3. CASE LeaveRunning \/ Collect \/ ResultRejected \/ Boot \/ Listen
    <3>1. \/ task' = Idle \/ task'.pc \in {"scan", "register"}
          \/ task.pc = "poll" /\ \E l, todo : task' = Finishing(task, l, todo)
      BY <2>3, Named DEF LeaveRunning, Collect, ResultRejected, Done, Boot, Listen, Idle, Tasks
    <3>. QED BY <2>1, <3>1, Named DEF Idle
  <2>4. ASSUME NEW o \in Outcome, PutRecording(o) \/ AddEvent(o) \/ PutTrack(o)
        PROVE  Acked(live.rec, Speaker[task.cur])'
    <3>1. task.pc \in {"row", "event", "register"}
      BY <2>4 DEF PutRecording, AddEvent, PutTrack
    <3>2. ASSUME NEW k, Continue(o, k), k.pc # "start" PROVE task'.pc # "start"
      BY <3>2 DEF Continue, Done, Idle
    <3>3. \A l, todo : Finishing(task, l, todo).pc # "start"
      BY <2>1, <3>1, Named
    <3>4. CASE PutRecording(o)
      BY <3>2, <3>4, Named DEF PutRecording, Tasks
    <3>5. CASE AddEvent(o)
      BY <3>2, <3>3, <3>5, Named DEF AddEvent, Tasks
    <3>6. CASE PutTrack(o)
      BY <3>2, <3>3, <3>6 DEF PutTrack
    <3>. QED BY <2>4, <3>4, <3>5, <3>6
  <2>5. ASSUME NEW o \in Outcome, ListAudioTracks(o) \/ EnqueueJob(o) \/ AddInterrupted(o)
        PROVE  Acked(live.rec, Speaker[task.cur])'
    <3>1. CASE ListAudioTracks(o)
      BY <2>1, <3>1, Named DEF ListAudioTracks
    <3>2. CASE EnqueueJob(o)
      BY <3>2 DEF EnqueueJob, Done, Idle
    <3>3. CASE AddInterrupted(o)
      BY <3>3, Named DEF AddInterrupted, Dies, Dead, Idle, Tasks
    <3>. QED BY <2>5, <3>1, <3>2, <3>3
  <2>6. ASSUME NEW o \in Outcome, NEW t \in Track, NextSegment(t, o)
        PROVE  Acked(live.rec, Speaker[task.cur])'
    BY <2>6, Named DEF NextSegment, Tasks
  <2>7. ASSUME NEW o \in Outcome, NEW e \in Egress, StartEgress(e, o)
        PROVE  Acked(live.rec, Speaker[task.cur])'
    <3>1. task' = Idle \/ task' = Starting(task, task.todo \ {task.cur})
      BY <2>7 DEF StartEgress
    <3>2. Starting(task, task.todo \ {task.cur}).pc # "start"
      BY <2>1, Named
    <3>. QED BY <3>1, <3>2 DEF Idle
  <2>8. ASSUME NEW o \in Outcome, NEW r \in Recording, MarkInterrupted(r, o)
        PROVE  Acked(live.rec, Speaker[task.cur])'
    BY <2>8, Named DEF MarkInterrupted, Dies, Dead, Idle, Tasks
  <2>. QED BY <1>3, <2>2, <2>3, <2>4, <2>5, <2>6, <2>7, <2>8 DEF TaskStep
<1>4. CASE Crash
  BY <1>4 DEF Crash, Dies, Dead, Idle
<1>5. CASE Request \/ Acknowledge \/ Tick \/ LiveKitStep \/ UNCHANGED vars
  <2>1. UNCHANGED <<task, live>>
    BY <1>5 DEF Request, Start, Pause, Resume, Stop, Acknowledge, RecordingAck, AckExpires, Tick,
                LiveKitStep, Publish, Mute, Unmute, Unpublish, MicChanges, EgressCompletes,
                EgressFails, vars
  <2>. QED BY <1>1, <2>1
<1>. QED BY <1>2, <1>3, <1>4, <1>5 DEF Next

\* Every step keeps Consented.
LEMMA ConsentInductive ==
  ASSUME TypeOK, Located, Consented, [Next]_vars
  PROVE  Consented'
<1>1. task'.pc = "start" => Acked(live.rec, Speaker[task.cur])'
  BY StartsConsented
<1>2. \A e \in Egress : OfAcked(e)'
  <2>1. CASE ~\E e \in Egress, o \in Outcome : StartEgress(e, o)
    BY <2>1, EgressesStay, EgressesConsented
  <2>2. ASSUME NEW d \in Egress, NEW o \in Outcome, StartEgress(d, o), NEW e \in Egress
        PROVE  OfAcked(e)'
    <3>1. /\ live.rec \in Recording /\ task.cur \in Track
          /\ Acked(live.rec, Speaker[task.cur])
          /\ UNCHANGED acks
      BY <2>2 DEF StartEgress, Located, LocatedTask, Consented, server
    <3>2. \/ UNCHANGED egress
          \/ egress' = [egress EXCEPT ![d] = [rec |-> live.rec, track |-> task.cur,
                                              state |-> "active"]]
      BY <2>2 DEF StartEgress
    <3>3. \/ egress'[e] = egress[e]
          \/ egress'[e].rec = live.rec /\ egress'[e].track = task.cur
      BY <3>2 DEF TypeOK
    <3>4. OfAcked(e)
      BY DEF Consented
    <3>. QED BY <3>1, <3>3, <3>4 DEF OfAcked, Acked
  <2>. QED BY <2>1, <2>2
<1>. QED BY <1>1, <1>2 DEF Consented

\* Nobody is recorded who has not acknowledged the start cue of that very recording (capture.ts:65-67),
\* whatever the number of players, recordings, crashes and failing calls.
THEOREM ConsentHolds == Spec => []Consent
<1>1. Init => Consented
  BY DEF Init, Consented, OfAcked, Idle
<1>2. TypeOK /\ Located /\ Consented /\ [Next]_vars => Consented'
  BY ConsentInductive
<1>3. Consented => Consent
  BY DEF Consented, OfAcked, Consent, Acked
<1>. QED BY <1>1, <1>2, <1>3, Inductive, PTL DEF Spec

-----------------------------------------------------------------------------
(* What the steps of a task do, field by field.                            *)

\* Where the loop of finishSegments leads task b to, with `todo' left to do.
Finishes(k, b, l, todo) ==
  \/ todo # {} /\ k.op = b.op /\ k.rec = b.rec /\ k.pc = "finish" /\ k.todo = todo
  \/ todo = {} /\ b.op = "stopped" /\ k.op = b.op /\ k.rec = b.rec /\ k.pc = "event"
  \/ /\ todo = {} /\ b.op \notin {"stopped", "paused"} /\ l.capturing
     /\ k.op = b.op /\ k.rec = b.rec /\ k.pc = "list"
  \/ todo = {} /\ b.op # "stopped" /\ (b.op = "paused" \/ ~l.capturing) /\ k = Idle

\* Where the loop of reconcile leads it.
Starts(k, b, todo) ==
  \/ todo # {} /\ k.op = b.op /\ k.rec = b.rec /\ k.pc = "ack" /\ k.todo = todo
  \/ todo = {} /\ k = Idle

\* The two loops do what these say.
LEMMA LoopsLead ==
  ASSUME NEW k \in Tasks, NEW l \in Lives, NEW todo
  PROVE  Finishes(Finishing(k, l, todo), k, l, todo) /\ Starts(Starting(k, todo), k, todo)
<1>. DEFINE go == [k EXCEPT !.todo = todo, !.cur = NoTrack, !.file = None]
<1>0. /\ go.op = k.op /\ go.rec = k.rec /\ go.todo = todo
      /\ go \in [op : Ops, pc : Pcs, rec : Recording \cup {None}, todo : {todo}, cur : {NoTrack},
                 file : {None}]
  BY DEF Tasks
<1>2. Finishing(k, l, todo) = IF todo # {} THEN [go EXCEPT !.pc = "finish"] ELSE AfterFiles(go, l)
  BY DEF Finishing
<1>. HIDE DEF go
<1>1. /\ go.op = k.op /\ go.rec = k.rec /\ go.todo = todo
      /\ \A pc : /\ [go EXCEPT !.pc = pc].op = k.op /\ [go EXCEPT !.pc = pc].rec = k.rec
                 /\ [go EXCEPT !.pc = pc].pc = pc /\ [go EXCEPT !.pc = pc].todo = todo
  BY <1>0
<1>3. Finishes(Finishing(k, l, todo), k, l, todo)
  <2>1. CASE todo # {}
    BY <1>1, <1>2, <2>1 DEF Finishes
  <2>2. CASE todo = {}
    <3>1. Finishing(k, l, todo) = AfterFiles(go, l)
      BY <1>2, <2>2
    <3>2. CASE k.op = "stopped"
      BY <1>1, <2>2, <3>1, <3>2 DEF AfterFiles, Finishes
    <3>3. CASE k.op = "paused"
      BY <1>1, <2>2, <3>1, <3>3 DEF AfterFiles, Finishes
    <3>4. CASE k.op \notin {"stopped", "paused"}
      <4>2. AfterFiles(go, l) = IF l.capturing THEN [go EXCEPT !.pc = "list"] ELSE Idle
        BY <1>1, <3>4 DEF AfterFiles
      <4>3. CASE l.capturing
        <5>1. Finishing(k, l, todo) = [go EXCEPT !.pc = "list"]
          BY <3>1, <4>2, <4>3
        <5>2. Finishing(k, l, todo).pc = "list" /\ Finishing(k, l, todo).op = k.op
              /\ Finishing(k, l, todo).rec = k.rec
          BY <1>1, <5>1
        <5>. QED BY <2>2, <3>4, <4>3, <5>2 DEF Finishes
      <4>4. CASE ~l.capturing
        BY <1>1, <2>2, <3>1, <3>4, <4>2, <4>4 DEF Finishes
      <4>. QED BY <4>3, <4>4
    <3>. QED BY <3>2, <3>3, <3>4
  <2>. QED BY <2>1, <2>2
<1>4. Starts(Starting(k, todo), k, todo)
  BY DEF Starting, Starts, Tasks
<1>. QED BY <1>3, <1>4

\* A task of the chain at its first await.
Fresh(w) == [Idle EXCEPT !.op = w.op, !.rec = w.rec]

LEMMA BeginDoes ==
  ASSUME TypeOK, Begin
  PROVE  LET w == Head(chain) IN
         /\ task = Idle /\ chain # <<>> /\ chain' = Tail(chain) /\ w \in Work
         /\ \/ /\ w.op = "started" /\ w.rec \in Recording /\ live' = live
               /\ task'.op = "started" /\ task'.pc = "row" /\ task'.rec = w.rec
            \/ w.op # "started" /\ ~live.inMap /\ live' = live /\ task' = task
            \/ /\ w.op \in {"paused", "resumed"} /\ live.inMap
               /\ task'.op = w.op /\ task'.pc = "event"
               /\ live'.inMap /\ (live'.capturing <=> w.op = "resumed")
               /\ live'.rec = live.rec /\ live'.segments = live.segments
            \/ /\ w.op = "stopped" /\ live.inMap
               /\ ~live'.inMap /\ ~live'.capturing
               /\ live'.rec = live.rec /\ live'.segments = live.segments
               /\ Finishes(task', Fresh(w), live', Tracked(live))
            \/ /\ w.op = "reconcile" /\ live.inMap /\ live' = live
               /\ Finishes(task', Fresh(w), live, Tracked(live))
         /\ UNCHANGED <<flag, issued, acks, mic, egress, recordings, events, trackRows, jobs,
                        faults, spent>>
<1>. DEFINE w == Head(chain)
<1>0. /\ task = Idle /\ chain # <<>> /\ chain' = Tail(chain)
      /\ UNCHANGED <<flag, issued, acks, mic, egress, recordings, events, trackRows, jobs,
                     faults, spent>>
  BY DEF Begin, server, livekit, database, bounds
<1>1. w \in Work
  BY DEF Begin, TypeOK
<1>2. Fresh(w) \in Tasks /\ Fresh(w).op = w.op /\ Fresh(w).rec = w.rec
  BY <1>1 DEF Fresh, Work, Change, Tasks, Ops, Pcs, Idle, None
<1>3. w.op \in {"started", "paused", "resumed", "stopped", "reconcile"}
      /\ (w.op = "started" => w.rec \in Recording)
  BY <1>1 DEF Work
<1>4. IF w.op = "started" THEN task' = [Fresh(w) EXCEPT !.pc = "row"] /\ UNCHANGED live
      ELSE IF ~live.inMap THEN UNCHANGED <<task, live>>
      ELSE /\ live' = Begun(w.op)
           /\ task' = IF w.op \in {"paused", "resumed"} THEN [Fresh(w) EXCEPT !.pc = "event"]
                      ELSE Finishing(Fresh(w), live', Tracked(live))
  BY DEF Begin, Fresh
<1>5. \A pc : /\ [Fresh(w) EXCEPT !.pc = pc].op = w.op /\ [Fresh(w) EXCEPT !.pc = pc].rec = w.rec
              /\ [Fresh(w) EXCEPT !.pc = pc].pc = pc
  BY <1>2 DEF Tasks
<1>6. \A op : /\ Begun(op).rec = live.rec /\ Begun(op).segments = live.segments
              /\ op # "reconcile" => /\ Begun(op).capturing <=> op = "resumed"
                                     /\ Begun(op).inMap <=> op # "stopped"
              /\ op = "reconcile" => Begun(op) = live
  BY Named DEF Begun, Lives
<1>. HIDE DEF w
<1>7. CASE w.op = "started"
  BY <1>0, <1>1, <1>3, <1>4, <1>5, <1>7 DEF w
<1>8. CASE w.op # "started" /\ ~live.inMap
  BY <1>0, <1>1, <1>4, <1>8 DEF w
<1>9. CASE w.op # "started" /\ live.inMap
  <2>1. CASE w.op \in {"paused", "resumed"}
    <3>1. live' = Begun(w.op) /\ task' = [Fresh(w) EXCEPT !.pc = "event"]
      BY <1>4, <1>9, <2>1
    <3>. QED BY <1>0, <1>1, <1>5, <1>6, <1>9, <2>1, <3>1 DEF w
  <2>2. CASE w.op \in {"stopped", "reconcile"}
    <3>1. live' = Begun(w.op) /\ task' = Finishing(Fresh(w), live', Tracked(live))
      BY <1>4, <1>9, <2>2
    <3>2. Finishes(task', Fresh(w), live', Tracked(live))
      <4>1. live' \in Lives
        BY <3>1, Named DEF Begun, Lives
      <4>. QED BY <1>2, <3>1, <4>1, LoopsLead
    <3>3. CASE w.op = "stopped"
      BY <1>0, <1>1, <1>6, <1>9, <3>1, <3>2, <3>3 DEF w
    <3>4. CASE w.op = "reconcile"
      BY <1>0, <1>1, <1>6, <1>9, <3>1, <3>2, <3>4 DEF w
    <3>. QED BY <2>2, <3>3, <3>4
  <2>. QED BY <1>3, <1>9, <2>1, <2>2
<1>. QED BY <1>7, <1>8, <1>9

\* A call that does not answer "ok" is a fault, and faults are never forgotten.
LEMMA CallDoes ==
  ASSUME TypeOK, NEW c, NEW o, Call(c, o)
  PROVE  faults \subseteq faults' /\ (o # "ok" => <<c, o>> \in faults')
  BY DEF Call

\* What task' and live' are when a task merely moves on, or is over.
Moves(pc) == task'.op = task.op /\ task'.rec = task.rec /\ task'.pc = pc
Others == <<flag, issued, acks, chain, mic, spent>>

LEMMA PutRecordingDoes ==
  ASSUME TypeOK, NEW o, PutRecording(o)
  PROVE  /\ task.op \in {"started", "stopped"} /\ task.pc = "row"
         /\ recordings' = IF Landed(o)
                          THEN [recordings EXCEPT ![Current] = IF task.op = "started" THEN "recording"
                                                                ELSE "stopped"]
                          ELSE recordings
         /\ o = "ok" => live' = live /\ Moves(IF task.op = "started" THEN "event" ELSE "job")
         /\ o # "ok" => Done /\ <<"db", o>> \in faults'
         /\ faults \subseteq faults'
         /\ UNCHANGED <<Others, egress, events, trackRows, jobs>>
<1>1. Continue(o, [task EXCEPT !.pc = IF task.op = "started" THEN "event" ELSE "job"])
  BY DEF PutRecording
<1>2. task \in Tasks
  BY Named
<1>3. o = "ok" => live' = live /\ Moves(IF task.op = "started" THEN "event" ELSE "job")
  BY <1>1, <1>2 DEF Continue, Moves, Tasks
<1>4. o # "ok" => Done
  BY <1>1 DEF Continue
<1>. QED BY <1>3, <1>4, CallDoes DEF PutRecording, Others, server, livekit

LEMMA AddEventDoes ==
  ASSUME TypeOK, Located, NEW o, AddEvent(o)
  PROVE  /\ task.op \in Change /\ task.pc = "event"
         /\ events' = IF Landed(o) THEN [events EXCEPT ![Current] = Append(@, task.op)] ELSE events
         /\ task.op = "started" /\ o = "ok" =>
              /\ live'.rec = task.rec /\ live'.inMap /\ live'.capturing
              /\ \A t \in Track : live'.segments[t] = None
              /\ Moves("list")
         /\ task.op = "stopped" /\ o = "ok" => live' = live /\ Moves("row")
         /\ task.op \in {"paused", "resumed"} /\ o = "ok" =>
              live' = live /\ Finishes(task', task, live, Tracked(live))
         /\ o # "ok" => Done /\ <<"db", o>> \in faults'
         /\ faults \subseteq faults'
         /\ UNCHANGED <<Others, egress, recordings, trackRows, jobs>>
<1>1. task \in Tasks /\ live \in Lives
  BY Named
<1>2. task.op = "started" /\ o = "ok" =>
              /\ live'.rec = task.rec /\ live'.inMap /\ live'.capturing
              /\ \A t \in Track : live'.segments[t] = None
              /\ Moves("list")
  <2>. SUFFICES ASSUME task.op = "started" /\ o = "ok"
                PROVE  /\ live'.rec = task.rec /\ live'.inMap /\ live'.capturing
                       /\ \A t \in Track : live'.segments[t] = None
                       /\ Moves("list")
    OBVIOUS
  <2>1. live' = [NoLive EXCEPT !.rec = task.rec, !.inMap = TRUE, !.capturing = TRUE]
        /\ task' = [task EXCEPT !.pc = "list"]
    BY DEF AddEvent
  <2>2. live'.rec = task.rec /\ live'.inMap /\ live'.capturing
        /\ \A t \in Track : live'.segments[t] = None
    BY <2>1 DEF NoLive
  <2>. QED BY <1>1, <2>1, <2>2 DEF Moves, Tasks
<1>3. ~(task.op = "started" /\ o = "ok") =>
        Continue(o, IF task.op = "stopped" THEN [task EXCEPT !.pc = "row"]
                      ELSE Finishing(task, live, Tracked(live)))
  BY DEF AddEvent
<1>4. o # "ok" => Done
  BY <1>3 DEF Continue
<1>5. task.op = "stopped" /\ o = "ok" => live' = live /\ Moves("row")
  BY <1>1, <1>3 DEF Continue, Moves, Tasks
<1>6. task.op \in {"paused", "resumed"} /\ o = "ok" =>
              live' = live /\ Finishes(task', task, live, Tracked(live))
  BY <1>1, <1>3, LoopsLead DEF Continue
<1>7. faults \subseteq faults' /\ (o # "ok" => <<"db", o>> \in faults')
  BY CallDoes DEF AddEvent
<1>8. UNCHANGED <<Others, egress, recordings, trackRows, jobs>>
  BY DEF AddEvent, Others, server, livekit
<1>. QED BY <1>2, <1>4, <1>5, <1>6, <1>7, <1>8 DEF AddEvent

LEMMA NextSegmentDoes ==
  ASSUME TypeOK, NEW t \in Track, NEW o, NextSegment(t, o)
  PROVE  /\ task.pc = "finish" /\ t \in task.todo
         /\ live' = live /\ Moves("poll") /\ task'.cur = t /\ task'.todo = task.todo
         /\ \/ egress' = egress
            \/ \E e \in Egress : /\ e = live.segments[t] /\ egress[e].state = "active"
                                 /\ egress' = [egress EXCEPT ![e].state = "ending"]
         /\ task.op \in {"paused", "stopped"} /\ live.segments[t] \in Egress =>
              egress'[live.segments[t]].state # "active" \/ <<"stop", "rejected">> \in faults'
         /\ faults \subseteq faults'
         /\ UNCHANGED <<Others, recordings, events, trackRows, jobs>>
<1>. DEFINE e == live.segments[t]
<1>1. task' = [task EXCEPT !.pc = "poll", !.cur = t] /\ task \in Tasks /\ live' = live
  BY Named DEF NextSegment
<1>2. Moves("poll") /\ task'.cur = t /\ task'.todo = task.todo
  BY <1>1 DEF Moves, Tasks
<1>3. egress' = egress \/ (egress[e].state = "active" /\ egress' = [egress EXCEPT ![e].state = "ending"])
  BY DEF NextSegment
<1>4. e \notin Egress /\ egress' = [egress EXCEPT ![e].state = "ending"] => egress' = egress
  BY Named DEF Egresses
<1>5. faults \subseteq faults'
  BY CallDoes DEF NextSegment
<1>6. ASSUME StopAll, e \in Egress, o # "rejected" PROVE egress'[e].state # "active"
  BY <1>6, Named DEF NextSegment, Landed, Egresses
<1>7. StopAll /\ o = "rejected" => <<"stop", "rejected">> \in faults'
  BY CallDoes DEF NextSegment
<1>. QED
  BY <1>1, <1>2, <1>3, <1>4, <1>5, <1>6, <1>7 DEF NextSegment, StopAll, Others, server, database

LEMMA LeaveRunningDoes ==
  ASSUME TypeOK, LeaveRunning
  PROVE  /\ task.pc = "poll" /\ ~Ended(live.segments[task.cur]) /\ live' = live
         /\ Finishes(task', task, live, task.todo \ {task.cur})
         /\ task.op \in {"paused", "stopped"} /\ egress[live.segments[task.cur]].state = "ending" =>
              <<"result", "slow">> \in faults'
         /\ faults \subseteq faults'
         /\ UNCHANGED <<Others, egress, recordings, events, trackRows, jobs>>
<1>1. task' = Finishing(task, live, task.todo \ {task.cur}) /\ task \in Tasks /\ live \in Lives
  BY Named DEF LeaveRunning
<1>2. Finishes(task', task, live, task.todo \ {task.cur})
  BY <1>1, LoopsLead
<1>3. /\ faults \subseteq faults'
      /\ task.op \in {"paused", "stopped"} /\ egress[live.segments[task.cur]].state = "ending" =>
           <<"result", "slow">> \in faults'
  BY CallDoes DEF LeaveRunning, WaitedEnough, StopAll
<1>. QED BY <1>2, <1>3 DEF LeaveRunning, Others, server, livekit, database

LEMMA CollectDoes ==
  ASSUME TypeOK, Located, Collect
  PROVE  LET e == live.segments[task.cur] IN
         /\ task.pc = "poll" /\ task.cur \in Track /\ Ended(e)
         /\ live'.rec = live.rec /\ live'.inMap = live.inMap /\ live'.capturing = live.capturing
         /\ live'.segments = [live.segments EXCEPT ![task.cur] = None]
         /\ \/ /\ egress[e].state = "complete"
               /\ Moves("register") /\ task'.todo = task.todo /\ task'.cur = task.cur /\ task'.file = e
            \/ /\ egress[e].state = "failed"
               /\ Finishes(task', task, live', task.todo \ {task.cur})
         /\ UNCHANGED <<Others, egress, recordings, events, trackRows, jobs, faults>>
<1>. DEFINE e == live.segments[task.cur]
<1>1. task \in Tasks /\ live \in Lives /\ task.cur \in Track
  BY Named DEF Collect, Located, LocatedTask
<1>2. live' = [live EXCEPT !.segments[task.cur] = None]
  BY DEF Collect, Forget
<1>3. /\ live'.rec = live.rec /\ live'.inMap = live.inMap /\ live'.capturing = live.capturing
      /\ live'.segments = [live.segments EXCEPT ![task.cur] = None]
  BY <1>1, <1>2 DEF Lives
<1>4. live' \in Lives
  BY CollectTyped, Named DEF TypeOK, Lives
<1>5. CASE egress[e].state = "complete"
  <2>1. task' = [task EXCEPT !.pc = "register", !.file = e]
    BY <1>5 DEF Collect
  <2>2. Moves("register") /\ task'.todo = task.todo /\ task'.cur = task.cur /\ task'.file = e
    BY <1>1, <2>1 DEF Moves, Tasks
  <2>. QED BY <1>1, <1>3, <1>5, <2>2 DEF Collect, Others, server, livekit, database, bounds
<1>6. CASE egress[e].state # "complete"
  <2>1. task' = Finishing(task, live', task.todo \ {task.cur})
    BY <1>6 DEF Collect
  <2>2. Finishes(task', task, live', task.todo \ {task.cur})
    BY <1>1, <1>4, <2>1, LoopsLead
  <2>3. egress[e].state = "failed"
    BY <1>6 DEF Collect, Ended
  <2>. QED BY <1>1, <1>3, <2>2, <2>3 DEF Collect, Others, server, livekit, database, bounds
<1>. QED BY <1>5, <1>6

LEMMA ResultRejectedDoes ==
  ASSUME TypeOK, ResultRejected
  PROVE  /\ task.pc = "poll" /\ Done
         /\ faults \subseteq faults' /\ <<"result", "rejected">> \in faults'
         /\ UNCHANGED <<Others, egress, recordings, events, trackRows, jobs>>
  BY CallDoes DEF ResultRejected, Others, server, livekit, database

LEMMA PutTrackDoes ==
  ASSUME TypeOK, NEW o, PutTrack(o)
  PROVE  /\ task.pc = "register" /\ trackRows' = RowsAfter(o)
         /\ o = "ok" => live' = live /\ Finishes(task', task, live, task.todo \ {task.cur})
         /\ o # "ok" => Done /\ <<"db", o>> \in faults'
         /\ faults \subseteq faults'
         /\ UNCHANGED <<Others, egress, recordings, events, jobs>>
<1>1. Continue(o, Finishing(task, live, task.todo \ {task.cur})) /\ task \in Tasks /\ live \in Lives
  BY Named DEF PutTrack
<1>2. o = "ok" => live' = live /\ Finishes(task', task, live, task.todo \ {task.cur})
  BY <1>1, LoopsLead DEF Continue
<1>3. o # "ok" => Done
  BY <1>1 DEF Continue
<1>4. faults \subseteq faults' /\ (o # "ok" => <<"db", o>> \in faults')
  BY CallDoes DEF PutTrack
<1>. QED BY <1>2, <1>3, <1>4 DEF PutTrack, Others, server, livekit

LEMMA ListDoes ==
  ASSUME TypeOK, NEW o, ListAudioTracks(o)
  PROVE  /\ task.pc = "list" /\ live' = live
         /\ \E todo \in SUBSET Unrecorded : Starts(task', task, todo)
         /\ faults \subseteq faults'
         /\ UNCHANGED <<Others, egress, recordings, events, trackRows, jobs>>
<1>. DEFINE todo == IF o = "ok" THEN Unrecorded ELSE {}
<1>1. task' = Starting(task, todo) /\ task \in Tasks /\ todo \subseteq Unrecorded /\ live \in Lives
  BY Named DEF ListAudioTracks
<1>2. Starts(task', task, todo)
  BY <1>1, LoopsLead
<1>3. faults \subseteq faults'
  BY CallDoes DEF ListAudioTracks
<1>. QED BY <1>1, <1>2, <1>3 DEF ListAudioTracks, Others, server, livekit, database

LEMMA CheckAckDoes ==
  ASSUME TypeOK, NEW t \in Track, CheckAck(t)
  PROVE  /\ task.pc = "ack" /\ t \in task.todo /\ live' = live
         /\ \/ Moves("start") /\ task'.cur = t /\ task'.todo = task.todo
            \/ Starts(task', task, task.todo \ {t})
         /\ UNCHANGED <<Others, egress, recordings, events, trackRows, jobs, faults>>
<1>1. task \in Tasks /\ live \in Lives
  BY Named
<1>2. task' = [task EXCEPT !.pc = "start", !.cur = t] \/ task' = Starting(task, task.todo \ {t})
  BY DEF CheckAck
<1>3. \/ Moves("start") /\ task'.cur = t /\ task'.todo = task.todo
      \/ Starts(task', task, task.todo \ {t})
  BY <1>1, <1>2, LoopsLead DEF Moves, Tasks
<1>. QED BY <1>3 DEF CheckAck, Others, server, livekit, database, bounds

LEMMA StartEgressDoes ==
  ASSUME TypeOK, Located, NEW e \in Egress, NEW o, StartEgress(e, o)
  PROVE  /\ task.pc = "start" /\ task.cur \in Track /\ live.rec \in Recording
         /\ egress[e].state = "none"
         /\ egress' = IF Landed(o)
                      THEN [egress EXCEPT ![e] = [rec |-> live.rec, track |-> task.cur,
                                                  state |-> "active"]]
                      ELSE egress
         /\ o = "ok" =>
              /\ live'.rec = live.rec /\ live'.inMap = live.inMap /\ live'.capturing = live.capturing
              /\ live'.segments = [live.segments EXCEPT ![task.cur] = e]
              /\ Starts(task', task, task.todo \ {task.cur})
         /\ o # "ok" => task' = Idle /\ live' = live /\ <<"start", o>> \in faults'
         /\ faults \subseteq faults'
         /\ UNCHANGED <<Others, recordings, events, trackRows, jobs>>
<1>1. task \in Tasks /\ live \in Lives
  BY Named
<1>2. task.cur \in Track /\ live.rec \in Recording
  BY DEF StartEgress, Located, LocatedTask
<1>3. faults \subseteq faults' /\ (o # "ok" => <<"start", o>> \in faults')
  BY CallDoes DEF StartEgress
<1>4. CASE o = "ok"
  <2>1. live' = [live EXCEPT !.segments[task.cur] = e] /\ task' = Starting(task, task.todo \ {task.cur})
    BY <1>4 DEF StartEgress
  <2>2. /\ live'.rec = live.rec /\ live'.inMap = live.inMap /\ live'.capturing = live.capturing
        /\ live'.segments = [live.segments EXCEPT ![task.cur] = e]
    BY <1>1, <2>1 DEF Lives
  <2>3. Starts(task', task, task.todo \ {task.cur})
    BY <1>1, <2>1, LoopsLead
  <2>. QED BY <1>2, <1>3, <1>4, <2>2, <2>3 DEF StartEgress, Others, server, database
<1>5. CASE o # "ok"
  BY <1>2, <1>3, <1>5 DEF StartEgress, Others, server, database
<1>. QED BY <1>4, <1>5

LEMMA EnqueueJobDoes ==
  ASSUME TypeOK, NEW o, EnqueueJob(o)
  PROVE  /\ task.op = "stopped" /\ task.pc = "job" /\ Done
         /\ jobs' = jobs \/ jobs' = jobs \cup {live.rec}
         /\ faults \subseteq faults'
         /\ UNCHANGED <<Others, egress, recordings, events, trackRows>>
  BY CallDoes DEF EnqueueJob, At, Others, server, livekit

LEMMA BootDoes ==
  ASSUME TypeOK, Boot \/ Listen
  PROVE  /\ \/ task.op = "dead" /\ task'.op = "recover" /\ task'.pc = "scan"
            \/ At("recover", "scan") /\ Recovered /\ task' = Idle
         /\ live' = live
         /\ UNCHANGED <<Others, egress, recordings, events, trackRows, jobs, faults>>
<1>1. CASE Boot
  <2>1. task' = [Idle EXCEPT !.op = "recover", !.pc = "scan"]
    BY <1>1 DEF Boot
  <2>2. task'.op = "recover" /\ task'.pc = "scan"
    BY <2>1 DEF Idle
  <2>. QED BY <1>1, <2>2 DEF Boot, Others, server, livekit, database, bounds
<1>2. CASE Listen
  BY <1>2 DEF Listen, Others, server, livekit, database, bounds
<1>. QED BY <1>1, <1>2

LEMMA MarkDoes ==
  ASSUME TypeOK, NEW r \in Recording, NEW o, MarkInterrupted(r, o)
  PROVE  /\ At("recover", "scan") /\ CutOff(r)
         /\ recordings' = IF Landed(o) THEN [recordings EXCEPT ![r] = "failed"] ELSE recordings
         /\ o = "ok" => /\ task'.op = "recover" /\ task'.pc = "interrupted" /\ task'.rec = r
                        /\ UNCHANGED <<flag, issued, acks, chain, live>>
         /\ o # "ok" => Dies /\ <<"db", o>> \in faults'
         /\ faults \subseteq faults'
         /\ UNCHANGED <<mic, spent, egress, events, trackRows, jobs>>
<1>1. task \in Tasks
  BY Named
<1>2. CASE o = "ok"
  <2>1. task' = [task EXCEPT !.pc = "interrupted", !.rec = r] /\ UNCHANGED <<server, chain, live>>
    BY <1>2 DEF MarkInterrupted
  <2>2. task'.op = "recover" /\ task'.pc = "interrupted" /\ task'.rec = r
    BY <1>1, <2>1 DEF MarkInterrupted, At, Tasks
  <2>. QED BY <1>2, <2>1, <2>2, CallDoes DEF MarkInterrupted, server, livekit
<1>3. CASE o # "ok"
  BY <1>3, CallDoes DEF MarkInterrupted, livekit
<1>. QED BY <1>2, <1>3

LEMMA AddInterruptedDoes ==
  ASSUME TypeOK, NEW o, AddInterrupted(o)
  PROVE  /\ At("recover", "interrupted")
         /\ events' = IF Landed(o) THEN [events EXCEPT ![task.rec] = Append(@, "interrupted")]
                      ELSE events
         /\ o = "ok" => /\ task'.op = "recover" /\ task'.pc = "scan"
                        /\ UNCHANGED <<flag, issued, acks, chain, live>>
         /\ o # "ok" => Dies /\ <<"db", o>> \in faults'
         /\ faults \subseteq faults'
         /\ UNCHANGED <<mic, spent, egress, recordings, trackRows, jobs>>
<1>1. task \in Tasks
  BY Named
<1>2. CASE o = "ok"
  <2>1. task' = [task EXCEPT !.pc = "scan", !.rec = None] /\ UNCHANGED <<server, chain, live>>
    BY <1>2 DEF AddInterrupted
  <2>2. task'.op = "recover" /\ task'.pc = "scan"
    BY <1>1, <2>1 DEF AddInterrupted, At, Tasks
  <2>. QED BY <1>2, <2>1, <2>2, CallDoes DEF AddInterrupted, server, livekit
<1>3. CASE o # "ok"
  BY <1>3, CallDoes DEF AddInterrupted, livekit
<1>. QED BY <1>2, <1>3

\* Requests, acknowledgements, ticks and LiveKit do not touch the task, its recording or the tables.
Outside == Request \/ Acknowledge \/ Tick \/ LiveKitStep \/ UNCHANGED vars

LEMMA OutsideDoes ==
  ASSUME Outside
  PROVE  /\ UNCHANGED <<task, live, recordings, events, trackRows, jobs>>
         /\ Serving \/ UNCHANGED <<flag, issued, chain>>
         /\ faults \subseteq faults'
<1>1. CASE Request \/ Acknowledge \/ Tick \/ UNCHANGED vars
  BY <1>1 DEF Request, Start, Pause, Resume, Stop, Acknowledge, RecordingAck, AckExpires, Tick, vars,
              server, livekit, database, bounds
<1>2. CASE LiveKitStep
  BY <1>2 DEF LiveKitStep, Publish, Mute, Unmute, Unpublish, MicChanges, EgressCompletes, EgressFails,
              Call, server, livekit, database, bounds
<1>. QED BY <1>1, <1>2 DEF Outside

\* What the death of the process leaves.
LEMMA DiesDoes ==
  ASSUME Dies
  PROVE  /\ task'.op = "dead" /\ task'.pc = "-" /\ live' = NoLive /\ chain' = <<>> /\ flag' = NoFlag
         /\ issued' = issued
<1>1. task' = Dead /\ live' = NoLive /\ chain' = <<>> /\ flag' = NoFlag /\ issued' = issued
  BY DEF Dies
<1>2. Dead.op = "dead" /\ Dead.pc = "-"
  BY DEF Dead, Idle
<1>. QED BY <1>1, <1>2

\* Every step is one of these.
LEMMA StepCases ==
  ASSUME [Next]_vars
  PROVE  \/ Outside \/ Crash
         \/ Begin \/ LeaveRunning \/ Collect \/ ResultRejected \/ Boot \/ Listen
         \/ \E t \in Track : CheckAck(t)
         \/ \E o \in Outcome :
              \/ PutRecording(o) \/ AddEvent(o) \/ PutTrack(o) \/ ListAudioTracks(o)
              \/ EnqueueJob(o) \/ AddInterrupted(o)
              \/ \E t \in Track : NextSegment(t, o)
              \/ \E e \in Egress : StartEgress(e, o)
              \/ \E r \in Recording : MarkInterrupted(r, o)
  BY DEF Next, Outside, TaskStep

-----------------------------------------------------------------------------
(* Where a task is, and what that says of the live recording.  A recording that is not in the map *)
(* is held by the task that stops it, or by nobody; after a crash nothing is left in memory.       *)

Places(op) ==
  CASE op \in {"idle", "dead"} -> {"-"}
    [] op = "recover"   -> {"scan", "interrupted"}
    [] op = "started"   -> {"row", "event", "list", "ack", "start"}
    [] op = "paused"    -> {"event", "finish", "poll", "register"}
    [] op = "resumed"   -> {"event", "finish", "poll", "register", "list", "ack", "start"}
    [] op = "stopped"   -> {"finish", "poll", "register", "event", "row", "job"}
    [] op = "reconcile" -> {"finish", "poll", "register", "list", "ack", "start"}

Opening == task.op = "started" /\ task.pc \in {"row", "event"}

Placed ==
  /\ task.pc \in Places(task.op)
  /\ ~Serving => live = NoLive /\ chain = <<>> /\ flag = NoFlag
  /\ live.inMap => task.op # "stopped"
  /\ ~live.inMap => ~live.capturing /\ (task.op = "stopped" \/ live = NoLive)
  /\ task.op \in {"paused", "resumed", "reconcile"} => live.inMap
  /\ task.op = "paused" => ~live.capturing
  /\ task.op = "resumed" => live.capturing
  /\ task.op = "started" => Opening \/ live.inMap
  /\ task.pc \in {"list", "ack", "start"} => live.capturing

\* What NoLive and Idle are made of.
LEMMA Nothing ==
  /\ NoLive.rec = None /\ ~NoLive.inMap /\ ~NoLive.capturing
  /\ \A t \in Track : NoLive.segments[t] = None
  /\ Tracked(NoLive) = {}
  /\ Idle.op = "idle" /\ Idle.pc = "-"
  BY DEF NoLive, Idle, Tracked

LEMMA InitPlaced == Init => Placed
  BY Nothing DEF Init, Placed, Places, Serving

\* A task that is over leaves a placed one.
LEMMA DonePlaced == ASSUME TypeOK, Placed, Done, Serving PROVE Placed'
<1>1. task' = Idle /\ live' = IF live.inMap THEN live ELSE NoLive
  BY DEF Done
<1>. QED BY <1>1, Nothing DEF Placed, Places, Serving, Opening

LEMMA DiesPlaced == ASSUME Dies PROVE Placed'
  BY DiesDoes, Nothing DEF Placed, Places, Serving, Opening

LEMMA BeginPlaced == ASSUME TypeOK, Placed, Begin PROVE Placed'
<1>. DEFINE w == Head(chain)
<1>1. Fresh(w).op = w.op /\ w \in Work
  BY BeginDoes DEF Fresh, Idle
<1>2. live.inMap \in BOOLEAN /\ live.capturing \in BOOLEAN /\ task = Idle
  BY BeginDoes DEF TypeOK
<1>3. Serving /\ Serving'
  BY <1>1, BeginDoes, Nothing DEF Serving, Finishes
<1>. HIDE DEF w
<1>4. CASE w.op = "started"
  BY <1>1, <1>2, <1>3, <1>4, BeginDoes, Nothing DEF Placed, Places, Opening, w
<1>5. CASE w.op # "started" /\ ~live.inMap
  BY <1>3, <1>5, BeginDoes DEF Placed, Opening, w
<1>6. CASE w.op \in {"paused", "resumed"} /\ live.inMap
  BY <1>1, <1>2, <1>3, <1>6, BeginDoes DEF Placed, Places, Opening, w
<1>7. CASE w.op \in {"stopped", "reconcile"} /\ live.inMap
  BY <1>1, <1>2, <1>3, <1>7, BeginDoes, Nothing DEF Placed, Places, Opening, Finishes, w
<1>8. w.op \in {"started", "paused", "resumed", "stopped", "reconcile"}
  BY <1>1 DEF Work
<1>. QED BY <1>4, <1>5, <1>6, <1>7, <1>8

\* A busy task that is past its opening: what it needs of the live recording is whether it is in the map
\* and whether it captures.
Busy == task.op \in Change \cup {"reconcile"} /\ ~Opening

LEMMA OnwardPlaced ==
  ASSUME TypeOK, Placed, Busy, live'.inMap = live.inMap, live'.capturing = live.capturing, NEW todo,
         \/ Finishes(task', task, live', todo) /\ task.op # "started"
         \/ Starts(task', task, todo) /\ task.pc \in {"list", "ack", "start"}
         \/ \E pc \in Places(task.op) \ {"row", "event"} :
              /\ Moves(pc)
              /\ pc \in {"list", "ack", "start"} => live.capturing
  PROVE  Placed'
<1>1. Serving
  BY DEF Busy, Serving, Change
<1>2. CASE Finishes(task', task, live', todo) /\ task.op # "started"
  BY <1>1, <1>2, Nothing DEF Placed, Places, Opening, Finishes, Serving, Busy, Change
<1>3. CASE Starts(task', task, todo) /\ task.pc \in {"list", "ack", "start"}
  BY <1>1, <1>3, Nothing DEF Placed, Places, Opening, Starts, Serving, Busy, Change
<1>4. ASSUME NEW pc \in Places(task.op) \ {"row", "event"}, Moves(pc),
             pc \in {"list", "ack", "start"} => live.capturing
      PROVE  Placed'
  BY <1>1, <1>4, Nothing DEF Placed, Places, Opening, Moves, Serving, Busy, Change
<1>. QED BY <1>2, <1>3, <1>4

\* Every step keeps Placed.
LEMMA PlacedInductive ==
  ASSUME TypeOK, Located, Placed, [Next]_vars
  PROVE  Placed'
<1>. live.inMap \in BOOLEAN /\ live.capturing \in BOOLEAN
  BY DEF TypeOK
<1>1. CASE Outside
  BY <1>1, OutsideDoes DEF Placed, Places, Serving, Opening
<1>2. CASE Crash
  BY <1>2, DiesPlaced DEF Crash
<1>3. CASE Begin
  BY <1>3, BeginPlaced
<1>4. CASE LeaveRunning
  <2>1. Busy /\ task.op # "started"
    BY <1>4, LeaveRunningDoes, Named DEF Busy, Placed, Places, Opening, Change, Tasks, Ops
  <2>. QED BY <1>4, <2>1, LeaveRunningDoes, OnwardPlaced
<1>5. CASE Collect
  <2>1. Busy /\ task.op # "started" /\ "register" \in Places(task.op)
    BY <1>5, CollectDoes, Named DEF Busy, Placed, Places, Opening, Change, Tasks, Ops
  <2>. QED BY <1>5, <2>1, CollectDoes, OnwardPlaced
<1>6. CASE ResultRejected
  <2>1. Serving
    BY <1>6, ResultRejectedDoes DEF Placed, Places, Serving
  <2>. QED BY <1>6, <2>1, ResultRejectedDoes, DonePlaced
<1>7. CASE Boot \/ Listen
  BY <1>7, BootDoes, Nothing DEF Placed, Places, Serving, Opening, Others, At
<1>8. ASSUME NEW t \in Track, CheckAck(t) PROVE Placed'
  <2>1. Busy /\ live.capturing /\ "start" \in Places(task.op)
    BY <1>8, CheckAckDoes, Named DEF Busy, Placed, Places, Opening, Change, Tasks, Ops
  <2>2. CASE Moves("start")
    BY <1>8, <2>1, <2>2, CheckAckDoes, OnwardPlaced
  <2>3. CASE ~Moves("start")
    BY <1>8, <2>1, <2>3, CheckAckDoes, OnwardPlaced
  <2>. QED BY <2>2, <2>3
<1>9. ASSUME NEW o \in Outcome, PutRecording(o) PROVE Placed'
  <2>1. Serving
    BY <1>9, PutRecordingDoes DEF Serving
  <2>2. CASE o = "ok"
    BY <1>9, <2>1, <2>2, PutRecordingDoes DEF Placed, Places, Serving, Opening, Moves, Others
  <2>3. CASE o # "ok"
    BY <1>9, <2>1, <2>3, PutRecordingDoes, DonePlaced
  <2>. QED BY <2>2, <2>3
<1>10. ASSUME NEW o \in Outcome, AddEvent(o) PROVE Placed'
  <2>1. Serving
    BY <1>10, AddEventDoes DEF Serving, Change
  <2>2. CASE o # "ok"
    BY <1>10, <2>1, <2>2, AddEventDoes, DonePlaced
  <2>3. CASE o = "ok" /\ task.op = "started"
    BY <1>10, <2>1, <2>3, AddEventDoes DEF Placed, Places, Serving, Opening, Moves
  <2>4. CASE o = "ok" /\ task.op = "stopped"
    BY <1>10, <2>1, <2>4, AddEventDoes DEF Placed, Places, Serving, Opening, Moves
  <2>5. CASE o = "ok" /\ task.op \in {"paused", "resumed"}
    <3>1. Busy
      BY <2>5 DEF Busy, Opening, Change
    <3>. QED BY <1>10, <2>5, <3>1, AddEventDoes, OnwardPlaced
  <2>. QED BY <1>10, <2>2, <2>3, <2>4, <2>5, AddEventDoes DEF Change
<1>11. ASSUME NEW o \in Outcome, PutTrack(o) PROVE Placed'
  <2>1. Busy /\ task.op # "started" /\ Serving
    BY <1>11, PutTrackDoes, Named DEF Busy, Placed, Places, Opening, Change, Tasks, Ops, Serving
  <2>2. CASE o = "ok"
    BY <1>11, <2>1, <2>2, PutTrackDoes, OnwardPlaced
  <2>3. CASE o # "ok"
    BY <1>11, <2>1, <2>3, PutTrackDoes, DonePlaced
  <2>. QED BY <2>2, <2>3
<1>12. ASSUME NEW o \in Outcome, ListAudioTracks(o) PROVE Placed'
  <2>1. Busy
    BY <1>12, ListDoes, Named DEF Busy, Placed, Places, Opening, Change, Tasks, Ops
  <2>. QED BY <1>12, <2>1, ListDoes, OnwardPlaced
<1>13. ASSUME NEW o \in Outcome, EnqueueJob(o) PROVE Placed'
  <2>1. Serving
    BY <1>13, EnqueueJobDoes DEF Serving
  <2>. QED BY <1>13, <2>1, EnqueueJobDoes, DonePlaced
<1>14. ASSUME NEW o \in Outcome, AddInterrupted(o) PROVE Placed'
  BY <1>14, AddInterruptedDoes, DiesPlaced DEF Placed, Places, Serving, Opening, At
<1>15. ASSUME NEW t \in Track, NEW o \in Outcome, NextSegment(t, o) PROVE Placed'
  <2>1. Busy /\ "poll" \in Places(task.op)
    BY <1>15, NextSegmentDoes, Named DEF Busy, Placed, Places, Opening, Change, Tasks, Ops
  <2>. QED BY <1>15, <2>1, NextSegmentDoes, OnwardPlaced
<1>16. ASSUME NEW e \in Egress, NEW o \in Outcome, StartEgress(e, o) PROVE Placed'
  <2>1. Busy
    BY <1>16, StartEgressDoes, Named DEF Busy, Placed, Places, Opening, Change, Tasks, Ops
  <2>2. CASE o = "ok"
    BY <1>16, <2>1, <2>2, StartEgressDoes, OnwardPlaced
  <2>3. CASE o # "ok"
    BY <1>16, <2>1, <2>3, StartEgressDoes, Nothing
       DEF Placed, Places, Serving, Opening, Others, Busy, Change
  <2>. QED BY <2>2, <2>3
<1>17. ASSUME NEW r \in Recording, NEW o \in Outcome, MarkInterrupted(r, o) PROVE Placed'
  BY <1>17, MarkDoes, DiesPlaced DEF Placed, Places, Serving, Opening, At
<1>. QED
  BY <1>1, <1>2, <1>3, <1>4, <1>5, <1>6, <1>7, <1>8, <1>9, <1>10, <1>11, <1>12, <1>13, <1>14, <1>15,
     <1>16, <1>17, StepCases

-----------------------------------------------------------------------------
(* The order of recordings.  The ids that are not handed out yet, and those still waiting on the   *)
(* chain, have left no trace; no id waits twice; and the recording in memory is not queued.        *)

Exists(e)  == egress[e].state # "none"
Pending(r) == \E i \in 1..Len(chain) : chain[i].op = "started" /\ chain[i].rec = r
Waiting(r) == r > issued \/ Pending(r)

Unused(r) ==
  /\ events[r] = <<>> /\ r \notin jobs /\ live.rec # r
  /\ \A e \in Egress : Exists(e) => egress[e].rec # r
Untouched(r) == recordings[r] = "none" /\ Unused(r) /\ (task.op = "started" => task.rec # r)

Distinct ==
  \A i \in 1..Len(chain) : chain[i].op = "started" =>
    /\ chain[i].rec <= issued
    /\ \A j \in 1..Len(chain) : chain[j].op = "started" /\ chain[i].rec = chain[j].rec => i = j

Ordered ==
  /\ \A r \in Recording : Waiting(r) => Untouched(r)
  /\ Distinct
  /\ At("started", "row") => recordings[task.rec] = "none" /\ Unused(task.rec)
  /\ At("started", "event") => recordings[task.rec] = "recording" /\ Unused(task.rec)
  /\ live.rec \notin jobs
  /\ At("recover", "interrupted") => task.rec \in Recording /\ recordings[task.rec] = "failed"
  /\ \A e \in Egress : Exists(e) => egress[e].rec # None

LEMMA InitOrdered == Init => Ordered
  BY Nothing
     DEF Init, Ordered, Distinct, Waiting, Pending, Untouched, Unused, Exists, At, None, Recording

\* A recording stays unused until a step is about it.
LEMMA UnusedKept ==
  ASSUME TypeOK, Located, [Next]_vars, NEW r \in Recording, Unused(r),
         events'[r] = events[r], r \notin jobs', live'.rec # r
  PROVE  Unused(r)'
<1>1. CASE ~\E e \in Egress, o \in Outcome : StartEgress(e, o)
  BY <1>1, EgressesStay DEF Unused, Exists
<1>2. ASSUME NEW d \in Egress, NEW o \in Outcome, StartEgress(d, o) PROVE Unused(r)'
  <2>1. \/ egress' = egress
        \/ egress' = [egress EXCEPT ![d] = [rec |-> live.rec, track |-> task.cur,
                                            state |-> "active"]]
    BY <1>2, StartEgressDoes
  <2>2. egress \in Egresses
    BY Named
  <2>3. ASSUME NEW e \in Egress PROVE egress'[e] = egress[e] \/ egress'[e].rec = live.rec
    BY <2>1, <2>2 DEF Egresses
  <2>. QED BY <2>3 DEF Unused, Exists
<1>. QED BY <1>1, <1>2

LEMMA NotNone == \A r \in Recording : r # None
  BY DEF Recording, None

\* No step is about a recording that is unused, not failed, and not the one of the task.
LEMMA LeftAlone ==
  ASSUME TypeOK, Located, Ordered, [Next]_vars, NEW r \in Recording,
         Unused(r), r # Current, recordings[r] \notin {"failed", "recording"}
  PROVE  events'[r] = events[r] /\ r \notin jobs' /\ live'.rec # r /\ recordings'[r] = recordings[r]
<1>0. r # None /\ live.rec # r /\ r \notin jobs /\ NoLive.rec # r /\ (Done => live'.rec # r)
  BY NotNone, Nothing DEF Unused, Done
<1>1. CASE Outside
  BY <1>0, <1>1, OutsideDoes
<1>2. CASE Crash
  BY <1>0, <1>2, DiesDoes DEF Crash, database
<1>3. CASE Begin
  BY <1>0, <1>3, BeginDoes
<1>4. CASE LeaveRunning
  BY <1>0, <1>4, LeaveRunningDoes
<1>5. CASE Collect
  BY <1>0, <1>5, CollectDoes
<1>6. CASE ResultRejected
  BY <1>0, <1>6, ResultRejectedDoes
<1>7. CASE Boot \/ Listen
  BY <1>0, <1>7, BootDoes
<1>8. ASSUME NEW t \in Track, CheckAck(t)
      PROVE  events'[r] = events[r] /\ r \notin jobs' /\ live'.rec # r /\ recordings'[r] = recordings[r]
  BY <1>0, <1>8, CheckAckDoes
<1>9. ASSUME NEW o \in Outcome,
             PutRecording(o) \/ AddEvent(o) \/ PutTrack(o) \/ ListAudioTracks(o)
      PROVE  events'[r] = events[r] /\ r \notin jobs' /\ live'.rec # r /\ recordings'[r] = recordings[r]
  <2>1. CASE PutRecording(o)
    BY <1>0, <2>1, PutRecordingDoes, Named
  <2>2. CASE AddEvent(o)
    <3>1. live'.rec # r
      BY <1>0, <2>2, AddEventDoes DEF Current, Change
    <3>2. events'[r] = events[r]
      BY <2>2, AddEventDoes, Named
    <3>. QED BY <1>0, <2>2, <3>1, <3>2, AddEventDoes
  <2>3. CASE PutTrack(o)
    BY <1>0, <2>3, PutTrackDoes
  <2>4. CASE ListAudioTracks(o)
    BY <1>0, <2>4, ListDoes
  <2>. QED BY <1>9, <2>1, <2>2, <2>3, <2>4
<1>10. ASSUME NEW o \in Outcome,
              \/ EnqueueJob(o) \/ AddInterrupted(o)
              \/ \E t \in Track : NextSegment(t, o)
              \/ \E e \in Egress : StartEgress(e, o)
              \/ \E q \in Recording : MarkInterrupted(q, o)
      PROVE  events'[r] = events[r] /\ r \notin jobs' /\ live'.rec # r /\ recordings'[r] = recordings[r]
  <2>1. CASE EnqueueJob(o)
    BY <1>0, <2>1, EnqueueJobDoes
  <2>2. CASE AddInterrupted(o)
    <3>1. task.rec # r
      BY <2>2, AddInterruptedDoes DEF Ordered
    <3>. QED BY <1>0, <2>2, <3>1, AddInterruptedDoes, DiesDoes, Named
  <2>3. ASSUME NEW t \in Track, NextSegment(t, o)
        PROVE  events'[r] = events[r] /\ r \notin jobs' /\ live'.rec # r /\ recordings'[r] = recordings[r]
    BY <1>0, <2>3, NextSegmentDoes
  <2>4. ASSUME NEW e \in Egress, StartEgress(e, o)
        PROVE  events'[r] = events[r] /\ r \notin jobs' /\ live'.rec # r /\ recordings'[r] = recordings[r]
    BY <1>0, <2>4, StartEgressDoes
  <2>5. ASSUME NEW q \in Recording, MarkInterrupted(q, o)
        PROVE  events'[r] = events[r] /\ r \notin jobs' /\ live'.rec # r /\ recordings'[r] = recordings[r]
    <3>1. q # r
      BY <2>5, MarkDoes DEF CutOff
    <3>. QED BY <1>0, <2>5, <3>1, MarkDoes, DiesDoes, Named
  <2>. QED BY <1>10, <2>1, <2>2, <2>3, <2>4, <2>5
<1>. QED BY <1>1, <1>2, <1>3, <1>4, <1>5, <1>6, <1>7, <1>8, <1>9, <1>10, StepCases

\* Nothing waits that did not wait before, or is the id after the last; and no id waits twice.
LEMMA QueueKept ==
  ASSUME TypeOK, Ordered, [Next]_vars
  PROVE  Distinct' /\ \A r \in Recording : Waiting(r)' => Waiting(r)
<1>. issued \in Nat /\ chain \in Seq(Work)
  BY CaptureAssumption DEF TypeOK
<1>1. CASE UNCHANGED <<issued, chain>>
  BY <1>1 DEF Ordered, Distinct, Waiting, Pending
<1>2. CASE chain' = <<>> /\ issued' = issued
  BY <1>2 DEF Distinct, Waiting, Pending
<1>3. CASE chain # <<>> /\ chain' = Tail(chain) /\ issued' = issued
  <2>1. Len(chain') = Len(chain) - 1 /\ \A i \in 1..Len(chain') : chain'[i] = chain[i + 1]
    BY <1>3
  <2>. QED BY <1>3, <2>1 DEF Ordered, Distinct, Waiting, Pending
<1>4. ASSUME NEW w \in Work, chain' = Append(chain, w),
             \/ w.op # "started" /\ issued' = issued
             \/ w.rec = issued' /\ issued' = issued + 1
      PROVE  Distinct' /\ \A r \in Recording : Waiting(r)' => Waiting(r)
  <2>1. Len(chain') = Len(chain) + 1 /\ chain'[Len(chain) + 1] = w
        /\ \A i \in 1..Len(chain) : chain'[i] = chain[i]
    BY <1>4
  <2>2. \A i \in 1..Len(chain') : i \in 1..Len(chain) \/ i = Len(chain) + 1
    BY <2>1
  <2>3. \A i \in 1..Len(chain) : chain[i].op = "started" => chain[i].rec \in Nat
    BY DEF Work, Recording
  <2>4. ASSUME NEW i \in 1..Len(chain'), chain'[i].op = "started",
               NEW j \in 1..Len(chain'), chain'[j].op = "started", chain'[i].rec = chain'[j].rec
        PROVE  i = j /\ chain'[i].rec <= issued'
    <3>1. \A k \in 1..Len(chain) : chain[k].op = "started" => chain[k].rec <= issued
      BY DEF Ordered, Distinct
    <3>2. CASE w.op # "started" /\ issued' = issued
      <4>1. i \in 1..Len(chain) /\ j \in 1..Len(chain)
        BY <2>1, <2>2, <2>4, <3>2
      <4>. QED BY <2>1, <2>4, <3>2, <4>1 DEF Ordered, Distinct
    <3>3. CASE w.rec = issued' /\ issued' = issued + 1
      <4>1. \A k \in 1..Len(chain) : chain[k].op = "started" =>
              chain[k].rec # w.rec /\ chain[k].rec <= issued'
        BY <2>3, <3>1, <3>3
      <4>2. CASE i \in 1..Len(chain) /\ j \in 1..Len(chain)
        <5>1. i = j
          BY <2>1, <2>4, <4>2 DEF Ordered, Distinct
        <5>. QED BY <2>1, <2>4, <4>1, <4>2, <5>1
      <4>3. CASE ~(i \in 1..Len(chain) /\ j \in 1..Len(chain))
        BY <2>1, <2>2, <2>4, <3>3, <4>1, <4>3
      <4>. QED BY <4>2, <4>3
    <3>. QED BY <1>4, <3>2, <3>3
  <2>5. ASSUME NEW r \in Recording, Waiting(r)' PROVE Waiting(r)
    <3>1. CASE r > issued'
      BY <1>4, <3>1 DEF Waiting, Recording
    <3>2. ASSUME NEW i \in 1..Len(chain'), chain'[i].op = "started", chain'[i].rec = r PROVE Waiting(r)
      <4>1. CASE i \in 1..Len(chain)
        BY <2>1, <3>2, <4>1 DEF Waiting, Pending
      <4>2. CASE i = Len(chain) + 1
        BY <1>4, <2>1, <3>2, <4>2 DEF Waiting
      <4>. QED BY <2>2, <4>1, <4>2
    <3>. QED BY <2>5, <3>1, <3>2 DEF Waiting, Pending
  <2>. QED BY <2>4, <2>5 DEF Distinct
<1>5. CASE Outside
  <2>1. \/ UNCHANGED <<issued, chain>>
        \/ \E w \in Work : /\ chain' = Append(chain, w)
                           /\ \/ w.op # "started" /\ issued' = issued
                              \/ w.rec = issued' /\ issued' = issued + 1
    <3>1. CASE Start
      <4>1. issued' = issued + 1 /\ chain' = Append(chain, [op |-> "started", rec |-> issued'])
            /\ issued' \in Recording
        BY <3>1, CaptureAssumption DEF Start, Enqueue, TypeOK, Recording
      <4>2. [op |-> "started", rec |-> issued'] \in Work
        BY <4>1 DEF Work
      <4>. QED BY <4>1, <4>2
    <3>2. CASE Pause \/ Resume \/ Stop \/ Tick \/ \E u \in User : RecordingAck(u)
      <4>1. PICK op \in {"paused", "resumed", "stopped", "reconcile"} :
              chain' = Append(chain, [op |-> op, rec |-> None]) /\ issued' = issued
        BY <3>2 DEF Pause, Resume, Stop, Tick, RecordingAck, Enqueue, server
      <4>2. [op |-> op, rec |-> None] \in Work /\ [op |-> op, rec |-> None].op # "started"
        BY DEF Work
      <4>. QED BY <4>1, <4>2
    <3>3. CASE LiveKitStep \/ UNCHANGED vars \/ \E u \in User, r \in Recording : AckExpires(r, u)
      BY <3>3 DEF LiveKitStep, Publish, Mute, Unmute, Unpublish, MicChanges, EgressCompletes,
                  EgressFails, AckExpires, vars, server
    <3>. QED BY <1>5, <3>1, <3>2, <3>3 DEF Outside, Request, Acknowledge
  <2>. QED BY <1>1, <1>4, <2>1
<1>6. CASE Dies
  BY <1>2, <1>6, DiesDoes
<1>7. CASE ~Outside /\ ~Dies
  <2>1. UNCHANGED <<issued, chain>> \/ (chain # <<>> /\ chain' = Tail(chain) /\ issued' = issued)
    BY <1>7, StepCases
       DEF Crash, Begin, LeaveRunning, Collect, ResultRejected, Boot, Listen, CheckAck, PutRecording,
           AddEvent, PutTrack, ListAudioTracks, EnqueueJob, AddInterrupted, NextSegment, StartEgress,
           MarkInterrupted, server
  <2>. QED BY <1>1, <1>3, <2>1
<1>. QED BY <1>5, <1>6, <1>7

\* Whom the task is about changes when it begins, and when the recovery takes up a recording.
LEMMA TaskRec ==
  ASSUME TypeOK, Located, [Next]_vars, task'.op = "started"
  PROVE  \/ /\ task.op = "started" /\ task'.rec = task.rec
            /\ Outside \/ (\E o \in Outcome : PutRecording(o)) \/ task'.pc \notin {"row", "event"}
         \/ /\ Begin /\ Head(chain).op = "started" /\ task'.rec = Head(chain).rec
            /\ task'.pc = "row"
<1>. USE Nothing
<1>1. CASE Done
  BY <1>1 DEF Done
<1>2. CASE Dies
  BY <1>2, DiesDoes
<1>3. CASE Outside
  BY <1>3, OutsideDoes
<1>4. CASE Begin
  <2>1. Fresh(Head(chain)).op = Head(chain).op
    BY DEF Fresh, Idle
  <2>. QED BY <1>4, <2>1, BeginDoes DEF Finishes
<1>5. CASE LeaveRunning
  BY <1>5, LeaveRunningDoes DEF Finishes
<1>6. CASE Collect
  BY <1>6, CollectDoes DEF Finishes, Moves
<1>7. CASE Boot \/ Listen
  BY <1>7, BootDoes
<1>8. ASSUME NEW t \in Track, CheckAck(t)
      PROVE  task.op = "started" /\ task'.rec = task.rec /\ task'.pc \notin {"row", "event"}
  BY <1>8, CheckAckDoes DEF Starts, Moves
<1>9. ASSUME NEW o \in Outcome, o = "ok", PutRecording(o) \/ AddEvent(o) \/ PutTrack(o)
      PROVE  /\ task.op = "started" /\ task'.rec = task.rec
             /\ PutRecording(o) \/ task'.pc \notin {"row", "event"}
  BY <1>9, PutRecordingDoes, AddEventDoes, PutTrackDoes DEF Finishes, Moves, Change
<1>10. ASSUME NEW o \in Outcome, o # "ok",
              PutRecording(o) \/ AddEvent(o) \/ PutTrack(o)
       PROVE  Done
  BY <1>10, PutRecordingDoes, AddEventDoes, PutTrackDoes
<1>11. ASSUME NEW o \in Outcome, ListAudioTracks(o)
       PROVE  task.op = "started" /\ task'.rec = task.rec /\ task'.pc \notin {"row", "event"}
  BY <1>11, ListDoes DEF Starts
<1>12. ASSUME NEW o \in Outcome, NEW t \in Track, NextSegment(t, o)
       PROVE  task.op = "started" /\ task'.rec = task.rec /\ task'.pc \notin {"row", "event"}
  BY <1>12, NextSegmentDoes DEF Moves
<1>13. ASSUME NEW o \in Outcome, NEW e \in Egress, StartEgress(e, o)
       PROVE  task.op = "started" /\ task'.rec = task.rec /\ task'.pc \notin {"row", "event"}
  BY <1>13, StartEgressDoes DEF Starts
<1>14. ASSUME NEW o \in Outcome, AddInterrupted(o) \/ \E r \in Recording : MarkInterrupted(r, o)
       PROVE  Dies
  BY <1>14, AddInterruptedDoes, MarkDoes
<1>15. ASSUME NEW o \in Outcome, EnqueueJob(o) PROVE Done
  BY <1>15, EnqueueJobDoes
<1>16. ResultRejected => Done
  BY ResultRejectedDoes
<1>17. Crash => Dies
  BY DEF Crash
<1>. QED
  BY <1>1, <1>2, <1>3, <1>4, <1>5, <1>6, <1>7, <1>8, <1>9, <1>10, <1>11, <1>12, <1>13, <1>14, <1>15,
     <1>16, <1>17, StepCases

\* What waits stays without a trace, also of the task that begins.
LEMMA WaitingUntouched ==
  ASSUME TypeOK, Located, Ordered, [Next]_vars, NEW r \in Recording, Waiting(r)'
  PROVE  Untouched(r)'
<1>1. Waiting(r) /\ Untouched(r)
  BY QueueKept DEF Ordered
<1>2. r # Current
  BY <1>1 DEF Untouched, Unused, Current
<1>3. Unused(r)' /\ recordings'[r] = "none"
  BY <1>1, <1>2, LeftAlone, UnusedKept DEF Untouched
<1>4. ASSUME task'.op = "started" PROVE task'.rec # r
  <2>1. CASE task.op = "started" /\ task'.rec = task.rec
    BY <1>1, <2>1 DEF Untouched
  <2>2. CASE Begin /\ Head(chain).op = "started" /\ task'.rec = Head(chain).rec
    <3>1. /\ chain # <<>> /\ chain' = Tail(chain) /\ issued' = issued /\ chain \in Seq(Work)
          /\ issued \in Nat
      <4>1. chain \in Seq(Work) /\ issued \in Nat
        BY CaptureAssumption DEF TypeOK
      <4>2. chain # <<>> /\ chain' = Tail(chain) /\ issued' = issued
        BY <2>2, BeginDoes
      <4>. QED BY <4>1, <4>2
    <3>2. /\ Head(chain) = chain[1] /\ 1 \in 1..Len(chain)
          /\ \A i \in 1..Len(chain') : chain'[i] = chain[i + 1] /\ i + 1 \in 1..Len(chain) /\ i + 1 # 1
      BY <3>1
    <3>3. chain[1].rec <= issued /\ chain[1].rec \in Nat
      BY <2>2, <3>2, <3>1 DEF Ordered, Distinct, Work, Recording
    <3>. QED BY <2>2, <3>1, <3>2, <3>3 DEF Waiting, Pending, Ordered, Distinct
  <2>. QED BY <1>4, <2>1, <2>2, TaskRec
<1>. QED BY <1>3, <1>4 DEF Untouched

\* While a start is at its row or at its bookmark, nobody else is about its recording.
LEMMA OpeningKept ==
  ASSUME TypeOK, Located, Ordered, [Next]_vars, Opening'
  PROVE  /\ At("started", "row")' => recordings'[task'.rec] = "none" /\ Unused(task.rec)'
         /\ At("started", "event")' => recordings'[task'.rec] = "recording" /\ Unused(task.rec)'
<1>1. CASE Outside
  <2>1. UNCHANGED <<task, live, recordings, events, jobs>>
    BY <1>1, OutsideDoes
  <2>2. Opening /\ task.rec \in Recording /\ Unused(task.rec)
    BY <2>1 DEF Opening, At, Ordered, Located, LocatedTask
  <2>3. Unused(task.rec)'
    BY <2>1, <2>2, UnusedKept DEF Unused
  <2>. QED BY <2>1, <2>2, <2>3 DEF At, Ordered
<1>2. CASE Begin
  <2>1. /\ task'.op = "started" /\ task'.pc = "row" /\ task'.rec = Head(chain).rec
        /\ Head(chain).op = "started" /\ task'.rec \in Recording /\ live' = live
        /\ UNCHANGED <<recordings, events, jobs>> /\ chain # <<>> /\ task = Idle
    BY <1>2, BeginDoes, TaskRec, Nothing DEF Opening
  <2>2. PICK r \in Recording : r = task'.rec
    BY <2>1
  <2>3. Waiting(r)
    <3>1. Head(chain) = chain[1] /\ 1 \in 1..Len(chain)
      BY <2>1 DEF TypeOK
    <3>. QED BY <2>1, <2>2, <3>1 DEF Waiting, Pending
  <2>4. recordings[r] = "none" /\ Unused(r)
    BY <2>3 DEF Ordered, Untouched
  <2>5. Unused(r)'
    BY <2>1, <2>4, UnusedKept DEF Unused
  <2>. QED BY <2>1, <2>2, <2>4, <2>5 DEF At, Unused
<1>3. ASSUME NEW o \in Outcome, PutRecording(o)
      PROVE  At("started", "event")' /\ recordings'[task'.rec] = "recording" /\ Unused(task.rec)'
  <2>1. o = "ok"
    BY <1>3, PutRecordingDoes, Nothing DEF Opening, Done
  <2>2. /\ task.op = "started" /\ task.pc = "row" /\ live' = live /\ Moves("event")
        /\ task.rec \in Recording /\ Unused(task.rec)
    BY <1>3, <2>1, PutRecordingDoes DEF Opening, Moves, At, Ordered, Located, LocatedTask
  <2>3. recordings' = [recordings EXCEPT ![task.rec] = "recording"] /\ UNCHANGED <<events, jobs>>
    <3>1. Current = task.rec /\ Landed(o)
      BY <2>1, <2>2 DEF Landed, Current
    <3>. QED BY <1>3, <2>2, <3>1, PutRecordingDoes
  <2>4. Unused(task.rec)'
    BY <2>2, <2>3, UnusedKept DEF Unused, Moves
  <2>. QED BY <2>2, <2>3, <2>4, Named DEF At, Moves
<1>. QED
  <2>1. task'.op = "started" /\ task'.pc \in {"row", "event"}
    BY DEF Opening
  <2>. QED BY <1>1, <1>2, <1>3, <2>1, TaskRec DEF At

\* The recording in memory is changed by a start, and by tasks that are over; only the last step of a
\* stop queues a job.
LEMMA LiveRec ==
  ASSUME TypeOK, Located, [Next]_vars
  PROVE  \/ live'.rec = live.rec /\ jobs' = jobs
         \/ live' = NoLive /\ jobs' = jobs
         \/ /\ At("started", "event") /\ AddEvent("ok") /\ live'.rec = task.rec /\ jobs' = jobs
            /\ live'.inMap
         \/ /\ task.op = "stopped" /\ Done /\ jobs' \subseteq jobs \cup {live.rec}
            /\ \E o \in Outcome : EnqueueJob(o)
<1>1. CASE Done /\ jobs' = jobs
  BY <1>1 DEF Done
<1>2. CASE Dies /\ jobs' = jobs
  BY <1>2, DiesDoes
<1>3. CASE Outside
  BY <1>3, OutsideDoes
<1>4. CASE Begin \/ LeaveRunning \/ Collect \/ Boot \/ Listen
  BY <1>4, BeginDoes, LeaveRunningDoes, CollectDoes, BootDoes
<1>5. CASE ResultRejected
  BY <1>1, <1>5, ResultRejectedDoes
<1>6. ASSUME NEW t \in Track, CheckAck(t) PROVE live'.rec = live.rec /\ jobs' = jobs
  BY <1>6, CheckAckDoes
<1>7. ASSUME NEW o \in Outcome, PutRecording(o) \/ PutTrack(o) \/ ListAudioTracks(o),
             ~(Done /\ jobs' = jobs)
      PROVE  live'.rec = live.rec /\ jobs' = jobs
  BY <1>7, PutRecordingDoes, PutTrackDoes, ListDoes
<1>8. ASSUME NEW o \in Outcome, AddEvent(o), ~(Done /\ jobs' = jobs)
      PROVE  \/ live'.rec = live.rec /\ jobs' = jobs
             \/ /\ At("started", "event") /\ AddEvent("ok") /\ live'.rec = task.rec /\ jobs' = jobs
                /\ live'.inMap
  BY <1>8, AddEventDoes DEF Change, At
<1>9. ASSUME NEW o \in Outcome, EnqueueJob(o)
      PROVE  task.op = "stopped" /\ Done /\ jobs' \subseteq jobs \cup {live.rec}
  BY <1>9, EnqueueJobDoes
<1>10. ASSUME NEW o \in Outcome, AddInterrupted(o) \/ \E r \in Recording : MarkInterrupted(r, o),
              ~(Dies /\ jobs' = jobs)
       PROVE  live'.rec = live.rec /\ jobs' = jobs
  BY <1>10, AddInterruptedDoes, MarkDoes
<1>11. ASSUME NEW o \in Outcome, NEW t \in Track, NextSegment(t, o)
       PROVE  live'.rec = live.rec /\ jobs' = jobs
  BY <1>11, NextSegmentDoes
<1>12. ASSUME NEW o \in Outcome, NEW e \in Egress, StartEgress(e, o)
       PROVE  live'.rec = live.rec /\ jobs' = jobs
  BY <1>12, StartEgressDoes
<1>13. Crash => Dies /\ jobs' = jobs
  BY DEF Crash, database
<1>. QED
  BY <1>1, <1>2, <1>3, <1>4, <1>5, <1>6, <1>7, <1>8, <1>9, <1>10, <1>11, <1>12, <1>13, StepCases

\* The recovery takes up a recording when it has marked it failed, and keeps it until its bookmark.
LEMMA RecoverRec ==
  ASSUME TypeOK, Located, [Next]_vars, At("recover", "interrupted")'
  PROVE  \/ At("recover", "interrupted") /\ UNCHANGED <<task, recordings>>
         \/ \E r \in Recording : /\ At("recover", "scan") /\ CutOff(r) /\ task'.rec = r
                                 /\ recordings' = [recordings EXCEPT ![r] = "failed"]
<1>. USE Nothing
<1>0. task'.op = "recover" /\ task'.pc = "interrupted"
  BY DEF At
<1>1. Done \/ Dies => FALSE
  BY <1>0, DiesDoes DEF Done
<1>2. CASE Outside
  BY <1>0, <1>2, OutsideDoes DEF At
<1>3. CASE Begin \/ LeaveRunning \/ Collect
  <2>1. Fresh(Head(chain)).op = Head(chain).op
    BY DEF Fresh, Idle
  <2>. QED BY <1>0, <1>3, <2>1, BeginDoes, LeaveRunningDoes, CollectDoes DEF Finishes, Moves
<1>4. CASE Boot \/ Listen
  BY <1>0, <1>4, BootDoes
<1>5. ASSUME NEW t \in Track, CheckAck(t) PROVE FALSE
  BY <1>0, <1>5, CheckAckDoes DEF Starts, Moves
<1>6. ASSUME NEW o \in Outcome, PutRecording(o) \/ PutTrack(o) \/ ListAudioTracks(o) \/ AddEvent(o)
      PROVE  Done
  BY <1>0, <1>6, PutRecordingDoes, PutTrackDoes, ListDoes, AddEventDoes
     DEF Starts, Finishes, Moves, Change
<1>7. ASSUME NEW o \in Outcome, EnqueueJob(o) \/ AddInterrupted(o) PROVE Done \/ Dies
  BY <1>0, <1>7, EnqueueJobDoes, AddInterruptedDoes
<1>8. ASSUME NEW r \in Recording, NEW o \in Outcome, MarkInterrupted(r, o), ~Dies
      PROVE  /\ At("recover", "scan") /\ CutOff(r) /\ task'.rec = r
             /\ recordings' = [recordings EXCEPT ![r] = "failed"]
  BY <1>8, MarkDoes DEF Landed
<1>9. ASSUME NEW o \in Outcome, NEW t \in Track, NextSegment(t, o) PROVE FALSE
  BY <1>0, <1>9, NextSegmentDoes DEF Moves
<1>10. ASSUME NEW o \in Outcome, NEW e \in Egress, StartEgress(e, o) PROVE FALSE
  BY <1>0, <1>10, StartEgressDoes DEF Starts
<1>11. (Crash => Dies) /\ (ResultRejected => Done)
  BY ResultRejectedDoes DEF Crash
<1>. QED BY <1>1, <1>2, <1>3, <1>4, <1>5, <1>6, <1>7, <1>8, <1>9, <1>10, <1>11, StepCases

\* Every step keeps Ordered.
LEMMA OrderedInductive ==
  ASSUME TypeOK, Located, Placed, Ordered, [Next]_vars
  PROVE  Ordered'
<1>1. \A r \in Recording : Waiting(r)' => Untouched(r)'
  BY WaitingUntouched
<1>2. Distinct'
  BY QueueKept
<1>3. /\ At("started", "row")' => recordings'[task'.rec] = "none" /\ Unused(task.rec)'
      /\ At("started", "event")' => recordings'[task'.rec] = "recording" /\ Unused(task.rec)'
  BY OpeningKept DEF Opening, At
<1>4. live'.rec \notin jobs'
  <2>1. None \notin jobs
    BY NotNone, Named
  <2>2. CASE task.op = "stopped" /\ Done /\ jobs' \subseteq jobs \cup {live.rec}
             /\ \E o \in Outcome : EnqueueJob(o)
    <3>1. live' = NoLive /\ live.rec \in Recording
      BY <2>2 DEF Done, Placed, Located, LocatedTask
    <3>. QED BY <2>1, <2>2, <3>1, NotNone, Nothing
  <2>. QED BY <2>1, <2>2, LiveRec, Nothing DEF Ordered, Unused
<1>5. At("recover", "interrupted")' => task'.rec \in Recording /\ recordings'[task'.rec] = "failed"
  BY RecoverRec, Named DEF Ordered
<1>6. ASSUME NEW e \in Egress, Exists(e)' PROVE egress'[e].rec # None
  <2>1. CASE \A d \in Egress, o \in Outcome : ~StartEgress(d, o)
    BY <1>6, <2>1, EgressesStay DEF Ordered, Exists
  <2>2. ASSUME NEW d \in Egress, NEW o \in Outcome, StartEgress(d, o) PROVE egress'[e].rec # None
    <3>1. \/ egress' = egress
          \/ egress' = [egress EXCEPT ![d] = [rec |-> live.rec, track |-> task.cur,
                                              state |-> "active"]]
      BY <2>2, StartEgressDoes
    <3>2. egress'[e] = egress[e] \/ egress'[e].rec = live.rec
      BY <3>1, Named DEF Egresses
    <3>3. live.rec # None
      BY <2>2, StartEgressDoes, NotNone
    <3>. QED BY <1>6, <3>2, <3>3 DEF Ordered, Exists
  <2>. QED BY <2>1, <2>2
<1>. QED BY <1>1, <1>2, <1>3, <1>4, <1>5, <1>6 DEF Ordered, At, Exists

-----------------------------------------------------------------------------
(* Segments and egresses.  What memory calls the file of a track is an egress of that track and of *)
(* the live recording, and unless the answer to a start got lost no other one is running: a task    *)
(* starts egresses only for tracks that have none.                                                  *)

StartLost == {<<"start", "lost">>}

SegmentsFit ==
  \A t \in Track : live.segments[t] # None =>
    LET e == live.segments[t] IN
    Exists(e) /\ egress[e].rec = live.rec /\ egress[e].track = t
FileFits ==
  task.pc = "register" =>
    /\ task.file \in Egress /\ egress[task.file].rec = live.rec
    /\ egress[task.file].track = task.cur /\ live.segments[task.cur] = None
    /\ egress[task.file].state = "complete"
OneEach ==
  Without(StartLost) => \A e \in Egress :
    Capturing(e) /\ egress[e].rec = live.rec => live.segments[egress[e].track] = e
UntrackedTodo ==
  /\ task.pc \in {"ack", "start"} => task.todo \cap Tracked(live) = {}
  /\ task.pc = "start" => task.cur \in task.todo

TrackedTodo ==
  /\ task.pc \in {"finish", "poll"} => task.todo \subseteq Tracked(live)
  /\ task.pc = "poll" => task.cur \in task.todo
  /\ task.pc = "register" => task.todo \ {task.cur} \subseteq Tracked(live)

Segments == SegmentsFit /\ FileFits /\ OneEach /\ UntrackedTodo /\ TrackedTodo

\* Faults stay, so what holds without some held without them before.
LEMMA WithoutKept ==
  ASSUME NEW F, faults \subseteq faults', Without(F)'
  PROVE  Without(F)
  BY DEF Without

LEMMA FaultsKept == ASSUME TypeOK, Located, [Next]_vars PROVE faults \subseteq faults'
<1>1. CASE Begin \/ LeaveRunning \/ Collect \/ ResultRejected \/ Boot \/ Listen
  BY <1>1, BeginDoes, LeaveRunningDoes, CollectDoes, ResultRejectedDoes, BootDoes
<1>2. ASSUME NEW t \in Track, CheckAck(t) PROVE faults \subseteq faults'
  BY <1>2, CheckAckDoes
<1>3. ASSUME NEW o \in Outcome,
             \/ PutRecording(o) \/ AddEvent(o) \/ PutTrack(o) \/ ListAudioTracks(o)
             \/ EnqueueJob(o) \/ AddInterrupted(o)
      PROVE  faults \subseteq faults'
  BY <1>3, PutRecordingDoes, AddEventDoes, PutTrackDoes, ListDoes, EnqueueJobDoes, AddInterruptedDoes
<1>4. ASSUME NEW o \in Outcome,
             \/ \E t \in Track : NextSegment(t, o)
             \/ \E e \in Egress : StartEgress(e, o)
             \/ \E r \in Recording : MarkInterrupted(r, o)
      PROVE  faults \subseteq faults'
  BY <1>4, NextSegmentDoes, StartEgressDoes, MarkDoes
<1>. QED BY <1>1, <1>2, <1>3, <1>4, StepCases, OutsideDoes DEF Crash

\* An egress that is there goes on recording, is asked to stop, or ends; it never comes back.
LEMMA EgressesEnd ==
  ASSUME TypeOK, Located, [Next]_vars, ~\E e \in Egress, o \in Outcome : StartEgress(e, o)
  PROVE  \A e \in Egress :
           \/ egress'[e] = egress[e]
           \/ /\ Capturing(e) /\ egress'[e].rec = egress[e].rec /\ egress'[e].track = egress[e].track
              /\ egress'[e].state \in {"ending", "complete", "failed"}
<1>1. ASSUME NEW d \in Egress, NEW s \in {"ending", "complete", "failed"}, Capturing(d),
             egress' = [egress EXCEPT ![d].state = s]
      PROVE  \A e \in Egress :
               \/ egress'[e] = egress[e]
               \/ /\ Capturing(e) /\ egress'[e].rec = egress[e].rec /\ egress'[e].track = egress[e].track
                  /\ egress'[e].state \in {"ending", "complete", "failed"}
  BY <1>1 DEF TypeOK
<1>2. \/ egress' = egress
      \/ \E d \in Egress, s \in {"ending", "complete", "failed"} :
           Capturing(d) /\ egress' = [egress EXCEPT ![d].state = s]
  <2>1. CASE Begin \/ LeaveRunning \/ Collect \/ ResultRejected \/ Boot \/ Listen \/ Crash
    BY <2>1, BeginDoes, LeaveRunningDoes, CollectDoes, ResultRejectedDoes, BootDoes DEF Crash, livekit
  <2>2. ASSUME NEW t \in Track, CheckAck(t) PROVE egress' = egress
    BY <2>2, CheckAckDoes
  <2>3. ASSUME NEW o \in Outcome,
               \/ PutRecording(o) \/ AddEvent(o) \/ PutTrack(o) \/ ListAudioTracks(o)
               \/ EnqueueJob(o) \/ AddInterrupted(o) \/ \E r \in Recording : MarkInterrupted(r, o)
        PROVE  egress' = egress
    BY <2>3, PutRecordingDoes, AddEventDoes, PutTrackDoes, ListDoes, EnqueueJobDoes,
       AddInterruptedDoes, MarkDoes
  <2>4. ASSUME NEW o \in Outcome, NEW t \in Track, NextSegment(t, o)
        PROVE  \/ egress' = egress
               \/ \E d \in Egress, x \in {"ending", "complete", "failed"} :
                    Capturing(d) /\ egress' = [egress EXCEPT ![d].state = x]
    BY <2>4, NextSegmentDoes DEF Capturing
  <2>5. CASE Outside
    <3>1. CASE Request \/ Acknowledge \/ Tick \/ UNCHANGED vars
      BY <3>1 DEF Request, Start, Pause, Resume, Stop, Acknowledge, RecordingAck, AckExpires, Tick,
                  vars, livekit
    <3>2. CASE LiveKitStep
      BY <3>2 DEF LiveKitStep, Publish, Mute, Unmute, Unpublish, MicChanges, EgressCompletes,
                  EgressFails, Capturing
    <3>. QED BY <2>5, <3>1, <3>2 DEF Outside
  <2>. QED BY <2>1, <2>2, <2>3, <2>4, <2>5, StepCases
<1>. QED BY <1>1, <1>2

\* How memory changes its recording and its segments.
LEMMA LiveSegments ==
  ASSUME TypeOK, Located, [Next]_vars
  PROVE  \/ live'.rec = live.rec /\ live'.segments = live.segments
         \/ live' = NoLive
         \/ /\ At("started", "event") /\ AddEvent("ok") /\ live'.rec = task.rec
            /\ \A t \in Track : live'.segments[t] = None
         \/ Collect
         \/ \E e \in Egress : StartEgress(e, "ok")
<1>1. CASE Done \/ Dies
  BY <1>1, DiesDoes DEF Done
<1>2. CASE Begin \/ LeaveRunning \/ Boot \/ Listen \/ Outside
  BY <1>2, BeginDoes, LeaveRunningDoes, BootDoes, OutsideDoes
<1>3. ASSUME NEW t \in Track, CheckAck(t) PROVE live' = live
  BY <1>3, CheckAckDoes
<1>4. ASSUME NEW o \in Outcome,
             \/ PutRecording(o) \/ PutTrack(o) \/ ListAudioTracks(o)
             \/ EnqueueJob(o) \/ AddInterrupted(o) \/ \E r \in Recording : MarkInterrupted(r, o),
             ~(Done \/ Dies)
      PROVE  live' = live
  BY <1>4, PutRecordingDoes, PutTrackDoes, ListDoes, EnqueueJobDoes, AddInterruptedDoes, MarkDoes
<1>5. ASSUME NEW o \in Outcome, AddEvent(o), ~(Done \/ Dies)
      PROVE  \/ live' = live
             \/ /\ At("started", "event") /\ AddEvent("ok") /\ live'.rec = task.rec
                /\ \A t \in Track : live'.segments[t] = None
  BY <1>5, AddEventDoes DEF At, Change
<1>6. ASSUME NEW o \in Outcome, NEW t \in Track, NextSegment(t, o) PROVE live' = live
  BY <1>6, NextSegmentDoes
<1>7. ASSUME NEW o \in Outcome, NEW e \in Egress, StartEgress(e, o), o # "ok" PROVE live' = live
  BY <1>7, StartEgressDoes
<1>8. (Crash => Dies) /\ (ResultRejected => Done)
  BY ResultRejectedDoes DEF Crash
<1>. QED BY <1>1, <1>2, <1>3, <1>4, <1>5, <1>6, <1>7, <1>8, StepCases

\* Only a collected file is registered.
LEMMA ToRegister ==
  ASSUME TypeOK, Located, [Next]_vars, task'.pc = "register"
  PROVE  Outside \/ (Collect /\ Moves("register"))
<1>. USE Nothing
<1>1. Done \/ Dies => FALSE
  BY DiesDoes DEF Done
<1>2. CASE Begin \/ LeaveRunning \/ Collect \/ Boot \/ Listen
  <2>1. CASE Begin
    BY <2>1, BeginDoes DEF Finishes
  <2>2. CASE LeaveRunning
    BY <2>2, LeaveRunningDoes DEF Finishes
  <2>3. CASE Collect
    BY <2>3, CollectDoes DEF Finishes, Moves
  <2>4. CASE Boot \/ Listen
    BY <2>4, BootDoes
  <2>. QED BY <1>2, <2>1, <2>2, <2>3, <2>4
<1>3. ASSUME NEW t \in Track, CheckAck(t) PROVE FALSE
  BY <1>3, CheckAckDoes DEF Starts, Moves
<1>4. ASSUME NEW o \in Outcome, PutRecording(o) \/ PutTrack(o) \/ ListAudioTracks(o) \/ AddEvent(o)
      PROVE  Done
  BY <1>4, PutRecordingDoes, PutTrackDoes, ListDoes, AddEventDoes
     DEF Starts, Finishes, Moves, Change
<1>5. ASSUME NEW o \in Outcome,
             EnqueueJob(o) \/ AddInterrupted(o) \/ \E r \in Recording : MarkInterrupted(r, o)
      PROVE  Done \/ Dies
  BY <1>5, EnqueueJobDoes, AddInterruptedDoes, MarkDoes
<1>6. ASSUME NEW o \in Outcome, NEW t \in Track, NextSegment(t, o) PROVE FALSE
  BY <1>6, NextSegmentDoes DEF Moves
<1>7. ASSUME NEW o \in Outcome, NEW e \in Egress, StartEgress(e, o) PROVE FALSE
  BY <1>7, StartEgressDoes DEF Starts
<1>8. (Crash => Dies) /\ (ResultRejected => Done)
  BY ResultRejectedDoes DEF Crash
<1>. QED BY <1>1, <1>2, <1>3, <1>4, <1>5, <1>6, <1>7, <1>8, StepCases

\* Only the loop of reconcile asks for acknowledgements and starts egresses.
LEMMA ToStarting ==
  ASSUME TypeOK, Located, [Next]_vars, task'.pc \in {"ack", "start"}
  PROVE  \/ Outside
         \/ \E o \in Outcome : ListAudioTracks(o)
         \/ \E t \in Track : CheckAck(t)
         \/ \E e \in Egress : StartEgress(e, "ok")
<1>. USE Nothing
<1>1. Done \/ Dies => FALSE
  BY DiesDoes DEF Done
<1>2. CASE Begin \/ LeaveRunning \/ Collect \/ Boot \/ Listen
  BY <1>2, BeginDoes, LeaveRunningDoes, CollectDoes, BootDoes DEF Finishes, Moves
<1>3. ASSUME NEW o \in Outcome, PutRecording(o) \/ PutTrack(o) \/ AddEvent(o)
      PROVE  Done
  BY <1>3, PutRecordingDoes, PutTrackDoes, AddEventDoes DEF Finishes, Moves, Change
<1>4. ASSUME NEW o \in Outcome,
             EnqueueJob(o) \/ AddInterrupted(o) \/ \E r \in Recording : MarkInterrupted(r, o)
      PROVE  Done \/ Dies
  BY <1>4, EnqueueJobDoes, AddInterruptedDoes, MarkDoes
<1>5. ASSUME NEW o \in Outcome, NEW t \in Track, NextSegment(t, o) PROVE FALSE
  BY <1>5, NextSegmentDoes DEF Moves
<1>6. ASSUME NEW o \in Outcome, NEW e \in Egress, StartEgress(e, o) PROVE o = "ok"
  BY <1>6, StartEgressDoes
<1>7. (Crash => Dies) /\ (ResultRejected => Done)
  BY ResultRejectedDoes DEF Crash
<1>. QED BY <1>1, <1>2, <1>3, <1>4, <1>5, <1>6, <1>7, StepCases

LEMMA InitSegments == Init => Segments /\ OneFileAtATime
  BY Nothing
     DEF Init, Segments, SegmentsFit, FileFits, OneEach, UntrackedTodo, TrackedTodo, OneFileAtATime,
         Capturing

\* What the two records of a new egress are.
LEMMA NewEgress ==
  ASSUME TypeOK, Located, NEW d \in Egress, NEW o, StartEgress(d, o)
  PROVE  /\ \A e \in Egress : e # d => egress'[e] = egress[e]
         /\ o = "rejected" => egress' = egress
         /\ o # "rejected" => /\ egress'[d].rec = live.rec /\ egress'[d].track = task.cur
                              /\ egress'[d].state = "active"
         /\ o = "ok" => /\ live'.segments[task.cur] = d
                        /\ \A t \in Track : t # task.cur => live'.segments[t] = live.segments[t]
<1>1. egress' = IF Landed(o)
                THEN [egress EXCEPT ![d] = [rec |-> live.rec, track |-> task.cur, state |-> "active"]]
                ELSE egress
  BY StartEgressDoes
<1>2. egress \in Egresses /\ live \in Lives /\ task.cur \in Track
  BY StartEgressDoes, Named
<1>3. o = "ok" => live'.segments = [live.segments EXCEPT ![task.cur] = d]
  BY StartEgressDoes
<1>. QED BY <1>1, <1>2, <1>3 DEF Egresses, Lives, Landed

LEMMA RejectedEgress ==
  ASSUME TypeOK, Located, NEW d \in Egress, StartEgress(d, "rejected")
  PROVE  egress' = egress /\ live' = live
<1>1. /\ egress' = IF Landed("rejected")
                   THEN [egress EXCEPT ![d] = [rec |-> live.rec, track |-> task.cur,
                                               state |-> "active"]]
                   ELSE egress
      /\ "rejected" # "ok" => live' = live
  BY StartEgressDoes
<1>. QED BY <1>1 DEF Landed

LEMMA SegmentsFitInductive ==
  ASSUME TypeOK, Located, Segments, [Next]_vars
  PROVE  SegmentsFit'
<1>. SUFFICES ASSUME NEW t \in Track, live'.segments[t] # None
              PROVE  /\ egress'[live'.segments[t]].state # "none"
                     /\ egress'[live'.segments[t]].rec = live'.rec
                     /\ egress'[live'.segments[t]].track = t
  BY DEF SegmentsFit, Exists
<1>. DEFINE e == live.segments[t]
<1>0. e # None => /\ e \in Egress /\ egress[e].state # "none"
                  /\ egress[e].rec = live.rec /\ egress[e].track = t
  BY SegmentTyped DEF Segments, SegmentsFit, Exists
<1>1. CASE ~\E d \in Egress, o \in Outcome : StartEgress(d, o)
  <2>1. live'.segments[t] = e /\ live'.rec = live.rec
    <3>1. CASE Collect
      BY <3>1, CollectDoes, Named DEF Lives
    <3>. QED BY <1>1, <3>1, LiveSegments, Nothing DEF Outcome
  <2>. QED BY <1>0, <1>1, <2>1, EgressesEnd
<1>2. ASSUME NEW d \in Egress, NEW o \in Outcome, StartEgress(d, o)
      PROVE  /\ egress'[live'.segments[t]].state # "none"
             /\ egress'[live'.segments[t]].rec = live'.rec
             /\ egress'[live'.segments[t]].track = t
  <2>1. egress[d].state = "none" /\ live'.rec = live.rec
    BY <1>2, StartEgressDoes
  <2>2. CASE o = "ok" /\ t = task.cur
    BY <1>2, <2>1, <2>2, NewEgress
  <2>3. CASE ~(o = "ok" /\ t = task.cur)
    <3>1. live'.segments[t] = e
      BY <1>2, <2>3, NewEgress, StartEgressDoes
    <3>. QED BY <1>0, <1>2, <2>1, <3>1, NewEgress
  <2>. QED BY <2>2, <2>3
<1>. QED BY <1>1, <1>2

LEMMA FileFitsInductive ==
  ASSUME TypeOK, Located, Segments, [Next]_vars
  PROVE  FileFits'
<1>. SUFFICES ASSUME task'.pc = "register"
              PROVE  /\ task'.file \in Egress /\ egress'[task'.file].rec = live'.rec
                     /\ egress'[task'.file].track = task'.cur /\ live'.segments[task'.cur] = None
                     /\ egress'[task'.file].state = "complete"
  BY DEF FileFits
<1>1. CASE Outside
  <2>1. UNCHANGED <<task, live>>
    BY <1>1, OutsideDoes
  <2>2. /\ task.file \in Egress /\ egress[task.file].rec = live.rec
        /\ egress[task.file].track = task.cur /\ live.segments[task.cur] = None
        /\ egress[task.file].state = "complete"
    BY <2>1 DEF Segments, FileFits
  <2>3. ~\E d \in Egress, o \in Outcome : StartEgress(d, o)
    BY <2>1, StartEgressDoes
  <2>4. egress'[task.file] = egress[task.file]
    BY <2>2, <2>3, EgressesEnd DEF Capturing
  <2>. QED BY <2>1, <2>2, <2>4
<1>2. CASE Collect /\ Moves("register")
  <2>1. /\ task.cur \in Track /\ task'.file = live.segments[task.cur] /\ live'.rec = live.rec
        /\ task'.cur = task.cur /\ live'.segments = [live.segments EXCEPT ![task.cur] = None]
        /\ egress' = egress /\ egress[live.segments[task.cur]].state = "complete"
    BY <1>2, CollectDoes, Nothing DEF Finishes, Moves
  <2>2. live.segments[task.cur] # None
    BY <1>2, CollectDoes DEF Segments, TrackedTodo, Tracked
  <2>3. live'.segments[task.cur] = None
    BY <2>1, Named DEF Lives
  <2>. QED BY <2>1, <2>2, <2>3, SegmentTyped DEF Segments, SegmentsFit
<1>. QED BY <1>1, <1>2, ToRegister

LEMMA OneEachInductive ==
  ASSUME TypeOK, Located, Consented, Ordered, Ordered', Segments, [Next]_vars
  PROVE  OneEach'
<1>. SUFFICES ASSUME Without(StartLost)', NEW e \in Egress, Capturing(e)', egress'[e].rec = live'.rec
              PROVE  live'.segments[egress'[e].track] = e
  BY DEF OneEach, Capturing
<1>0. Without(StartLost) /\ Capturing(e)' /\ egress'[e].rec # None
  BY FaultsKept, WithoutKept DEF Ordered, Exists, Capturing
<1>1. CASE ~\E d \in Egress, o \in Outcome : StartEgress(d, o)
  <2>1. Capturing(e) /\ egress'[e].rec = egress[e].rec /\ egress'[e].track = egress[e].track
    BY <1>0, <1>1, EgressesEnd DEF Capturing
  <2>2. egress[e].rec = live.rec => live.segments[egress[e].track] = e
    BY <1>0, <2>1 DEF Segments, OneEach
  <2>3. CASE live'.rec = live.rec /\ live'.segments = live.segments
    BY <2>1, <2>2, <2>3
  <2>4. CASE live' = NoLive
    BY <1>0, <2>4, Nothing
  <2>5. CASE At("started", "event") /\ live'.rec = task.rec
    BY <2>1, <2>5 DEF Ordered, Unused, Exists, Capturing
  <2>6. CASE Collect
    <3>1. live'.rec = live.rec /\ live'.segments = [live.segments EXCEPT ![task.cur] = None]
          /\ Ended(live.segments[task.cur])
      BY <2>6, CollectDoes
    <3>2. egress[e].track # task.cur
      BY <2>1, <2>2, <3>1 DEF Capturing, Ended
    <3>3. egress[e].track \in Track
      BY <2>1 DEF Consented, OfAcked, Capturing
    <3>. QED BY <2>1, <2>2, <3>1, <3>2, <3>3, Named DEF Lives
  <2>. QED BY <1>1, <2>3, <2>4, <2>5, <2>6, LiveSegments DEF Outcome
<1>2. ASSUME NEW d \in Egress, NEW o \in Outcome, StartEgress(d, o)
      PROVE  live'.segments[egress'[e].track] = e
  <2>1. o # "lost"
    BY <1>2, StartEgressDoes DEF Without, StartLost
  <2>2. egress[d].state = "none" /\ live'.rec = live.rec /\ task.pc = "start"
    BY <1>2, StartEgressDoes
  <2>3. CASE o = "ok" /\ e = d
    BY <1>2, <2>3, NewEgress
  <2>4. CASE o = "ok" /\ e # d
    <3>1. Capturing(e) /\ egress'[e] = egress[e]
      BY <1>0, <1>2, <2>4, NewEgress DEF Capturing
    <3>2. live.segments[egress[e].track] = e
      BY <1>0, <2>2, <3>1 DEF Segments, OneEach
    <3>3. egress[e].track # task.cur
      <4>1. task.cur \in Track /\ task.cur \in task.todo /\ task.todo \cap Tracked(live) = {}
        BY <1>2, StartEgressDoes DEF Segments, UntrackedTodo
      <4>2. e # None
        BY DEF Egress, None
      <4>. QED BY <3>2, <4>1, <4>2 DEF Tracked
    <3>4. egress[e].track \in Track
      BY <3>1 DEF Consented, OfAcked, Capturing
    <3>. QED BY <1>2, <2>4, <3>1, <3>2, <3>3, <3>4, NewEgress
  <2>5. CASE o = "rejected"
    <3>1. egress' = egress /\ live' = live
      BY <1>2, <2>5, RejectedEgress
    <3>. QED BY <1>0, <3>1 DEF Segments, OneEach, Capturing
  <2>. QED BY <1>2, <2>1, <2>3, <2>4, <2>5 DEF Outcome
<1>. QED BY <1>1, <1>2

LEMMA UntrackedTodoInductive ==
  ASSUME TypeOK, Located, Segments, [Next]_vars
  PROVE  UntrackedTodo'
<1>. SUFFICES ASSUME task'.pc \in {"ack", "start"}
              PROVE  /\ task'.todo \cap Tracked(live)' = {}
                     /\ task'.pc = "start" => task'.cur \in task'.todo
  BY DEF UntrackedTodo
<1>1. CASE Outside
  BY <1>1, OutsideDoes DEF Segments, UntrackedTodo, Tracked
<1>2. ASSUME NEW o \in Outcome, ListAudioTracks(o)
      PROVE  task'.todo \cap Tracked(live)' = {} /\ (task'.pc = "start" => task'.cur \in task'.todo)
  BY <1>2, ListDoes, Nothing DEF Starts, Unrecorded, Tracked
<1>3. ASSUME NEW t \in Track, CheckAck(t)
      PROVE  task'.todo \cap Tracked(live)' = {} /\ (task'.pc = "start" => task'.cur \in task'.todo)
  <2>1. /\ task.pc = "ack" /\ t \in task.todo /\ live' = live
        /\ \/ task'.cur = t /\ task'.todo = task.todo
           \/ task'.pc = "ack" /\ task'.todo = task.todo \ {t}
    BY <1>3, CheckAckDoes, Nothing DEF Starts, Moves
  <2>2. Tracked(live)' = Tracked(live)
    BY <2>1 DEF Tracked
  <2>. QED BY <2>1, <2>2 DEF Segments, UntrackedTodo
<1>4. ASSUME NEW e \in Egress, StartEgress(e, "ok")
      PROVE  task'.todo \cap Tracked(live)' = {} /\ (task'.pc = "start" => task'.cur \in task'.todo)
  <2>1. task.pc = "start" /\ task'.pc = "ack" /\ task'.todo = task.todo \ {task.cur}
    BY <1>4, StartEgressDoes, Nothing DEF Starts
  <2>2. \A t \in Track : t # task.cur => live'.segments[t] = live.segments[t]
    BY <1>4, NewEgress
  <2>. QED BY <2>1, <2>2 DEF Segments, UntrackedTodo, Tracked
<1>. QED BY <1>1, <1>2, <1>3, <1>4, ToStarting

\* What the loop of finishSegments has left to do is being recorded.
LEMMA TrackedTodoInductive ==
  ASSUME TypeOK, Located, Segments, [Next]_vars
  PROVE  TrackedTodo'
<1>. USE Nothing
<1>. DEFINE T == Tracked(live)
<1>1. ASSUME NEW b, NEW todo, Finishes(task', b, live', todo),
             todo \subseteq Tracked(live)'
      PROVE  TrackedTodo'
  BY <1>1 DEF Finishes, TrackedTodo
<1>2. live'.segments = live.segments => Tracked(live)' = T
  BY DEF Tracked
<1>3. CASE task'.pc \notin {"finish", "poll", "register"}
  BY <1>3 DEF TrackedTodo
<1>4. CASE Outside
  BY <1>2, <1>4, OutsideDoes DEF Segments, TrackedTodo
<1>5. CASE Begin
  BY <1>1, <1>2, <1>3, <1>5, BeginDoes
<1>6. CASE LeaveRunning
  <2>1. task.todo \ {task.cur} \subseteq T
    BY <1>6, LeaveRunningDoes DEF Segments, TrackedTodo
  <2>. QED BY <1>1, <1>2, <1>6, <2>1, LeaveRunningDoes
<1>7. CASE Collect
  <2>1. task.todo \subseteq T /\ task.cur \in Track
    BY <1>7, CollectDoes DEF Segments, TrackedTodo
  <2>2. Tracked(live)' = T \ {task.cur}
    <3>1. live'.segments = [live.segments EXCEPT ![task.cur] = None]
      BY <1>7, CollectDoes
    <3>. QED BY <3>1, Named DEF Tracked, Lives
  <2>3. CASE Moves("register") /\ task'.todo = task.todo /\ task'.cur = task.cur
    BY <2>1, <2>2, <2>3 DEF TrackedTodo, Moves
  <2>4. CASE Finishes(task', task, live', task.todo \ {task.cur})
    BY <1>1, <2>1, <2>2, <2>4
  <2>. QED BY <1>7, <2>3, <2>4, CollectDoes
<1>8. CASE Done \/ Dies
  BY <1>3, <1>8, DiesDoes DEF Done
<1>9. CASE Boot \/ Listen
  BY <1>3, <1>9, BootDoes
<1>11. ASSUME NEW o \in Outcome, PutTrack(o) PROVE TrackedTodo'
  <2>1. task.todo \ {task.cur} \subseteq T
    BY <1>11, PutTrackDoes DEF Segments, TrackedTodo
  <2>. QED BY <1>1, <1>2, <1>8, <1>11, <2>1, PutTrackDoes
<1>12. ASSUME NEW o \in Outcome, AddEvent(o) PROVE TrackedTodo'
  <2>1. CASE o = "ok" /\ task.op \in {"paused", "resumed"}
    BY <1>1, <1>2, <1>12, <2>1, AddEventDoes
  <2>2. CASE o = "ok" /\ task.op \in {"started", "stopped"}
    BY <1>3, <1>12, <2>2, AddEventDoes DEF Moves
  <2>3. CASE o # "ok"
    BY <1>8, <1>12, <2>3, AddEventDoes
  <2>. QED BY <1>12, <2>1, <2>2, <2>3, AddEventDoes DEF Change
<1>13. ASSUME NEW o \in Outcome, NEW t \in Track, NextSegment(t, o) PROVE TrackedTodo'
  BY <1>2, <1>13, NextSegmentDoes DEF Segments, TrackedTodo, Moves
<1>14. ASSUME NEW o \in Outcome,
              \/ PutRecording(o) \/ ListAudioTracks(o) \/ EnqueueJob(o) \/ AddInterrupted(o)
              \/ \E e \in Egress : StartEgress(e, o)
              \/ \E r \in Recording : MarkInterrupted(r, o)
       PROVE  TrackedTodo'
  <2>1. CASE PutRecording(o)
    BY <1>3, <1>8, <2>1, PutRecordingDoes DEF Moves
  <2>2. CASE ListAudioTracks(o)
    BY <1>3, <2>2, ListDoes DEF Starts
  <2>3. CASE EnqueueJob(o)
    BY <1>8, <2>3, EnqueueJobDoes
  <2>4. CASE AddInterrupted(o)
    BY <1>3, <1>8, <2>4, AddInterruptedDoes
  <2>5. ASSUME NEW e \in Egress, StartEgress(e, o) PROVE TrackedTodo'
    BY <1>3, <2>5, StartEgressDoes DEF Starts
  <2>6. ASSUME NEW r \in Recording, MarkInterrupted(r, o) PROVE TrackedTodo'
    BY <1>3, <1>8, <2>6, MarkDoes
  <2>. QED BY <1>14, <2>1, <2>2, <2>3, <2>4, <2>5, <2>6
<1>15. ASSUME NEW t \in Track, CheckAck(t) PROVE TrackedTodo'
  BY <1>3, <1>15, CheckAckDoes DEF Starts, Moves
<1>16. (Crash => Dies) /\ (ResultRejected => Done)
  BY ResultRejectedDoes DEF Crash
<1>. QED BY <1>4, <1>5, <1>6, <1>7, <1>8, <1>9, <1>11, <1>12, <1>13, <1>14, <1>15, <1>16, StepCases

\* Every step keeps Segments.
LEMMA SegmentsInductive ==
  ASSUME TypeOK, Located, Consented, Ordered, Ordered', Segments, [Next]_vars
  PROVE  Segments'
  BY SegmentsFitInductive, FileFitsInductive, OneEachInductive, UntrackedTodoInductive,
     TrackedTodoInductive DEF Segments

\* What is known of every reachable state so far.
Known == TypeOK /\ Located /\ Consented /\ Placed /\ Ordered /\ Segments

LEMMA KnownInductive == Known /\ [Next]_vars => Known'
  BY TypeInductive, LocatedInductive, ConsentInductive, PlacedInductive, OrderedInductive,
     SegmentsInductive DEF Known

LEMMA AlwaysKnown == Spec => []Known
<1>1. Init => Known
  <2>1. Init => Consented
    BY DEF Init, Consented, OfAcked, Idle
  <2>. QED BY <2>1, InitTyped, InitLocated, InitPlaced, InitOrdered, InitSegments DEF Known
<1>. QED BY <1>1, KnownInductive, PTL DEF Spec

\* A step that starts an egress finds no other one of the same recording and track.
LEMMA OneFileInductive == Known /\ Known' /\ OneFileAtATime /\ [Next]_vars => OneFileAtATime'
<1>. SUFFICES ASSUME Known, Known', OneFileAtATime, [Next]_vars, Without(StartLost)',
                     NEW c \in Egress, NEW e \in Egress, Capturing(c)', Capturing(e)',
                     egress'[c].rec = egress'[e].rec, egress'[c].track = egress'[e].track
              PROVE  c = e
  BY DEF OneFileAtATime, Capturing, Without, StartLost
<1>. USE DEF Known
<1>0. Without(StartLost)
  BY FaultsKept, WithoutKept
<1>1. CASE ~\E d \in Egress, o \in Outcome : StartEgress(d, o)
  <2>1. \A d \in Egress : Capturing(d)' =>
          Capturing(d) /\ egress'[d].rec = egress[d].rec /\ egress'[d].track = egress[d].track
    BY <1>1, EgressesEnd DEF Capturing
  <2>. QED BY <1>0, <2>1 DEF OneFileAtATime, StartLost
<1>2. ASSUME NEW d \in Egress, NEW o \in Outcome, StartEgress(d, o) PROVE c = e
  <2>0. live'.rec = live.rec
    BY <1>2, StartEgressDoes
  <2>1. o # "rejected" => egress'[d].rec = live.rec
    BY <1>2, NewEgress
  <2>2. CASE o = "rejected"
    BY <1>0, <1>2, <2>2, RejectedEgress DEF OneFileAtATime, StartLost, Capturing
  <2>3. CASE o # "rejected" /\ egress'[c].rec = live.rec
    BY <2>0, <2>1, <2>3 DEF Segments, OneEach, Capturing
  <2>4. CASE o # "rejected" /\ egress'[c].rec # live.rec
    <3>1. c # d /\ e # d
      BY <2>1, <2>4
    <3>. QED BY <1>0, <1>2, <3>1, NewEgress DEF OneFileAtATime, StartLost, Capturing
  <2>. QED BY <2>2, <2>3, <2>4
<1>. QED BY <1>1, <1>2

\* A speaker is never recorded into two files of a recording at once (capture.ts:229), unless the answer
\* to a start got lost: for any number of tracks, egresses, recordings, crashes and faults.
THEOREM OneFile == Spec => []OneFileAtATime
<1>1. Init => OneFileAtATime
  BY InitSegments
<1>. QED BY <1>1, OneFileInductive, AlwaysKnown, PTL DEF Spec

\* A file is registered for the recording in memory, and that one is not queued: the worker, which reads
\* the rows of a recording once, misses none because it came late.
THEOREM FilesPrecedeJob == Spec => NoFileAfterJob
<1>. DEFINE A == \A e \in Egress : trackRows'[e] # trackRows[e] => egress[e].rec \notin jobs
<1>1. Known /\ [Next]_vars => [A]_vars
  <2>. SUFFICES ASSUME Known, [Next]_vars, NEW e \in Egress, trackRows'[e] # trackRows[e]
                PROVE  egress[e].rec \notin jobs
    OBVIOUS
  <2>. USE DEF Known
  <2>1. ASSUME NEW o \in Outcome, PutTrack(o) PROVE egress[e].rec \notin jobs
    <3>1. task.pc = "register" /\ trackRows' = RowsAfter(o)
      BY <2>1, PutTrackDoes
    <3>2. e = task.file
      BY <3>1, Named DEF RowsAfter
    <3>. QED BY <3>1, <3>2 DEF Segments, FileFits, Ordered
  <2>2. CASE ~\E o \in Outcome : PutTrack(o)
    <3>1. trackRows' = trackRows
      BY <2>2, StepCases, OutsideDoes
         DEF Crash, Begin, LeaveRunning, Collect, ResultRejected, Boot, Listen, CheckAck, PutRecording,
             AddEvent, ListAudioTracks, EnqueueJob, AddInterrupted, NextSegment, StartEgress,
             MarkInterrupted, database
    <3>. QED BY <3>1
  <2>. QED BY <2>1, <2>2
<1>. QED BY <1>1, AlwaysKnown, PTL DEF Spec, NoFileAfterJob

-----------------------------------------------------------------------------
(* The job and the files.  A task that ends a recording or a pause has all tracked segments ahead of *)
(* it, so that a stop reaches its job with none left; and a file that memory has let go of is          *)
(* registered, or about to be, or has failed.                                                         *)

\* While a pause or a stop waits for a file, its egress was asked to end, unless it refused to.
Refused == {<<"stop", "rejected">>}
Asked ==
  Without(Refused) =>
    (task.pc = "poll" /\ task.op \in {"paused", "stopped"} =>
       egress[live.segments[task.cur]].state # "active")

LEMMA AskedInductive ==
  ASSUME Known, Asked, [Next]_vars
  PROVE  Asked'
<1>. USE Nothing DEF Known
<1>. SUFFICES ASSUME Without(Refused)', task'.pc = "poll", task'.op \in {"paused", "stopped"}
              PROVE  egress'[live'.segments[task'.cur]].state # "active"
  BY DEF Asked
<1>0. Without(Refused) /\ <<"stop", "rejected">> \notin faults'
  BY FaultsKept, WithoutKept DEF Without, Refused
<1>1. CASE Outside
  <2>. DEFINE e == live.segments[task.cur]
  <2>1. task' = task /\ live' = live
    BY <1>1, OutsideDoes
  <2>2. egress[e].state # "active"
    BY <1>0, <2>1 DEF Asked
  <2>3. e \in Egress
    BY <2>1, SegmentTyped DEF Segments, TrackedTodo, Tracked
  <2>4. ~\E d \in Egress, o \in Outcome : StartEgress(d, o)
    BY <2>1, StartEgressDoes
  <2>5. egress'[e] = egress[e] \/ egress'[e].state \in {"ending", "complete", "failed"}
    BY <2>3, <2>4, EgressesEnd
  <2>. QED BY <2>1, <2>2, <2>5
<1>2. ASSUME NEW o \in Outcome, NEW t \in Track, NextSegment(t, o)
      PROVE  egress'[live'.segments[task'.cur]].state # "active"
  <2>1. live' = live /\ task'.cur = t /\ task'.op = task.op /\ t \in task.todo /\ task.pc = "finish"
    BY <1>2, NextSegmentDoes DEF Moves
  <2>2. live.segments[t] \in Egress
    BY <2>1, SegmentTyped DEF Segments, TrackedTodo, Tracked
  <2>. QED BY <1>0, <1>2, <2>1, <2>2, NextSegmentDoes
<1>3. ASSUME Done \/ Dies PROVE FALSE
  BY <1>3, DiesDoes DEF Done
<1>4. ASSUME NEW b, NEW todo, NEW l, Finishes(task', b, l, todo) \/ Starts(task', b, todo) PROVE FALSE
  BY <1>4 DEF Finishes, Starts
<1>5. ~(Crash \/ Begin \/ LeaveRunning \/ Collect \/ ResultRejected \/ Boot \/ Listen)
  BY <1>3, <1>4, BeginDoes, LeaveRunningDoes, CollectDoes, ResultRejectedDoes, BootDoes DEF Crash, Moves
<1>6. ASSUME NEW t \in Track, CheckAck(t) PROVE FALSE
  BY <1>4, <1>6, CheckAckDoes DEF Moves
<1>7. ASSUME NEW o \in Outcome, PutRecording(o) \/ AddEvent(o) \/ PutTrack(o) PROVE FALSE
  BY <1>3, <1>4, <1>7, PutRecordingDoes, AddEventDoes, PutTrackDoes DEF Moves, Change
<1>8. ASSUME NEW o \in Outcome,
             \/ ListAudioTracks(o) \/ EnqueueJob(o) \/ AddInterrupted(o)
             \/ \E e \in Egress : StartEgress(e, o)
             \/ \E r \in Recording : MarkInterrupted(r, o)
      PROVE  FALSE
  BY <1>3, <1>4, <1>8, ListDoes, EnqueueJobDoes, AddInterruptedDoes, StartEgressDoes, MarkDoes DEF Moves
<1>. QED BY <1>1, <1>2, <1>5, <1>6, <1>7, <1>8, StepCases

LEMMA AlwaysAsked == Spec => []Asked
<1>1. Init => Asked
  BY Nothing DEF Init, Asked
<1>. QED BY <1>1, AskedInductive, AlwaysKnown, PTL DEF Spec

\* So a pause or a stop leaves an egress running only if it refused, or outlasts the wait.
LEMMA OnlySlowIsLeft ==
  ASSUME Known, Asked, Without(Refused), LeaveRunning, task.op \in {"paused", "stopped"}
  PROVE  <<"result", "slow">> \in faults'
<1>. USE DEF Known
<1>. DEFINE e == live.segments[task.cur]
<1>1. task.pc = "poll" /\ ~Ended(e)
  BY LeaveRunningDoes
<1>2. egress[e].state # "active"
  BY <1>1 DEF Asked
<1>3. e \in Egress /\ Exists(e)
  BY <1>1, SegmentTyped DEF Segments, SegmentsFit, TrackedTodo, Tracked
<1>4. egress[e].state = "ending"
  BY <1>1, <1>2, <1>3, Named DEF Ended, Exists, Egresses
<1>. QED BY <1>4, LeaveRunningDoes

Slow    == {<<"result", "slow">>, <<"stop", "rejected">>}
InLoop  == task.pc \in {"finish", "poll", "register"}
Ending  ==
  Without(Slow) =>
    /\ task.op \in {"paused", "stopped"} /\ InLoop => Tracked(live) \subseteq task.todo
    /\ task.op = "stopped" /\ ~InLoop => Tracked(live) = {}

LEMMA EndingInductive ==
  ASSUME Known, Asked, Ending, [Next]_vars
  PROVE  Ending'
<1>. USE Nothing DEF Known
<1>. SUFFICES ASSUME Without(Slow)', task'.op \in {"paused", "stopped"}
              PROVE  /\ InLoop' => Tracked(live)' \subseteq task'.todo
                     /\ task'.op = "stopped" /\ ~InLoop' => Tracked(live)' = {}
  BY DEF Ending
<1>. DEFINE Good == /\ InLoop' => Tracked(live)' \subseteq task'.todo
                    /\ task'.op = "stopped" /\ ~InLoop' => Tracked(live)' = {}
<1>0. /\ Without(Slow)
      /\ task.op \in {"paused", "stopped"} /\ InLoop => Tracked(live) \subseteq task.todo
      /\ task.op = "stopped" /\ ~InLoop => Tracked(live) = {}
  BY FaultsKept, WithoutKept DEF Ending
<1>1. live'.segments = live.segments => Tracked(live)' = Tracked(live)
  BY DEF Tracked
<1>2. ASSUME NEW b, NEW todo, Finishes(task', b, live', todo), Tracked(live)' \subseteq todo
      PROVE  Good
  BY <1>2 DEF Finishes, InLoop
<1>3. CASE Done \/ Dies
  BY <1>3, DiesDoes DEF Done
<1>4. CASE Outside
  BY <1>0, <1>1, <1>4, OutsideDoes DEF InLoop
<1>5. CASE Begin
  BY <1>1, <1>2, <1>5, BeginDoes DEF InLoop
<1>6. CASE LeaveRunning
  <2>1. task.op = task'.op
    BY <1>6, LeaveRunningDoes DEF Finishes
  <2>2. Without(Refused) /\ <<"result", "slow">> \notin faults'
    BY <1>0 DEF Without, Slow, Refused
  <2>. QED BY <1>6, <2>1, <2>2, OnlySlowIsLeft
<1>7. CASE Collect
  <2>1. task.op = task'.op /\ InLoop
    BY <1>7, CollectDoes DEF Finishes, Moves, InLoop
  <2>2. Tracked(live)' = Tracked(live) \ {task.cur}
    <3>1. live'.segments = [live.segments EXCEPT ![task.cur] = None] /\ task.cur \in Track
      BY <1>7, CollectDoes
    <3>. QED BY <3>1, Named DEF Tracked, Lives
  <2>3. CASE Moves("register") /\ task'.todo = task.todo
    BY <1>0, <2>1, <2>2, <2>3 DEF Moves, InLoop
  <2>4. CASE Finishes(task', task, live', task.todo \ {task.cur})
    BY <1>0, <1>2, <2>1, <2>2, <2>4
  <2>. QED BY <1>7, <2>3, <2>4, CollectDoes
<1>8. CASE Boot \/ Listen
  BY <1>8, BootDoes
<1>9. ASSUME NEW o \in Outcome, PutTrack(o) PROVE Good
  <2>1. CASE o = "ok"
    <3>1. live' = live /\ Finishes(task', task, live', task.todo \ {task.cur}) /\ task.op = task'.op
          /\ task.pc = "register"
      BY <1>9, <2>1, PutTrackDoes DEF Finishes
    <3>2. task.cur \notin Tracked(live)
      BY <3>1 DEF Tracked, Segments, FileFits
    <3>. QED BY <1>0, <1>1, <1>2, <3>1, <3>2 DEF InLoop
  <2>2. CASE o # "ok"
    BY <1>3, <1>9, <2>2, PutTrackDoes
  <2>. QED BY <2>1, <2>2
<1>10. ASSUME NEW o \in Outcome, AddEvent(o) PROVE Good
  <2>1. CASE o = "ok" /\ task.op \in {"paused", "resumed"}
    BY <1>1, <1>2, <1>10, <2>1, AddEventDoes
  <2>2. CASE o = "ok" /\ task.op \in {"started", "stopped"}
    BY <1>0, <1>1, <1>10, <2>2, AddEventDoes DEF Moves, InLoop
  <2>3. CASE o # "ok"
    BY <1>3, <1>10, <2>3, AddEventDoes
  <2>. QED BY <1>10, <2>1, <2>2, <2>3, AddEventDoes DEF Change
<1>11. ASSUME NEW o \in Outcome, NEW t \in Track, NextSegment(t, o) PROVE Good
  BY <1>0, <1>1, <1>11, NextSegmentDoes DEF Moves, InLoop
<1>12. ASSUME NEW o \in Outcome, PutRecording(o) PROVE Good
  BY <1>0, <1>1, <1>3, <1>12, PutRecordingDoes DEF Moves, InLoop
<1>13. ASSUME NEW o \in Outcome,
              \/ EnqueueJob(o) \/ AddInterrupted(o) \/ \E r \in Recording : MarkInterrupted(r, o)
       PROVE  Good
  BY <1>3, <1>13, EnqueueJobDoes, AddInterruptedDoes, MarkDoes
<1>14. CASE task.pc \in {"list", "ack", "start"}
  <2>1. task.op \notin {"paused", "stopped"}
    BY <1>14 DEF Placed, Places
  <2>2. ASSUME NEW o \in Outcome,
               \/ ListAudioTracks(o) \/ \E t \in Track : CheckAck(t)
               \/ \E e \in Egress : StartEgress(e, o)
        PROVE  task'.op \in {"idle", task.op}
    BY <2>2, ListDoes, CheckAckDoes, StartEgressDoes DEF Starts, Moves
  <2>3. ~(\/ \E o \in Outcome : ListAudioTracks(o) \/ \E e \in Egress : StartEgress(e, o)
          \/ \E t \in Track : CheckAck(t))
    BY <2>1, <2>2 DEF Outcome
  <2>. QED BY <1>3, <1>4, <1>5, <1>6, <1>7, <1>8, <1>9, <1>10, <1>11, <1>12, <1>13, <2>3, StepCases,
              ResultRejectedDoes DEF Crash
<1>15. CASE task.pc \notin {"list", "ack", "start"}
  <2>1. ~(\/ \E o \in Outcome : ListAudioTracks(o) \/ \E e \in Egress : StartEgress(e, o)
          \/ \E t \in Track : CheckAck(t))
    BY <1>15, ListDoes, CheckAckDoes, StartEgressDoes
  <2>. QED BY <1>3, <1>4, <1>5, <1>6, <1>7, <1>8, <1>9, <1>10, <1>11, <1>12, <1>13, <2>1, StepCases,
              ResultRejectedDoes DEF Crash
<1>. QED BY <1>14, <1>15

\* The faults that JobCoversFiles excepts.
JobFaults == DbFaults \cup {<<"start", "lost">>, <<"result", "slow">>, <<"stop", "rejected">>}

Filed(e) ==
  \/ egress[e].state = "complete" /\ trackRows[e] = 1
  \/ egress[e].state = "failed"
Tracking(e) == live.segments[egress[e].track] = e

CoveredFile(e) ==
  /\ ~Exists(e) => trackRows[e] = 0 /\ egress[e].rec = None
  /\ Exists(e) /\ egress[e].rec \in jobs => Filed(e)
  /\ Exists(e) /\ egress[e].rec = live.rec /\ Tracking(e) => trackRows[e] = 0
  /\ Exists(e) /\ egress[e].rec = live.rec /\ ~Tracking(e) =>
       Filed(e) \/ (task.pc = "register" /\ task.file = e)
  /\ task.pc = "register" /\ task.file = e => trackRows[e] = 0

Covered == Without(JobFaults) => \A e \in Egress : CoveredFile(e)

LEMMA InitCovered == Init => Ending /\ Covered
  BY Nothing DEF Init, Ending, Covered, CoveredFile, Exists, InLoop

\* Steps that leave the files, the job and the live recording's segments as they are.
LEMMA CoveredKept ==
  ASSUME Known, Without(JobFaults), Covered, [Next]_vars,
         ~\E d \in Egress, o \in Outcome : StartEgress(d, o),
         trackRows' = trackRows, jobs' = jobs,
         live' = NoLive \/ (live'.rec = live.rec /\ live'.segments = live.segments),
         task.pc = "register" /\ live' # NoLive => UNCHANGED task,
         task'.pc = "register" => UNCHANGED task,
         NEW e \in Egress
  PROVE  CoveredFile(e)'
<1>. USE DEF Known
<1>1. CoveredFile(e)
  BY DEF Covered
<1>2. /\ egress'[e].rec = egress[e].rec /\ egress'[e].track = egress[e].track
      /\ Exists(e)' <=> Exists(e)
      /\ egress'[e] = egress[e] \/ (Capturing(e) /\ Exists(e))
  BY EgressesEnd DEF Exists, Capturing
<1>3. Exists(e) => egress[e].rec # None
  BY DEF Ordered
<1>4. CASE egress'[e] = egress[e]
  <2>1. CASE live' = NoLive
    BY <1>1, <1>2, <1>3, <1>4, <2>1, Nothing DEF CoveredFile, Filed, Exists
  <2>2. CASE live' # NoLive
    BY <1>1, <1>2, <1>4, <2>2 DEF CoveredFile, Filed, Exists, Tracking
  <2>. QED BY <2>1, <2>2
<1>5. CASE Capturing(e) /\ Exists(e)
  <2>1. ~Filed(e) /\ ~(task.pc = "register" /\ task.file = e)
    BY <1>5 DEF Filed, Capturing, Segments, FileFits
  <2>2. egress[e].rec \notin jobs /\ (egress[e].rec = live.rec => Tracking(e) /\ trackRows[e] = 0)
    BY <1>1, <1>5, <2>1 DEF CoveredFile
  <2>3. ~(task'.pc = "register" /\ task'.file = e)
    BY <2>1
  <2>4. CASE live' = NoLive
    BY <1>2, <1>3, <1>5, <2>2, <2>3, <2>4, Nothing DEF CoveredFile
  <2>5. CASE live' # NoLive
    BY <1>2, <1>5, <2>2, <2>3, <2>5 DEF CoveredFile, Tracking
  <2>. QED BY <2>4, <2>5
<1>. QED BY <1>2, <1>4, <1>5

\* Collecting the file of a segment.
LEMMA CollectCovered ==
  ASSUME Known, Without(JobFaults), Covered, Collect, NEW e \in Egress
  PROVE  CoveredFile(e)'
<1>. USE DEF Known
<1>. DEFINE c == live.segments[task.cur]
<1>1. CoveredFile(e) /\ task.pc = "poll" /\ task.cur \in Track /\ live'.rec = live.rec
      /\ live'.segments = [live.segments EXCEPT ![task.cur] = None]
      /\ UNCHANGED <<egress, trackRows, jobs>>
  BY CollectDoes DEF Covered
<1>2. c \in Egress /\ Exists(c) /\ egress[c].rec = live.rec /\ egress[c].track = task.cur
  <2>1. c # None
    BY <1>1 DEF Segments, TrackedTodo, Tracked
  <2>. QED BY <1>1, <2>1, SegmentTyped DEF Segments, SegmentsFit
<1>3. live'.segments[task.cur] = None /\ e # None
      /\ \A t \in Track : t # task.cur => live'.segments[t] = live.segments[t]
  BY <1>1, Named DEF Lives, Egress, None
<1>4. CASE e = c
  <2>1. ~Tracking(e)' /\ trackRows[e] = 0 /\ (egress[e].rec \notin jobs)
    BY <1>1, <1>2, <1>3, <1>4 DEF CoveredFile, Tracking, Ordered
  <2>2. Filed(e) \/ (task'.pc = "register" /\ task'.file = e)
    BY <1>4, CollectDoes DEF Moves, Filed
  <2>. QED BY <1>1, <1>2, <1>4, <2>1, <2>2 DEF CoveredFile, Filed, Exists
<1>5. CASE e # c
  <2>1. Exists(e) => (Tracking(e)' <=> Tracking(e) /\ egress[e].track # task.cur)
    <3>1. Exists(e) => egress[e].track \in Track
      BY DEF Consented, OfAcked, Exists
    <3>. QED BY <1>1, <1>3, <3>1 DEF Tracking
  <2>2. Tracking(e) /\ Exists(e) => egress[e].track # task.cur
    BY <1>5 DEF Tracking
  <2>3. task'.pc = "register" => task'.file = c
    BY CollectDoes, Nothing DEF Finishes, Moves
  <2>. QED BY <1>1, <1>5, <2>1, <2>2, <2>3 DEF CoveredFile, Filed, Exists
<1>. QED BY <1>4, <1>5

\* Registering it.
LEMMA PutTrackCovered ==
  ASSUME Known, Without(JobFaults), Covered, PutTrack("ok"), NEW e \in Egress
  PROVE  CoveredFile(e)'
<1>. USE DEF Known
<1>1. /\ CoveredFile(e) /\ task.pc = "register" /\ live' = live /\ UNCHANGED <<egress, jobs>>
      /\ trackRows' = [trackRows EXCEPT ![task.file] = @ + 1]
      /\ task'.pc # "register"
  <2>1. /\ task.pc = "register" /\ live' = live /\ UNCHANGED <<egress, jobs>>
        /\ trackRows' = RowsAfter("ok")
        /\ Finishes(task', task, live, task.todo \ {task.cur})
    BY PutTrackDoes
  <2>2. task'.pc # "register"
    BY <2>1, Nothing DEF Finishes
  <2>3. CoveredFile(e)
    BY DEF Covered
  <2>. QED BY <2>1, <2>2, <2>3 DEF RowsAfter, Landed
<1>2. CASE e = task.file
  <2>1. /\ egress[e].state = "complete" /\ egress[e].rec = live.rec /\ ~Tracking(e)
        /\ trackRows[e] = 0 /\ e # None
    BY <1>1, <1>2 DEF Segments, FileFits, Tracking, CoveredFile, Egress, None
  <2>2. trackRows'[e] = 1
    BY <1>1, <1>2, <2>1, Named
  <2>. QED BY <1>1, <2>1, <2>2 DEF CoveredFile, Filed, Exists, Tracking
<1>3. CASE e # task.file
  <2>1. trackRows'[e] = trackRows[e]
    BY <1>1, <1>3, Named
  <2>. QED BY <1>1, <1>3, <2>1 DEF CoveredFile, Filed, Exists, Tracking
<1>. QED BY <1>2, <1>3

\* Starting an egress.
LEMMA StartEgressCovered ==
  ASSUME Known, Without(JobFaults)', Without(JobFaults), Covered,
         NEW d \in Egress, NEW o \in Outcome, StartEgress(d, o), NEW e \in Egress
  PROVE  CoveredFile(e)'
<1>. USE DEF Known
<1>1. /\ CoveredFile(e) /\ task.pc = "start" /\ live'.rec = live.rec /\ UNCHANGED <<jobs, trackRows>>
      /\ task'.pc # "register" /\ ~Exists(d) /\ task.cur \in Track
      /\ live.rec \notin jobs
  BY StartEgressDoes, Nothing DEF Covered, Starts, Ordered, Exists
<1>2. o # "lost"
  BY StartEgressDoes DEF Without, JobFaults
<1>3. CASE o = "ok" /\ e = d
  <2>1. trackRows[e] = 0
    BY <1>1, <1>3 DEF CoveredFile
  <2>. QED BY <1>1, <1>3, <2>1, NewEgress DEF CoveredFile, Exists, Tracking
<1>4. CASE o = "ok" /\ e # d
  <2>1. egress'[e] = egress[e]
    BY <1>4, NewEgress
  <2>2. Exists(e) => egress[e].track \in Track /\ e # None
    BY DEF Consented, OfAcked, Exists, Egress, None
  <2>3. Exists(e) => (Tracking(e)' <=> Tracking(e))
    <3>1. live.segments[task.cur] = None
      BY <1>1 DEF Segments, UntrackedTodo, Tracked
    <3>. QED BY <1>4, <2>1, <2>2, <3>1, NewEgress DEF Tracking
  <2>. QED BY <1>1, <2>1, <2>3 DEF CoveredFile, Filed, Exists
<1>5. CASE o = "rejected"
  <2>1. egress' = egress /\ live' = live
    BY <1>5, RejectedEgress
  <2>. QED BY <1>1, <2>1 DEF CoveredFile, Filed, Exists, Tracking
<1>. QED BY <1>2, <1>3, <1>4, <1>5 DEF Outcome

\* Queueing the job: nothing is tracked any more, so everything is filed.
LEMMA EnqueueJobCovered ==
  ASSUME Known, Without(JobFaults), Ending, Covered, NEW o, EnqueueJob(o), NEW e \in Egress
  PROVE  CoveredFile(e)'
<1>. USE DEF Known
<1>1. /\ CoveredFile(e) /\ task.op = "stopped" /\ task.pc = "job" /\ UNCHANGED <<egress, trackRows>>
      /\ jobs' = jobs \/ jobs' = jobs \cup {live.rec}
      /\ live' = NoLive /\ task' = Idle
  BY EnqueueJobDoes DEF Covered, Done, Placed
<1>2. Without(Slow)
  BY DEF Without, Slow, JobFaults
<1>3. Tracked(live) = {}
  BY <1>1, <1>2 DEF Ending, InLoop
<1>4. Exists(e) => egress[e].track \in Track /\ e # None /\ egress[e].rec # None
  BY DEF Consented, OfAcked, Exists, Egress, None, Ordered
<1>5. Exists(e) => ~Tracking(e)
  BY <1>3, <1>4 DEF Tracking, Tracked
<1>. QED BY <1>1, <1>4, <1>5, Nothing DEF CoveredFile, Filed, Exists

\* Every step keeps Covered.
LEMMA CoveredInductive ==
  ASSUME Known, Ending, Covered, [Next]_vars
  PROVE  Covered'
<1>. USE DEF Known
<1>. SUFFICES ASSUME Without(JobFaults)', NEW e \in Egress PROVE CoveredFile(e)'
  BY DEF Covered, CoveredFile, Exists, Filed, Tracking, Without
<1>0. Without(JobFaults) /\ \A o : <<"db", o>> \in faults' => o \notin {"rejected", "lost"}
  BY FaultsKept, WithoutKept DEF Without, JobFaults, DbFaults
<1>. USE Nothing
<1>1. CASE Done /\ trackRows' = trackRows /\ jobs' = jobs /\ task.pc = "poll"
           /\ ~\E d \in Egress, o \in Outcome : StartEgress(d, o)
  <2>1. task'.pc # "register" /\ (live' = live \/ live' = NoLive) /\ task.pc # "register"
    BY <1>1 DEF Done
  <2>. QED BY <1>0, <1>1, <2>1, CoveredKept
<1>2. CASE Outside
  <2>1. UNCHANGED <<task, live, trackRows, jobs>>
    BY <1>2, OutsideDoes
  <2>2. CASE \E d \in Egress, o \in Outcome : StartEgress(d, o)
    BY <1>0, <2>2, StartEgressCovered
  <2>. QED BY <1>0, <2>1, <2>2, CoveredKept
<1>3. CASE ~\E d \in Egress, o \in Outcome : StartEgress(d, o)
  <2>1. CASE Crash
    <3>1. Dies /\ UNCHANGED <<trackRows, jobs>>
      BY <2>1 DEF Crash, database
    <3>. QED BY <1>0, <1>3, <3>1, DiesDoes, CoveredKept
  <2>2. CASE Begin
    <3>1. task.pc # "register" /\ UNCHANGED <<trackRows, jobs>>
          /\ live'.rec = live.rec /\ live'.segments = live.segments
      BY <2>2, BeginDoes
    <3>2. task'.pc # "register"
      BY <2>2, BeginDoes DEF Finishes
    <3>. QED BY <1>0, <1>3, <3>1, <3>2, CoveredKept
  <2>3. CASE LeaveRunning
    <3>1. task.pc # "register" /\ UNCHANGED <<trackRows, jobs, live>> /\ task'.pc # "register"
      BY <2>3, LeaveRunningDoes DEF Finishes
    <3>. QED BY <1>0, <1>3, <3>1, CoveredKept
  <2>4. CASE Collect
    BY <1>0, <2>4, CollectCovered
  <2>5. CASE ResultRejected
    BY <1>1, <1>3, <2>5, ResultRejectedDoes
  <2>6. CASE Boot \/ Listen
    <3>1. task.pc # "register" /\ UNCHANGED <<trackRows, jobs, live>> /\ task'.pc # "register"
      BY <2>6, BootDoes DEF At, Placed, Places
    <3>. QED BY <1>0, <1>3, <3>1, CoveredKept
  <2>7. ASSUME NEW t \in Track, CheckAck(t) PROVE CoveredFile(e)'
    <3>1. task.pc # "register" /\ UNCHANGED <<trackRows, jobs, live>> /\ task'.pc # "register"
      BY <2>7, CheckAckDoes DEF Starts, Moves
    <3>. QED BY <1>0, <1>3, <3>1, CoveredKept
  <2>8. ASSUME NEW o \in Outcome, NEW t \in Track, NextSegment(t, o) PROVE CoveredFile(e)'
    <3>1. task.pc # "register" /\ UNCHANGED <<trackRows, jobs, live>> /\ task'.pc # "register"
      BY <2>8, NextSegmentDoes DEF Moves
    <3>. QED BY <1>0, <1>3, <3>1, CoveredKept
  <2>9. ASSUME NEW o \in Outcome, PutTrack(o) PROVE CoveredFile(e)'
    <3>1. o = "ok"
      BY <1>0, <2>9, PutTrackDoes DEF Outcome
    <3>. QED BY <1>0, <2>9, <3>1, PutTrackCovered
  <2>10. ASSUME NEW o \in Outcome, EnqueueJob(o) PROVE CoveredFile(e)'
    BY <1>0, <2>10, EnqueueJobCovered
  <2>11. ASSUME NEW o \in Outcome, PutRecording(o) \/ AddEvent(o) PROVE CoveredFile(e)'
    <3>1. o = "ok"
      BY <1>0, <2>11, PutRecordingDoes, AddEventDoes DEF Outcome
    <3>2. CASE AddEvent(o) /\ task.op = "started"
      <4>1. /\ live'.rec = task.rec /\ Unused(task.rec) /\ UNCHANGED <<trackRows, jobs, egress>>
            /\ task'.pc # "register"
        BY <3>1, <3>2, AddEventDoes DEF Ordered, At, Moves
      <4>2. CoveredFile(e)
        BY <1>0 DEF Covered
      <4>. QED BY <4>1, <4>2 DEF CoveredFile, Unused, Exists, Filed
    <3>3. CASE PutRecording(o) \/ task.op # "started"
      <4>1. task.pc # "register" /\ UNCHANGED <<trackRows, jobs, live>> /\ task'.pc # "register"
        BY <2>11, <3>1, <3>3, PutRecordingDoes, AddEventDoes DEF Moves, Finishes, Change
      <4>. QED BY <1>0, <1>3, <4>1, CoveredKept
    <3>. QED BY <2>11, <3>2, <3>3
  <2>12. ASSUME NEW o \in Outcome, ListAudioTracks(o) PROVE CoveredFile(e)'
    <3>1. task.pc # "register" /\ UNCHANGED <<trackRows, jobs, live>> /\ task'.pc # "register"
      BY <2>12, ListDoes DEF Starts
    <3>. QED BY <1>0, <1>3, <3>1, CoveredKept
  <2>13. ASSUME NEW o \in Outcome, AddInterrupted(o) \/ \E r \in Recording : MarkInterrupted(r, o)
         PROVE  CoveredFile(e)'
    <3>1. /\ task.pc # "register" /\ UNCHANGED <<trackRows, jobs>> /\ task'.pc # "register"
          /\ live' = live \/ live' = NoLive
      BY <2>13, AddInterruptedDoes, MarkDoes, DiesDoes DEF At
    <3>. QED BY <1>0, <1>3, <3>1, CoveredKept
  <2>. QED
    BY <1>2, <2>1, <2>2, <2>3, <2>4, <2>5, <2>6, <2>7, <2>8, <2>9, <2>10, <2>11, <2>12, <2>13, <1>3,
       StepCases
<1>. QED BY <1>0, <1>3, StartEgressCovered

\* When the processing job of a recording is queued, each of its files is registered exactly once, or its
\* egress failed (capture.ts:71): the worker misses none and hears none twice.
THEOREM JobCovers == Spec => []JobCoversFiles
<1>1. Init => Ending /\ Covered
  BY InitCovered
<1>2. Known /\ Asked /\ Ending /\ Covered /\ [Next]_vars => Ending' /\ Covered'
  BY EndingInductive, CoveredInductive
<1>3. Known /\ Covered => JobCoversFiles
  <2>. SUFFICES ASSUME Known, Covered, Without(JobFaults), NEW r \in jobs, NEW e \in Egress,
                       egress[e].rec = r
                PROVE  Filed(e)
    BY DEF JobCoversFiles, JobFaults, Filed
  <2>1. r \in Recording /\ r # None /\ CoveredFile(e)
    BY DEF Known, TypeOK, Covered, Recording, None
  <2>2. Exists(e)
    BY <2>1 DEF CoveredFile
  <2>. QED BY <2>1, <2>2 DEF CoveredFile
<1>. QED BY <1>1, <1>2, <1>3, AlwaysKnown, AlwaysAsked, PTL DEF Spec

-----------------------------------------------------------------------------
(* The flag and the chain.  The flag runs ahead of the capture: what memory holds, with the work     *)
(* waiting on the chain done to it piece by piece, is the flag.  A database error may leave memory    *)
(* without a recording that the flag still has; then the waiting work is work for nobody.             *)

Flags == [id : Recording \cup {None}, paused : BOOLEAN]
Clean == Without(DbFaults)

\* The flag as memory has it.
Base ==
  IF Opening THEN [id |-> task.rec, paused |-> FALSE]
  ELSE IF live.inMap THEN [id |-> live.rec, paused |-> ~live.capturing] ELSE NoFlag

\* What the flag was before the work w was enqueued, and after.
Leads(f, w, g) ==
  \/ w.op = "started" /\ f.id = None /\ g = [id |-> w.rec, paused |-> FALSE]
  \/ w.op = "paused" /\ f.id # None /\ ~f.paused /\ g = [f EXCEPT !.paused = TRUE]
  \/ w.op = "resumed" /\ f.id # None /\ f.paused /\ g = [f EXCEPT !.paused = FALSE]
  \/ w.op = "stopped" /\ f.id # None /\ g = NoFlag
  \/ w.op = "reconcile" /\ g = f

Agrees(f) == f = Base \/ (~Clean /\ Base = NoFlag)
Told(g) ==
  /\ Agrees(g[0]) /\ g[Len(chain)] = flag
  /\ \A i \in 1..Len(chain) : Leads(g[i - 1], chain[i], g[i])

Story ==
  /\ \E g \in [0..Len(chain) -> Flags] : Told(g)
  /\ Opening => ~live.inMap
  /\ flag.id = None => ~flag.paused

LEMMA NoFlagIs == NoFlag \in Flags /\ NoFlag.id = None /\ ~NoFlag.paused
  BY DEF NoFlag, Flags

LEMMA BaseTyped == TypeOK => Base \in Flags
  BY NoFlagIs, Named DEF Base, Flags, Tasks, Lives

\* With nothing waiting, memory and the flag agree: at the beginning, and when the process has died.
LEMMA StoryOfNone == (Init => Story) /\ (Dies => Story')
<1>. PICK g : g = [i \in 0..0 |-> NoFlag]
  OBVIOUS
<1>. USE Nothing, NoFlagIs
<1>1. ASSUME Init PROVE Story
  <2>1. chain = <<>> /\ flag = NoFlag /\ live = NoLive /\ ~Opening /\ Len(chain) = 0
    BY <1>1 DEF Init, Opening
  <2>2. g \in [0..Len(chain) -> Flags] /\ Told(g)
    BY <2>1 DEF Told, Agrees, Base
  <2>. QED BY <2>1, <2>2 DEF Story
<1>2. ASSUME Dies PROVE Story'
  <2>1. chain' = <<>> /\ flag' = NoFlag /\ live' = NoLive /\ ~Opening' /\ Len(chain') = 0
    BY <1>2, DiesDoes DEF Opening
  <2>2. g \in [0..Len(chain') -> Flags] /\ Told(g)'
    BY <2>1 DEF Told, Agrees, Base
  <2>. QED BY <2>1, <2>2 DEF Story
<1>. QED BY <1>1, <1>2

\* Steps that leave the flag and the chain alone.
LEMMA StoryStays ==
  ASSUME Story, chain' = chain, flag' = flag, Clean' => Clean,
         Base' = Base \/ (~Clean' /\ Base' = NoFlag),
         Opening' => ~live'.inMap
  PROVE  Story'
<1>1. PICK g \in [0..Len(chain) -> Flags] : Told(g)
  BY DEF Story
<1>2. Told(g)'
  BY <1>1 DEF Told, Agrees
<1>. QED BY <1>1, <1>2 DEF Story

\* Work is enqueued, with the change of the flag it stands for.
LEMMA StoryGrows ==
  ASSUME TypeOK, Story, NEW w \in Work, chain' = Append(chain, w), flag' \in Flags,
         Leads(flag, w, flag'), UNCHANGED <<task, live, faults>>,
         flag'.id = None => ~flag'.paused
  PROVE  Story'
<1>1. PICK g \in [0..Len(chain) -> Flags] : Told(g)
  BY DEF Story
<1>. DEFINE n == Len(chain)
<1>0. PICK h : h = [i \in 0..n + 1 |-> IF i <= n THEN g[i] ELSE flag']
  OBVIOUS
<1>2. chain \in Seq(Work) /\ n \in Nat
  BY DEF TypeOK
<1>3. Len(chain') = n + 1 /\ chain'[n + 1] = w /\ \A i \in 1..n : chain'[i] = chain[i]
  BY <1>2
<1>4. h \in [0..Len(chain') -> Flags]
  BY <1>0, <1>2, <1>3
<1>5. Base' = Base /\ Clean' = Clean /\ Opening' = Opening
  BY DEF Base, Clean, Opening, Without
<1>6. Agrees(h[0])' /\ h[Len(chain')] = flag'
  BY <1>0, <1>1, <1>2, <1>3, <1>5 DEF Told, Agrees
<1>7. ASSUME NEW i \in 1..Len(chain') PROVE Leads(h[i - 1], chain'[i], h[i])
  <2>1. CASE i = n + 1
    BY <1>0, <1>1, <1>2, <1>3, <2>1 DEF Told
  <2>2. CASE i # n + 1
    <3>1. i \in 1..n /\ h[i - 1] = g[i - 1] /\ h[i] = g[i]
      BY <1>0, <1>2, <1>3, <2>2
    <3>. QED BY <1>1, <1>3, <3>1 DEF Told
  <2>. QED BY <2>1, <2>2
<1>8. Told(h)'
  BY <1>6, <1>7 DEF Told
<1>. QED BY <1>4, <1>5, <1>8 DEF Story

\* The first piece of work is taken from the chain and done to memory.
LEMMA StoryShrinks ==
  ASSUME TypeOK, Located, Placed, Story, Begin
  PROVE  Story'
<1>1. PICK g \in [0..Len(chain) -> Flags] : Told(g)
  BY DEF Story
<1>. DEFINE n == Len(chain)
            w == Head(chain)
<1>0. PICK h : h = [i \in 0..n - 1 |-> g[i + 1]]
  OBVIOUS
<1>2. chain \in Seq(Work) /\ n \in Nat /\ n > 0 /\ w = chain[1] /\ chain' = Tail(chain) /\ w \in Work
  BY BeginDoes DEF TypeOK
<1>3. Len(chain') = n - 1 /\ \A i \in 1..n - 1 : chain'[i] = chain[i + 1]
  BY <1>2
<1>4. h \in [0..Len(chain') -> Flags]
  BY <1>0, <1>2, <1>3
<1>5. Leads(g[0], w, g[1]) /\ Agrees(g[0])
  BY <1>1, <1>2 DEF Told
<1>6. task = Idle /\ ~Opening /\ flag' = flag /\ (Clean' <=> Clean)
  BY BeginDoes, Nothing DEF Opening, Clean, Without
<1>7. Base = IF live.inMap THEN [id |-> live.rec, paused |-> ~live.capturing] ELSE NoFlag
  BY <1>6 DEF Base
<1>8. live.inMap => live.rec # None /\ g[0] = Base
  BY <1>5, <1>7, NotNone, NoFlagIs DEF Located, Agrees
<1>9. Agrees(g[1])' /\ (Opening' => ~live'.inMap)
  <2>. HIDE DEF w
  <2>1. CASE w.op = "started"
    <3>1. ~live.inMap
      BY <1>5, <1>7, <1>8, <2>1 DEF Leads
    <3>2. live' = live /\ task'.op = "started" /\ task'.pc = "row" /\ task'.rec = w.rec
      BY <2>1, BeginDoes DEF w
    <3>3. Base' = [id |-> w.rec, paused |-> FALSE]
      BY <3>2 DEF Base, Opening
    <3>. QED BY <1>5, <2>1, <3>1, <3>2, <3>3 DEF Leads, Agrees
  <2>2. CASE w.op # "started" /\ ~live.inMap
    <3>1. live' = live /\ task' = task
      BY <2>2, BeginDoes DEF w
    <3>2. Base' = NoFlag /\ Base = NoFlag /\ ~Opening'
      BY <1>6, <1>7, <2>2, <3>1 DEF Base, Opening
    <3>3. CASE w.op = "reconcile"
      BY <1>5, <1>6, <3>2, <3>3 DEF Leads, Agrees
    <3>4. CASE w.op # "reconcile"
      BY <1>5, <1>6, <2>2, <3>2, <3>4, NoFlagIs DEF Leads, Agrees
    <3>. QED BY <3>2, <3>3, <3>4
  <2>3. CASE w.op \in {"paused", "resumed"} /\ live.inMap
    <3>1. /\ task'.op = w.op /\ live'.inMap /\ (live'.capturing <=> w.op = "resumed")
          /\ live'.rec = live.rec
      BY <2>3, BeginDoes DEF w
    <3>2. ~Opening' /\ Base' = [id |-> live.rec, paused |-> ~live'.capturing]
      BY <2>3, <3>1 DEF Opening, Base
    <3>3. g[0].id = live.rec /\ g[0] = [id |-> g[0].id, paused |-> g[0].paused]
      BY <1>7, <1>8, <2>3
    <3>4. live'.capturing \in BOOLEAN
      BY BeginTyped, Named DEF TypeOK
    <3>5. CASE w.op = "paused"
      <4>1. g[1] = [id |-> live.rec, paused |-> TRUE]
        BY <1>5, <3>3, <3>5 DEF Leads
      <4>2. Base' = [id |-> live.rec, paused |-> TRUE]
        BY <3>1, <3>2, <3>4, <3>5
      <4>. QED BY <3>2, <4>1, <4>2 DEF Agrees
    <3>6. CASE w.op = "resumed"
      <4>1. g[1] = [id |-> live.rec, paused |-> FALSE]
        BY <1>5, <3>3, <3>6 DEF Leads
      <4>2. Base' = [id |-> live.rec, paused |-> FALSE]
        BY <3>1, <3>2, <3>4, <3>6
      <4>. QED BY <3>2, <4>1, <4>2 DEF Agrees
    <3>. QED BY <2>3, <3>5, <3>6
  <2>4. CASE w.op = "stopped" /\ live.inMap
    <3>1. ~live'.inMap /\ Finishes(task', Fresh(w), live', Tracked(live))
      BY <2>4, BeginDoes DEF w
    <3>2. ~Opening'
      BY <2>4, <3>1, Nothing DEF Finishes, Opening, Fresh, Idle
    <3>. QED BY <1>5, <2>4, <3>1, <3>2 DEF Leads, Agrees, Base
  <2>5. CASE w.op = "reconcile" /\ live.inMap
    <3>1. live' = live /\ Finishes(task', Fresh(w), live, Tracked(live))
      BY <2>5, BeginDoes DEF w
    <3>2. ~Opening'
      BY <2>5, <3>1, Nothing DEF Finishes, Opening, Fresh, Idle
    <3>3. Base' = Base
      BY <1>6, <3>1, <3>2 DEF Base
    <3>. QED BY <1>5, <1>8, <2>5, <3>2, <3>3 DEF Leads, Agrees
  <2>. QED BY <1>5, <2>1, <2>2, <2>3, <2>4, <2>5 DEF Leads
<1>10. Told(h)'
  <2>1. h[0] = g[1] /\ h[Len(chain')] = flag'
    BY <1>0, <1>1, <1>2, <1>3, <1>6 DEF Told
  <2>2. ASSUME NEW i \in 1..Len(chain') PROVE Leads(h[i - 1], chain'[i], h[i])
    <3>1. i + 1 \in 1..n /\ chain'[i] = chain[i + 1] /\ h[i - 1] = g[i] /\ h[i] = g[i + 1]
          /\ (i + 1) - 1 = i
      BY <1>0, <1>2, <1>3
    <3>. QED BY <1>1, <3>1 DEF Told
  <2>. QED BY <1>9, <2>1, <2>2 DEF Told
<1>. QED BY <1>4, <1>6, <1>9, <1>10 DEF Story

\* A task that is over has told memory everything, or a fault kept its recording from it.
LEMMA StoryDone ==
  ASSUME Story, Done, chain' = chain, flag' = flag, Clean' => Clean, Opening => ~Clean'
  PROVE  Story'
<1>1. task' = Idle /\ live' = IF live.inMap THEN live ELSE NoLive
  BY DEF Done
<1>2. ~Opening'
  BY <1>1, Nothing DEF Opening
<1>3. Base' = Base \/ (~Clean' /\ Base' = NoFlag)
  BY <1>1, <1>2, Nothing DEF Base, Story
<1>. QED BY <1>2, <1>3, StoryStays

\* Tasks that only work on files leave the story as it is.
LEMMA StoryFiles ==
  ASSUME Story, chain' = chain, flag' = flag, Clean' => Clean, ~Opening, ~Opening',
         live'.inMap = live.inMap, live'.rec = live.rec, live'.capturing = live.capturing
  PROVE  Story'
<1>1. Base' = Base
  BY DEF Base
<1>. QED BY <1>1, StoryStays

LEMMA StoryRequested == ASSUME Known, Story, Request PROVE Story'
<1>. USE DEF Known
<1>1. flag \in Flags /\ issued \in 0..MaxRecordings /\ MaxRecordings \in Nat
  BY CaptureAssumption DEF TypeOK, Flags
<1>2. CASE Start
  <2>. DEFINE w == [op |-> "started", rec |-> issued']
  <2>1. issued' \in Recording /\ flag' = [id |-> issued', paused |-> FALSE] /\ flag.id = None
        /\ chain' = Append(chain, w) /\ UNCHANGED <<task, live, faults>>
    BY <1>1, <1>2 DEF Start, Enqueue, bounds, Recording
  <2>2. w \in Work /\ flag' \in Flags /\ flag'.id # None
    BY <2>1, NotNone DEF Work, Flags
  <2>. QED BY <2>1, <2>2, StoryGrows DEF Leads
<1>3. ASSUME NEW op \in {"paused", "resumed", "stopped"}, Enqueue(op, None), flag' \in Flags,
             Leads(flag, [op |-> op, rec |-> None], flag'), UNCHANGED <<task, live, faults>>,
             flag'.id = None => ~flag'.paused
      PROVE  Story'
  <2>. DEFINE w == [op |-> op, rec |-> None]
  <2>1. w \in Work /\ chain' = Append(chain, w)
    BY <1>3 DEF Work, Enqueue
  <2>. QED BY <1>3, <2>1, StoryGrows
<1>4. CASE Pause
  <2>1. flag' = [flag EXCEPT !.paused = TRUE] /\ flag.id # None /\ ~flag.paused
        /\ Enqueue("paused", None) /\ UNCHANGED <<task, live, faults>>
    BY <1>4 DEF Pause
  <2>2. flag' \in Flags /\ flag'.id # None
    BY <1>1, <2>1 DEF Flags
  <2>. QED BY <1>3, <2>1, <2>2 DEF Leads
<1>5. CASE Resume
  <2>1. flag' = [flag EXCEPT !.paused = FALSE] /\ flag.id # None /\ flag.paused
        /\ Enqueue("resumed", None) /\ UNCHANGED <<task, live, faults>>
    BY <1>5 DEF Resume, MayResume, bounds
  <2>2. flag' \in Flags /\ flag'.id # None
    BY <1>1, <2>1 DEF Flags
  <2>. QED BY <1>3, <2>1, <2>2 DEF Leads
<1>6. CASE Stop
  <2>1. flag' = NoFlag /\ flag.id # None /\ Enqueue("stopped", None)
        /\ UNCHANGED <<task, live, faults>>
    BY <1>6 DEF Stop, bounds
  <2>. QED BY <1>3, <2>1, NoFlagIs DEF Leads
<1>. QED BY <1>2, <1>4, <1>5, <1>6 DEF Request

\* The rest of what happens around the tasks.
LEMMA StoryAround ==
  ASSUME Known, Story, Acknowledge \/ Tick \/ LiveKitStep \/ UNCHANGED vars
  PROVE  Story'
<1>. USE DEF Known
<1>1. ASSUME Enqueue("reconcile", None), UNCHANGED <<flag, task, live, faults>> PROVE Story'
  <2>. DEFINE w == [op |-> "reconcile", rec |-> None]
  <2>1. w \in Work /\ chain' = Append(chain, w) /\ flag' \in Flags
    BY <1>1 DEF Work, Enqueue, TypeOK, Flags
  <2>2. flag'.id = None => ~flag'.paused
    BY <1>1 DEF Story
  <2>. QED BY <1>1, <2>1, <2>2, StoryGrows DEF Leads
<1>2. ASSUME UNCHANGED <<flag, chain, task, live>>, faults \subseteq faults' PROVE Story'
  <2>1. Base' = Base /\ (Opening' <=> Opening) /\ (Clean' => Clean)
    BY <1>2, WithoutKept DEF Base, Opening, Clean
  <2>. QED BY <1>2, <2>1, StoryStays DEF Story
<1>3. CASE Acknowledge
  <2>1. ASSUME NEW u \in User, RecordingAck(u) PROVE Story'
    BY <1>1, <2>1 DEF RecordingAck, bounds
  <2>2. ASSUME NEW r \in Recording, NEW u \in User, AckExpires(r, u) PROVE Story'
    BY <1>2, <2>2 DEF AckExpires, bounds
  <2>. QED BY <1>3, <2>1, <2>2 DEF Acknowledge
<1>4. CASE Tick
  BY <1>1, <1>4 DEF Tick, server, bounds
<1>5. CASE LiveKitStep
  BY <1>2, <1>5, OutsideDoes DEF Outside, LiveKitStep, Publish, Mute, Unmute, Unpublish, MicChanges,
     EgressCompletes, EgressFails, server
<1>6. CASE UNCHANGED vars
  BY <1>2, <1>6 DEF vars, server, bounds
<1>. QED BY <1>3, <1>4, <1>5, <1>6

\* Every step keeps the story.
LEMMA StoryInductive == ASSUME Known, Story, [Next]_vars PROVE Story'
<1>. USE Nothing DEF Known
<1>0. Clean' => Clean
  BY FaultsKept, WithoutKept DEF Clean
<1>1. CASE Outside
  BY <1>1, StoryRequested, StoryAround DEF Outside
<1>2. CASE Dies
  BY <1>2, StoryOfNone
<1>3. CASE Begin
  BY <1>3, StoryShrinks
<1>4. CASE LeaveRunning
  <2>1. ~Opening /\ ~Opening'
    BY <1>4, LeaveRunningDoes DEF Opening, Finishes
  <2>. QED BY <1>0, <1>4, <2>1, LeaveRunningDoes, StoryFiles DEF Others
<1>5. CASE Collect
  <2>1. ~Opening /\ ~Opening'
    BY <1>5, CollectDoes DEF Opening, Finishes, Moves
  <2>. QED BY <1>0, <1>5, <2>1, CollectDoes, StoryFiles DEF Others
<1>6. CASE ResultRejected
  BY <1>0, <1>6, ResultRejectedDoes, StoryDone DEF Others, Opening
<1>7. CASE Boot \/ Listen
  <2>1. ~Opening /\ ~Opening'
    BY <1>7, BootDoes DEF Opening, At
  <2>. QED BY <1>0, <1>7, <2>1, BootDoes, StoryFiles DEF Others
<1>8. ASSUME NEW t \in Track, CheckAck(t) PROVE Story'
  <2>1. ~Opening /\ ~Opening'
    BY <1>8, CheckAckDoes DEF Opening, Starts, Moves
  <2>. QED BY <1>0, <1>8, <2>1, CheckAckDoes, StoryFiles DEF Others
<1>9. ASSUME NEW o \in Outcome, PutRecording(o) PROVE Story'
  <2>1. CASE o = "ok"
    <3>1. Base' = Base /\ (Opening' => ~live'.inMap)
      BY <1>9, <2>1, PutRecordingDoes DEF Base, Opening, Moves, Story
    <3>. QED BY <1>0, <1>9, <2>1, <3>1, PutRecordingDoes, StoryStays DEF Others
  <2>2. CASE o # "ok"
    <3>1. ~Clean'
      BY <1>9, <2>2, PutRecordingDoes DEF Clean, Without, DbFaults, Outcome
    <3>. QED BY <1>0, <1>9, <2>2, <3>1, PutRecordingDoes, StoryDone DEF Others
  <2>. QED BY <2>1, <2>2
<1>10. ASSUME NEW o \in Outcome, AddEvent(o) PROVE Story'
  <2>1. CASE o = "ok" /\ task.op = "started"
    <3>1. live'.inMap /\ live'.capturing /\ live'.rec = task.rec /\ ~Opening' /\ Opening
      BY <1>10, <2>1, AddEventDoes DEF Opening, Moves
    <3>2. Base' = Base
      BY <3>1 DEF Base
    <3>. QED BY <1>0, <1>10, <3>1, <3>2, AddEventDoes, StoryStays DEF Others
  <2>2. CASE o = "ok" /\ task.op # "started"
    <3>1. live' = live /\ ~Opening' /\ ~Opening
      BY <1>10, <2>2, AddEventDoes DEF Opening, Moves, Finishes, Change
    <3>. QED BY <1>0, <1>10, <3>1, AddEventDoes, StoryFiles DEF Others
  <2>3. CASE o # "ok"
    <3>1. ~Clean'
      BY <1>10, <2>3, AddEventDoes DEF Clean, Without, DbFaults, Outcome
    <3>. QED BY <1>0, <1>10, <2>3, <3>1, AddEventDoes, StoryDone DEF Others
  <2>. QED BY <2>1, <2>2, <2>3
<1>11. ASSUME NEW o \in Outcome, PutTrack(o) PROVE Story'
  <2>1. ~Opening
    BY <1>11, PutTrackDoes DEF Opening
  <2>2. CASE o = "ok"
    <3>1. ~Opening' /\ live' = live
      BY <1>11, <2>2, PutTrackDoes DEF Opening, Finishes
    <3>. QED BY <1>0, <1>11, <2>1, <3>1, PutTrackDoes, StoryFiles DEF Others
  <2>3. CASE o # "ok"
    BY <1>0, <1>11, <2>1, <2>3, PutTrackDoes, StoryDone DEF Others
  <2>. QED BY <2>2, <2>3
<1>12. ASSUME NEW o \in Outcome, ListAudioTracks(o) PROVE Story'
  <2>1. ~Opening /\ ~Opening'
    BY <1>12, ListDoes DEF Opening, Starts
  <2>. QED BY <1>0, <1>12, <2>1, ListDoes, StoryFiles DEF Others
<1>13. ASSUME NEW o \in Outcome, EnqueueJob(o) PROVE Story'
  BY <1>0, <1>13, EnqueueJobDoes, StoryDone DEF Others, Opening
<1>14. ASSUME NEW o \in Outcome, AddInterrupted(o) PROVE Story'
  <2>1. CASE o = "ok"
    <3>1. ~Opening /\ ~Opening'
      BY <1>14, <2>1, AddInterruptedDoes DEF Opening, At
    <3>. QED BY <1>0, <1>14, <2>1, <3>1, AddInterruptedDoes, StoryFiles
  <2>. QED BY <1>2, <1>14, <2>1, AddInterruptedDoes
<1>15. ASSUME NEW o \in Outcome, NEW t \in Track, NextSegment(t, o) PROVE Story'
  <2>1. ~Opening /\ ~Opening'
    BY <1>15, NextSegmentDoes DEF Opening, Moves
  <2>. QED BY <1>0, <1>15, <2>1, NextSegmentDoes, StoryFiles DEF Others
<1>16. ASSUME NEW o \in Outcome, NEW e \in Egress, StartEgress(e, o) PROVE Story'
  <2>1. ~Opening /\ ~Opening' /\ live'.inMap = live.inMap /\ live'.rec = live.rec
        /\ live'.capturing = live.capturing
    BY <1>16, StartEgressDoes DEF Opening, Starts
  <2>. QED BY <1>0, <1>16, <2>1, StartEgressDoes, StoryFiles DEF Others
<1>17. ASSUME NEW o \in Outcome, NEW r \in Recording, MarkInterrupted(r, o) PROVE Story'
  <2>1. CASE o = "ok"
    <3>1. ~Opening /\ ~Opening'
      BY <1>17, <2>1, MarkDoes DEF Opening, At
    <3>. QED BY <1>0, <1>17, <2>1, <3>1, MarkDoes, StoryFiles
  <2>. QED BY <1>2, <1>17, <2>1, MarkDoes
<1>. QED
  BY <1>1, <1>2, <1>3, <1>4, <1>5, <1>6, <1>7, <1>8, <1>9, <1>10, <1>11, <1>12, <1>13, <1>14, <1>15,
     <1>16, <1>17, StepCases DEF Crash

-----------------------------------------------------------------------------
(* The rows.  The row that says "recording" is that of the recording in memory, until its stop has   *)
(* written the row, or that of a recording whose start has.                                          *)

RowFaults == DbFaults \cup {<<"result", "rejected">>}

\* The recording the capture has at work.
Held(r) ==
  \/ live.rec = r /\ (live.inMap \/ task.pc # "job")
  \/ At("started", "event") /\ task.rec = r

Rows ==
  Serving /\ Without(RowFaults) => \A r \in Recording : recordings[r] = "recording" <=> Held(r)

LEMMA InitRows == Init => Rows
  BY Nothing, NotNone DEF Init, Rows, Held, At

\* Steps of files and loops.
LEMMA RowsStay ==
  ASSUME Known, Rows, Serving, Without(RowFaults), recordings' = recordings, live'.rec = live.rec,
         task.pc \notin {"event", "job"} \/ (task.pc = "event" /\ task.op # "started"),
         task'.pc \notin {"event", "job"} \/ (task'.pc = "event" /\ task'.op # "started")
  PROVE  Rows'
  BY DEF Rows, Held, At

LEMMA RowsInductive == ASSUME Known, Story, Rows, [Next]_vars PROVE Rows'
<1>. SUFFICES ASSUME Serving', Without(RowFaults)' PROVE Rows'
  BY DEF Rows
<1>. USE Nothing DEF Known
<1>0. Without(RowFaults) /\ \A o \in Outcome : <<"db", o>> \in faults' => o = "ok"
  BY FaultsKept, WithoutKept DEF Without, RowFaults, DbFaults, Outcome
<1>1. CASE Outside
  BY <1>0, <1>1, OutsideDoes DEF Rows, Held, At, Serving
<1>2. ~Dies
  BY DiesDoes DEF Serving
<1>3. CASE Begin
  <2>1. Serving /\ task.pc = "-" /\ recordings' = recordings /\ live'.rec = live.rec
    BY <1>3, BeginDoes DEF Serving
  <2>2. task'.pc \notin {"event", "job"} \/ (task'.pc = "event" /\ task'.op # "started")
    BY <1>3, BeginDoes DEF Finishes, Fresh, Idle
  <2>. QED BY <1>0, <2>1, <2>2, RowsStay
<1>4. CASE LeaveRunning
  BY <1>0, <1>4, LeaveRunningDoes, RowsStay DEF Finishes, Placed, Places, Serving
<1>5. CASE Collect
  BY <1>0, <1>5, CollectDoes, RowsStay DEF Finishes, Moves, Placed, Places, Serving
<1>6. ~ResultRejected
  BY ResultRejectedDoes DEF Without, RowFaults
<1>7. CASE Boot \/ Listen
  <2>1. Recovered /\ task' = Idle /\ live' = live /\ recordings' = recordings /\ ~Serving
    BY <1>7, BootDoes DEF Serving, At
  <2>2. live' = NoLive
    BY <2>1 DEF Placed
  <2>. QED BY <2>1, <2>2, NotNone DEF Rows, Held, At, Recovered, CutOff
<1>8. ASSUME NEW t \in Track, CheckAck(t) PROVE Rows'
  BY <1>0, <1>8, CheckAckDoes, RowsStay DEF Starts, Moves, Placed, Places, Serving
<1>9. ASSUME NEW o \in Outcome, PutRecording(o) PROVE Rows'
  <2>1. o = "ok" /\ Serving /\ live' = live
    BY <1>0, <1>9, PutRecordingDoes DEF Serving
  <2>2. CASE task.op = "started"
    <3>1. /\ recordings' = [recordings EXCEPT ![task.rec] = "recording"] /\ task.rec \in Recording
          /\ task'.op = "started" /\ task'.pc = "event" /\ task'.rec = task.rec /\ task.pc = "row"
      <4>1. Landed(o) /\ Current = task.rec /\ task.rec \in Recording
        BY <2>1, <2>2 DEF Landed, Current, Located, LocatedTask
      <4>. QED BY <1>9, <2>1, <2>2, <4>1, PutRecordingDoes DEF Moves
    <3>. QED BY <1>0, <2>1, <3>1, Named DEF Rows, Held, At
  <2>3. CASE task.op # "started"
    <3>1. /\ recordings' = [recordings EXCEPT ![live.rec] = "stopped"] /\ task.op = "stopped"
          /\ task'.op = "stopped" /\ task'.pc = "job" /\ task.pc = "row" /\ ~live.inMap
      <4>1. Landed(o) /\ Current = live.rec /\ task.op = "stopped" /\ ~live.inMap
        BY <1>9, <2>1, <2>3, PutRecordingDoes DEF Landed, Current, Placed
      <4>. QED BY <1>9, <2>1, <4>1, PutRecordingDoes DEF Moves
    <3>. QED BY <1>0, <2>1, <3>1, Named DEF Rows, Held, At
  <2>. QED BY <2>2, <2>3
<1>10. ASSUME NEW o \in Outcome, AddEvent(o) PROVE Rows'
  <2>1. o = "ok" /\ Serving /\ recordings' = recordings
    BY <1>0, <1>10, AddEventDoes DEF Serving, Change
  <2>2. CASE task.op = "started"
    <3>1. /\ task'.op = "started" /\ task'.pc = "list" /\ task.pc = "event"
          /\ live'.rec = task.rec /\ live'.inMap
      BY <1>10, <2>1, <2>2, AddEventDoes DEF Moves
    <3>2. live.rec = None
      <4>1. ~live.inMap
        BY <2>2, <3>1 DEF Opening, Story
      <4>. QED BY <2>2, <4>1 DEF Placed
    <3>. QED BY <1>0, <2>1, <2>2, <3>1, <3>2, NotNone DEF Rows, Held, At
  <2>3. CASE task.op # "started"
    BY <1>0, <1>10, <2>1, <2>3, AddEventDoes, RowsStay DEF Moves, Finishes, Change
  <2>. QED BY <2>2, <2>3
<1>11. ASSUME NEW o \in Outcome, PutTrack(o) PROVE Rows'
  BY <1>0, <1>11, PutTrackDoes, RowsStay DEF Finishes, Placed, Places, Serving
<1>12. ASSUME NEW o \in Outcome, ListAudioTracks(o) PROVE Rows'
  BY <1>0, <1>12, ListDoes, RowsStay DEF Starts, Placed, Places, Serving
<1>13. ASSUME NEW o \in Outcome, EnqueueJob(o) PROVE Rows'
  <2>1. /\ task.op = "stopped" /\ task.pc = "job" /\ ~live.inMap /\ recordings' = recordings
        /\ task' = Idle /\ live' = NoLive
    BY <1>13, EnqueueJobDoes DEF Placed, Done
  <2>. QED BY <1>0, <2>1, NotNone DEF Rows, Held, At, Serving
<1>14. ASSUME NEW o \in Outcome, AddInterrupted(o) \/ \E r \in Recording : MarkInterrupted(r, o)
       PROVE  FALSE
  BY <1>2, <1>14, AddInterruptedDoes, MarkDoes DEF Serving
<1>15. ASSUME NEW o \in Outcome, NEW t \in Track, NextSegment(t, o) PROVE Rows'
  BY <1>0, <1>15, NextSegmentDoes, RowsStay DEF Moves, Placed, Places, Serving
<1>16. ASSUME NEW o \in Outcome, NEW e \in Egress, StartEgress(e, o) PROVE Rows'
  BY <1>0, <1>16, StartEgressDoes, RowsStay DEF Starts, Placed, Places, Serving
<1>. QED
  BY <1>1, <1>2, <1>3, <1>4, <1>5, <1>6, <1>7, <1>8, <1>9, <1>10, <1>11, <1>12, <1>13, <1>14, <1>15,
     <1>16, StepCases DEF Crash

\* Once the chain has caught up, the row that says "recording" is that of the recording that is on: a
\* restart leaves none behind (capture.ts:134-138), and neither does a stop.
THEOREM RowsMatch == Spec => []RowMatchesFlag
<1>1. Init => Story /\ Rows
  BY StoryOfNone, InitRows
<1>2. Known /\ Story /\ Rows /\ [Next]_vars => Story' /\ Rows'
  BY StoryInductive, RowsInductive
<1>3. Known /\ Story /\ Rows => RowMatchesFlag
  <2>. SUFFICES ASSUME Known, Story, Rows, Quiet, Without(RowFaults), NEW r \in Recording
                PROVE  recordings[r] = "recording" <=> r = flag.id
    BY DEF RowMatchesFlag, RowFaults
  <2>. USE Nothing DEF Known
  <2>1. task = Idle /\ chain = <<>> /\ Serving /\ ~Opening
    BY DEF Quiet, Serving, Opening
  <2>2. Clean
    BY DEF Clean, Without, RowFaults
  <2>3. flag = Base
    BY <2>1, <2>2 DEF Story, Told, Agrees
  <2>4. live.inMap \/ live = NoLive
    BY <2>1 DEF Placed
  <2>5. flag.id = live.rec
    BY <2>1, <2>3, <2>4, NoFlagIs DEF Base
  <2>6. recordings[r] = "recording" <=> live.rec = r
    BY <2>1 DEF Rows, Held, At
  <2>. QED BY <2>5, <2>6
<1>. QED BY <1>1, <1>2, <1>3, AlwaysKnown, PTL DEF Spec

-----------------------------------------------------------------------------
(* The bookmarks.  The latest bookmark of the recording in memory is the one that led to whether it   *)
(* captures, or is about to be followed by the next; a failed row gets its interruption only once.    *)

DbRejected == {<<"db", "rejected">>}
Marks      == Change \cup {"interrupted"}
Latest(s)  == s[Len(s)]

MarksFit(s) ==
  /\ s # <<>> => s[1] \in {"started", "interrupted"}
  /\ \A i \in 1..Len(s) - 1 : <<s[i], s[i + 1]>> \in MayFollow

\* The latest bookmark of the recording in memory is one of these.
Expected ==
  IF task.op = "stopped"
  THEN IF task.pc \in {"row", "job"} THEN {"stopped"} ELSE {"started", "resumed", "paused"}
  ELSE IF live.capturing <=> ~(At("paused", "event") \/ At("resumed", "event"))
       THEN {"started", "resumed"} ELSE {"paused"}

Interrupted(r) == events[r] # <<>> /\ Latest(events[r]) = "interrupted"

Bookmarked ==
  Without(DbRejected) =>
    /\ \A r \in Recording : MarksFit(events[r])
    /\ \A r \in Recording : Interrupted(r) =>
         recordings[r] = "failed" /\ ~(At("recover", "interrupted") /\ task.rec = r)
    /\ live.rec # None => events[live.rec] # <<>> /\ Latest(events[live.rec]) \in Expected

LEMMA InitBookmarked == Init => Bookmarked
  BY Nothing DEF Init, Bookmarked, MarksFit, Interrupted

\* A bookmark that may follow is added.
LEMMA MarkAdded ==
  ASSUME NEW s \in Seq(Marks), NEW x \in Marks, MarksFit(s),
         IF s = <<>> THEN x \in {"started", "interrupted"} ELSE <<Latest(s), x>> \in MayFollow
  PROVE  MarksFit(Append(s, x)) /\ Append(s, x) # <<>> /\ Latest(Append(s, x)) = x
<1>. DEFINE n == Len(s)
<1>1. n \in Nat /\ Len(Append(s, x)) = n + 1 /\ Append(s, x)[n + 1] = x
      /\ \A i \in 1..n : Append(s, x)[i] = s[i]
  OBVIOUS
<1>2. CASE s = <<>>
  BY <1>1, <1>2 DEF MarksFit, Latest
<1>3. CASE s # <<>>
  <2>1. n > 0 /\ <<s[n], x>> \in MayFollow
    BY <1>1, <1>3 DEF Latest
  <2>2. ASSUME NEW i \in 1..n PROVE <<Append(s, x)[i], Append(s, x)[i + 1]>> \in MayFollow
    <3>1. CASE i = n
      BY <1>1, <2>1, <3>1
    <3>2. CASE i # n
      <4>1. i \in 1..n - 1 /\ i + 1 \in 1..n
        BY <1>1, <3>2
      <4>. QED BY <1>1, <4>1 DEF MarksFit
    <3>. QED BY <3>1, <3>2
  <2>. QED BY <1>1, <1>3, <2>1, <2>2 DEF MarksFit, Latest
<1>. QED BY <1>2, <1>3

\* Steps that add no bookmark and change no row.
LEMMA MarksStay ==
  ASSUME Bookmarked, Without(DbRejected), UNCHANGED <<events, recordings>>,
         ~At("recover", "interrupted")' \/ UNCHANGED task,
         \/ live'.rec = None
         \/ live'.rec = live.rec /\ Expected \subseteq Expected'
  PROVE  Bookmarked'
<1>1. \A r \in Recording : MarksFit(events[r])' /\ (Interrupted(r)' <=> Interrupted(r))
  BY DEF Bookmarked, Interrupted
<1>2. ASSUME NEW r \in Recording, Interrupted(r)'
      PROVE  recordings'[r] = "failed" /\ ~(At("recover", "interrupted") /\ task.rec = r)'
  BY <1>1, <1>2 DEF Bookmarked, At
<1>3. live'.rec # None => events'[live'.rec] # <<>> /\ Latest(events[live.rec])' \in Expected'
  BY DEF Bookmarked
<1>. QED BY <1>1, <1>2, <1>3 DEF Bookmarked

\* Steps of files and loops.
LEMMA MarksOnward ==
  ASSUME Known, Bookmarked, Without(DbRejected), UNCHANGED <<events, recordings>>,
         live'.rec = live.rec, live'.capturing = live.capturing,
         task.pc \notin {"event", "row", "job"}, Serving,
         \/ /\ task'.op = task.op /\ task'.pc \notin {"row", "job"}
            /\ task'.pc = "event" => task.op = "stopped"
         \/ task' = Idle /\ task.op # "stopped"
  PROVE  Bookmarked'
<1>1. Expected' = Expected /\ ~At("recover", "interrupted")'
  BY Nothing DEF Expected, At, Serving
<1>. QED BY <1>1, MarksStay

\* Work begins: by the story a pause finds the recording capturing, and a resume does not.
LEMMA MarksBegin == ASSUME Known, Story, Bookmarked, Without(DbRejected), Begin PROVE Bookmarked'
<1>. USE Nothing DEF Known
<1>. DEFINE w == Head(chain)
<1>1. PICK g \in [0..Len(chain) -> Flags] : Told(g)
  BY DEF Story
<1>2. chain \in Seq(Work) /\ chain # <<>> /\ w = chain[1] /\ task = Idle
      /\ UNCHANGED <<events, recordings>> /\ live'.rec = live.rec
  BY BeginDoes DEF TypeOK
<1>3. Leads(g[0], w, g[1]) /\ Agrees(g[0])
  BY <1>1, <1>2 DEF Told
<1>4. Expected = IF live.capturing THEN {"started", "resumed"} ELSE {"paused"}
  BY <1>2 DEF Expected, At
<1>5. ~At("recover", "interrupted")'
  BY BeginDoes DEF At, Finishes, Fresh, Work
<1>6. live.inMap => g[0].paused = ~live.capturing
  <2>1. live.inMap => Base = [id |-> live.rec, paused |-> ~live.capturing] /\ Base # NoFlag
    BY <1>2, NotNone, NoFlagIs DEF Base, Opening, Located
  <2>. QED BY <1>3, <2>1 DEF Agrees
<1>. HIDE DEF w
<1>7. Expected \subseteq Expected'
  <2>1. CASE w.op = "started" \/ (w.op # "started" /\ ~live.inMap)
    BY <1>2, <1>4, <2>1, BeginDoes DEF Expected, At, w
  <2>2. CASE w.op \in {"paused", "resumed"} /\ live.inMap
    <3>1. /\ task'.op = w.op /\ task'.pc = "event" /\ (live'.capturing <=> w.op = "resumed")
      BY <2>2, BeginDoes DEF w
    <3>2. live.capturing <=> w.op = "paused"
      BY <1>3, <1>6, <2>2, Named DEF Leads, Lives
    <3>. QED BY <1>4, <2>2, <3>1, <3>2 DEF Expected, At
  <2>3. CASE w.op = "stopped" /\ live.inMap
    <3>1. Finishes(task', Fresh(w), live', Tracked(live))
      BY <2>3, BeginDoes DEF w
    <3>2. task'.op = "stopped" /\ task'.pc \notin {"row", "job"}
      BY <2>3, <3>1 DEF Finishes, Fresh, Idle
    <3>. QED BY <1>4, <3>2 DEF Expected
  <2>4. CASE w.op = "reconcile" /\ live.inMap
    <3>1. live' = live /\ Finishes(task', Fresh(w), live, Tracked(live))
      BY <2>4, BeginDoes DEF w
    <3>2. task'.op \in {"reconcile", "idle"} /\ task'.pc # "event"
      BY <2>4, <3>1 DEF Finishes, Fresh, Idle
    <3>. QED BY <1>4, <3>1, <3>2 DEF Expected, At
  <2>. QED BY <1>3, <2>1, <2>2, <2>3, <2>4 DEF Leads
<1>. QED BY <1>2, <1>5, <1>7, MarksStay

\* A change is bookmarked.
LEMMA MarksAdded ==
  ASSUME Known, Story, Bookmarked, Without(DbRejected), NEW o \in {"ok", "lost"}, AddEvent(o)
  PROVE  Bookmarked'
<1>. USE Nothing DEF Known
<1>. DEFINE c == Current
<1>1. /\ events' = [events EXCEPT ![c] = Append(@, task.op)] /\ recordings' = recordings
      /\ task.op \in Change /\ task.pc = "event"
  BY AddEventDoes DEF Landed
<1>2. c \in Recording /\ events \in [Recording -> Seq(Marks)]
  BY <1>1, Named DEF Current, Located, LocatedTask, Marks, Change
<1>3. IF events[c] = <<>> THEN task.op = "started" ELSE <<Latest(events[c]), task.op>> \in MayFollow
  <2>1. CASE task.op = "started"
    BY <1>1, <2>1 DEF Ordered, Unused, At, Current
  <2>2. CASE task.op # "started"
    <3>1. c = live.rec /\ c # None
      BY <1>2, <2>2, NotNone DEF Current
    <3>2. events[c] # <<>> /\ Latest(events[c]) \in Expected
      BY <3>1 DEF Bookmarked
    <3>3. CASE task.op = "paused"
      <4>1. Expected = {"started", "resumed"}
        BY <1>1, <3>3 DEF Expected, At, Placed
      <4>. QED BY <3>2, <3>3, <4>1 DEF MayFollow
    <3>4. CASE task.op = "resumed"
      <4>1. Expected = {"paused"}
        BY <1>1, <3>4 DEF Expected, At, Placed
      <4>. QED BY <3>2, <3>4, <4>1 DEF MayFollow
    <3>5. CASE task.op = "stopped"
      <4>1. Expected = {"started", "resumed", "paused"}
        BY <1>1, <3>5 DEF Expected
      <4>. QED BY <3>2, <3>5, <4>1 DEF MayFollow
    <3>. QED BY <1>1, <2>2, <3>3, <3>4, <3>5 DEF Change
  <2>. QED BY <2>1, <2>2
<1>. HIDE DEF c
<1>4. /\ MarksFit(events'[c]) /\ events'[c] # <<>> /\ Latest(events'[c]) = task.op
      /\ \A r \in Recording : r # c => events'[r] = events[r]
  <2>1. MarksFit(events[c]) /\ events[c] \in Seq(Marks) /\ task.op \in Marks
    BY <1>1, <1>2 DEF Bookmarked, Marks
  <2>2. events'[c] = Append(events[c], task.op)
    BY <1>1, <1>2
  <2>. QED BY <1>1, <1>2, <1>3, <2>1, <2>2, MarkAdded
<1>5. ASSUME NEW r \in Recording
      PROVE  /\ MarksFit(events'[r])
             /\ events'[r] # <<>> /\ Latest(events'[r]) = "interrupted" => recordings'[r] = "failed"
  <2>1. CASE r = c
    BY <1>1, <1>4, <2>1 DEF Change
  <2>2. CASE r # c
    BY <1>1, <1>4, <2>2 DEF Bookmarked, Interrupted
  <2>. QED BY <2>1, <2>2
<1>6. ~At("recover", "interrupted")'
  <2>1. CASE o = "ok"
    BY <1>1, <2>1, AddEventDoes DEF At, Moves, Finishes, Change
  <2>2. CASE o # "ok"
    BY <2>2, AddEventDoes DEF At, Done
  <2>. QED BY <2>1, <2>2
<1>7. live'.rec # None => live'.rec = c /\ task.op \in Expected'
  <2>1. CASE task.op = "started"
    <3>1. ~live.inMap /\ c = task.rec
      BY <1>1, <2>1 DEF Story, Opening, Current, c
    <3>2. CASE o = "ok"
      <4>1. /\ live'.rec = task.rec /\ live'.capturing /\ task'.op = "started" /\ task'.pc = "list"
        BY <2>1, <3>2, AddEventDoes DEF Moves
      <4>. QED BY <2>1, <3>1, <4>1 DEF Expected, At
    <3>3. CASE o # "ok"
      BY <3>1, <3>3, AddEventDoes DEF Done
    <3>. QED BY <3>2, <3>3
  <2>2. CASE task.op = "stopped"
    <3>1. ~live.inMap /\ c = live.rec
      BY <2>2 DEF Placed, Current, c
    <3>2. CASE o = "ok"
      <4>1. live' = live /\ task'.op = "stopped" /\ task'.pc = "row"
        BY <2>2, <3>2, AddEventDoes DEF Moves
      <4>. QED BY <2>2, <3>1, <4>1 DEF Expected
    <3>3. CASE o # "ok"
      BY <3>1, <3>3, AddEventDoes DEF Done
    <3>. QED BY <3>2, <3>3
  <2>3. CASE task.op \in {"paused", "resumed"}
    <3>1. live.inMap /\ c = live.rec /\ (live.capturing <=> task.op = "resumed")
      BY <2>3 DEF Placed, Current, c
    <3>2. live' = live /\ task'.pc # "event" /\ task'.op # "stopped"
      <4>1. CASE o = "ok"
        BY <2>3, <4>1, AddEventDoes DEF Finishes
      <4>2. CASE o # "ok"
        BY <3>1, <4>2, AddEventDoes DEF Done
      <4>. QED BY <4>1, <4>2
    <3>. QED BY <2>3, <3>1, <3>2 DEF Expected, At
  <2>. QED BY <1>1, <2>1, <2>2, <2>3 DEF Change
<1>. QED BY <1>4, <1>5, <1>6, <1>7 DEF Bookmarked, Interrupted

\* A row that a crash cut off is marked failed, and then bookmarked.
LEMMA MarksRecovered ==
  ASSUME Known, Bookmarked, Without(DbRejected), NEW o \in {"ok", "lost"},
         AddInterrupted(o) \/ \E r \in Recording : MarkInterrupted(r, o)
  PROVE  Bookmarked'
<1>. USE Nothing DEF Known
<1>1. ASSUME NEW q \in Recording, MarkInterrupted(q, o) PROVE Bookmarked'
  <2>1. /\ events' = events /\ recordings' = [recordings EXCEPT ![q] = "failed"]
        /\ recordings[q] = "recording" /\ live'.rec = None
        /\ task'.op = "dead" \/ task'.rec = q
    BY <1>1, MarkDoes, DiesDoes DEF Landed, CutOff, Placed, Serving, At
  <2>2. ~Interrupted(q)
    BY <2>1 DEF Bookmarked
  <2>3. ASSUME NEW r \in Recording
        PROVE  /\ MarksFit(events[r])' /\ (Interrupted(r)' <=> Interrupted(r))
               /\ recordings[r] = "failed" => recordings'[r] = "failed"
    BY <2>1, Named DEF Bookmarked, Interrupted
  <2>. QED BY <2>1, <2>2, <2>3 DEF Bookmarked, At
<1>2. CASE AddInterrupted(o)
  <2>. DEFINE q == task.rec
  <2>1. /\ events' = [events EXCEPT ![q] = Append(@, "interrupted")] /\ recordings' = recordings
        /\ At("recover", "interrupted") /\ live'.rec = None /\ task'.pc # "interrupted"
    BY <1>2, AddInterruptedDoes, DiesDoes DEF Landed, Placed, Serving, At
  <2>2. /\ q \in Recording /\ recordings[q] = "failed" /\ events \in [Recording -> Seq(Marks)]
        /\ ~Interrupted(q) /\ MarksFit(events[q])
    BY <2>1, Named DEF Ordered, Bookmarked, Marks
  <2>3. events[q] = <<>> \/ <<Latest(events[q]), "interrupted">> \in MayFollow
    <3>1. events[q] # <<>> => Latest(events[q]) \in Marks
      BY <2>2 DEF Latest
    <3>. QED BY <2>2, <3>1 DEF Interrupted, Marks, MayFollow
  <2>4. MarksFit(events'[q]) /\ \A r \in Recording : r # q => events'[r] = events[r]
    <3>1. events'[q] = Append(events[q], "interrupted") /\ events[q] \in Seq(Marks)
      BY <2>1, <2>2
    <3>. QED BY <2>1, <2>2, <2>3, <3>1, MarkAdded DEF Marks
  <2>5. ASSUME NEW r \in Recording
        PROVE  MarksFit(events'[r]) /\ (Interrupted(r)' => recordings'[r] = "failed")
    BY <2>1, <2>2, <2>4 DEF Bookmarked, Interrupted
  <2>. QED BY <2>1, <2>5 DEF Bookmarked, At
<1>. QED BY <1>1, <1>2

\* The row of a recording that starts or stops is not one that failed.
LEMMA MarksRow ==
  ASSUME Known, Bookmarked, Without(DbRejected), NEW o \in {"ok", "lost"}, PutRecording(o)
  PROVE  Bookmarked'
<1>. USE Nothing DEF Known
<1>1. /\ events' = events /\ task.op \in {"started", "stopped"} /\ task.pc = "row"
      /\ \A r \in Recording : r # Current => recordings'[r] = recordings[r]
  BY PutRecordingDoes, Named DEF Landed
<1>2. Current \in Recording => ~Interrupted(Current)
  <2>1. CASE task.op = "started"
    BY <1>1, <2>1 DEF Current, Ordered, Unused, At, Interrupted
  <2>2. CASE task.op # "started"
    BY <1>1, <2>2, NotNone DEF Current, Bookmarked, Expected, Interrupted
  <2>. QED BY <2>1, <2>2
<1>3. \A r \in Recording : MarksFit(events[r])' /\ (Interrupted(r)' <=> Interrupted(r))
  BY <1>1 DEF Bookmarked, Interrupted
<1>4. task'.op \in {"idle", task.op}
      /\ (live'.rec = None \/ (live'.rec = live.rec /\ Expected \subseteq Expected'))
  <2>1. CASE o = "ok"
    BY <1>1, <2>1, PutRecordingDoes DEF Moves, Expected, At, Placed, Opening
  <2>2. CASE o # "ok"
    <3>1. Done
      BY <2>2, PutRecordingDoes
    <3>2. CASE live.inMap
      BY <1>1, <3>1, <3>2 DEF Done, Expected, At, Placed
    <3>3. CASE ~live.inMap
      BY <1>1, <3>1, <3>3 DEF Done
    <3>. QED BY <3>1, <3>2, <3>3 DEF Done
  <2>. QED BY <2>1, <2>2
<1>5. live'.rec # None => events'[live'.rec] # <<>> /\ Latest(events'[live'.rec]) \in Expected'
  BY <1>1, <1>4 DEF Bookmarked
<1>. QED BY <1>1, <1>2, <1>3, <1>4, <1>5 DEF Bookmarked, At

\* Every step keeps Bookmarked.
LEMMA BookmarkedInductive == ASSUME Known, Story, Bookmarked, [Next]_vars PROVE Bookmarked'
<1>. SUFFICES ASSUME Without(DbRejected)' PROVE Bookmarked'
  BY DEF Bookmarked
<1>. USE Nothing DEF Known
<1>0. Without(DbRejected) /\ <<"db", "rejected">> \notin faults'
  BY FaultsKept, WithoutKept DEF Without, DbRejected
<1>1. CASE Outside
  BY <1>0, <1>1, OutsideDoes, MarksStay DEF Expected, At
<1>2. CASE Crash
  BY <1>0, <1>2, DiesDoes, MarksStay DEF Crash, At, database
<1>3. CASE Begin
  BY <1>0, <1>3, MarksBegin
<1>4. CASE LeaveRunning
  BY <1>0, <1>4, LeaveRunningDoes, MarksOnward DEF Finishes, Placed, Places, Serving
<1>5. CASE Collect
  BY <1>0, <1>5, CollectDoes, MarksOnward DEF Finishes, Moves, Placed, Places, Serving
<1>6. ASSUME Done, task.pc \in {"poll", "register", "job"}, UNCHANGED <<events, recordings>>
      PROVE  Bookmarked'
  <2>1. CASE live.inMap
    <3>1. live' = live /\ task' = Idle /\ task.op # "stopped" /\ task.pc # "job" /\ Serving
      <4>1. task.op # "stopped"
        BY <2>1 DEF Placed
      <4>2. Serving /\ task.pc # "job"
        BY <1>6, <4>1, Named DEF Placed, Places, Serving, Tasks, Ops
      <4>. QED BY <1>6, <2>1, <4>1, <4>2 DEF Done
    <3>. QED BY <1>0, <1>6, <3>1, MarksOnward
  <2>2. CASE ~live.inMap
    BY <1>0, <1>6, <2>2, MarksStay DEF Done, At
  <2>. QED BY <2>1, <2>2
<1>7. CASE ResultRejected
  BY <1>6, <1>7, ResultRejectedDoes
<1>8. CASE Boot \/ Listen
  <2>1. live' = live /\ live.rec = None /\ UNCHANGED <<events, recordings>>
        /\ ~At("recover", "interrupted")'
    BY <1>8, BootDoes DEF Placed, Serving, At
  <2>. QED BY <1>0, <2>1, MarksStay
<1>9. ASSUME NEW t \in Track, CheckAck(t) PROVE Bookmarked'
  BY <1>0, <1>9, CheckAckDoes, MarksOnward DEF Starts, Moves, Placed, Places, Serving
<1>10. ASSUME NEW o \in Outcome, PutRecording(o) PROVE Bookmarked'
  BY <1>0, <1>10, PutRecordingDoes, MarksRow DEF Outcome
<1>11. ASSUME NEW o \in Outcome, AddEvent(o) PROVE Bookmarked'
  BY <1>0, <1>11, AddEventDoes, MarksAdded DEF Outcome
<1>12. ASSUME NEW o \in Outcome, PutTrack(o) PROVE Bookmarked'
  <2>1. CASE o = "ok"
    BY <1>0, <1>12, <2>1, PutTrackDoes, MarksOnward DEF Finishes, Placed, Places, Serving
  <2>2. CASE o # "ok"
    BY <1>6, <1>12, <2>2, PutTrackDoes
  <2>. QED BY <2>1, <2>2
<1>13. ASSUME NEW o \in Outcome, ListAudioTracks(o) PROVE Bookmarked'
  BY <1>0, <1>13, ListDoes, MarksOnward DEF Starts, Placed, Places, Serving
<1>14. ASSUME NEW o \in Outcome, EnqueueJob(o) PROVE Bookmarked'
  BY <1>6, <1>14, EnqueueJobDoes
<1>15. ASSUME NEW o \in Outcome, AddInterrupted(o) \/ \E r \in Recording : MarkInterrupted(r, o)
       PROVE  Bookmarked'
  <2>1. o \in {"ok", "lost"}
    BY <1>0, <1>15, AddInterruptedDoes, MarkDoes DEF Outcome
  <2>. QED BY <1>0, <1>15, <2>1, MarksRecovered
<1>16. ASSUME NEW o \in Outcome, NEW t \in Track, NextSegment(t, o) PROVE Bookmarked'
  BY <1>0, <1>16, NextSegmentDoes, MarksOnward DEF Moves, Placed, Places, Serving
<1>17. ASSUME NEW o \in Outcome, NEW e \in Egress, StartEgress(e, o) PROVE Bookmarked'
  BY <1>0, <1>17, StartEgressDoes, MarksOnward DEF Starts, Placed, Places, Serving
<1>. QED
  BY <1>1, <1>2, <1>3, <1>4, <1>5, <1>7, <1>8, <1>9, <1>10, <1>11, <1>12, <1>13, <1>14, <1>15, <1>16,
     <1>17, StepCases

\* The bookmarks of every recording tell a possible story, whatever is interrupted, lost or late
\* (capture.ts, recording_events): it starts once, pauses and resumes alternate, and nothing but one
\* interruption follows a stop.
THEOREM Bookmarks == Spec => []BookmarksAlternate
<1>1. Init => Story /\ Bookmarked
  BY StoryOfNone, InitBookmarked
<1>2. Known /\ Story /\ Bookmarked /\ [Next]_vars => Story' /\ Bookmarked'
  BY StoryInductive, BookmarkedInductive
<1>3. Bookmarked => BookmarksAlternate
  BY DEF Bookmarked, BookmarksAlternate, MarksFit, DbRejected
<1>. QED BY <1>1, <1>2, <1>3, AlwaysKnown, PTL DEF Spec

\* Rows and bookmarks together: what the database says of the recordings, in recordings.status and in
\* recording_events, is what happened.
THEOREM RowsTellTruth == Spec => []RowsAreTrue
<1>1. RowMatchesFlag /\ BookmarksAlternate => RowsAreTrue
  BY DEF RowsAreTrue
<1>. QED BY <1>1, RowsMatch, Bookmarks, PTL

-----------------------------------------------------------------------------
(* Silence.  Every running egress is one of the recording in memory, or of one that a restart has     *)
(* given up or is about to; and when the recording in memory does not capture, it tracks no file      *)
(* unless its pause is still at work.                                                                *)

TidyFaults == DbFaults \cup StartLost \cup Outage

Accounted(e) ==
  Capturing(e) =>
    \/ egress[e].rec = live.rec
    \/ recordings[egress[e].rec] = "failed"
    \/ ~Serving /\ recordings[egress[e].rec] = "recording"
Still == live.inMap /\ ~live.capturing /\ Tracked(live) # {} => task.op = "paused"

Silence == Without(TidyFaults) => Still /\ \A e \in Egress : Accounted(e)

LEMMA InitSilence == Init => Silence
  BY Nothing DEF Init, Silence, Still, Accounted, Capturing

LEMMA TidyIs ==
  ASSUME Without(TidyFaults)
  PROVE  /\ Without(Slow) /\ Without(RowFaults) /\ Without(StartLost) /\ Without(Refused)
         /\ \A o \in Outcome : <<"db", o>> \in faults => o = "ok"
         /\ <<"result", "rejected">> \notin faults /\ <<"result", "slow">> \notin faults
         /\ <<"start", "lost">> \notin faults
  BY DEF Without, TidyFaults, Outage, Refused, Slow, RowFaults, StartLost, DbFaults, Outcome

\* A pause that is through with its loop leaves no file.
LEMMA StillKept ==
  ASSUME Known, Asked, Ending, Still, Without(TidyFaults), Without(TidyFaults)', [Next]_vars
  PROVE  Still'
<1>. USE Nothing DEF Known
<1>. SUFFICES ASSUME live'.inMap, ~live'.capturing, Tracked(live)' # {} PROVE task'.op = "paused"
  BY DEF Still
<1>0. /\ \A o \in Outcome : <<"db", o>> \in faults' => o = "ok"
      /\ <<"result", "rejected">> \notin faults' /\ <<"result", "slow">> \notin faults'
      /\ task.op = "paused" /\ InLoop => Tracked(live) \subseteq task.todo
  <2>1. Without(Slow)
    BY TidyIs
  <2>. QED BY <2>1 DEF Ending, Without, TidyFaults, Outage, DbFaults, Outcome
<1>1. live'.segments = live.segments => Tracked(live)' = Tracked(live)
  BY DEF Tracked
<1>2. ASSUME live' = live, task'.op = task.op \/ (task'.op = "idle" /\ task.op # "paused")
      PROVE  task'.op = "paused"
  BY <1>2 DEF Still
<1>3. ASSUME NEW b, NEW todo, b.op = "paused", Finishes(task', b, live', todo),
             Tracked(live)' \subseteq todo
      PROVE  task'.op = "paused"
  BY <1>3 DEF Finishes
<1>4. ASSUME NEW b, NEW todo, NEW l, Finishes(task', b, l, todo) \/ Starts(task', b, todo)
      PROVE  task'.op \in {b.op, "idle"}
  BY <1>4 DEF Finishes, Starts
<1>5. CASE Outside
  BY <1>2, <1>5, OutsideDoes
<1>6. ~Dies /\ ~ResultRejected
  BY <1>0, DiesDoes, ResultRejectedDoes
<1>7. CASE Begin
  <2>1. task.op = "idle" /\ live'.segments = live.segments
    BY <1>7, BeginDoes
  <2>2. CASE live' = live
    BY <1>1, <2>1, <2>2 DEF Still
  <2>3. CASE live' # live
    BY <1>7, <2>3, BeginDoes
  <2>. QED BY <2>2, <2>3
<1>8. CASE LeaveRunning
  <2>1. task.pc = "poll" /\ live' = live /\ Finishes(task', task, live, task.todo \ {task.cur})
    BY <1>8, LeaveRunningDoes
  <2>2. task.op # "paused"
    BY <1>0, <1>8, OnlySlowIsLeft, TidyIs
  <2>. QED BY <1>2, <1>4, <2>1, <2>2
<1>9. CASE Collect
  <2>1. /\ task.pc = "poll" /\ task.cur \in Track
        /\ live'.segments = [live.segments EXCEPT ![task.cur] = None]
        /\ live'.inMap = live.inMap /\ live'.capturing = live.capturing
    BY <1>9, CollectDoes
  <2>2. Tracked(live)' = Tracked(live) \ {task.cur}
    BY <2>1, Named DEF Tracked, Lives
  <2>3. task.op = "paused" /\ InLoop
    BY <2>1, <2>2 DEF Still, InLoop
  <2>4. CASE Moves("register")
    BY <2>3, <2>4 DEF Moves
  <2>5. CASE Finishes(task', task, live', task.todo \ {task.cur})
    BY <1>0, <1>3, <2>2, <2>3, <2>5
  <2>. QED BY <1>9, <2>4, <2>5, CollectDoes
<1>10. CASE Boot \/ Listen
  BY <1>10, BootDoes DEF Placed, Serving, At
<1>11. ASSUME NEW o \in Outcome, PutTrack(o) PROVE task'.op = "paused"
  <2>1. /\ o = "ok" /\ live' = live /\ Finishes(task', task, live', task.todo \ {task.cur})
        /\ task.pc = "register"
    BY <1>0, <1>11, PutTrackDoes
  <2>2. task.cur \notin Tracked(live)
    BY <2>1 DEF Tracked, Segments, FileFits
  <2>3. task.op = "paused" /\ InLoop
    BY <2>1 DEF Still, InLoop
  <2>. QED BY <1>0, <1>1, <1>3, <2>1, <2>2, <2>3
<1>12. ASSUME NEW o \in Outcome, AddEvent(o) PROVE task'.op = "paused"
  <2>1. o = "ok"
    BY <1>0, <1>12, AddEventDoes
  <2>2. task.op # "started"
    BY <1>12, <2>1, AddEventDoes
  <2>3. live' = live
    BY <1>12, <2>1, <2>2, AddEventDoes DEF Change
  <2>4. task.op = "paused"
    BY <2>3 DEF Still
  <2>. QED BY <1>1, <1>3, <1>12, <2>1, <2>3, <2>4, AddEventDoes
<1>13. ASSUME NEW o \in Outcome, PutRecording(o) PROVE task'.op = "paused"
  BY <1>0, <1>2, <1>13, PutRecordingDoes DEF Moves
<1>14. ASSUME NEW o \in Outcome, NEW t \in Track, NextSegment(t, o) PROVE task'.op = "paused"
  BY <1>2, <1>14, NextSegmentDoes DEF Moves
<1>15. ASSUME task.pc \in {"list", "ack", "start"}, live'.capturing = live.capturing PROVE FALSE
  BY <1>15 DEF Placed
<1>16. ASSUME NEW t \in Track, CheckAck(t) PROVE FALSE
  BY <1>15, <1>16, CheckAckDoes
<1>17. ASSUME NEW o \in Outcome, ListAudioTracks(o) \/ \E e \in Egress : StartEgress(e, o) PROVE FALSE
  BY <1>15, <1>17, ListDoes, StartEgressDoes
<1>18. ASSUME NEW o \in Outcome,
              EnqueueJob(o) \/ AddInterrupted(o) \/ \E r \in Recording : MarkInterrupted(r, o)
       PROVE  FALSE
  BY <1>6, <1>18, EnqueueJobDoes, AddInterruptedDoes, MarkDoes DEF Done, Placed, Serving, At
<1>. QED
  BY <1>5, <1>6, <1>7, <1>8, <1>9, <1>10, <1>11, <1>12, <1>13, <1>14, <1>16, <1>17, <1>18, StepCases
     DEF Crash

\* Egresses of the live recording are segments, so there are none once a stop is at its job.
LEMMA JobIsSilent ==
  ASSUME Known, Ending, Without(TidyFaults), task.pc = "job", NEW e \in Egress, Capturing(e)
  PROVE  egress[e].rec # live.rec
<1>. USE DEF Known
<1>1. Without(Slow) /\ Without(StartLost)
  BY TidyIs
<1>2. Tracked(live) = {}
  BY <1>1, Named DEF Placed, Places, Ending, InLoop, Tasks, Ops
<1>3. egress[e].track \in Track /\ e # None
  BY DEF Capturing, Consented, OfAcked, Egress, None
<1>. QED BY <1>1, <1>2, <1>3 DEF Segments, OneEach, Tracked

\* Every running egress stays accounted for.
LEMMA AccountedKept ==
  ASSUME Known, Story, Ending, Rows, Silence, Without(TidyFaults), Without(TidyFaults)', [Next]_vars,
         NEW e \in Egress
  PROVE  Accounted(e)'
<1>. USE Nothing DEF Known
<1>0. /\ \A o \in Outcome : <<"db", o>> \in faults' => o = "ok"
      /\ <<"result", "rejected">> \notin faults'
  BY DEF Without, TidyFaults, Outage, DbFaults, Outcome
<1>1. CASE \E d \in Egress, o \in Outcome : StartEgress(d, o)
  <2>1. PICK d \in Egress, o \in Outcome : StartEgress(d, o)
    BY <1>1
  <2>2. live'.rec = live.rec /\ recordings' = recordings /\ Serving
    BY <2>1, StartEgressDoes DEF Placed, Places, Serving
  <2>3. egress' = egress \/ egress' = [egress EXCEPT ![d] = [rec |-> live.rec, track |-> task.cur,
                                                             state |-> "active"]]
    BY <2>1, StartEgressDoes
  <2>4. egress'[e] = egress[e] \/ egress'[e].rec = live.rec
    BY <2>3, Named DEF Egresses
  <2>5. Accounted(e)
    BY DEF Silence
  <2>. QED BY <2>2, <2>4, <2>5 DEF Accounted, Capturing
<1>2. CASE ~\E d \in Egress, o \in Outcome : StartEgress(d, o)
  <2>. SUFFICES ASSUME Capturing(e)'
                PROVE  \/ egress[e].rec = live'.rec
                       \/ recordings'[egress[e].rec] = "failed"
                       \/ ~Serving' /\ recordings'[egress[e].rec] = "recording"
    BY <1>2, EgressesEnd DEF Accounted, Capturing
  <2>. DEFINE r == egress[e].rec
              Good == \/ r = live'.rec \/ recordings'[r] = "failed"
                      \/ ~Serving' /\ recordings'[r] = "recording"
  <2>1. Capturing(e)
    BY <1>2, EgressesEnd DEF Capturing
  <2>2. /\ r \in Recording /\ Exists(e)
        /\ r = live.rec \/ recordings[r] = "failed" \/ (~Serving /\ recordings[r] = "recording")
    BY <2>1 DEF Silence, Accounted, Consented, OfAcked, Capturing, Exists
  <2>. HIDE DEF r
  <2>3. ASSUME live'.rec = live.rec, recordings' = recordings, Serving \/ ~Serving' PROVE Good
    BY <2>2, <2>3
  <2>4. ASSUME Outside PROVE Good
    BY <2>3, <2>4, OutsideDoes DEF Serving
  <2>5. ASSUME Crash PROVE Good
    <3>1. recordings' = recordings /\ ~Serving'
      BY <2>5, DiesDoes DEF Crash, database, Serving
    <3>2. CASE r = live.rec
      <4>1. Serving /\ task.pc # "job" /\ Without(RowFaults)
        BY <2>1, <2>2, <3>2, NotNone, JobIsSilent, TidyIs DEF Placed, r
      <4>2. recordings[r] = "recording"
        BY <2>2, <3>2, <4>1 DEF Rows, Held
      <4>. QED BY <3>1, <4>2
    <3>. QED BY <2>2, <3>1, <3>2
  <2>6. ASSUME Begin PROVE Good
    BY <2>3, <2>6, BeginDoes DEF Serving
  <2>7. ASSUME LeaveRunning PROVE Good
    BY <2>3, <2>7, LeaveRunningDoes DEF Placed, Places, Serving
  <2>8. ASSUME Collect PROVE Good
    BY <2>3, <2>8, CollectDoes DEF Placed, Places, Serving
  <2>9. ~ResultRejected
    BY <1>0, ResultRejectedDoes
  <2>10. ASSUME Boot \/ Listen PROVE Good
    <3>1. CASE Boot
      BY <2>3, <3>1, BootDoes DEF Boot, Serving, At
    <3>2. CASE Listen
      <4>1. recordings[r] # "recording" /\ live.rec = None /\ recordings' = recordings
        BY <2>2, <3>2, BootDoes DEF Listen, Recovered, CutOff, Placed, Serving, At
      <4>. QED BY <2>2, <4>1, NotNone
    <3>. QED BY <2>10, <3>1, <3>2
  <2>11. ASSUME NEW t \in Track, CheckAck(t) PROVE Good
    BY <2>3, <2>11, CheckAckDoes DEF Placed, Places, Serving
  <2>12. ASSUME NEW o \in Outcome, PutRecording(o) PROVE Good
    <3>1. o = "ok" /\ Serving /\ live' = live
      BY <1>0, <2>12, PutRecordingDoes DEF Serving
    <3>2. r = Current => r = live.rec
      BY <2>2, <2>12, PutRecordingDoes DEF Current, Ordered, Unused, At, r
    <3>3. r # Current => recordings'[r] = recordings[r]
      BY <2>2, <2>12, PutRecordingDoes, Named
    <3>. QED BY <2>2, <3>1, <3>2, <3>3
  <2>13. ASSUME NEW o \in Outcome, AddEvent(o) PROVE Good
    <3>1. o = "ok" /\ Serving /\ recordings' = recordings
      BY <1>0, <2>13, AddEventDoes DEF Serving, Change
    <3>2. CASE task.op = "started"
      <4>1. ~live.inMap
        BY <2>13, <3>2, AddEventDoes DEF Story, Opening
      <4>2. live.rec = None
        BY <3>2, <4>1 DEF Placed
      <4>. QED BY <2>2, <3>1, <4>2, NotNone
    <3>3. CASE task.op # "started"
      BY <2>3, <2>13, <3>1, <3>3, AddEventDoes DEF Change
    <3>. QED BY <3>2, <3>3
  <2>14. ASSUME NEW o \in Outcome, PutTrack(o) PROVE Good
    BY <1>0, <2>3, <2>14, PutTrackDoes DEF Placed, Places, Serving
  <2>15. ASSUME NEW o \in Outcome, ListAudioTracks(o) PROVE Good
    BY <2>3, <2>15, ListDoes DEF Placed, Places, Serving
  <2>16. ASSUME NEW o \in Outcome, EnqueueJob(o) PROVE Good
    <3>1. r # live.rec /\ recordings' = recordings /\ Serving
      BY <2>1, <2>16, EnqueueJobDoes, JobIsSilent DEF Serving, r
    <3>. QED BY <2>2, <3>1
  <2>17. ASSUME NEW o \in Outcome, AddInterrupted(o) PROVE Good
    BY <1>0, <2>3, <2>17, AddInterruptedDoes DEF Serving
  <2>18. ASSUME NEW o \in Outcome, NEW t \in Track, NextSegment(t, o) PROVE Good
    BY <2>3, <2>18, NextSegmentDoes DEF Placed, Places, Serving
  <2>19. ASSUME NEW o \in Outcome, NEW q \in Recording, MarkInterrupted(q, o) PROVE Good
    <3>1. /\ recordings' = [recordings EXCEPT ![q] = "failed"] /\ ~Serving' /\ live' = live
      BY <1>0, <2>19, MarkDoes DEF Landed, Serving
    <3>. QED BY <2>2, <3>1, Named
  <2>20. Good
    BY <1>2, <2>4, <2>5, <2>6, <2>7, <2>8, <2>9, <2>10, <2>11, <2>12, <2>13, <2>14, <2>15, <2>16,
       <2>17, <2>18, <2>19, StepCases
  <2>. QED BY <2>20 DEF r
<1>. QED BY <1>1, <1>2

\* Every step keeps Silence.
LEMMA SilenceInductive ==
  ASSUME Known, Asked, Story, Ending, Rows, Silence, [Next]_vars
  PROVE  Silence'
<1>. SUFFICES ASSUME Without(TidyFaults)'
              PROVE  Still' /\ \A e \in Egress : Accounted(e)'
  BY DEF Silence, Accounted, Capturing, Serving, Without
<1>1. Without(TidyFaults)
  BY FaultsKept, WithoutKept DEF Known
<1>2. Still
  BY <1>1 DEF Silence
<1>. QED BY <1>1, <1>2, StillKept, AccountedKept

\* A running egress of the current recording, paused or not, is a segment in memory.
LEMMA CurrentIsTracked ==
  ASSUME Known, Story, Quiet, Without(DbFaults \cup StartLost), NEW e \in Egress, Capturing(e),
         egress[e].rec = flag.id
  PROVE  live.inMap /\ live.segments[egress[e].track] = e
<1>. USE DEF Known
<1>1. ~Opening /\ Without(StartLost) /\ Clean
  BY DEF Quiet, Opening, Idle, Without, StartLost, Clean
<1>2. flag = Base
  BY <1>1 DEF Quiet, Story, Told, Agrees
<1>3. egress[e].rec \in Recording
  BY DEF Capturing, Consented, OfAcked
<1>4. live.inMap /\ flag.id = live.rec
  BY <1>1, <1>2, <1>3, NotNone, NoFlagIs DEF Base
<1>. QED BY <1>1, <1>4 DEF Segments, OneEach

\* Once the chain has caught up, audio is being written only for the recording that is on and not
\* paused, or for one that a restart gave up, or by an egress that an outage left running: one that
\* refused to stop, outlasted the wait or came after a failing status query (capture.ts:69-71,
\* 257-264).  During a pause even that one is still in memory, for the next pause or stop to ask.
THEOREM Silent == Spec => []SilentUnlessRecording
<1>1. Init => Story /\ Ending /\ Rows /\ Silence
  BY StoryOfNone, InitCovered, InitRows, InitSilence
<1>2. Known /\ Asked /\ Story /\ Ending /\ Rows /\ Silence /\ [Next]_vars
        => Story' /\ Ending' /\ Rows' /\ Silence'
  BY StoryInductive, EndingInductive, RowsInductive, SilenceInductive
<1>3. Known /\ Story /\ Silence => SilentUnlessRecording
  <2>. SUFFICES ASSUME Known, Story, Silence, Quiet, Without(DbFaults \cup StartLost), NEW e \in Egress,
                       Capturing(e), recordings[egress[e].rec] # "failed", ~LeftRunning(e)
                PROVE  egress[e].rec = flag.id /\ ~flag.paused
    BY DEF SilentUnlessRecording, StartLost
  <2>. USE Nothing DEF Known
  <2>0. Without(TidyFaults)
    <3>1. Without(Outage)
      BY CurrentIsTracked DEF LeftRunning
    <3>. QED BY <3>1 DEF Without, TidyFaults
  <2>1. task = Idle /\ chain = <<>> /\ Serving /\ ~Opening
    BY DEF Quiet, Serving, Opening
  <2>2. egress[e].rec = live.rec
    BY <2>0, <2>1 DEF Silence, Accounted
  <2>3. egress[e].rec \in Recording /\ egress[e].track \in Track /\ e # None
    BY DEF Capturing, Consented, OfAcked, Egress, None
  <2>4. live.inMap
    BY <2>1, <2>2, <2>3, NotNone DEF Placed
  <2>5. Tracked(live) # {}
    BY <2>0, <2>2, <2>3, TidyIs DEF Segments, OneEach, Tracked
  <2>6. live.capturing
    BY <2>0, <2>1, <2>4, <2>5 DEF Silence, Still
  <2>7. flag = Base
    BY <2>0, <2>1 DEF Story, Told, Agrees, Clean, Without, TidyFaults
  <2>. QED BY <2>1, <2>2, <2>4, <2>6, <2>7 DEF Base
<1>. QED BY <1>1, <1>2, <1>3, AlwaysKnown, AlwaysAsked, PTL DEF Spec

===============================================================================
