-------------------------- MODULE RecordsWorkerProofs --------------------------
(* Proofs about RecordsWorker, for any number of tracks, jobs, attempts, workers, operators,       *)
(* commands and faults.                                                                            *)
EXTENDS RecordsWorker, WellFoundedInduction, TLAPS

Pcs == {"off", "idle", "claim"} \cup Handling
Tasks == [pc : Pcs, job : Job \cup {0}, todo : SUBSET Track, cur : Track \cup {NoTrack},
          heard : SUBSET Track, kinds : {<<>>, << 1 >>, << 2 >>, <<1, 2>>},
          seen : SUBSET (Job \X (0..MaxAttempts))]

\* What a worker's task holds beyond its type: a job while it handles one, a kind of summary while it
\* writes one, only tracks that are not private, and leases seen before the last attempt.
Formed(k) ==
  /\ k.pc \in Handling => k.job \in Job
  /\ k.pc \in {"look", "summarise", "put"} => k.kinds \in {<<1, 2>>, << 2 >>}
  /\ k.pc = "save" => k.cur \in k.todo
  /\ k.todo \subseteq Public
  /\ \A s \in k.seen : s[2] < MaxAttempts
Fit == {k \in Tasks : Formed(k)}

\* What the tables hold beyond their types: a queued job has an attempt left, only running jobs have
\* leases that end, jobs are created in order, go with their recording, and private tracks have no
\* transcript.
Jobs == [state : {"none", "queued", "running", "done", "failed"}, attempts : 0..MaxAttempts,
         due : BOOLEAN, expired : BOOLEAN]
TableFit(T) ==
  /\ T \in [Job -> Jobs]
  /\ \A j \in Job : T[j].state = "queued" => T[j].attempts < MaxAttempts
  /\ \A j \in Job : T[j].expired => T[j].state = "running"
  /\ \A i, j \in Job : i < j /\ T[j].state # "none" => T[i].state # "none"
TablesFit ==
  /\ TableFit(job)
  /\ status = "deleted" => \A j \in Job : ~Exists(j)
  /\ transcribed \subseteq Public

Sound == TypeOK /\ (\A w \in Worker : Formed(worker[w])) /\ TablesFit

\* As long as heartbeats and answers get through, whoever handles a job holds its lease, alone.
Holds(w) == Busy(w) /\ ~At(w, "giveup")
NoStall == Without(DbLost \cup Stall)
Leases ==
  NoStall =>
    /\ \A w \in Worker : Holds(w) =>
         status = "deleted" \/ (job[worker[w].job].state = "running" /\ ~job[worker[w].job].expired)
    /\ \A v, w \in Worker : Holds(v) /\ Holds(w) /\ worker[v].job = worker[w].job => v = w

\* Unless an old job is retried by hand, there is one active job and one who handles it, who has not
\* transcribed what is left to do.
Undisturbed == NoStall /\ "retried" \notin history
OneHolder == Undisturbed => \A v, w \in Worker : Holds(v) /\ Holds(w) => v = w
NotDoneYet ==
  Undisturbed =>
    \A w \in Worker : worker[w].pc \in {"transcribe", "save"} => worker[w].todo \cap transcribed = {}

\* As long as nothing is reset under a worker, it has transcribed what it no longer has to do, and
\* writes summaries of everything, one after the other.
Whole(k) == summary[k] = [written |-> TRUE, from |-> Public]
Progress(w) ==
  /\ worker[w].pc \in {"transcribe", "save"} => Public \subseteq transcribed \cup worker[w].todo
  /\ worker[w].pc \in {"merge", "look", "summarise", "put", "finish"} => transcribed = Public
  /\ worker[w].pc \in {"look", "summarise", "put"} => worker[w].heard = Public
  /\ worker[w].pc \in {"look", "summarise", "put"} /\ worker[w].kinds = << 2 >> => Whole(1)
  /\ worker[w].pc = "finish" => Whole(1) /\ Whole(2)
Progresses ==
  "raced" \notin history /\ status # "deleted" =>
    /\ \A w \in Worker : Progress(w)
    /\ \A k \in 1..2 : summary[k].written => Whole(k)
    /\ \/ status # "processed" \/ RecordsComplete
       \/ <<"command", "rejected">> \in faults \/ \E p \in Operator : command[p].pc = "stopped"

\* While nothing went wrong but models, no worker was raced, and only one job exists or none was
\* retried: whoever is busy is alone with the newest job, and the row tells how it ended unless
\* somebody is about to change it.
Plain ==
  /\ history \cap {"raced", "untold"} = {} /\ faults \subseteq Models /\ status # "deleted"
  /\ "retried" \notin history \/ \A i, j \in Job : Exists(i) /\ Exists(j) => i = j
Newest(j) == Exists(j) /\ \A i \in Job : Exists(i) => i <= j
Retrying(p) == command[p].op = "retry" /\ command[p].pc = "stopped"
Requeueing == \E p \in Operator : command[p].pc = "enqueue"

OneBusy == \A v, w \in Worker : Busy(v) /\ Busy(w) => v = w
ActiveIsNewest == \A j \in Job : Active(j) => Newest(j)
RetriesQueued == \A p \in Operator : Retrying(p) => \E j \in Job : job[j].state = "queued"
GivesUpNewest ==
  \A w \in Worker : At(w, "giveup") =>
    /\ Newest(worker[w].job)
    /\ \/ job[worker[w].job].state = "failed"
       \/ job[worker[w].job].state = "queued" /\ \E p \in Operator : Retrying(p)
CompletesProcessed == \A w \in Worker : At(w, "complete") => status = "processed"
NewestTold ==
  \A j \in Job : Newest(j) =>
    /\ job[j].state = "done" => status = "processed" \/ Requeueing
    /\ job[j].state = "failed" => status = "failed" \/ Requeueing \/ \E w \in Worker : At(w, "giveup")
Telling == /\ OneBusy /\ ActiveIsNewest /\ RetriesQueued
           /\ GivesUpNewest /\ CompletesProcessed /\ NewestTold
Told == Plain => Telling

\* The first step of reprocessing is not the second step of retrying.
CommandsFit == \A p \in Operator : command[p].pc = "reset" => command[p].op # "retry"

IInv == /\ Sound /\ CommandsFit /\ Leases /\ OneActiveJob /\ OneHolder /\ NotDoneYet
        /\ Progresses /\ Told

-----------------------------------------------------------------------------
(* Types.                                                                  *)

\* A row of the table, and a new one.
LEMMA NewJobTyped ==
  /\ NoJob \in Jobs /\ Queued \in Jobs
  /\ Queued.state = "queued" /\ Queued.attempts = 0 /\ ~Queued.expired /\ NoJob.state = "none" /\ ~NoJob.expired
<1>1. 0 \in 0..MaxAttempts /\ 0 < MaxAttempts
  BY QueueAssumption
<1>2. NoJob \in Jobs
  BY <1>1 DEF NoJob, Jobs
<1>3. Queued \in Jobs
  BY <1>1, <1>2 DEF Queued, Jobs
<1>. QED BY <1>1, <1>2, <1>3 DEF NoJob, Queued

\* A recording that waits for its first worker.
LEMMA InitSound == Init => Sound
<1>. SUFFICES ASSUME Init PROVE Sound
  OBVIOUS
<1>1. QueueTypeOK
  BY NewJobTyped DEF Init, QueueTypeOK, Jobs
<1>2. Idle \in Fit
  BY DEF Idle, Off, Fit, Tasks, Formed, Pcs, Handling
<1>3. TypeOK
  BY <1>1, <1>2, WorkerAssumption DEF Init, TypeOK, Fit, Tasks, Pcs, NoSummary, NoCommand
<1>4. TablesFit
  <2>1. \A j \in Job : job[j] \in {NoJob, Queued} /\ (Exists(j) => j = 1 /\ status = "stopped")
    BY NewJobTyped DEF Init, Exists
  <2>2. \A i, j \in Job : i < j => j # 1
    BY QueueAssumption DEF Job
  <2>3. transcribed \subseteq Public
    BY DEF Init
  <2>. QED BY <1>1, <2>1, <2>2, <2>3, NewJobTyped, QueueAssumption DEF TablesFit, TableFit, Init, Exists
<1>. QED BY <1>2, <1>3, <1>4 DEF Sound, Init, Fit

\* Faults are faults that may happen, and stay known.
LEMMA CallTyped ==
  ASSUME TypeOK, NEW c, NEW o, Call(c, o)
  PROVE  faults' \subseteq Faults /\ faults \subseteq faults'
  BY DEF Call, TypeOK

\* The workers after one of them moved.
LEMMA GotoTyped ==
  ASSUME Sound, NEW w \in Worker, NEW k \in Fit, Goto(w, k)
  PROVE  worker' \in [Worker -> Tasks] /\ \A v \in Worker : Formed(worker'[v])
  BY DEF Sound, TypeOK, Fit, Tasks, Pcs, Goto

\* A worker that throws while it handles a job, goes on with it, or is restarted.
Plainly == {"load", "begin", "tracks", "transcribe", "merge", "error", "giveup", "complete", "finish"}
LEMMA ErrorTyped ==
  ASSUME Sound, NEW w \in Worker
  PROVE  /\ Idle \in Fit /\ Off \in Fit /\ worker[w] \in Fit
         /\ Busy(w) => \A pc \in Plainly : [worker[w] EXCEPT !.pc = pc] \in Fit
<1>1. worker[w] \in Tasks /\ Formed(worker[w])
  BY DEF Sound, TypeOK, Tasks, Pcs
<1>2. Idle \in Fit /\ Off \in Fit
  BY DEF Idle, Off, Fit, Tasks, Formed, Pcs, Handling
<1>3. ASSUME Busy(w), NEW pc \in Plainly
      PROVE  [worker[w] EXCEPT !.pc = pc] \in Fit
  BY <1>1, <1>3 DEF Fit, Tasks, Formed, Pcs, Handling, Busy, Plainly
<1>. QED BY <1>1, <1>2, <1>3 DEF Fit

\* The statements on the table keep it fit, and only enqueue makes a row.
SameRows(T) == \A i \in Job : T[i].state = "none" <=> job[i].state = "none"
Sane(T) == TableFit(T) /\ SameRows(T)

LEMMA GivenUpSane == TableFit(job) => Sane(GivenUp)
  BY DEF TableFit, Sane, SameRows, GivenUp, Exhausted, LeaseOver, Jobs

LEMMA ClaimedSane ==
  ASSUME TableFit(job), NEW seen, \A s \in seen : s[2] < MaxAttempts,
         NEW j \in Job, Claimable(j, seen)
  PROVE  Sane(Claimed(j))
<1>1. job[j].attempts < MaxAttempts /\ job[j].attempts \in 0..MaxAttempts /\ job[j].state # "none"
  BY DEF Claimable, TableFit, LeaseOver, Jobs
<1>2. job[j].attempts + 1 \in 0..MaxAttempts
  BY <1>1, QueueAssumption
<1>. QED BY <1>1, <1>2 DEF TableFit, Sane, SameRows, Claimed, Jobs

LEMMA ExtendedSane == TableFit(job) => \A j \in Job : Sane(Extended(j))
  BY DEF TableFit, Sane, SameRows, Extended, Jobs

LEMMA CompletedSane == TableFit(job) => \A j \in Job : Sane(Completed(j))
<1>. SUFFICES ASSUME TableFit(job), NEW j \in Job PROVE Sane(Completed(j))
  OBVIOUS
<1>1. CASE ~Exists(j)
  BY <1>1 DEF Completed, Sane, SameRows
<1>2. CASE Exists(j)
  <2>1. /\ Completed(j) \in [Job -> Jobs] /\ \A i \in Job : i # j => Completed(j)[i] = job[i]
        /\ Completed(j)[j].state = "done" /\ ~Completed(j)[j].expired
    BY <1>2 DEF TableFit, Completed, Jobs
  <2>. QED BY <1>2, <2>1 DEF TableFit, Sane, SameRows, Exists
<1>. QED BY <1>1, <1>2

LEMMA FailedSane ==
  ASSUME TableFit(job), NEW j \in Job
  PROVE  /\ Sane(Failed(j))
         /\ \A i \in Job \ {j} : Failed(j)[i] = job[i]
         /\ Failed(j)[j].state \in {"none", "failed", "queued"} /\ ~Failed(j)[j].expired
         /\ Failed(j)[j].state = "queued" => job[j].attempts < MaxAttempts
<1>1. job \in [Job -> Jobs] /\ job[j].attempts \in 0..MaxAttempts
  BY DEF TableFit, Jobs
<1>2. AfterFailure(j) \in {"none", "failed", "queued"} /\ (AfterFailure(j) = "none" <=> job[j].state = "none")
  BY DEF AfterFailure, Exists
<1>3. AfterFailure(j) = "queued" => job[j].attempts < MaxAttempts
  BY <1>1, QueueAssumption DEF AfterFailure
<1>4. /\ Failed(j) \in [Job -> Jobs] /\ \A i \in Job \ {j} : Failed(j)[i] = job[i]
      /\ ~Failed(j)[j].expired /\ Failed(j)[j].attempts = job[j].attempts
      /\ Failed(j)[j].state = AfterFailure(j)
  BY <1>1, <1>2 DEF Failed, Jobs
<1>. QED BY <1>1, <1>2, <1>3, <1>4 DEF TableFit, Sane, SameRows

LEMMA RetriedSane == TableFit(job) => \A j \in Job : Retryable(j) => Sane(Retried(j))
  BY NewJobTyped, QueueAssumption DEF TableFit, Sane, SameRows, Retried, Retryable

LEMMA EnqueuedFit == TableFit(job) => TableFit(Enqueued)
  BY NewJobTyped, QueueAssumption DEF TableFit, Enqueued, Enqueue, Exists, Job

\* A lease runs out, a retry is due.
LEMMA TimeSane ==
  ASSUME TableFit(job), NEW j \in Job
  PROVE  /\ job[j].state = "running" => Sane([job EXCEPT ![j].expired = TRUE])
         /\ Sane([job EXCEPT ![j].due = TRUE])
  BY DEF TableFit, Sane, SameRows, Jobs

\* The kinds of summaries that are left, and the next one.
LEMMA KindsTyped ==
  ASSUME NEW kinds \in {<<1, 2>>, << 2 >>}
  PROVE  /\ Head(kinds) \in 1..2 /\ Tail(kinds) \in {<<>>, << 2 >>}
         /\ Tail(kinds) = << 2 >> <=> kinds = <<1, 2>>
         /\ Head(kinds) = 1 <=> kinds = <<1, 2>>
         /\ << 2 >> # <<1, 2>> /\ << 2 >> # <<>>
<1>1. CASE kinds = <<1, 2>>
  <2>1. Head(kinds) = 1 /\ Tail(kinds) = << 2 >> /\ Len(<< 2 >>) = 1 /\ Len(<<1, 2>>) = 2 /\ Len(<<>>) = 0
    BY <1>1
  <2>. QED BY <1>1, <2>1
<1>2. CASE kinds = << 2 >>
  <2>1. Head(kinds) = 2 /\ Tail(kinds) = <<>> /\ Len(<< 2 >>) = 1 /\ Len(<<1, 2>>) = 2 /\ Len(<<>>) = 0
    BY <1>2
  <2>. QED BY <1>2, <2>1
<1>. QED BY <1>1, <1>2

\* A worker with a job, or with the next part of it.
LEMMA MovesFit ==
  ASSUME NEW k \in Fit
  PROVE  /\ \A j \in Job : [Idle EXCEPT !.pc = "load", !.job = j] \in Fit
         /\ k.kinds \in {<<1, 2>>, << 2 >>} /\ k.pc \in Handling =>
              [k EXCEPT !.pc = "summarise"] \in Fit /\ [k EXCEPT !.pc = "put"] \in Fit
         /\ k.pc \in Handling => \A t \in k.todo : [k EXCEPT !.pc = "save", !.cur = t] \in Fit
<1>1. ASSUME NEW j \in Job PROVE [Idle EXCEPT !.pc = "load", !.job = j] \in Fit
  BY <1>1 DEF Idle, Off, Fit, Tasks, Formed, Pcs, Handling
<1>2. ASSUME k.kinds \in {<<1, 2>>, << 2 >>}, k.pc \in Handling, NEW pc \in {"summarise", "put"}
      PROVE  [k EXCEPT !.pc = pc] \in Fit
  BY <1>2 DEF Fit, Tasks, Formed, Pcs, Handling
<1>3. ASSUME k.pc \in Handling, NEW t \in k.todo PROVE [k EXCEPT !.pc = "save", !.cur = t] \in Fit
  BY <1>3 DEF Fit, Tasks, Formed, Pcs, Handling
<1>. QED BY <1>1, <1>2, <1>3

\* Where the loops over the tracks and over the kinds of summaries lead.
LEMMA TranscribingFit ==
  ASSUME Sound, NEW w \in Worker, Busy(w), NEW todo \in SUBSET Public
  PROVE  Transcribing(worker[w], todo) \in Fit
<1>1. worker[w] \in Fit /\ todo \subseteq Track
  BY ErrorTyped DEF Public
<1>2. Transcribing(worker[w], todo) \in Tasks
  BY <1>1 DEF Fit, Tasks, Pcs, Handling, Transcribing
<1>3. Formed(Transcribing(worker[w], todo))
  BY <1>1 DEF Fit, Tasks, Formed, Handling, Busy, Transcribing
<1>. QED BY <1>2, <1>3 DEF Fit

LEMMA SummarisingFit ==
  ASSUME NEW k \in Fit, k.pc \in Handling, NEW kinds \in {<<>>, <<1, 2>>, << 2 >>}
  PROVE  Summarising(k, kinds) \in Fit
<1>1. Summarising(k, kinds) \in Tasks
  BY DEF Fit, Tasks, Pcs, Handling, Summarising
<1>2. Formed(Summarising(k, kinds))
  BY DEF Fit, Tasks, Formed, Handling, Summarising
<1>. QED BY <1>1, <1>2 DEF Fit

Statuses == {"stopped", "processing", "processed", "failed", "deleted"}
Summaries == [1..2 -> [written : BOOLEAN, from : SUBSET Track]]
Commands == [op : {"none", "retry", "reprocess", "delete"},
             pc : {"-", "reset", "stopped", "enqueue", "delete"}, full : BOOLEAN]
Notes == {"raced", "retried", "untold"}

\* What a step may do to the tables and the workers, and keep everything sound.
LEMMA SoundStep ==
  ASSUME Sound, TableFit(job'), status' = "deleted" => \A j \in Job : ~Exists(j)',
         status' \in Statuses, transcribed' \subseteq Public, summary' \in Summaries,
         worker' \in [Worker -> Tasks], \A w \in Worker : Formed(worker'[w]),
         command' \in [Operator -> Commands], given' \in 0..MaxCommands,
         faults' \subseteq Faults, history' \subseteq Notes
  PROVE  Sound'
<1>1. Private \subseteq Track /\ transcribed' \subseteq Track
  BY WorkerAssumption DEF Public
<1>2. QueueTypeOK'
  BY DEF QueueTypeOK, TableFit, Jobs
<1>3. TypeOK'
  BY <1>1, <1>2 DEF TypeOK, Tasks, Pcs, Statuses, Summaries, Commands, Notes
<1>4. TablesFit'
  BY DEF TablesFit
<1>. QED BY <1>3, <1>4 DEF Sound

LEMMA WorkerStepSound ==
  ASSUME Sound, NEW w \in Worker, NEW k \in Fit, Goto(w, k),
         NEW c, NEW o, Call(c, o), UNCHANGED people,
         Sane(job'), status' = "deleted" <=> status = "deleted",
         status' \in Statuses, transcribed' \subseteq Public, summary' \in Summaries,
         history' \subseteq Notes
  PROVE  Sound'
<1>1. worker' \in [Worker -> Tasks] /\ \A v \in Worker : Formed(worker'[v])
  BY GotoTyped
<1>2. faults' \subseteq Faults
  BY CallTyped DEF Sound
<1>3. command' \in [Operator -> Commands] /\ given' \in 0..MaxCommands
  BY DEF Sound, TypeOK, Commands, people
<1>4. status' = "deleted" => \A j \in Job : ~Exists(j)'
  BY DEF Sound, TablesFit, Sane, SameRows, Exists
<1>. QED BY <1>1, <1>2, <1>3, <1>4, SoundStep DEF Sane

\* The parts of it that most steps leave alone.
LEMMA TablesTyped ==
  ASSUME Sound
  PROVE  /\ TableFit(job) /\ Sane(job)
         /\ status \in Statuses /\ transcribed \subseteq Public /\ summary \in Summaries
         /\ history \subseteq Notes /\ command \in [Operator -> Commands] /\ given \in 0..MaxCommands
         /\ faults \subseteq Faults /\ worker \in [Worker -> Tasks]
         /\ \A w \in Worker : worker[w] \in Fit
  BY DEF Sound, TypeOK, TablesFit, Statuses, Summaries, Notes, Commands, Sane, SameRows, Tasks, Pcs, Fit

\* After an awaited call a worker goes on, handles the error, or exits.
LEMMA GoesOn ==
  ASSUME Sound, NEW w \in Worker, NEW o, NEW k \in Fit,
         (OrError(w, o, k) /\ Busy(w)) \/ OrExit(w, o, k) \/ Goto(w, k)
  PROVE  \E g \in Fit : Goto(w, g)
<1>1. Off \in Fit /\ (Busy(w) => [worker[w] EXCEPT !.pc = "error"] \in Fit)
  BY ErrorTyped DEF Plainly
<1>. QED BY <1>1 DEF OrError, OrExit

\* processNext up to the handler.
LEMMA ClaimingSound ==
  ASSUME Sound, NEW w \in Worker, NEW o, GiveUpDead(w, o) \/ Claim(w, o)
  PROVE  Sound'
<1>1. CASE GiveUpDead(w, o)
  <2>1. Sane(job')
    BY <1>1, TablesTyped, GivenUpSane DEF GiveUpDead
  <2>2. [Idle EXCEPT !.pc = "claim", !.seen = {<<j, job[j].attempts>> : j \in LeftOver}] \in Fit
    <3>. DEFINE seen == {<<j, job[j].attempts>> : j \in LeftOver}
    <3>1. \A j \in LeftOver : job[j].attempts \in 0..MaxAttempts /\ job[j].attempts < MaxAttempts
      BY TablesTyped, QueueAssumption DEF TableFit, Jobs, LeftOver, Exhausted
    <3>2. seen \in SUBSET (Job \X (0..MaxAttempts)) /\ \A s \in seen : s[2] < MaxAttempts
      BY <3>1 DEF LeftOver
    <3>. HIDE DEF seen
    <3>3. Idle \in Fit
      BY ErrorTyped
    <3>4. [Idle EXCEPT !.pc = "claim", !.seen = seen] \in Fit
      BY <3>2, <3>3 DEF Fit, Tasks, Formed, Pcs, Handling
    <3>. QED BY <3>4 DEF seen
  <2>3. PICK g \in Fit : Goto(w, g)
    BY <1>1, <2>2, GoesOn DEF GiveUpDead
  <2>4. history' \subseteq Notes /\ UNCHANGED <<status, transcribed, summary>>
    BY <1>1, TablesTyped DEF GiveUpDead, Notes, records
  <2>. QED BY <1>1, <2>1, <2>3, <2>4, TablesTyped, WorkerStepSound DEF GiveUpDead
<1>2. CASE Claim(w, o)
  <2>. DEFINE due == {j \in Job : Claimable(j, worker[w].seen)}
  <2>1. \A s \in worker[w].seen : s[2] < MaxAttempts
    BY DEF Sound, Formed
  <2>2. Idle \in Fit /\ \A j \in Job : [Idle EXCEPT !.pc = "load", !.job = j] \in Fit
    BY ErrorTyped, MovesFit
  <2>3. Sane(job') /\ \E g \in Fit : Goto(w, g)
    <3>1. CASE due = {}
      BY <1>2, <2>2, <3>1, TablesTyped, GoesOn DEF Claim
    <3>2. CASE due # {}
      <4>1. PICK j \in due : /\ job' = IF Landed(o) THEN Claimed(j) ELSE job
                             /\ OrExit(w, o, [Idle EXCEPT !.pc = "load", !.job = j])
        BY <1>2, <3>2 DEF Claim
      <4>2. Sane(job')
        BY <2>1, <4>1, TablesTyped, ClaimedSane
      <4>. QED BY <2>2, <4>1, <4>2, GoesOn
    <3>. QED BY <3>1, <3>2
  <2>4. history' \subseteq Notes /\ UNCHANGED <<status, transcribed, summary>>
    BY <1>2, TablesTyped DEF Claim, Notes, records
  <2>. QED BY <1>2, <2>3, <2>4, TablesTyped, WorkerStepSound DEF Claim
<1>. QED BY <1>1, <1>2

\* SetStatus does not bring a deleted recording back.
LEMMA SetStatusTyped ==
  ASSUME Sound, NEW o, NEW s \in Statuses \ {"deleted"}, SetStatus(o, s)
  PROVE  status' \in Statuses /\ (status' = "deleted" <=> status = "deleted")
  BY TablesTyped DEF SetStatus

\* The calls of the handler that only read or set the status.
LEMMA ReadingSound ==
  ASSUME Sound, NEW w \in Worker, NEW o,
         \/ Load(w, o) \/ BeginProcessing(w, o) \/ ListTracks(w, o) \/ Merge(w, o)
         \/ LookForSummary(w, o) \/ Summarise(w, o) \/ FinishProcessing(w, o)
         \/ \E t \in Track : Transcribe(w, t, o)
  PROVE  Sound'
<1>. USE TablesTyped, WorkerStepSound, GoesOn
<1>1. CASE Load(w, o)
  <2>1. Busy(w)
    BY <1>1 DEF Load, At, Busy, Handling
  <2>2. \E g \in Fit : Goto(w, g)
    <3>1. [worker[w] EXCEPT !.pc = "begin"] \in Fit
      BY <2>1, ErrorTyped DEF Plainly
    <3>. QED BY <1>1, <2>1, <3>1 DEF Load
  <2>. QED BY <1>1, <2>2 DEF Load, records
<1>2. CASE BeginProcessing(w, o)
  <2>1. Busy(w)
    BY <1>2 DEF BeginProcessing, At, Busy, Handling
  <2>2. \E g \in Fit : Goto(w, g)
    <3>1. [worker[w] EXCEPT !.pc = "tracks"] \in Fit
      BY <2>1, ErrorTyped DEF Plainly
    <3>. QED BY <1>2, <2>1, <3>1 DEF BeginProcessing
  <2>3. status' \in Statuses /\ (status' = "deleted" <=> status = "deleted")
    BY <1>2, SetStatusTyped DEF BeginProcessing, Statuses
  <2>. QED BY <1>2, <2>2, <2>3 DEF BeginProcessing
<1>3. CASE ListTracks(w, o)
  <2>1. Busy(w)
    BY <1>3 DEF ListTracks, At, Busy, Handling
  <2>2. \E g \in Fit : Goto(w, g)
    <3>1. Transcribing(worker[w], IF status = "deleted" THEN {} ELSE Pending) \in Fit
      BY <2>1, TranscribingFit DEF Pending
    <3>. QED BY <1>3, <2>1, <3>1 DEF ListTracks
  <2>. QED BY <1>3, <2>2 DEF ListTracks, records
<1>4. CASE Merge(w, o)
  <2>1. Busy(w)
    BY <1>4 DEF Merge, At, Busy, Handling
  <2>2. \E g \in Fit : Goto(w, g)
    <3>1. /\ [worker[w] EXCEPT !.heard = transcribed \ Private] \in Fit
          /\ [worker[w] EXCEPT !.heard = transcribed \ Private].pc \in Handling
      BY <1>4, <2>1 DEF Fit, Tasks, Formed, Public, Busy, Merge, At
    <3>2. Summarising([worker[w] EXCEPT !.heard = transcribed \ Private], <<1, 2>>) \in Fit
      BY <3>1, SummarisingFit
    <3>. QED BY <1>4, <2>1, <3>2 DEF Merge
  <2>. QED BY <1>4, <2>2 DEF Merge, records
<1>5. CASE LookForSummary(w, o)
  <2>1. Busy(w)
    BY <1>5 DEF LookForSummary, At, Busy, Handling
  <2>2. \E g \in Fit : Goto(w, g)
    <3>1. worker[w].kinds \in {<<1, 2>>, << 2 >>}
      BY <1>5 DEF LookForSummary, At, Sound, Formed
    <3>2. Summarising(worker[w], Tail(worker[w].kinds)) \in Fit
      BY <2>1, <3>1, KindsTyped, SummarisingFit DEF Busy
    <3>3. [worker[w] EXCEPT !.pc = "summarise"] \in Fit
      BY <2>1, <3>1, ErrorTyped, MovesFit DEF Busy
    <3>. QED BY <1>5, <2>1, <3>2, <3>3 DEF LookForSummary
  <2>. QED BY <1>5, <2>2 DEF LookForSummary, records
<1>6. CASE Summarise(w, o)
  <2>1. Busy(w)
    BY <1>6 DEF Summarise, At, Busy, Handling
  <2>2. \E g \in Fit : Goto(w, g)
    <3>1. worker[w].kinds \in {<<1, 2>>, << 2 >>}
      BY <1>6 DEF Summarise, At, Sound, Formed
    <3>2. [worker[w] EXCEPT !.pc = "put"] \in Fit
      BY <2>1, <3>1, ErrorTyped, MovesFit DEF Busy
    <3>. QED BY <1>6, <2>1, <3>2 DEF Summarise
  <2>. QED BY <1>6, <2>2 DEF Summarise, records
<1>7. CASE FinishProcessing(w, o)
  <2>1. Busy(w)
    BY <1>7 DEF FinishProcessing, At, Busy, Handling
  <2>2. \E g \in Fit : Goto(w, g)
    <3>1. [worker[w] EXCEPT !.pc = "complete"] \in Fit
      BY <2>1, ErrorTyped DEF Plainly
    <3>. QED BY <1>7, <2>1, <3>1 DEF FinishProcessing
  <2>3. status' \in Statuses /\ (status' = "deleted" <=> status = "deleted")
    BY <1>7, SetStatusTyped DEF FinishProcessing, Statuses
  <2>. QED BY <1>7, <2>2, <2>3 DEF FinishProcessing
<1>8. ASSUME NEW t \in Track, Transcribe(w, t, o) PROVE Sound'
  <2>1. Busy(w)
    BY <1>8 DEF Transcribe, At, Busy, Handling
  <2>2. \E g \in Fit : Goto(w, g)
    <3>1. [worker[w] EXCEPT !.pc = "save", !.cur = t] \in Fit
      BY <1>8, <2>1, ErrorTyped, MovesFit DEF Transcribe, Busy
    <3>. QED BY <1>8, <2>1, <3>1 DEF Transcribe, HeardOrError
  <2>. QED BY <1>8, <2>2 DEF Transcribe, records
<1>. QED BY <1>1, <1>2, <1>3, <1>4, <1>5, <1>6, <1>7, <1>8

\* saveTrackTranscript and putSummary.
LEMMA WritingSound ==
  ASSUME Sound, NEW w \in Worker, NEW o, SaveTranscript(w, o) \/ PutSummary(w, o)
  PROVE  Sound'
<1>1. CASE SaveTranscript(w, o)
  <2>. DEFINE t == worker[w].cur
              r == IF t \in Private THEN "rejected" ELSE IfExists(o)
  <2>1. Busy(w) /\ worker[w] \in Fit
    BY <1>1, ErrorTyped DEF SaveTranscript, At, Busy, Handling
  <2>2. t \in worker[w].todo /\ worker[w].todo \subseteq Public
    BY <1>1, <2>1 DEF SaveTranscript, At, Fit, Formed
  <2>3. \E g \in Fit : Goto(w, g)
    <3>1. Transcribing(worker[w], worker[w].todo \ {t}) \in Fit
      BY <2>1, <2>2, TranscribingFit
    <3>2. OrError(w, r, Transcribing(worker[w], worker[w].todo \ {t}))
      BY <1>1 DEF SaveTranscript
    <3>. QED BY <2>1, <3>1, <3>2, GoesOn
  <2>4. transcribed' \subseteq Public
    BY <1>1, <2>2, TablesTyped DEF SaveTranscript
  <2>. QED BY <1>1, <2>3, <2>4, TablesTyped, WorkerStepSound DEF SaveTranscript
<1>2. CASE PutSummary(w, o)
  <2>1. Busy(w) /\ worker[w] \in Fit /\ worker[w].kinds \in {<<1, 2>>, << 2 >>}
    BY <1>2, ErrorTyped DEF PutSummary, At, Busy, Handling, Fit, Formed
  <2>2. \E g \in Fit : Goto(w, g)
    <3>1. Summarising(worker[w], Tail(worker[w].kinds)) \in Fit
      BY <2>1, KindsTyped, SummarisingFit DEF Busy
    <3>. QED BY <1>2, <2>1, <3>1, GoesOn DEF PutSummary
  <2>3. summary' \in Summaries
    <3>1. [written |-> TRUE, from |-> worker[w].heard] \in [written : BOOLEAN, from : SUBSET Track]
      BY <2>1 DEF Fit, Tasks
    <3>. QED BY <1>2, <2>1, <3>1, KindsTyped, TablesTyped DEF PutSummary, Summaries
  <2>. QED BY <1>2, <2>2, <2>3, TablesTyped, WorkerStepSound DEF PutSummary
<1>. QED BY <1>1, <1>2

\* The end of a job.
LEMMA EndingSound ==
  ASSUME Sound, NEW w \in Worker, NEW o, Complete(w, o) \/ FailJob(w, o) \/ OnGiveUp(w, o)
  PROVE  Sound'
<1>1. CASE Complete(w, o)
  <2>1. worker[w].job \in Job /\ Busy(w)
    BY <1>1 DEF Complete, At, Sound, Formed, Handling, Busy
  <2>2. Sane(job')
    BY <1>1, <2>1, CompletedSane, TablesTyped DEF Complete
  <2>3. \E g \in Fit : Goto(w, g)
    BY <1>1, <2>1, ErrorTyped, GoesOn DEF Complete
  <2>. QED BY <1>1, <2>2, <2>3, TablesTyped, WorkerStepSound DEF Complete, records
<1>2. CASE FailJob(w, o)
  <2>1. worker[w].job \in Job /\ Busy(w)
    BY <1>2 DEF FailJob, At, Sound, Formed, Handling, Busy
  <2>2. Sane(job')
    BY <1>2, <2>1, FailedSane, TablesTyped DEF FailJob
  <2>3. \E g \in Fit : Goto(w, g)
    <3>1. Idle \in Fit /\ [worker[w] EXCEPT !.pc = "giveup"] \in Fit
      BY <2>1, ErrorTyped DEF Plainly
    <3>2. \E k \in Fit : \E r : OrExit(w, r, k)
      BY <1>2, <3>1 DEF FailJob
    <3>. QED BY <3>2, GoesOn
  <2>. QED BY <1>2, <2>2, <2>3, TablesTyped, WorkerStepSound DEF FailJob, records
<1>3. CASE OnGiveUp(w, o)
  <2>1. Goto(w, Idle) /\ Idle \in Fit
    BY <1>3, ErrorTyped DEF OnGiveUp
  <2>2. status' \in Statuses /\ (status' = "deleted" <=> status = "deleted")
    BY <1>3, SetStatusTyped DEF OnGiveUp, MarkFailed, Statuses
  <2>. QED BY <1>3, <2>1, <2>2, TablesTyped, WorkerStepSound DEF OnGiveUp
<1>. QED BY <1>1, <1>2, <1>3

\* Death, restart, heartbeats and time.
LEMMA TimeSound ==
  ASSUME Sound,
         \/ \E w \in Worker : Crash(w) \/ Restart(w) \/ Heartbeat(w)
         \/ \E j \in Job : LeaseRunsOut(j) \/ RetryIsDue(j)
  PROVE  Sound'
<1>1. ASSUME NEW w \in Worker, Crash(w) \/ Restart(w) PROVE Sound'
  <2>1. PICK g \in Fit : Goto(w, g)
    BY <1>1, ErrorTyped DEF Crash, Restart
  <2>2. worker' \in [Worker -> Tasks] /\ \A v \in Worker : Formed(worker'[v])
    BY <2>1, GotoTyped
  <2>3. history' \subseteq Notes /\ UNCHANGED <<job, status, transcribed, summary, command, given, faults>>
    BY <1>1, TablesTyped DEF Crash, Restart, Notes, records, people
  <2>. QED BY <2>2, <2>3, TablesTyped, SoundStep DEF TablesFit, Sound, Exists
<1>2. ASSUME NEW w \in Worker, Heartbeat(w) PROVE Sound'
  <2>1. worker[w].job \in Job
    BY <1>2 DEF Heartbeat, Busy, Sound, Formed
  <2>2. Sane(job')
    BY <1>2, <2>1, ExtendedSane, TablesTyped DEF Heartbeat
  <2>3. UNCHANGED <<status, transcribed, summary, worker, command, given, faults, history>>
    BY <1>2 DEF Heartbeat, records, people
  <2>. QED BY <2>2, <2>3, TablesTyped, SoundStep DEF TablesFit, Sound, Exists, Sane, SameRows
<1>3. ASSUME NEW j \in Job, LeaseRunsOut(j) \/ RetryIsDue(j) PROVE Sound'
  <2>1. Sane(job')
    BY <1>3, TimeSane, TablesTyped DEF LeaseRunsOut, RetryIsDue
  <2>2. UNCHANGED <<status, transcribed, summary, worker, command, given, history>>
    BY <1>3 DEF LeaseRunsOut, RetryIsDue, records, people
  <2>3. faults' \subseteq Faults
    BY <1>3, CallTyped, TablesTyped DEF LeaseRunsOut, RetryIsDue, Sound
  <2>. QED BY <2>1, <2>2, <2>3, TablesTyped, SoundStep DEF TablesFit, Sound, Exists, Sane, SameRows
<1>. QED BY <1>1, <1>2, <1>3

\* The commands.
LEMMA CommandSound == ASSUME Sound, NEW p \in Operator, CommandStep(p) PROVE Sound'
<1>. USE TablesTyped
<1>1. given' \in 0..MaxCommands
  <2>1. given < MaxCommands => given + 1 \in 0..MaxCommands
    BY WorkerAssumption
  <2>. QED BY <2>1 DEF CommandStep, Begins, Does, RetryJob, Reprocess, ResetForReprocess, MarkStopped,
                       EnqueueAgain, Delete, DeleteRow, Abandon
<1>2. command' \in [Operator -> Commands]
  <2>1. NoCommand \in Commands /\ \A pc \in {"stopped", "enqueue"} : [command[p] EXCEPT !.pc = pc] \in Commands
    BY DEF NoCommand, Commands
  <2>2. \A full \in BOOLEAN : /\ [op |-> "retry", pc |-> "stopped", full |-> full] \in Commands
                              /\ [op |-> "reprocess", pc |-> "reset", full |-> full] \in Commands
                              /\ [op |-> "delete", pc |-> "delete", full |-> full] \in Commands
    BY DEF Commands
  <2>3. \E c \in Commands : Proceed(p, c)
    BY <2>1, <2>2 DEF CommandStep, RetryJob, Reprocess, ResetForReprocess, MarkStopped,
                      EnqueueAgain, Delete, DeleteRow, Abandon
  <2>. QED BY <2>3 DEF Proceed
<1>3. worker' = worker /\ faults' \subseteq Faults
  BY CallTyped DEF CommandStep, RetryJob, Reprocess, ResetForReprocess, MarkStopped,
                   EnqueueAgain, Delete, DeleteRow, Abandon, Sound
<1>4. history' \subseteq Notes
  BY DEF CommandStep, RetryJob, Reprocess, ResetForReprocess, MarkStopped, NoteRace,
         EnqueueAgain, Delete, DeleteRow, Abandon, Notes
<1>5. summary' \in Summaries /\ transcribed' \subseteq Public
  <2>1. [k \in 1..2 |-> NoSummary] \in Summaries
    BY DEF NoSummary, Summaries
  <2>. QED BY <2>1 DEF CommandStep, RetryJob, Reprocess, ResetForReprocess, MarkStopped,
                       EnqueueAgain, Delete, DeleteRow, Abandon, records
<1>6. status' \in Statuses /\ TableFit(job') /\ (status' = "deleted" => \A j \in Job : ~Exists(j)')
  <2>1. CASE UNCHANGED <<status, job>>
    BY <2>1 DEF Sound, TablesFit, Exists
  <2>2. CASE \E j \in Job : RetryJob(p, j)
    BY <2>2, RetriedSane DEF RetryJob, Sane, SameRows, records, Sound, TablesFit, Exists
  <2>3. CASE EnqueueAgain(p)
    BY <2>3, EnqueuedFit DEF EnqueueAgain, records, Sound, TablesFit, Exists
  <2>4. CASE MarkStopped(p)
    BY <2>4, SetStatusTyped DEF MarkStopped, Sound, TablesFit, Exists, Statuses
  <2>5. CASE DeleteRow(p)
    BY <2>5, NewJobTyped DEF DeleteRow, TableFit, Exists, Statuses
  <2>. QED BY <2>1, <2>2, <2>3, <2>4, <2>5 
           DEF CommandStep, Reprocess, ResetForReprocess, Delete, Abandon, records
<1>. QED BY <1>1, <1>2, <1>3, <1>4, <1>5, <1>6, SoundStep DEF Sound

LEMMA SoundInductive == Sound /\ [Next]_vars => Sound'
<1>. SUFFICES ASSUME Sound, [Next]_vars PROVE Sound'
  OBVIOUS
<1>1. CASE UNCHANGED vars
  <2>1. UNCHANGED <<job, status, transcribed, summary, worker, command, given, faults, history>>
    BY <1>1 DEF vars, records, people
  <2>. QED BY <2>1, TablesTyped, SoundStep DEF Sound, TablesFit, Exists
<1>2. ASSUME NEW w \in Worker, WorkerStep(w) PROVE Sound'
  BY <1>2, ClaimingSound, ReadingSound, WritingSound, EndingSound, TimeSound DEF WorkerStep
<1>3. ASSUME NEW p \in Operator, CommandStep(p) PROVE Sound'
  BY <1>3, CommandSound
<1>. QED BY <1>1, <1>2, <1>3, TimeSound DEF Next

\* What the tables hold, and what the workers know of them, is of its type in every reachable state.
THEOREM TypeCorrect == Spec => []TypeOK
<1>1. Spec => []Sound
  BY InitSound, SoundInductive, PTL DEF Spec
<1>2. Sound => TypeOK
  BY DEF Sound
<1>. QED BY <1>1, <1>2, PTL

-----------------------------------------------------------------------------
(* Leases.                                                                 *)

\* The calls of the handler, which leave the queue and the commands alone.
Working == Handling \ {"error", "giveup", "complete"}
Handler(w, o) ==
  \/ Load(w, o) \/ BeginProcessing(w, o) \/ ListTracks(w, o) \/ SaveTranscript(w, o) \/ Merge(w, o)
  \/ LookForSummary(w, o) \/ Summarise(w, o) \/ PutSummary(w, o) \/ FinishProcessing(w, o)
  \/ \E t \in Track : Transcribe(w, t, o)
Quiet(w) ==
  /\ worker[w].pc \in Working
  /\ \E k : /\ Goto(w, k) /\ k.job = worker[w].job
            /\ k.pc \in Handling \ {"giveup", "load"}
            /\ k.pc = "complete" => At(w, "finish") /\ (status' = "processed" \/ status = "deleted")
  /\ UNCHANGED <<job, people, history>>
  /\ status' = "deleted" <=> status = "deleted"

LEMMA HandlerQuiet == ASSUME Sound, NEW w \in Worker, NEW o, Handler(w, o) PROVE Quiet(w)
<1>1. worker[w].pc \in Working /\ Busy(w)
  BY DEF Handler, Load, BeginProcessing, ListTracks, SaveTranscript, Merge, LookForSummary, Summarise,
         PutSummary, FinishProcessing, Transcribe, At, Working, Handling, Busy
<1>2. UNCHANGED <<job, people, history>> /\ (status' = "deleted" <=> status = "deleted")
  BY DEF Handler, Load, BeginProcessing, ListTracks, SaveTranscript, Merge, LookForSummary, Summarise,
         PutSummary, FinishProcessing, Transcribe, SetStatus, records
<1>3. worker[w] \in Tasks
  BY TablesTyped
<1>4. \A k, r : k.job = worker[w].job /\ k.pc \in Handling \ {"giveup", "load", "complete"} /\ OrError(w, r, k)
        => Quiet(w)
  <2>. SUFFICES ASSUME NEW k, NEW r, k.job = worker[w].job, OrError(w, r, k),
                       k.pc \in Handling \ {"giveup", "load", "complete"}
                PROVE  Quiet(w)
    OBVIOUS
  <2>1. CASE r = "ok"
    BY <1>1, <1>2, <2>1 DEF Quiet, OrError
  <2>2. CASE r # "ok"
    <3>1. /\ Goto(w, [worker[w] EXCEPT !.pc = "error"])
          /\ [worker[w] EXCEPT !.pc = "error"].job = worker[w].job
          /\ [worker[w] EXCEPT !.pc = "error"].pc = "error"
      BY <1>3, <2>2 DEF OrError, Tasks
    <3>. QED BY <1>1, <1>2, <3>1 DEF Quiet, Handling
  <2>. QED BY <2>1, <2>2
<1>5. \A todo : LET k == Transcribing(worker[w], todo) IN
        k.job = worker[w].job /\ k.pc \in {"merge", "transcribe"}
  BY <1>3 DEF Transcribing, Tasks
<1>6. \A k \in Tasks : \A kinds : LET g == Summarising(k, kinds) IN g.job = k.job /\ g.pc \in {"finish", "look"}
  BY DEF Summarising, Tasks
<1>7. \A pc : LET k == [worker[w] EXCEPT !.pc = pc] IN k.job = worker[w].job /\ k.pc = pc
  BY <1>3 DEF Tasks
<1>8. CASE Load(w, o) \/ BeginProcessing(w, o) \/ Summarise(w, o)
  BY <1>4, <1>7, <1>8 DEF Load, BeginProcessing, Summarise, Handling
<1>9. CASE ListTracks(w, o) \/ SaveTranscript(w, o)
  BY <1>4, <1>5, <1>9 DEF ListTracks, SaveTranscript, Handling
<1>10. CASE Merge(w, o)
  <2>1. [worker[w] EXCEPT !.heard = transcribed \ Private] \in Tasks
        /\ [worker[w] EXCEPT !.heard = transcribed \ Private].job = worker[w].job
    BY <1>3, TablesTyped DEF Tasks, Public
  <2>. QED BY <1>4, <1>6, <1>10, <2>1 DEF Merge, Handling
<1>11. CASE LookForSummary(w, o) \/ PutSummary(w, o)
  BY <1>3, <1>4, <1>6, <1>7, <1>11 DEF LookForSummary, PutSummary, Handling
<1>12. CASE FinishProcessing(w, o)
  <2>1. CASE o = "ok"
    <3>1. Goto(w, [worker[w] EXCEPT !.pc = "complete"]) /\ (status' = "processed" \/ status = "deleted")
      BY <1>12, <2>1 DEF FinishProcessing, OrError, SetStatus, Landed
    <3>. QED BY <1>1, <1>2, <1>7, <1>12, <3>1 DEF Quiet, Handling, FinishProcessing
  <2>2. CASE o # "ok"
    <3>1. Goto(w, [worker[w] EXCEPT !.pc = "error"])
      BY <1>12, <2>2 DEF FinishProcessing, OrError
    <3>. QED BY <1>1, <1>2, <1>7, <3>1 DEF Quiet, Handling
  <2>. QED BY <2>1, <2>2
<1>13. ASSUME NEW t \in Track, Transcribe(w, t, o) PROVE Quiet(w)
  <2>1. [worker[w] EXCEPT !.pc = "save", !.cur = t].job = worker[w].job
        /\ [worker[w] EXCEPT !.pc = "save", !.cur = t].pc = "save"
    BY <1>3 DEF Tasks
  <2>. QED BY <1>4, <1>13, <2>1 DEF Transcribe, HeardOrError, Handling
<1>. QED BY <1>8, <1>9, <1>10, <1>11, <1>12, <1>13 DEF Handler

\* What happened is never forgotten.
LEMMA NothingForgotten == Sound /\ [Next]_vars => faults \subseteq faults' /\ history \subseteq history'
<1>. SUFFICES ASSUME Sound, [Next]_vars PROVE faults \subseteq faults' /\ history \subseteq history'
  OBVIOUS
<1>1. \A c, o : Call(c, o) => faults \subseteq faults'
  BY DEF Call
<1>2. ASSUME NEW w \in Worker, WorkerStep(w) PROVE faults \subseteq faults' /\ history \subseteq history'
  <2>1. CASE Restart(w)
    BY <2>1 DEF Restart
  <2>2. ASSUME NEW o, Handler(w, o) PROVE faults \subseteq faults' /\ history \subseteq history'
    <3>1. history' = history
      BY <2>2, HandlerQuiet DEF Quiet
    <3>. QED BY <1>1, <2>2, <3>1 DEF Handler, Load, BeginProcessing, ListTracks, SaveTranscript, Merge,
                LookForSummary, Summarise, PutSummary, FinishProcessing, Transcribe
  <2>3. ASSUME NEW o, GiveUpDead(w, o) \/ Claim(w, o) \/ Complete(w, o) \/ FailJob(w, o) \/ OnGiveUp(w, o)
        PROVE  faults \subseteq faults' /\ history \subseteq history'
    BY <1>1, <2>3 DEF GiveUpDead, Claim, Complete, FailJob, OnGiveUp
  <2>. QED BY <1>2, <2>1, <2>2, <2>3 DEF WorkerStep, Handler
<1>3. ASSUME NEW w \in Worker, Crash(w) \/ Heartbeat(w)
      PROVE  faults \subseteq faults' /\ history \subseteq history'
  BY <1>3 DEF Crash, Heartbeat
<1>4. ASSUME NEW j \in Job, LeaseRunsOut(j) \/ RetryIsDue(j)
      PROVE  faults \subseteq faults' /\ history \subseteq history'
  BY <1>1, <1>4 DEF LeaseRunsOut, RetryIsDue
<1>5. ASSUME NEW p \in Operator, CommandStep(p) PROVE faults \subseteq faults' /\ history \subseteq history'
  BY <1>1, <1>5 DEF CommandStep, RetryJob, Reprocess, ResetForReprocess, MarkStopped, NoteRace,
                    EnqueueAgain, Delete, DeleteRow, Abandon
<1>6. CASE UNCHANGED vars
  BY <1>6 DEF vars
<1>. QED BY <1>2, <1>3, <1>4, <1>5, <1>6 DEF Next

\* An answer that is lost, or a heartbeat that does not get through, is a fault.
LEMMA StallIsFault ==
  ASSUME NEW c, NEW o, Call(c, o), NoStall'
  PROVE  /\ c = "db" /\ o \in Outcome => o \in {"ok", "rejected"}
         /\ c = "heartbeat" => o # "rejected"
  BY DEF Call, NoStall, Without, DbLost, Stall, Outcome

\* The two parts of Leases, apart from when they hold.
Leased(w) == status = "deleted" \/ (job[worker[w].job].state = "running" /\ ~job[worker[w].job].expired)
AllLeased == \A w \in Worker : Holds(w) => Leased(w)
AloneWithIt == \A v, w \in Worker : Holds(v) /\ Holds(w) /\ worker[v].job = worker[w].job => v = w

\* A worker that is not busy, or lets its job go, does not disturb the others.
LEMMA LettingGo ==
  ASSUME Sound, AllLeased, AloneWithIt, NEW w \in Worker, NEW k, Goto(w, k), k.pc \notin Handling \ {"giveup"},
         status' = "deleted" <=> status = "deleted",
         \A j \in Job : j # worker[w].job /\ job[j].state = "running" /\ ~job[j].expired => job'[j] = job[j],
         UNCHANGED job \/ Holds(w)
  PROVE  AllLeased' /\ AloneWithIt'
<1>1. \A v \in Worker : Holds(v)' => v # w /\ Holds(v) /\ worker'[v] = worker[v]
  BY TablesTyped DEF Goto, Holds, Busy, At
<1>2. \A v \in Worker : Holds(v) => worker[v].job \in Job
  BY DEF Holds, Busy, Sound, Formed
<1>3. ASSUME NEW v \in Worker, Holds(v)' PROVE Leased(v)'
  <2>1. v # w /\ Holds(v) /\ worker'[v] = worker[v] /\ Leased(v) /\ worker[v].job \in Job
    BY <1>1, <1>2, <1>3 DEF AllLeased
  <2>2. CASE UNCHANGED job
    BY <2>1, <2>2 DEF Leased
  <2>3. CASE Holds(w)
    <3>1. worker[v].job # worker[w].job
      BY <2>1, <2>3 DEF AloneWithIt
    <3>. QED BY <2>1, <3>1 DEF Leased
  <2>. QED BY <2>2, <2>3
<1>. QED BY <1>1, <1>3 DEF AllLeased, AloneWithIt

LEMMA LeasesByWorker ==
  ASSUME Sound, AllLeased, AloneWithIt, NoStall, NoStall', NEW w \in Worker, WorkerStep(w)
  PROVE  AllLeased' /\ AloneWithIt'
<1>1. ASSUME NEW o \in Outcome, Handler(w, o) PROVE AllLeased' /\ AloneWithIt'
  <2>1. Quiet(w)
    BY <1>1, HandlerQuiet
  <2>2. PICK k : Goto(w, k) /\ k.job = worker[w].job /\ k.pc \in Handling \ {"giveup", "load"}
    BY <2>1 DEF Quiet
  <2>3. Holds(w)
    BY <2>1 DEF Quiet, Holds, Busy, At, Working
  <2>4. \A v \in Worker : (Holds(v)' <=> Holds(v)) /\ worker'[v].job = worker[v].job
    BY <2>2, <2>3, TablesTyped DEF Goto, Holds, Busy, At
  <2>. QED BY <2>1, <2>4 DEF Quiet, AllLeased, AloneWithIt, Leased
<1>2. ASSUME NEW o \in Outcome, GiveUpDead(w, o) PROVE AllLeased' /\ AloneWithIt'
  <2>1. ~Holds(w)
    BY <1>2 DEF GiveUpDead, Holds, Busy, At, Handling
  <2>2. \A j \in Job : job[j].state = "running" /\ ~job[j].expired => job'[j] = job[j]
    BY <1>2 DEF GiveUpDead, GivenUp, Exhausted, LeaseOver
  <2>3. \A v \in Worker : v # w => worker'[v] = worker[v]
    BY <1>2, TablesTyped DEF GiveUpDead, OrExit, Goto
  <2>4. ~Holds(w)'
    <3>1. PICK k : Goto(w, k) /\ k.pc \in {"claim", "off"}
      <4>. DEFINE k == [Idle EXCEPT !.pc = "claim", !.seen = {<<j, job[j].attempts>> : j \in LeftOver}]
      <4>1. k.pc = "claim" /\ Off.pc = "off"
        BY DEF Idle, Off
      <4>2. OrExit(w, o, k)
        BY <1>2 DEF GiveUpDead
      <4>. HIDE DEF k
      <4>. QED BY <4>1, <4>2 DEF OrExit
    <3>. QED BY <3>1, TablesTyped DEF Goto, Holds, Busy, At, Handling
  <2>5. \A v \in Worker : Holds(v) => worker[v].job \in Job
    BY DEF Holds, Busy, Sound, Formed
  <2>6. \A v \in Worker : Holds(v)' => v # w /\ Holds(v) /\ worker'[v] = worker[v]
    BY <2>3, <2>4 DEF Holds, Busy, At
  <2>. QED BY <1>2, <2>2, <2>5, <2>6 DEF AllLeased, AloneWithIt, Leased, GiveUpDead, records
<1>3. ASSUME NEW o \in Outcome, Claim(w, o) PROVE AllLeased' /\ AloneWithIt'
  <2>1. ~Holds(w) /\ UNCHANGED status
    BY <1>3 DEF Claim, Holds, Busy, At, Handling, records
  <2>2. o \in {"ok", "rejected"}
    BY <1>3, StallIsFault DEF Claim
  <2>3. CASE UNCHANGED job
    <3>1. ASSUME NEW k, Goto(w, k), k.pc \notin Handling \ {"giveup"} PROVE AllLeased' /\ AloneWithIt'
      BY <2>1, <2>3, <3>1, LettingGo
    <3>2. CASE o = "rejected"
      <4>1. Goto(w, Off)
        BY <1>3, <3>2 DEF Claim, OrExit
      <4>. QED BY <3>1, <4>1 DEF Off, Handling
    <3>3. CASE o = "ok" /\ {j \in Job : Claimable(j, worker[w].seen)} = {}
      <4>1. Goto(w, Idle)
        BY <1>3, <3>3 DEF Claim, OrExit
      <4>. QED BY <3>1, <4>1 DEF Idle, Off, Handling
    <3>4. CASE o = "ok" /\ {j \in Job : Claimable(j, worker[w].seen)} # {}
      <4>1. PICK j \in Job : job' = Claimed(j) /\ Claimable(j, worker[w].seen)
        BY <1>3, <3>4 DEF Claim, Landed
      <4>2. job'[j].state = "running" /\ ~job'[j].expired
        BY <4>1, TablesTyped DEF Claimed, TableFit
      <4>. QED BY <2>3, <4>1, <4>2 DEF Claimable, LeaseOver
    <3>. QED BY <2>2, <3>2, <3>3, <3>4
  <2>4. CASE job' # job
    <3>1. PICK j \in Job : /\ Claimable(j, worker[w].seen) /\ job' = Claimed(j)
                           /\ Goto(w, [Idle EXCEPT !.pc = "load", !.job = j])
      BY <1>3, <2>2, <2>4 DEF Claim, Landed, OrExit
    <3>2. /\ job'[j].state = "running" /\ ~job'[j].expired
          /\ \A i \in Job : i # j => job'[i] = job[i]
      BY <3>1, TablesTyped DEF Claimed, TableFit
    <3>3. Exists(j) /\ status # "deleted" /\ ~(job[j].state = "running" /\ ~job[j].expired)
      BY <3>1 DEF Claimable, LeaseOver, Exists, Sound, TablesFit
    <3>4. worker'[w].job = j /\ \A v \in Worker : v # w => worker'[v] = worker[v]
      BY <3>1, TablesTyped DEF Goto, Idle, Off
    <3>5. \A v \in Worker : Holds(v) => worker[v].job \in Job /\ worker[v].job # j
      BY <3>3 DEF Holds, Busy, Sound, Formed, AllLeased, Leased
    <3>6. \A v \in Worker : v # w /\ Holds(v)' => Holds(v)
      BY <3>4 DEF Holds, Busy, At
    <3>. QED BY <2>1, <3>2, <3>4, <3>5, <3>6 DEF AllLeased, AloneWithIt, Leased
  <2>. QED BY <2>3, <2>4
<1>4. ASSUME NEW o \in Outcome, Complete(w, o) \/ FailJob(w, o) PROVE AllLeased' /\ AloneWithIt'
  <2>1. Holds(w) /\ worker[w].job \in Job /\ UNCHANGED status
    BY <1>4 DEF Complete, FailJob, Holds, Busy, At, Handling, records, Sound, Formed
  <2>2. \A j \in Job : j # worker[w].job => job'[j] = job[j]
    <3>1. CASE Complete(w, o)
      BY <2>1, <3>1, TablesTyped DEF Complete, Completed, TableFit
    <3>2. CASE FailJob(w, o)
      <4>1. job' = Failed(worker[w].job) \/ job' = job
        BY <3>2 DEF FailJob
      <4>. QED BY <2>1, <4>1, FailedSane, TablesTyped
    <3>. QED BY <1>4, <3>1, <3>2
  <2>3. CASE \E k : Goto(w, k) /\ k.pc \notin Handling \ {"giveup"}
    BY <2>1, <2>2, <2>3, LettingGo
  <2>4. CASE Complete(w, o) /\ o = "rejected"
    <3>1. Goto(w, [worker[w] EXCEPT !.pc = "error"]) /\ job' = job
      BY <2>4 DEF Complete, OrError, Landed
    <3>2. \A v \in Worker : (Holds(v)' <=> Holds(v)) /\ worker'[v].job = worker[v].job
      BY <2>1, <3>1, TablesTyped DEF Goto, Holds, Busy, At, Handling, Tasks
    <3>. QED BY <2>1, <3>1, <3>2 DEF AllLeased, AloneWithIt, Leased
  <2>5. CASE Complete(w, o) /\ o = "ok"
    <3>1. Goto(w, Idle) /\ Idle.pc = "idle"
      BY <2>5 DEF Complete, OrError, Idle, Off
    <3>. QED BY <2>3, <3>1 DEF Handling
  <2>6. CASE FailJob(w, o)
    <3>1. \E k : Goto(w, k) /\ k.pc \in {"off", "idle", "giveup"}
      <4>1. [worker[w] EXCEPT !.pc = "giveup"].pc = "giveup" /\ Idle.pc = "idle" /\ Off.pc = "off"
        BY TablesTyped DEF Tasks, Idle, Off
      <4>. QED BY <2>6, <4>1 DEF FailJob, OrExit
    <3>. QED BY <2>3, <3>1 DEF Handling
  <2>7. o \in {"ok", "rejected"}
    BY <1>4, StallIsFault DEF Complete, FailJob
  <2>. QED BY <1>4, <2>4, <2>5, <2>6, <2>7
<1>5. ASSUME NEW o \in Outcome, OnGiveUp(w, o) PROVE AllLeased' /\ AloneWithIt'
  <2>1. Goto(w, Idle) /\ Idle.pc = "idle" /\ UNCHANGED job
    BY <1>5 DEF OnGiveUp, Idle, Off
  <2>2. status' = "deleted" <=> status = "deleted"
    BY <1>5, SetStatusTyped DEF OnGiveUp, MarkFailed, Statuses
  <2>. QED BY <2>1, <2>2, LettingGo DEF Handling
<1>6. CASE Restart(w)
  <2>1. Goto(w, Idle) /\ Idle.pc = "idle" /\ UNCHANGED <<job, status>>
    BY <1>6 DEF Restart, Idle, Off, records
  <2>. QED BY <2>1, LettingGo DEF Handling
<1>. QED BY <1>1, <1>2, <1>3, <1>4, <1>5, <1>6 DEF WorkerStep, Handler

LEMMA LeasesByOthers ==
  ASSUME Sound, AllLeased, AloneWithIt, NoStall, NoStall',
         \/ \E w \in Worker : Crash(w) \/ Heartbeat(w)
         \/ \E j \in Job : LeaseRunsOut(j) \/ RetryIsDue(j)
         \/ \E p \in Operator : CommandStep(p)
  PROVE  AllLeased' /\ AloneWithIt'
<1>0. \A v \in Worker : Holds(v) => worker[v].job \in Job
  BY DEF Holds, Busy, Sound, Formed
<1>1. ASSUME NEW w \in Worker, Crash(w) PROVE AllLeased' /\ AloneWithIt'
  <2>1. Goto(w, Off) /\ Off.pc = "off" /\ UNCHANGED <<job, status>>
    BY <1>1 DEF Crash, Off, records
  <2>. QED BY <2>1, LettingGo DEF Handling
<1>2. ASSUME UNCHANGED worker,
             \A j \in Job : job[j].state = "running" /\ ~job[j].expired /\ (\E w \in Worker : Holds(w) /\ worker[w].job = j) =>
                              \/ status' = "deleted"
                              \/ job'[j].state = "running" /\ ~job'[j].expired,
             status = "deleted" => status' = "deleted"
      PROVE AllLeased' /\ AloneWithIt'
  BY <1>0, <1>2 DEF AllLeased, AloneWithIt, Leased, Holds, Busy, At
<1>3. ASSUME NEW w \in Worker, Heartbeat(w) PROVE AllLeased' /\ AloneWithIt'
  BY <1>2, <1>3, TablesTyped DEF Heartbeat, Extended, records, TableFit, LeaseOver
<1>4. ASSUME NEW j \in Job, LeaseRunsOut(j) PROVE AllLeased' /\ AloneWithIt'
  <2>1. ~Held(j)
    BY <1>4, StallIsFault DEF LeaseRunsOut
  <2>2. \A w \in Worker : Holds(w) => worker[w].job # j
    BY <2>1 DEF Held, Holds
  <2>. QED BY <1>2, <1>4, <2>2, TablesTyped DEF LeaseRunsOut, records, TableFit
<1>5. ASSUME NEW j \in Job, RetryIsDue(j) PROVE AllLeased' /\ AloneWithIt'
  BY <1>2, <1>5, TablesTyped DEF RetryIsDue, records, TableFit
<1>6. ASSUME NEW p \in Operator, CommandStep(p) PROVE AllLeased' /\ AloneWithIt'
  <2>1. UNCHANGED worker /\ (status = "deleted" => status' = "deleted")
    BY <1>6, SetStatusTyped DEF CommandStep, RetryJob, Reprocess, ResetForReprocess, MarkStopped, SetStatus,
             EnqueueAgain, Delete, DeleteRow, Abandon, records
  <2>2. CASE UNCHANGED job
    BY <1>2, <2>1, <2>2
  <2>3. ASSUME NEW j \in Job, RetryJob(p, j) PROVE AllLeased' /\ AloneWithIt'
    BY <1>2, <2>1, <2>3, TablesTyped DEF RetryJob, Retryable, Retried, TableFit
  <2>4. CASE EnqueueAgain(p)
    BY <1>2, <2>1, <2>4, TablesTyped DEF EnqueueAgain, Enqueued, Enqueue, Exists
  <2>5. CASE DeleteRow(p)
    BY <1>2, <2>1, <2>5 DEF DeleteRow
  <2>. QED BY <1>6, <2>2, <2>3, <2>4, <2>5 DEF CommandStep, Reprocess, ResetForReprocess, MarkStopped,
                                        Delete, Abandon
<1>. QED BY <1>1, <1>3, <1>4, <1>5, <1>6

LEMMA LeasesInductive == Sound /\ Leases /\ [Next]_vars => Leases'
<1>. SUFFICES ASSUME Sound, Leases, [Next]_vars, NoStall' PROVE AllLeased' /\ AloneWithIt'
  BY DEF Leases, AllLeased, AloneWithIt, Leased
<1>1. NoStall
  BY NothingForgotten DEF NoStall, Without
<1>2. AllLeased /\ AloneWithIt
  BY <1>1 DEF Leases, AllLeased, AloneWithIt, Leased
<1>3. CASE UNCHANGED vars
  BY <1>2, <1>3 DEF vars, records, AllLeased, AloneWithIt, Leased, Holds, Busy, At
<1>. QED BY <1>1, <1>2, <1>3, LeasesByWorker, LeasesByOthers DEF Next

-----------------------------------------------------------------------------
(* One job at a time.                                                      *)

\* A job that is over is left alone by whoever holds leases; only a retry and enqueue make one active.
LEMMA EndedStays ==
  ASSUME Sound, AllLeased, [Next]_vars, NEW j \in Job, ~Active(j)
  PROVE  \/ job'[j].state \in {job[j].state, "none"}
         \/ job[j].state = "failed" /\ "retried" \in history'
         \/ job[j].state = "none" /\ j \in Enqueue /\ job' = Enqueued
<1>1. CASE UNCHANGED job
  BY <1>1
<1>2. ASSUME NEW w \in Worker, WorkerStep(w), job' # job PROVE job'[j].state = job[j].state
  <2>1. ASSUME NEW o, Handler(w, o) PROVE FALSE
    BY <1>2, <2>1, HandlerQuiet DEF Quiet
  <2>2. ASSUME NEW o, GiveUpDead(w, o) PROVE job'[j].state = job[j].state
    BY <1>2, <2>2 DEF GiveUpDead, GivenUp, Exhausted, LeaseOver, Active
  <2>3. ASSUME NEW o, Claim(w, o) PROVE job'[j].state = job[j].state
    <3>1. PICK i \in Job : Claimable(i, worker[w].seen) /\ job' = Claimed(i)
      BY <1>2, <2>3 DEF Claim
    <3>2. i # j
      BY <3>1 DEF Claimable, LeaseOver, Active
    <3>. QED BY <3>1, <3>2, TablesTyped DEF Claimed, TableFit
  <2>4. ASSUME NEW o, Complete(w, o) \/ FailJob(w, o) PROVE job'[j].state = job[j].state
    <3>1. Holds(w) /\ worker[w].job \in Job
      BY <2>4 DEF Complete, FailJob, Holds, Busy, At, Handling, Sound, Formed
    <3>2. status = "deleted" \/ worker[w].job # j
      BY <3>1 DEF AllLeased, Leased, Active
    <3>3. SameRows(job') /\ \A i \in Job : i # worker[w].job => job'[i] = job[i]
      <4>1. job' \in {job, Completed(worker[w].job), Failed(worker[w].job)}
        BY <2>4 DEF Complete, FailJob
      <4>2. SameRows(job')
        BY <3>1, <4>1, TablesTyped, CompletedSane, FailedSane DEF Sane
      <4>3. \A i \in Job : i # worker[w].job => Completed(worker[w].job)[i] = job[i]
        BY <3>1, TablesTyped DEF Completed, TableFit
      <4>4. \A i \in Job : i # worker[w].job => Failed(worker[w].job)[i] = job[i]
        BY <3>1, TablesTyped, FailedSane
      <4>. QED BY <4>1, <4>2, <4>3, <4>4
    <3>. QED BY <3>2, <3>3 DEF SameRows, Sound, TablesFit, Exists
  <2>5. ASSUME NEW o, OnGiveUp(w, o) \/ Restart(w) PROVE FALSE
    BY <1>2, <2>5 DEF OnGiveUp, Restart
  <2>. QED BY <1>2, <2>1, <2>2, <2>3, <2>4, <2>5 DEF WorkerStep, Handler
<1>3. ASSUME NEW w \in Worker, Crash(w) \/ Heartbeat(w) PROVE job'[j].state = job[j].state
  BY <1>3, TablesTyped DEF Crash, Heartbeat, Extended, LeaseOver, TableFit, Jobs
<1>4. ASSUME NEW i \in Job, LeaseRunsOut(i) \/ RetryIsDue(i) PROVE job'[j].state = job[j].state
  BY <1>4, TablesTyped DEF LeaseRunsOut, RetryIsDue, TableFit, Jobs
<1>5. ASSUME NEW p \in Operator, CommandStep(p), job' # job
      PROVE  \/ job'[j].state \in {job[j].state, "none"}
             \/ job[j].state = "failed" /\ "retried" \in history'
             \/ job[j].state = "none" /\ j \in Enqueue /\ job' = Enqueued
  <2>1. ASSUME NEW i \in Job, RetryJob(p, i)
        PROVE  job'[j].state = job[j].state \/ (job[j].state = "failed" /\ "retried" \in history')
    <3>1. job[i].state = "failed" /\ job' = Retried(i) /\ "retried" \in history'
      BY <2>1 DEF RetryJob, Retryable
    <3>2. i # j => job'[j] = job[j]
      BY <3>1, TablesTyped DEF Retried, TableFit
    <3>. QED BY <3>1, <3>2
  <2>2. CASE EnqueueAgain(p)
    BY <1>5, <2>2, TablesTyped DEF EnqueueAgain, Enqueued, Enqueue, TableFit, Exists
  <2>3. CASE DeleteRow(p)
    BY <2>3, NewJobTyped DEF DeleteRow
  <2>. QED BY <1>5, <2>1, <2>2, <2>3 DEF CommandStep, Reprocess, ResetForReprocess, MarkStopped, Delete, Abandon
<1>. QED BY <1>1, <1>2, <1>3, <1>4, <1>5 DEF Next, vars

LEMMA OneActiveInductive == Sound /\ Leases /\ OneActiveJob /\ [Next]_vars => OneActiveJob'
<1>. SUFFICES ASSUME Sound, Leases, OneActiveJob, [Next]_vars, Undisturbed',
                     NEW i \in Job, NEW j \in Job, Active(i)', Active(j)'
              PROVE  i = j
  BY DEF OneActiveJob, Undisturbed, NoStall
<1>1. Undisturbed
  BY NothingForgotten DEF Undisturbed, NoStall, Without
<1>2. AllLeased /\ (Active(i) /\ Active(j) => i = j)
  BY <1>1 DEF Leases, AllLeased, Leased, Undisturbed, OneActiveJob, NoStall
<1>3. ASSUME NEW k \in Job, Active(k)', ~Active(k)
      PROVE  k \in Enqueue /\ job' = Enqueued
  <2>. QED BY <1>2, <1>3, EndedStays DEF Active, Undisturbed
<1>4. ASSUME NEW k \in Enqueue, job' = Enqueued, NEW h \in Job, Active(h)' PROVE h = k
  <2>1. h \in Enqueue
    BY <1>4 DEF Enqueued, Enqueue, Active
  <2>. QED BY <1>4, <2>1 DEF Enqueue, Job
<1>. QED BY <1>2, <1>3, <1>4

\* A worker comes to hold a job only by claiming one.
LEMMA HoldersMove ==
  ASSUME Sound, [Next]_vars, NEW w \in Worker, Holds(w)'
  PROVE  \/ Holds(w) /\ worker'[w].job = worker[w].job
         \/ \E o \in Outcome : Claim(w, o)
<1>1. CASE worker'[w] = worker[w]
  BY <1>1 DEF Holds, Busy, At
<1>2. ASSUME NEW k, Goto(w, k), k.pc \notin Handling \ {"giveup"} PROVE FALSE
  BY <1>2, TablesTyped DEF Goto, Holds, Busy, At
<1>3. ASSUME NEW o \in Outcome, Handler(w, o) PROVE Holds(w) /\ worker'[w].job = worker[w].job
  <2>1. Quiet(w)
    BY <1>3, HandlerQuiet
  <2>. QED BY <2>1, TablesTyped DEF Quiet, Holds, Busy, At, Working, Goto
<1>4. ASSUME NEW o \in Outcome, Complete(w, o) \/ FailJob(w, o)
      PROVE  Holds(w) /\ worker'[w].job = worker[w].job
  <2>1. Holds(w) /\ \A pc : [worker[w] EXCEPT !.pc = pc].job = worker[w].job
    BY <1>4, TablesTyped DEF Complete, FailJob, Holds, Busy, At, Handling, Tasks
  <2>2. [worker[w] EXCEPT !.pc = "giveup"].pc = "giveup" /\ Idle.pc = "idle" /\ Off.pc = "off"
    BY TablesTyped DEF Tasks, Idle, Off
  <2>3. \/ Goto(w, [worker[w] EXCEPT !.pc = "error"])
        \/ \E k : Goto(w, k) /\ k.pc \notin Handling \ {"giveup"}
    BY <1>4, <2>2 DEF Complete, FailJob, OrError, OrExit, Handling
  <2>. QED BY <1>2, <2>1, <2>3, TablesTyped DEF Goto
<1>5. ASSUME NEW o \in Outcome, GiveUpDead(w, o) PROVE FALSE
  <2>. DEFINE k == [Idle EXCEPT !.pc = "claim", !.seen = {<<j, job[j].attempts>> : j \in LeftOver}]
  <2>1. k.pc = "claim" /\ Off.pc = "off"
    BY DEF Idle, Off
  <2>2. OrExit(w, o, k)
    BY <1>5 DEF GiveUpDead
  <2>. HIDE DEF k
  <2>. QED BY <1>2, <2>1, <2>2 DEF OrExit, Handling
<1>6. ASSUME NEW o \in Outcome, OnGiveUp(w, o) \/ Restart(w) \/ Crash(w) PROVE FALSE
  BY <1>2, <1>6 DEF OnGiveUp, Restart, Crash, Idle, Off, Handling
<1>7. CASE WorkerStep(w) \/ Crash(w)
  <2>1. Outcome # {}
    BY DEF Outcome
  <2>. QED BY <1>3, <1>4, <1>5, <1>6, <1>7, <2>1 DEF WorkerStep, Handler
<1>8. ASSUME NEW v \in Worker, WorkerStep(v) \/ Crash(v), v # w PROVE worker'[w] = worker[w]
  <2>1. \A k : Goto(v, k) => worker'[w] = worker[w]
    BY <1>8, TablesTyped DEF Goto
  <2>2. ASSUME NEW o, Handler(v, o) PROVE worker'[w] = worker[w]
    BY <2>1, <2>2, HandlerQuiet DEF Quiet
  <2>. QED BY <1>8, <2>1, <2>2 DEF WorkerStep, Handler, GiveUpDead, Claim, Complete, FailJob, OnGiveUp, Restart,
                                   OrExit, OrError, Crash
<1>9. ASSUME \/ \E v \in Worker : Heartbeat(v)
             \/ \E j \in Job : LeaseRunsOut(j) \/ RetryIsDue(j)
             \/ \E p \in Operator : CommandStep(p)
             \/ UNCHANGED vars
      PROVE  worker' = worker
  BY <1>9 DEF Heartbeat, LeaseRunsOut, RetryIsDue, CommandStep, RetryJob, Reprocess, ResetForReprocess,
              MarkStopped, EnqueueAgain, Delete, DeleteRow, Abandon, vars
<1>. QED BY <1>1, <1>7, <1>8, <1>9 DEF Next

\* A job that may be claimed is active, and nobody holds its lease.
LEMMA ClaimIsFree ==
  ASSUME Sound, AllLeased, NEW w \in Worker, NEW o, Claim(w, o), Holds(w)'
  PROVE  \E j \in Job : /\ Active(j) /\ worker'[w].job = j /\ status # "deleted"
                        /\ \A v \in Worker : Holds(v) => Active(worker[v].job) /\ worker[v].job # j
<1>1. CASE {j \in Job : Claimable(j, worker[w].seen)} = {}
  <2>1. \E k : Goto(w, k) /\ k.pc \in {"idle", "off"}
    BY <1>1 DEF Claim, OrExit, Idle, Off
  <2>. QED BY <2>1, TablesTyped DEF Goto, Holds, Busy, At, Handling
<1>2. CASE {j \in Job : Claimable(j, worker[w].seen)} # {}
  <2>1. PICK j \in Job : /\ Claimable(j, worker[w].seen)
                         /\ OrExit(w, o, [Idle EXCEPT !.pc = "load", !.job = j])
    BY <1>2 DEF Claim
  <2>2. worker'[w].job = j
    <3>1. CASE o = "ok"
      BY <2>1, <3>1, TablesTyped DEF OrExit, Goto, Idle, Off
    <3>2. CASE o # "ok"
      BY <2>1, <3>2, TablesTyped DEF OrExit, Goto, Off, Holds, Busy, At, Handling
    <3>. QED BY <3>1, <3>2
  <2>3. Active(j) /\ status # "deleted" /\ ~(job[j].state = "running" /\ ~job[j].expired)
    BY <2>1 DEF Claimable, LeaseOver, Active, Exists, Sound, TablesFit
  <2>. QED BY <2>2, <2>3 DEF AllLeased, Leased, Active
<1>. QED BY <1>1, <1>2

LEMMA OneHolderInductive == Sound /\ Leases /\ OneActiveJob /\ OneHolder /\ [Next]_vars => OneHolder'
<1>. SUFFICES ASSUME Sound, Leases, OneActiveJob, OneHolder, [Next]_vars, Undisturbed',
                     NEW v \in Worker, NEW w \in Worker, Holds(v)', Holds(w)'
              PROVE  v = w
  BY DEF OneHolder
<1>1. Undisturbed
  BY NothingForgotten DEF Undisturbed, NoStall, Without
<1>2. AllLeased /\ (\A i, j \in Job : Active(i) /\ Active(j) => i = j) /\ (Holds(v) /\ Holds(w) => v = w)
  BY <1>1 DEF Leases, AllLeased, Leased, Undisturbed, OneActiveJob, NoStall, OneHolder
<1>3. \A u \in Worker : Holds(u) => worker[u].job \in Job
  BY DEF Holds, Busy, Sound, Formed
<1>4. ASSUME NEW u \in Worker, Holds(u)', NEW o, Claim(u, o), NEW x \in Worker, Holds(x) PROVE FALSE
  BY <1>2, <1>3, <1>4, ClaimIsFree
<1>5. ASSUME NEW o \in Outcome, Claim(v, o), NEW r \in Outcome, Claim(w, r) PROVE v = w
  <2>1. (\E k : Goto(v, k)) /\ (\E k : Goto(w, k))
    BY <1>5 DEF Claim, OrExit
  <2>2. v # w => worker'[v] = worker[v]
    BY <2>1, TablesTyped DEF Goto
  <2>. QED BY <1>5, <2>2 DEF Claim, Holds, Busy, At, Handling
<1>. QED BY <1>2, <1>4, <1>5, HoldersMove

\* The tracks a worker still has to transcribe, and what has a transcript.
LEMMA TracksMove ==
  ASSUME Sound, [Next]_vars, NoStall', NEW w \in Worker, worker'[w].pc \in {"transcribe", "save"},
         worker[w].pc \in {"transcribe", "save"} => worker[w].todo \cap transcribed = {},
         \A v \in Worker : Holds(v) /\ Holds(w) => v = w
  PROVE  worker'[w].todo \cap transcribed' = {}
<1>1. worker[w] \in Tasks
  BY TablesTyped
<1>2. CASE worker'[w] = worker[w] /\ transcribed' \subseteq transcribed
  BY <1>2
<1>3. ASSUME NEW k, Goto(w, k), k.pc \notin {"transcribe", "save"} PROVE FALSE
  BY <1>3, TablesTyped DEF Goto
<1>4. \A pc : [worker[w] EXCEPT !.pc = pc].pc = pc
  BY <1>1 DEF Tasks
<1>5. ASSUME NEW o \in Outcome, ListTracks(w, o) PROVE worker'[w].todo \cap transcribed' = {}
  <2>1. o = "ok"
    BY <1>3, <1>4, <1>5 DEF ListTracks, OrError
  <2>2. worker'[w].todo \subseteq Pending
    BY <1>1, <1>5, <2>1, TablesTyped DEF ListTracks, OrError, Goto, Transcribing, Tasks
  <2>. QED BY <1>5, <2>2 DEF ListTracks, records, Pending
<1>6. ASSUME NEW o \in Outcome, NEW t \in Track, Transcribe(w, t, o)
      PROVE  worker'[w].todo \cap transcribed' = {}
  <2>1. worker'[w].todo = worker[w].todo
    BY <1>1, <1>6, TablesTyped DEF Transcribe, HeardOrError, OrError, Goto, Tasks
  <2>. QED BY <1>6, <2>1 DEF Transcribe, At, records
<1>7. ASSUME NEW o \in Outcome, SaveTranscript(w, o) PROVE worker'[w].todo \cap transcribed' = {}
  <2>. DEFINE t == worker[w].cur
              r == IF t \in Private THEN "rejected" ELSE IfExists(o)
  <2>1. OrError(w, r, Transcribing(worker[w], worker[w].todo \ {t}))
    BY <1>7 DEF SaveTranscript
  <2>2. r = "ok"
    BY <1>3, <1>4, <2>1 DEF OrError
  <2>3. worker'[w].todo = worker[w].todo \ {t}
    BY <1>1, <2>1, <2>2, TablesTyped DEF OrError, Goto, Transcribing, Tasks
  <2>4. transcribed' \subseteq transcribed \cup {t}
    BY <1>7 DEF SaveTranscript
  <2>. QED BY <1>7, <2>3, <2>4 DEF SaveTranscript, At
<1>8. ASSUME NEW v \in Worker, NEW o \in Outcome, SaveTranscript(v, o), v # w
      PROVE  worker'[w].todo \cap transcribed' = {}
  <2>1. worker'[w] = worker[w]
    BY <1>8, TablesTyped DEF SaveTranscript, OrError, Goto
  <2>2. Holds(v) /\ Holds(w)
    BY <1>8, <2>1 DEF SaveTranscript, Holds, Busy, At, Handling
  <2>. QED BY <1>8, <2>2
<1>9. ASSUME NEW v \in Worker, NEW o \in Outcome, Handler(v, o) PROVE worker'[w].todo \cap transcribed' = {}
  <2>1. CASE SaveTranscript(v, o)
    BY <1>7, <1>8, <2>1
  <2>2. CASE ~SaveTranscript(v, o)
    <3>1. transcribed' = transcribed
      BY <1>9, <2>2 DEF Handler, Load, BeginProcessing, ListTracks, Merge, LookForSummary, Summarise,
                        PutSummary, FinishProcessing, Transcribe, records
    <3>2. CASE v # w
      <4>1. worker'[w] = worker[w]
        BY <1>9, <3>2, HandlerQuiet, TablesTyped DEF Quiet, Goto
      <4>. QED BY <1>2, <3>1, <4>1
    <3>3. CASE v = w
      <4>1. CASE ListTracks(w, o) \/ \E t \in Track : Transcribe(w, t, o)
        BY <1>5, <1>6, <4>1
      <4>2. \A k \in Tasks : \A kinds : Summarising(k, kinds).pc \in {"finish", "look"}
        BY DEF Summarising, Tasks
      <4>3. [worker[w] EXCEPT !.heard = transcribed \ Private] \in Tasks
        BY <1>1, TablesTyped DEF Tasks, Public
      <4>4. CASE \/ Load(w, o) \/ BeginProcessing(w, o) \/ Merge(w, o) \/ LookForSummary(w, o)
                 \/ Summarise(w, o) \/ PutSummary(w, o) \/ FinishProcessing(w, o)
        BY <1>1, <1>3, <1>4, <4>2, <4>3, <4>4
           DEF Load, BeginProcessing, Merge, LookForSummary, Summarise, PutSummary, FinishProcessing, OrError
      <4>. QED BY <1>9, <2>2, <3>3, <4>1, <4>4 DEF Handler
    <3>. QED BY <3>2, <3>3
  <2>. QED BY <2>1, <2>2
<1>10. ASSUME NEW v \in Worker, WorkerStep(v) \/ Crash(v), \A o \in Outcome : ~Handler(v, o)
       PROVE  worker'[w] = worker[w] /\ transcribed' = transcribed
  <2>1. \A pc : [Idle EXCEPT !.pc = "load", !.job = pc].pc = "load"
    BY DEF Idle, Off
  <2>2. ASSUME NEW o \in Outcome, GiveUpDead(v, o) PROVE \E k : Goto(v, k) /\ k.pc \in {"claim", "off"}
    <3>. DEFINE k == [Idle EXCEPT !.pc = "claim", !.seen = {<<j, job[j].attempts>> : j \in LeftOver}]
    <3>1. k.pc = "claim" /\ Off.pc = "off"
      BY DEF Idle, Off
    <3>2. OrExit(v, o, k)
      BY <2>2 DEF GiveUpDead
    <3>. HIDE DEF k
    <3>. QED BY <3>1, <3>2 DEF OrExit
  <2>3. ASSUME NEW o \in Outcome, Claim(v, o) PROVE \E k : Goto(v, k) /\ k.pc \in {"load", "idle", "off"}
    <3>1. Idle.pc = "idle" /\ Off.pc = "off"
      BY DEF Idle, Off
    <3>2. \/ OrExit(v, o, Idle)
          \/ \E j \in Job : OrExit(v, o, [Idle EXCEPT !.pc = "load", !.job = j])
      BY <2>3 DEF Claim
    <3>. QED BY <2>1, <3>1, <3>2 DEF OrExit
  <2>4. ASSUME NEW o \in Outcome, Complete(v, o) \/ FailJob(v, o) \/ OnGiveUp(v, o)
        PROVE \E k : Goto(v, k) /\ k.pc \in {"error", "giveup", "idle", "off"}
    <3>1. Idle.pc = "idle" /\ Off.pc = "off" /\ \A pc : [worker[v] EXCEPT !.pc = pc].pc = pc
      BY TablesTyped DEF Idle, Off, Tasks
    <3>. QED BY <2>4, <3>1 DEF Complete, FailJob, OnGiveUp, OrExit, OrError
  <2>5. ASSUME Restart(v) \/ Crash(v) PROVE \E k : Goto(v, k) /\ k.pc \in {"idle", "off"}
    BY <2>5 DEF Restart, Crash, Idle, Off
  <2>6. \E k : Goto(v, k) /\ k.pc \notin {"transcribe", "save"}
    BY <1>10, <2>2, <2>3, <2>4, <2>5 DEF WorkerStep, Handler
  <2>7. transcribed' = transcribed
    BY <1>10 DEF WorkerStep, Handler, GiveUpDead, Claim, Complete, FailJob, OnGiveUp, Restart, Crash, records
  <2>. QED BY <1>3, <2>6, <2>7, TablesTyped DEF Goto
<1>11. ASSUME \/ \E v \in Worker : Heartbeat(v)
              \/ \E j \in Job : LeaseRunsOut(j) \/ RetryIsDue(j)
              \/ \E p \in Operator : CommandStep(p)
              \/ UNCHANGED vars
       PROVE  worker' = worker /\ transcribed' \subseteq transcribed
  BY <1>11 DEF Heartbeat, LeaseRunsOut, RetryIsDue, CommandStep, RetryJob, Reprocess, ResetForReprocess,
               MarkStopped, EnqueueAgain, Delete, DeleteRow, Abandon, vars, records
<1>. QED BY <1>2, <1>9, <1>10, <1>11 DEF Next

LEMMA NotDoneInductive == Sound /\ OneHolder /\ NotDoneYet /\ [Next]_vars => NotDoneYet'
<1>. SUFFICES ASSUME Sound, OneHolder, NotDoneYet, [Next]_vars, Undisturbed',
                     NEW w \in Worker, worker'[w].pc \in {"transcribe", "save"}
              PROVE  worker'[w].todo \cap transcribed' = {}
  BY DEF NotDoneYet
<1>1. Undisturbed /\ NoStall'
  BY NothingForgotten DEF Undisturbed, NoStall, Without
<1>. QED BY <1>1, TracksMove DEF OneHolder, NotDoneYet

\* The row of a recording that was deleted does not come back.
LEMMA DeletedStays == Sound /\ [Next]_vars /\ status = "deleted" => status' = "deleted"
<1>. SUFFICES ASSUME Sound, [Next]_vars, status = "deleted" PROVE status' = "deleted"
  OBVIOUS
<1>1. ASSUME NEW w \in Worker, WorkerStep(w) \/ Crash(w) PROVE status' = "deleted"
  <2>1. ASSUME NEW o, Handler(w, o) PROVE status' = "deleted"
    BY <2>1, HandlerQuiet DEF Quiet
  <2>. QED BY <1>1, <2>1 DEF WorkerStep, Handler, GiveUpDead, Claim, Complete, FailJob, OnGiveUp,
                             MarkFailed, SetStatus,
                             Restart, Crash, records
<1>2. ASSUME \/ \E w \in Worker : Heartbeat(w)
             \/ \E j \in Job : LeaseRunsOut(j) \/ RetryIsDue(j)
             \/ \E p \in Operator : CommandStep(p)
             \/ UNCHANGED vars
      PROVE  status' = "deleted"
  BY <1>2 DEF Heartbeat, LeaseRunsOut, RetryIsDue, CommandStep, RetryJob, Reprocess, ResetForReprocess,
              MarkStopped, SetStatus, EnqueueAgain, Delete, DeleteRow, Abandon, vars, records
<1>. QED BY <1>1, <1>2 DEF Next

-----------------------------------------------------------------------------
(* Complete records.                                                       *)

\* What the handler is doing cannot be undone by a step of the same handler.
Transcripts == \A k \in 1..2 : summary[k].written => Whole(k)
AllProgress == \A w \in Worker : Progress(w)

\* A worker with its own part done, and one that did nothing while others got further.
LEMMA ProgressKept ==
  ASSUME Sound, NEW w \in Worker, Progress(w), worker'[w] = worker[w],
         transcribed \subseteq transcribed', transcribed' \subseteq Public,
         \A k \in 1..2 : Whole(k) => Whole(k)'
  PROVE  Progress(w)'
  BY DEF Progress

\* The part of Progress that concerns a worker at pc with these things in hand.
Through(k, T, S) ==
  /\ k.pc \in {"transcribe", "save"} => Public \subseteq T \cup k.todo
  /\ k.pc \in {"merge", "look", "summarise", "put", "finish"} => T = Public
  /\ k.pc \in {"look", "summarise", "put"} => k.heard = Public
  /\ k.pc \in {"look", "summarise", "put"} /\ k.kinds = << 2 >> => S[1] = [written |-> TRUE, from |-> Public]
  /\ k.pc = "finish" => \A i \in 1..2 : S[i] = [written |-> TRUE, from |-> Public]

LEMMA ProgressThrough ==
  ASSUME NEW w \in Worker
  PROVE  /\ Progress(w) <=> Through(worker[w], transcribed, summary)
         /\ Progress(w)' <=> Through(worker'[w], transcribed', summary')
  BY DEF Progress, Through, Whole

LEMMA ProgressByHandler ==
  ASSUME Sound, AllProgress, Transcripts, status # "deleted", NEW w \in Worker, NEW o \in Outcome, Handler(w, o)
  PROVE  /\ Through(worker'[w], transcribed', summary')
         /\ transcribed \subseteq transcribed' /\ \A k \in 1..2 : Whole(k) => Whole(k)'
         /\ Transcripts'
         /\ status' = "processed" => status = "processed" \/ RecordsComplete'
<1>. DEFINE k == worker[w]
<1>1. /\ k \in Tasks /\ Through(k, transcribed, summary) /\ worker \in [Worker -> Tasks]
      /\ transcribed \subseteq Public /\ summary \in Summaries
  BY TablesTyped, ProgressThrough DEF AllProgress
<1>2. \A pc : LET g == [k EXCEPT !.pc = pc] IN
        g.pc = pc /\ g.todo = k.todo /\ g.heard = k.heard /\ g.kinds = k.kinds
  BY <1>1 DEF Tasks
<1>3. ASSUME NEW g, NEW r, OrError(w, r, g), r = "ok" => Through(g, transcribed', summary')
      PROVE  Through(worker'[w], transcribed', summary')
  <2>1. CASE r = "ok"
    BY <1>1, <1>3, <2>1 DEF OrError, Goto
  <2>2. CASE r # "ok"
    <3>1. worker'[w] = [k EXCEPT !.pc = "error"]
      BY <1>1, <1>3, <2>2 DEF OrError, Goto
    <3>. QED BY <1>2, <3>1 DEF Through
  <2>. QED BY <2>1, <2>2
<1>4. CASE UNCHANGED <<transcribed, summary>>
           /\ Through(worker'[w], transcribed, summary)
           /\ (status' = "processed" => status = "processed" \/ RecordsComplete)
  BY <1>4 DEF Transcripts, Whole, RecordsComplete
<1>5. CASE Load(w, o) \/ BeginProcessing(w, o)
  <2>1. \A pc \in {"begin", "tracks"} : Through([k EXCEPT !.pc = pc], transcribed, summary)
    BY <1>2 DEF Through
  <2>2. UNCHANGED <<transcribed, summary>> /\ (status' = "processed" => status = "processed")
    BY <1>5 DEF Load, BeginProcessing, SetStatus, records
  <2>3. Through(worker'[w], transcribed', summary')
    BY <1>3, <1>5, <2>1, <2>2 DEF Load, BeginProcessing
  <2>. QED BY <1>4, <2>2, <2>3
<1>6. CASE ListTracks(w, o)
  <2>. DEFINE g == Transcribing(k, Pending)
  <2>1. /\ g.pc = (IF Pending = {} THEN "merge" ELSE "transcribe") /\ g.todo = Pending
    BY <1>1 DEF Transcribing, Tasks
  <2>2. Through(g, transcribed, summary)
    BY <1>1, <2>1 DEF Through, Pending
  <2>3. UNCHANGED records /\ OrError(w, o, g)
    BY <1>6 DEF ListTracks
  <2>. HIDE DEF g
  <2>. QED BY <1>3, <1>4, <2>2, <2>3 DEF records
<1>7. ASSUME NEW t \in Track, Transcribe(w, t, o)
      PROVE  UNCHANGED records /\ Through(worker'[w], transcribed', summary')
  <2>. DEFINE g == [k EXCEPT !.pc = "save", !.cur = t]
  <2>1. g.pc = "save" /\ g.todo = k.todo /\ k.pc = "transcribe"
    BY <1>1, <1>7 DEF Tasks, Transcribe, At
  <2>2. Through(g, transcribed, summary)
    BY <1>1, <2>1 DEF Through
  <2>3. UNCHANGED records /\ OrError(w, o, g)
    BY <1>7 DEF Transcribe, HeardOrError
  <2>. HIDE DEF g
  <2>. QED BY <1>3, <2>2, <2>3 DEF records
<1>8. CASE SaveTranscript(w, o)
  <2>. DEFINE t == k.cur
              r == IF t \in Private THEN "rejected" ELSE IfExists(o)
              g == Transcribing(k, k.todo \ {t})
  <2>1. /\ transcribed' = IF Landed(r) THEN transcribed \cup {t} ELSE transcribed
        /\ OrError(w, r, g) /\ UNCHANGED <<status, summary>> /\ k.pc = "save"
    BY <1>8 DEF SaveTranscript, At
  <2>2. g.pc = (IF k.todo \ {t} = {} THEN "merge" ELSE "transcribe") /\ g.todo = k.todo \ {t}
    BY <1>1 DEF Transcribing, Tasks
  <2>3. t \in Public /\ k.todo \subseteq Public
    <3>1. Formed(k)
      BY DEF Sound
    <3>. QED BY <2>1, <3>1 DEF Formed
  <2>4. r = "ok" => Through(g, transcribed', summary')
    <3>1. ASSUME r = "ok" PROVE transcribed' = transcribed \cup {t} /\ Public \subseteq transcribed \cup k.todo
      BY <1>1, <2>1, <3>1 DEF Landed, Through
    <3>. QED BY <1>1, <2>2, <2>3, <3>1 DEF Through
  <2>5. transcribed \subseteq transcribed'
    BY <2>1
  <2>. HIDE DEF g, r
  <2>. QED BY <1>3, <2>1, <2>4, <2>5 DEF Transcripts, Whole
<1>9. CASE Merge(w, o)
  <2>. DEFINE h == [k EXCEPT !.heard = transcribed \ Private]
              g == Summarising(h, <<1, 2>>)
  <2>1. h \in Tasks /\ h.heard = transcribed \ Private
    BY <1>1 DEF Tasks, Public
  <2>2. <<1, 2>> # <<>> /\ <<1, 2>> # << 2 >>
    BY KindsTyped
  <2>3. g.pc = "look" /\ g.heard = h.heard /\ g.kinds = <<1, 2>>
    <3>. HIDE DEF h
    <3>. QED BY <2>1, <2>2 DEF Summarising, Tasks
  <2>4. transcribed = Public /\ transcribed \ Private = Public
    BY <1>1, <1>9 DEF Merge, At, Through, Public
  <2>5. Through(g, transcribed, summary)
    BY <2>1, <2>2, <2>3, <2>4 DEF Through
  <2>6. UNCHANGED records /\ OrError(w, o, g)
    BY <1>9 DEF Merge
  <2>. HIDE DEF g, h
  <2>. QED BY <1>3, <1>4, <2>5, <2>6 DEF records
<1>10. ASSUME k.pc \in {"look", "put"}, NEW S,
              Whole(1) => S[1] = [written |-> TRUE, from |-> Public],
              S[Head(k.kinds)] = [written |-> TRUE, from |-> Public]
       PROVE  Through(Summarising(k, Tail(k.kinds)), transcribed, S)
  <2>. DEFINE g == Summarising(k, Tail(k.kinds))
  <2>1. k.kinds \in {<<1, 2>>, << 2 >>}
    BY <1>10 DEF Sound, Formed
  <2>2. /\ g.pc = (IF Tail(k.kinds) = <<>> THEN "finish" ELSE "look")
        /\ g.heard = k.heard /\ g.kinds = Tail(k.kinds)
    BY <1>1 DEF Summarising, Tasks
  <2>3. CASE k.kinds = <<1, 2>>
    <3>1. Tail(k.kinds) = << 2 >> /\ Tail(k.kinds) # <<>> /\ Head(k.kinds) = 1
      BY <2>1, <2>3, KindsTyped
    <3>. QED BY <1>1, <1>10, <2>2, <3>1 DEF Through
  <2>4. CASE k.kinds = << 2 >>
    <3>1. Head(k.kinds) = 2 /\ Tail(k.kinds) = <<>>
      BY <2>4
    <3>2. Whole(1) /\ \A i \in 1..2 : i = 1 \/ i = 2
      BY <1>1, <1>10, <2>4 DEF Through, Whole
    <3>. QED BY <1>1, <1>10, <2>2, <3>1, <3>2 DEF Through
  <2>. QED BY <2>1, <2>3, <2>4
<1>11. CASE LookForSummary(w, o)
  <2>1. k.pc = "look" /\ k.kinds \in {<<1, 2>>, << 2 >>} /\ Head(k.kinds) \in 1..2
    BY <1>11, KindsTyped DEF LookForSummary, At, Sound, Formed
  <2>2. UNCHANGED records
    BY <1>11 DEF LookForSummary
  <2>3. CASE summary[Head(k.kinds)].written
    <3>1. Through(Summarising(k, Tail(k.kinds)), transcribed, summary)
      BY <1>10, <2>1, <2>3 DEF Transcripts, Whole
    <3>2. OrError(w, o, Summarising(k, Tail(k.kinds)))
      BY <1>11, <2>3 DEF LookForSummary
    <3>. QED BY <1>3, <1>4, <2>2, <3>1, <3>2 DEF records
  <2>4. CASE ~summary[Head(k.kinds)].written
    <3>1. Through([k EXCEPT !.pc = "summarise"], transcribed, summary)
      BY <1>1, <1>2, <2>1 DEF Through
    <3>2. OrError(w, o, [k EXCEPT !.pc = "summarise"])
      BY <1>11, <2>4 DEF LookForSummary
    <3>. QED BY <1>3, <1>4, <2>2, <3>1, <3>2 DEF records
  <2>. QED BY <2>3, <2>4
<1>12. CASE Summarise(w, o)
  <2>1. Through([k EXCEPT !.pc = "put"], transcribed, summary)
    BY <1>1, <1>2, <1>12 DEF Through, Summarise, At
  <2>2. UNCHANGED records /\ OrError(w, o, [k EXCEPT !.pc = "put"])
    BY <1>12 DEF Summarise
  <2>. QED BY <1>3, <1>4, <2>1, <2>2 DEF records
<1>13. CASE PutSummary(w, o)
  <2>. DEFINE i == Head(k.kinds)
              full == [written |-> TRUE, from |-> Public]
  <2>1. k.pc = "put" /\ k.heard = Public /\ i \in 1..2 /\ UNCHANGED <<status, transcribed>>
    BY <1>1, <1>13, KindsTyped DEF PutSummary, At, Sound, Formed, Through
  <2>2. /\ summary' = IF Landed(o) THEN [summary EXCEPT ![i] = full] ELSE summary
        /\ OrError(w, o, Summarising(k, Tail(k.kinds)))
    BY <1>13, <2>1 DEF PutSummary, IfExists
  <2>3. \A j \in 1..2 : summary'[j] \in {summary[j], full}
    BY <1>1, <2>1, <2>2 DEF Summaries
  <2>4. o = "ok" => summary'[i] = full
    BY <1>1, <2>1, <2>2 DEF Landed, Summaries
  <2>5. o = "ok" => Through(Summarising(k, Tail(k.kinds)), transcribed', summary')
    <3>. HIDE DEF i
    <3>1. Whole(1) => summary'[1] = full
      <4>1. 1 \in 1..2
        OBVIOUS
      <4>2. summary'[1] \in {summary[1], full}
        BY <2>3, <4>1
      <4>. QED BY <4>2 DEF Whole
    <3>2. o = "ok" => Through(Summarising(k, Tail(k.kinds)), transcribed, summary')
      BY <1>10, <2>1, <2>4, <3>1 DEF i
    <3>. QED BY <2>1, <3>2
  <2>6. Through(worker'[w], transcribed', summary')
    BY <1>3, <2>2, <2>5
  <2>7. Transcripts' /\ \A j \in 1..2 : Whole(j) => Whole(j)'
    BY <2>3 DEF Transcripts, Whole
  <2>. QED BY <2>1, <2>6, <2>7
<1>14. CASE FinishProcessing(w, o)
  <2>1. RecordsComplete
    BY <1>1, <1>14 DEF FinishProcessing, At, Through, RecordsComplete
  <2>2. Through([k EXCEPT !.pc = "complete"], transcribed, summary)
    BY <1>2 DEF Through
  <2>3. UNCHANGED <<transcribed, summary>> /\ OrError(w, o, [k EXCEPT !.pc = "complete"])
    BY <1>14 DEF FinishProcessing
  <2>. QED BY <1>3, <1>4, <2>1, <2>2, <2>3
<1>15. ASSUME NEW t \in Track, Transcribe(w, t, o)
       PROVE  /\ UNCHANGED <<transcribed, summary, status>>
              /\ Through(worker'[w], transcribed, summary)
  BY <1>7, <1>15 DEF records
<1>. QED BY <1>4, <1>5, <1>6, <1>8, <1>9, <1>11, <1>12, <1>13, <1>14, <1>15 DEF Handler

\* Where a worker is outside the handler, or when it leaves it.
Elsewhere == {"off", "idle", "claim", "load", "error", "giveup"}

\* What the handler does not do to the records: nobody else writes a transcript or a summary, and
\* without a race nothing is taken from a worker that is busy.
LEMMA ProgressByOthers ==
  ASSUME Sound, [Next]_vars, status' # "deleted", "raced" \notin history',
         \A w \in Worker, o \in Outcome : ~Handler(w, o)
  PROVE  /\ \/ UNCHANGED <<transcribed, summary>>
            \/ /\ \A w \in Worker : ~Busy(w) /\ worker'[w] = worker[w]
               /\ summary' = [k \in 1..2 |-> NoSummary] /\ UNCHANGED status
               /\ \E p \in Operator : command'[p].pc = "stopped"
         /\ status' = "processed" => status = "processed"
         /\ \A w \in Worker : worker'[w] = worker[w] \/ worker'[w].pc \in Elsewhere
         /\ \A p \in Operator : command[p].pc = "stopped" =>
              \/ command'[p].pc = "stopped" \/ status' = "stopped" \/ <<"command", "rejected">> \in faults'
<1>1. CASE UNCHANGED vars
  BY <1>1 DEF vars, records, people
<1>2. ASSUME NEW w \in Worker, WorkerStep(w) \/ Crash(w)
      PROVE  /\ UNCHANGED <<transcribed, summary, command>> /\ status' \in {status, "failed"}
             /\ \E k : Goto(w, k) /\ k.pc \in Elsewhere
  <2>1. \A j : [Idle EXCEPT !.pc = "load", !.job = j].pc = "load"
    BY DEF Idle, Off
  <2>2. Idle.pc = "idle" /\ Off.pc = "off" /\ \A pc : [worker[w] EXCEPT !.pc = pc].pc = pc
    BY TablesTyped DEF Idle, Off, Tasks
  <2>3. ASSUME NEW o \in Outcome, GiveUpDead(w, o) PROVE \E k : Goto(w, k) /\ k.pc \in {"claim", "off"}
    <3>. DEFINE k == [Idle EXCEPT !.pc = "claim", !.seen = {<<j, job[j].attempts>> : j \in LeftOver}]
    <3>1. k.pc = "claim"
      BY DEF Idle, Off
    <3>2. OrExit(w, o, k)
      BY <2>3 DEF GiveUpDead
    <3>. HIDE DEF k
    <3>. QED BY <2>2, <3>1, <3>2 DEF OrExit
  <2>4. ASSUME NEW o \in Outcome, Claim(w, o) PROVE \E k : Goto(w, k) /\ k.pc \in {"load", "idle", "off"}
    <3>1. \/ OrExit(w, o, Idle)
          \/ \E j \in Job : OrExit(w, o, [Idle EXCEPT !.pc = "load", !.job = j])
      BY <2>4 DEF Claim
    <3>. QED BY <2>1, <2>2, <3>1 DEF OrExit
  <2>5. ASSUME NEW o \in Outcome, Complete(w, o) \/ FailJob(w, o) \/ OnGiveUp(w, o)
        PROVE \E k : Goto(w, k) /\ k.pc \in {"error", "giveup", "idle", "off"}
    BY <2>2, <2>5 DEF Complete, FailJob, OnGiveUp, OrExit, OrError
  <2>6. ASSUME Restart(w) \/ Crash(w) PROVE \E k : Goto(w, k) /\ k.pc \in {"idle", "off"}
    BY <2>2, <2>6 DEF Restart, Crash
  <2>7. UNCHANGED <<transcribed, summary, command>> /\ status' \in {status, "failed"}
    BY <1>2 DEF WorkerStep, Handler, GiveUpDead, Claim, Complete, FailJob, OnGiveUp, MarkFailed, SetStatus,
                Restart,
                Crash, records, people
  <2>. QED BY <1>2, <2>3, <2>4, <2>5, <2>6, <2>7 DEF WorkerStep, Handler, Elsewhere
<1>3. ASSUME NEW w \in Worker, WorkerStep(w) \/ Crash(w)
      PROVE  \A v \in Worker : worker'[v] = worker[v] \/ worker'[v].pc \in Elsewhere
  BY <1>2, <1>3, TablesTyped DEF Goto
<1>4. ASSUME \/ \E w \in Worker : Heartbeat(w)
             \/ \E j \in Job : LeaseRunsOut(j) \/ RetryIsDue(j)
      PROVE  UNCHANGED <<worker, transcribed, summary, status, command>>
  BY <1>4 DEF Heartbeat, LeaseRunsOut, RetryIsDue, records, people
<1>5. ASSUME NEW p \in Operator, CommandStep(p), ~ResetForReprocess(p)
      PROVE  /\ UNCHANGED <<worker, transcribed, summary>> /\ (status' = "processed" => status = "processed")
             /\ \A q \in Operator : command[q].pc = "stopped" =>
                  \/ command'[q].pc = "stopped" \/ status' = "stopped" \/ <<"command", "rejected">> \in faults'
  <2>1. CASE MarkStopped(p)
    <3>1. UNCHANGED <<worker, transcribed, summary>> /\ status' = "stopped"
      BY <2>1 DEF MarkStopped, SetStatus, Landed
    <3>. QED BY <3>1
  <2>2. CASE ~MarkStopped(p)
    <3>1. UNCHANGED <<worker, transcribed, summary, status>>
      BY <1>5, <2>2 DEF CommandStep, RetryJob, Reprocess, EnqueueAgain, Delete, DeleteRow, Abandon, records
    <3>2. <<"command", "rejected">> \in faults' \/ (command[p].pc # "stopped" /\ \E c : Proceed(p, c))
      <4>1. CASE Abandon(p)
        BY <4>1 DEF Abandon, Call
      <4>2. CASE ~Abandon(p)
        <5>1. NoCommand.pc = "-"
          BY DEF NoCommand
        <5>. QED BY <1>5, <2>2, <4>2, <5>1 DEF CommandStep, RetryJob, Reprocess, EnqueueAgain, Delete,
                                        DeleteRow, Begins, Does
      <4>. QED BY <4>1, <4>2
    <3>3. <<"command", "rejected">> \in faults' \/ \A q \in Operator : command[q].pc = "stopped" => command'[q] = command[q]
      BY <3>2, TablesTyped DEF Proceed
    <3>. QED BY <3>1, <3>3
  <2>. QED BY <2>1, <2>2
<1>6. ASSUME NEW p \in Operator, ResetForReprocess(p)
      PROVE  /\ \A w \in Worker : ~Busy(w) /\ worker'[w] = worker[w]
             /\ summary' = [k \in 1..2 |-> NoSummary] /\ UNCHANGED status
             /\ command'[p].pc = "stopped"
             /\ \A q \in Operator : command[q].pc = "stopped" => command'[q].pc = "stopped"
  <2>1. \A w \in Worker : ~Busy(w)
    BY <1>6 DEF ResetForReprocess, NoteRace
  <2>2. command' = [command EXCEPT ![p] = [command[p] EXCEPT !.pc = "stopped"]]
        /\ command \in [Operator -> Commands]
    BY <1>6, TablesTyped DEF ResetForReprocess, Proceed
  <2>3. command'[p].pc = "stopped" /\ \A q \in Operator : q # p => command'[q] = command[q]
    BY <2>2 DEF Commands
  <2>. QED BY <1>6, <2>1, <2>3 DEF ResetForReprocess
<1>. QED BY <1>1, <1>2, <1>3, <1>4, <1>5, <1>6 DEF Next

LEMMA ProgressInductive == Sound /\ Progresses /\ [Next]_vars => Progresses'
<1>. SUFFICES ASSUME Sound, Progresses, [Next]_vars, "raced" \notin history', status' # "deleted"
              PROVE  /\ AllProgress' /\ Transcripts'
                     /\ \/ status' # "processed" \/ RecordsComplete'
                        \/ <<"command", "rejected">> \in faults' \/ \E p \in Operator : command'[p].pc = "stopped"
  BY DEF Progresses, AllProgress, Transcripts
<1>1. "raced" \notin history /\ faults \subseteq faults' /\ Sound'
  BY NothingForgotten, SoundInductive
<1>2. CASE \E w \in Worker, o \in Outcome : Handler(w, o)
  <2>1. PICK w \in Worker, o \in Outcome : Handler(w, o)
    BY <1>2
  <2>2. status # "deleted" /\ UNCHANGED people /\ \A v \in Worker : v # w => worker'[v] = worker[v]
    BY <2>1, HandlerQuiet, TablesTyped DEF Quiet, Goto
  <2>3. AllProgress /\ Transcripts
    BY <1>1, <2>2 DEF Progresses, AllProgress, Transcripts
  <2>4. /\ Through(worker'[w], transcribed', summary')
        /\ transcribed \subseteq transcribed' /\ (\A k \in 1..2 : Whole(k) => Whole(k)')
        /\ Transcripts'
        /\ status' = "processed" => status = "processed" \/ RecordsComplete'
    BY <2>1, <2>2, <2>3, ProgressByHandler
  <2>5. transcribed' \subseteq Public
    BY <1>1 DEF Sound, TablesFit
  <2>6. AllProgress'
    BY <2>2, <2>3, <2>4, <2>5, ProgressKept, ProgressThrough DEF AllProgress
  <2>7. RecordsComplete => RecordsComplete'
    BY <2>4, <2>5 DEF RecordsComplete, Whole
  <2>8. \/ status # "processed" \/ RecordsComplete
        \/ <<"command", "rejected">> \in faults \/ \E p \in Operator : command[p].pc = "stopped"
    BY <1>1, <2>2 DEF Progresses
  <2>. QED BY <1>1, <2>2, <2>4, <2>6, <2>7, <2>8 DEF people
<1>3. CASE \A w \in Worker, o \in Outcome : ~Handler(w, o)
  <2>1. /\ \/ UNCHANGED <<transcribed, summary>>
           \/ /\ \A w \in Worker : ~Busy(w) /\ worker'[w] = worker[w]
              /\ summary' = [k \in 1..2 |-> NoSummary] /\ UNCHANGED status
              /\ \E p \in Operator : command'[p].pc = "stopped"
        /\ status' = "processed" => status = "processed"
        /\ \A w \in Worker : worker'[w] = worker[w] \/ worker'[w].pc \in Elsewhere
        /\ \A p \in Operator : command[p].pc = "stopped" =>
             \/ command'[p].pc = "stopped" \/ status' = "stopped" \/ <<"command", "rejected">> \in faults'
    BY <1>3, ProgressByOthers
  <2>2. status # "deleted"
    BY DeletedStays
  <2>3. AllProgress /\ Transcripts
    BY <1>1, <2>2 DEF Progresses, AllProgress, Transcripts
  <2>4. CASE UNCHANGED <<transcribed, summary>>
    <3>1. AllProgress'
      <4>1. ASSUME NEW w \in Worker PROVE Progress(w)'
        <5>1. CASE worker'[w] = worker[w]
          BY <2>3, <2>4, <5>1 DEF AllProgress, Progress, Whole
        <5>2. CASE worker'[w].pc \in Elsewhere
          BY <5>2 DEF Progress, Elsewhere
        <5>. QED BY <2>1, <5>1, <5>2
      <4>. QED BY <4>1 DEF AllProgress
    <3>2. Transcripts' /\ (RecordsComplete => RecordsComplete')
      BY <2>3, <2>4 DEF Transcripts, RecordsComplete, Whole
    <3>3. \/ status # "processed" \/ RecordsComplete
          \/ <<"command", "rejected">> \in faults \/ \E p \in Operator : command[p].pc = "stopped"
      BY <1>1, <2>2 DEF Progresses
    <3>. QED BY <1>1, <2>1, <3>1, <3>2, <3>3
  <2>5. CASE /\ \A w \in Worker : ~Busy(w) /\ worker'[w] = worker[w]
             /\ summary' = [k \in 1..2 |-> NoSummary]
             /\ \E p \in Operator : command'[p].pc = "stopped"
    <3>1. AllProgress'
      BY <2>5 DEF AllProgress, Progress, Busy, Handling
    <3>2. Transcripts'
      BY <2>5 DEF Transcripts, NoSummary
    <3>. QED BY <2>5, <3>1, <3>2
  <2>. QED BY <2>1, <2>4, <2>5
<1>. QED BY <1>2, <1>3

-----------------------------------------------------------------------------
(* What the row tells.                                                     *)

LEMMA CommandsFitInductive == Sound /\ CommandsFit /\ [Next]_vars => CommandsFit'
<1>. SUFFICES ASSUME Sound, CommandsFit, [Next]_vars PROVE CommandsFit'
  OBVIOUS
<1>1. CASE UNCHANGED command
  BY <1>1 DEF CommandsFit
<1>2. ASSUME NEW p \in Operator, CommandStep(p) PROVE CommandsFit'
  <2>1. NoCommand.pc = "-" /\ \A pc : [command[p] EXCEPT !.pc = pc].pc = pc
    BY TablesTyped DEF NoCommand, Commands
  <2>2. \E c : Proceed(p, c) /\ (c.pc = "reset" => c.op # "retry")
    <3>1. CASE \/ \E j \in Job : RetryJob(p, j)
               \/ \E full \in BOOLEAN : Reprocess(p, full)
               \/ Delete(p)
      <4>1. \/ \E full \in BOOLEAN : Proceed(p, [op |-> "retry", pc |-> "stopped", full |-> full])
            \/ \E full \in BOOLEAN : Proceed(p, [op |-> "reprocess", pc |-> "reset", full |-> full])
            \/ \E full \in BOOLEAN : Proceed(p, [op |-> "delete", pc |-> "delete", full |-> full])
        BY <3>1 DEF RetryJob, Reprocess, Delete
      <4>2. \A full : [op |-> "retry", pc |-> "stopped", full |-> full].pc # "reset"
        OBVIOUS
      <4>3. \A full : [op |-> "reprocess", pc |-> "reset", full |-> full].op # "retry"
        OBVIOUS
      <4>4. \A full : [op |-> "delete", pc |-> "delete", full |-> full].pc # "reset"
        OBVIOUS
      <4>. QED BY <4>1, <4>2, <4>3, <4>4, Zenon
    <3>2. CASE ResetForReprocess(p) \/ MarkStopped(p)
      BY <2>1, <3>2 DEF ResetForReprocess, MarkStopped
    <3>3. CASE EnqueueAgain(p) \/ DeleteRow(p) \/ Abandon(p)
      BY <2>1, <3>3 DEF EnqueueAgain, DeleteRow, Abandon
    <3>. QED BY <1>2, <3>1, <3>2, <3>3 DEF CommandStep
  <2>. QED BY <2>2, TablesTyped DEF CommandsFit, Proceed
<1>3. ASSUME NEW w \in Worker, WorkerStep(w) PROVE UNCHANGED command
  <2>1. ASSUME NEW o, Handler(w, o) PROVE UNCHANGED command
    BY <2>1, HandlerQuiet DEF Quiet, people
  <2>. QED BY <1>3, <2>1 DEF WorkerStep, Handler, GiveUpDead, Claim, Complete, FailJob, OnGiveUp, Restart,
                             people
<1>4. ASSUME \/ \E w \in Worker : Crash(w) \/ Heartbeat(w)
             \/ \E j \in Job : LeaseRunsOut(j) \/ RetryIsDue(j)
             \/ UNCHANGED vars
      PROVE  UNCHANGED command
  BY <1>4 DEF Crash, Heartbeat, LeaseRunsOut, RetryIsDue, people, vars
<1>. QED BY <1>1, <1>2, <1>3, <1>4 DEF Next

\* Rows only go when the recording is deleted.
LEMMA RowsStay ==
  ASSUME Sound, [Next]_vars, status' # "deleted", NEW j \in Job, Exists(j)
  PROVE  Exists(j)'
<1>1. CASE job' = job
  BY <1>1 DEF Exists
<1>2. CASE Sane(job')
  BY <1>2 DEF Sane, SameRows, Exists
<1>3. ASSUME NEW w \in Worker, WorkerStep(w) PROVE job' = job \/ Sane(job')
  <2>1. ASSUME NEW o, Handler(w, o) PROVE job' = job
    BY <2>1, HandlerQuiet DEF Quiet
  <2>2. ASSUME NEW o, GiveUpDead(w, o) PROVE Sane(job')
    BY <2>2, TablesTyped, GivenUpSane DEF GiveUpDead
  <2>3. ASSUME NEW o, Claim(w, o) PROVE Sane(job')
    <3>1. \A s \in worker[w].seen : s[2] < MaxAttempts
      BY DEF Sound, Formed
    <3>. QED BY <2>3, <3>1, TablesTyped, ClaimedSane DEF Claim
  <2>4. ASSUME NEW o, Complete(w, o) \/ FailJob(w, o) PROVE Sane(job')
    <3>1. worker[w].job \in Job
      BY <2>4 DEF Complete, FailJob, At, Handling, Sound, Formed
    <3>. QED BY <2>4, <3>1, TablesTyped, CompletedSane, FailedSane DEF Complete, FailJob
  <2>5. ASSUME NEW o, OnGiveUp(w, o) \/ Restart(w) PROVE job' = job
    BY <2>5 DEF OnGiveUp, Restart
  <2>. QED BY <1>3, <2>1, <2>2, <2>3, <2>4, <2>5 DEF WorkerStep, Handler
<1>4. ASSUME NEW w \in Worker, Crash(w) \/ Heartbeat(w) PROVE job' = job \/ Sane(job')
  <2>1. Busy(w) => worker[w].job \in Job
    BY DEF Busy, Sound, Formed
  <2>. QED BY <1>4, <2>1, TablesTyped, ExtendedSane DEF Crash, Heartbeat
<1>5. ASSUME NEW i \in Job, LeaseRunsOut(i) \/ RetryIsDue(i) PROVE Sane(job')
  BY <1>5, TablesTyped, TimeSane DEF LeaseRunsOut, RetryIsDue
<1>6. ASSUME NEW p \in Operator, CommandStep(p) PROVE Exists(j)'
  <2>1. ASSUME NEW i \in Job, RetryJob(p, i) PROVE Exists(j)'
    BY <1>2, <2>1, TablesTyped, RetriedSane DEF RetryJob
  <2>2. CASE EnqueueAgain(p)
    BY <2>2, NewJobTyped DEF EnqueueAgain, Enqueued, Exists
  <2>. QED BY <1>1, <1>6, <2>1, <2>2 DEF CommandStep, Reprocess, ResetForReprocess, MarkStopped, Delete,
                                        DeleteRow,
                                         Abandon
<1>7. CASE UNCHANGED vars
  BY <1>1, <1>7 DEF vars
<1>. QED BY <1>1, <1>2, <1>3, <1>4, <1>5, <1>6, <1>7 DEF Next

\* What is plain was plain all along, and in plain times only models fail.
LEMMA PlainBefore == Sound /\ [Next]_vars /\ Plain' => Plain
<1>. SUFFICES ASSUME Sound, [Next]_vars, Plain' PROVE Plain
  OBVIOUS
<1>1. status' # "deleted" /\ status # "deleted"
  BY DeletedStays DEF Plain
<1>2. \A j \in Job : Exists(j) => Exists(j)'
  BY <1>1, RowsStay
<1>. QED BY <1>1, <1>2, NothingForgotten DEF Plain

LEMMA PlainCalls ==
  ASSUME Plain'
  PROVE  /\ NoStall'
         /\ \A c, o : Call(c, o) /\ c \in {"db", "heartbeat", "command"} => o = "ok"
<1>1. \A m \in Models : m[1] \in {"whisper", "llm"}
  BY DEF Models
<1>2. \A m \in faults' : m[1] \in {"whisper", "llm"}
  BY <1>1 DEF Plain
<1>3. NoStall'
  BY <1>2 DEF NoStall, Without, DbLost, Stall
<1>4. ASSUME NEW c \in {"db", "heartbeat", "command"}, NEW o, Call(c, o), o # "ok" PROVE FALSE
  <2>1. <<c, o>> \in faults'
    BY <1>4 DEF Call
  <2>. QED BY <1>2, <2>1
<1>. QED BY <1>3, <1>4

\* A step that leaves the row, the commands and the states of the jobs alone, and makes nobody busy.
LEMMA TellingKept ==
  ASSUME Sound, Telling, UNCHANGED <<status, command>>,
         \A j \in Job : job'[j].state = job[j].state,
         \A w \in Worker : Busy(w)' \/ At(w, "giveup") => worker'[w] = worker[w]
  PROVE  Telling'
<1>1. \A j \in Job : /\ Exists(j)' <=> Exists(j)
                     /\ Active(j)' <=> Active(j)
                     /\ Newest(j)' <=> Newest(j)
  BY DEF Exists, Active, Newest
<1>2. \A w \in Worker : /\ Busy(w)' => Busy(w)
                        /\ At(w, "complete")' => At(w, "complete")
                        /\ At(w, "giveup")' <=> At(w, "giveup")
                        /\ At(w, "giveup") => worker'[w] = worker[w] /\ worker[w].job \in Job
  BY DEF At, Busy, Handling, Sound, Formed
<1>3. \A p \in Operator : (Retrying(p)' <=> Retrying(p)) /\ (Requeueing' <=> Requeueing)
  BY DEF Retrying, Requeueing
<1>4. OneBusy' /\ ActiveIsNewest' /\ RetriesQueued' /\ CompletesProcessed'
  BY <1>1, <1>2, <1>3 DEF Telling, OneBusy, ActiveIsNewest, RetriesQueued, CompletesProcessed
<1>5. GivesUpNewest'
  BY <1>1, <1>2, <1>3 DEF Telling, GivesUpNewest
<1>6. NewestTold'
  BY <1>1, <1>2 DEF Telling, NewestTold, Requeueing
<1>. QED BY <1>4, <1>5, <1>6 DEF Telling

\* A worker that is busy, and not giving up, is busy with the newest job, and it runs.
LEMMA BusyWithNewest ==
  ASSUME Sound, Telling, AllLeased, status # "deleted", NEW w \in Worker, Holds(w)
  PROVE  /\ worker[w].job \in Job /\ job[worker[w].job].state = "running" /\ Newest(worker[w].job)
         /\ \A j \in Job : Newest(j) => j = worker[w].job
         /\ \A p \in Operator : ~Retrying(p)
         /\ \A v \in Worker : v # w => ~Busy(v)
<1>1. worker[w].job \in Job /\ job[worker[w].job].state = "running"
  BY DEF Holds, Busy, Sound, Formed, AllLeased, Leased
<1>2. Newest(worker[w].job)
  BY <1>1 DEF Telling, ActiveIsNewest, Active
<1>3. \A i, j \in Job : Newest(i) /\ Newest(j) => i = j
  BY DEF Newest, Job
<1>4. \A p \in Operator : ~Retrying(p)
  BY <1>1, <1>2, <1>3 DEF Telling, RetriesQueued, ActiveIsNewest, Active
<1>. QED BY <1>1, <1>2, <1>3, <1>4 DEF Telling, OneBusy, Holds

\* The handler, and the end of a job.
LEMMA TellingByHandler ==
  ASSUME Sound, Telling, AllLeased, status # "deleted", status' # "deleted", NEW w \in Worker, NEW o, Handler(w, o)
  PROVE  Telling'
<1>1. PICK k : Goto(w, k) /\ k.job = worker[w].job /\ k.pc \in Handling \ {"giveup", "load"}
               /\ (k.pc = "complete" => status' = "processed")
  BY HandlerQuiet DEF Quiet
<1>2. Quiet(w) /\ Holds(w)
  BY HandlerQuiet DEF Quiet, Holds, Busy, At, Working
<1>3. worker'[w] = k /\ \A v \in Worker : v # w => worker'[v] = worker[v] /\ ~Busy(v)'
  BY <1>1, <1>2, TablesTyped, BusyWithNewest DEF Goto, Busy
<1>4. \A j \in Job : /\ Exists(j)' <=> Exists(j)
                     /\ Active(j)' <=> Active(j)
                     /\ Newest(j)' <=> Newest(j)
  BY <1>2 DEF Quiet, Exists, Active, Newest
<1>5. OneBusy' /\ ActiveIsNewest' /\ RetriesQueued'
  BY <1>2, <1>3, <1>4 DEF Telling, OneBusy, ActiveIsNewest, RetriesQueued, Retrying, Quiet, people
<1>6. GivesUpNewest' /\ CompletesProcessed'
  BY <1>1, <1>3 DEF GivesUpNewest, CompletesProcessed, At, Busy, Handling
<1>7. NewestTold'
  BY <1>2, <1>4, BusyWithNewest DEF NewestTold, Quiet
<1>. QED BY <1>5, <1>6, <1>7 DEF Telling

\* A claim that finds a job: then nobody else is busy.
LEMMA TellingByClaim ==
  ASSUME Sound, Telling, AllLeased, Plain, Plain', NEW w \in Worker, NEW o, Claim(w, o)
  PROVE  Telling'
<1>1. o = "ok" /\ UNCHANGED <<status, command>> /\ ~Busy(w) /\ ~At(w, "giveup")
  BY PlainCalls DEF Claim, records, people, Busy, At, Handling
<1>2. CASE {j \in Job : Claimable(j, worker[w].seen)} = {}
  <2>1. UNCHANGED job /\ Goto(w, Idle)
    BY <1>1, <1>2 DEF Claim, OrExit
  <2>2. \A v \in Worker : Busy(v)' \/ At(v, "giveup") => worker'[v] = worker[v]
    BY <1>1, <2>1, TablesTyped DEF Goto, Busy, At, Handling, Idle, Off
  <2>. QED BY <1>1, <2>1, <2>2, TellingKept
<1>3. CASE {j \in Job : Claimable(j, worker[w].seen)} # {}
  <2>1. PICK j \in Job : /\ Claimable(j, worker[w].seen) /\ job' = Claimed(j)
                         /\ Goto(w, [Idle EXCEPT !.pc = "load", !.job = j])
    BY <1>1, <1>3 DEF Claim, Landed, OrExit
  <2>2. /\ job'[j].state = "running" /\ ~job'[j].expired
        /\ \A i \in Job : i # j => job'[i] = job[i]
    BY <2>1, TablesTyped DEF Claimed, TableFit
  <2>3. Active(j) /\ ~(job[j].state = "running" /\ ~job[j].expired) /\ Newest(j)
    BY <2>1 DEF Claimable, LeaseOver, Active, Telling, ActiveIsNewest
  <2>4. \A p \in Operator : ~Retrying(p)
    <3>1. job' # job
      BY <2>2, <2>3
    <3>. QED BY <3>1 DEF Claim, Plain, Retrying
  <2>5. \A v \in Worker : ~Busy(v)
    <3>. SUFFICES ASSUME NEW v \in Worker, Busy(v) PROVE FALSE
      OBVIOUS
    <3>1. \A i \in Job : Newest(i) => i = j
      BY <2>3 DEF Newest, Job
    <3>2. CASE Holds(v)
      <4>1. worker[v].job = j
        BY <3>1, <3>2, BusyWithNewest DEF Plain
      <4>. QED BY <2>3, <3>2, <4>1 DEF AllLeased, Leased, Plain
    <3>3. CASE At(v, "giveup")
      <4>1. worker[v].job = j /\ job[j].state = "failed"
        <5>1. worker[v].job \in Job
          BY <3>3 DEF At, Handling, Sound, Formed
        <5>. QED BY <2>4, <3>1, <3>3, <5>1 DEF Telling, GivesUpNewest
      <4>. QED BY <2>3, <4>1 DEF Active
    <3>. QED BY <3>2, <3>3 DEF Holds
  <2>6. worker'[w].pc = "load" /\ \A v \in Worker : v # w => ~Busy(v)'
    <3>1. worker'[w].pc = "load"
      BY <2>1, TablesTyped DEF Goto, Idle, Off
    <3>. QED BY <2>1, <2>5, <3>1, TablesTyped DEF Goto, Busy
  <2>7. \A i \in Job : /\ Exists(i)' <=> Exists(i)
                       /\ Active(i)' <=> Active(i)
                       /\ Newest(i)' <=> Newest(i)
    BY <2>2, <2>3 DEF Exists, Active, Newest
  <2>8. OneBusy' /\ GivesUpNewest' /\ CompletesProcessed'
    BY <2>6 DEF OneBusy, GivesUpNewest, CompletesProcessed, At, Busy, Handling
  <2>9. ActiveIsNewest' /\ RetriesQueued'
    BY <1>1, <2>4, <2>7 DEF Telling, ActiveIsNewest, RetriesQueued, Retrying
  <2>10. NewestTold'
    <3>1. \A i \in Job : Newest(i) => i = j
      BY <2>3 DEF Newest, Job
    <3>. QED BY <2>2, <2>7, <3>1 DEF NewestTold
  <2>. QED BY <2>8, <2>9, <2>10 DEF Telling
<1>. QED BY <1>2, <1>3

\* The end of a job, well or badly.
LEMMA TellingByEnd ==
  ASSUME Sound, Telling, AllLeased, Plain, Plain', NEW w \in Worker, NEW o, Complete(w, o) \/ FailJob(w, o)
  PROVE  Telling'
<1>. DEFINE j == worker[w].job
<1>1. o = "ok" /\ UNCHANGED <<status, command>> /\ Holds(w) /\ status # "deleted"
  BY PlainCalls DEF Complete, FailJob, records, people, Holds, Busy, At, Handling, Plain
<1>2. /\ j \in Job /\ job[j].state = "running" /\ Newest(j) /\ \A i \in Job : Newest(i) => i = j
      /\ \A p \in Operator : ~Retrying(p)
      /\ \A v \in Worker : v # w => ~Busy(v)
  BY <1>1, BusyWithNewest
<1>3. /\ \A i \in Job : i # j => job'[i] = job[i]
      /\ \/ job'[j].state = "done" /\ Goto(w, Idle) /\ status = "processed"
         \/ job'[j].state = "queued" /\ Goto(w, Idle)
         \/ job'[j].state = "failed" /\ Goto(w, [worker[w] EXCEPT !.pc = "giveup"])
  <2>. HIDE DEF j
  <2>1. CASE Complete(w, o)
    <3>1. job' = Completed(j) /\ Goto(w, Idle) /\ status = "processed"
      BY <1>1, <2>1 DEF Complete, OrError, Landed, Telling, CompletesProcessed, j
    <3>. QED BY <1>2, <3>1, TablesTyped DEF Completed, Exists, TableFit
  <2>2. CASE FailJob(w, o)
    <3>1. job' = Failed(j) /\ Goto(w, IF job'[j].state = "failed" THEN [worker[w] EXCEPT !.pc = "giveup"] ELSE Idle)
      BY <1>1, <1>2, <2>2 DEF FailJob, OrExit, Landed, Exists, j
    <3>2. /\ \A i \in Job : i # j => job'[i] = job[i]
          /\ job'[j].state \in {"none", "failed", "queued"} /\ SameRows(job')
      BY <1>2, <3>1, FailedSane, TablesTyped DEF Sane
    <3>. QED BY <1>2, <3>1, <3>2 DEF SameRows
  <2>. QED BY <2>1, <2>2
<1>4. \A v \in Worker : v # w => ~Busy(v)'
  <2>1. \E k : Goto(w, k)
    BY <1>3
  <2>. QED BY <1>2, <2>1, TablesTyped DEF Goto, Busy
<1>5. /\ worker'[w].pc \in {"idle", "giveup"}
      /\ worker'[w].pc = "giveup" => worker'[w].job = j /\ job'[j].state = "failed"
      /\ job'[j].state = "failed" => worker'[w].pc = "giveup"
  BY <1>3, TablesTyped DEF Goto, Idle, Off, Tasks
<1>6. \A i \in Job : /\ Exists(i)' <=> Exists(i)
                     /\ Active(i)' => Active(i)
                     /\ Newest(i)' <=> Newest(i)
  BY <1>2, <1>3 DEF Exists, Active, Newest
<1>. HIDE DEF j
<1>7. OneBusy' /\ CompletesProcessed'
  BY <1>4, <1>5 DEF OneBusy, CompletesProcessed, At, Busy, Handling
<1>8. ActiveIsNewest' /\ RetriesQueued'
  BY <1>1, <1>2, <1>6 DEF Telling, ActiveIsNewest, RetriesQueued, Retrying
<1>9. GivesUpNewest'
  BY <1>2, <1>4, <1>5, <1>6 DEF GivesUpNewest, At, Busy, Handling
<1>10. NewestTold'
  BY <1>1, <1>2, <1>3, <1>5, <1>6 DEF NewestTold, At
<1>. QED BY <1>7, <1>8, <1>9, <1>10 DEF Telling

LEMMA TellingByGiveUp ==
  ASSUME Sound, Telling, Plain, Plain', NEW w \in Worker, NEW o, OnGiveUp(w, o)
  PROVE  Telling'
<1>1. status' = "failed" /\ UNCHANGED <<job, command>> /\ Goto(w, Idle) /\ At(w, "giveup") /\ Busy(w)
  <2>1. o = "ok"
    BY PlainCalls DEF OnGiveUp
  <2>. QED BY <2>1 DEF OnGiveUp, MarkFailed, SetStatus, Landed, Plain, people, At, Busy, Handling
<1>2. \A v \in Worker : ~Busy(v)'
  BY <1>1, TablesTyped DEF Telling, OneBusy, Goto, Busy, Idle, Off, Handling
<1>3. \A j \in Job : /\ Exists(j)' <=> Exists(j)
                     /\ Active(j)' <=> Active(j)
                     /\ Newest(j)' <=> Newest(j)
  BY <1>1 DEF Exists, Active, Newest
<1>4. OneBusy' /\ CompletesProcessed' /\ GivesUpNewest'
  BY <1>2 DEF OneBusy, CompletesProcessed, GivesUpNewest, At, Busy, Handling
<1>5. ActiveIsNewest' /\ RetriesQueued'
  BY <1>1, <1>3 DEF Telling, ActiveIsNewest, RetriesQueued, Retrying
<1>6. NewestTold'
  <2>1. worker[w].job \in Job
    BY <1>1 DEF Busy, Sound, Formed
  <2>2. Newest(worker[w].job) /\ job[worker[w].job].state \in {"failed", "queued"}
    BY <1>1 DEF Telling, GivesUpNewest
  <2>3. \A j \in Job : Newest(j) => j = worker[w].job
    BY <2>1, <2>2 DEF Newest, Job
  <2>. QED BY <1>1, <1>3, <2>2, <2>3 DEF NewestTold
<1>. QED BY <1>4, <1>5, <1>6 DEF Telling

LEMMA TellingByWorker ==
  ASSUME Sound, Telling, AllLeased, Plain, Plain', NEW w \in Worker, WorkerStep(w) \/ Crash(w)
  PROVE  Telling'
<1>1. ASSUME UNCHANGED <<job, status, command>>, ~At(w, "giveup"),
             NEW k, Goto(w, k), k.pc \notin Handling
      PROVE  Telling'
  <2>1. \A v \in Worker : Busy(v)' \/ At(v, "giveup") => worker'[v] = worker[v]
    BY <1>1, TablesTyped DEF Goto, Busy, At
  <2>. QED BY <1>1, <2>1, TellingKept
<1>2. ASSUME NEW o, GiveUpDead(w, o) PROVE Telling'
  <2>. DEFINE k == [Idle EXCEPT !.pc = "claim", !.seen = {<<j, job[j].attempts>> : j \in LeftOver}]
  <2>1. k.pc = "claim" /\ Off.pc = "off"
    BY DEF Idle, Off
  <2>2. OrExit(w, o, k) /\ UNCHANGED <<job, status, command>> /\ ~At(w, "giveup")
    BY <1>2 DEF GiveUpDead, Plain, records, people, At
  <2>. HIDE DEF k
  <2>. QED BY <1>1, <2>1, <2>2 DEF OrExit, Handling
<1>3. CASE Restart(w)
  <2>1. Goto(w, Idle) /\ Idle.pc = "idle" /\ UNCHANGED <<job, status, command>> /\ ~At(w, "giveup")
    BY <1>3 DEF Restart, Idle, Off, records, people, At
  <2>. QED BY <1>1, <2>1 DEF Handling
<1>4. CASE Crash(w)
  <2>1. Goto(w, Off) /\ Off.pc = "off" /\ UNCHANGED <<job, status, command>> /\ ~At(w, "giveup")
    BY <1>4 DEF Crash, Off, records, people, Plain
  <2>. QED BY <1>1, <2>1 DEF Handling
<1>5. ASSUME NEW o, Handler(w, o) PROVE Telling'
  BY <1>5, TellingByHandler DEF Plain
<1>. QED BY <1>2, <1>3, <1>4, <1>5, TellingByClaim, TellingByEnd, TellingByGiveUp DEF WorkerStep, Handler

LEMMA TellingByTime ==
  ASSUME Sound, Telling,
         \/ \E w \in Worker : Heartbeat(w)
         \/ \E j \in Job : LeaseRunsOut(j) \/ RetryIsDue(j)
         \/ UNCHANGED vars
  PROVE  Telling'
<1>1. UNCHANGED <<worker, status, command>>
  BY DEF Heartbeat, LeaseRunsOut, RetryIsDue, vars, records, people
<1>2. \A j \in Job : job'[j].state = job[j].state
  <2>1. ASSUME NEW w \in Worker, Heartbeat(w) PROVE \A j \in Job : job'[j].state = job[j].state
    BY <2>1, TablesTyped DEF Heartbeat, Extended, TableFit, Jobs
  <2>2. ASSUME NEW i \in Job, LeaseRunsOut(i) \/ RetryIsDue(i) PROVE \A j \in Job : job'[j].state = job[j].state
    BY <2>2, TablesTyped DEF LeaseRunsOut, RetryIsDue, TableFit, Jobs
  <2>. QED BY <2>1, <2>2 DEF vars
<1>. QED BY <1>1, <1>2, TellingKept

\* As long as a place is left, enqueue finds the first one.
LEMMA PlaceFound ==
  ASSUME TableFit(job), \A j \in Job : ~Active(j), \E j \in Job : ~Exists(j)
  PROVE  \E k \in Job : Enqueue = {k} /\ \A j \in Job : Exists(j) => j < k
<1>. DEFINE Free == {j \in Job : ~Exists(j)}
<1>1. PICK k \in Free : \A j \in Free : ~(<<j, k>> \in OpToRel(<, Nat))
  <2>1. Free \subseteq Nat /\ Free # {}
    BY QueueAssumption DEF Job
  <2>. QED BY <2>1, NatLessThanWellFounded, WFMin
<1>2. k \in Job /\ ~Exists(k) /\ \A j \in Job : ~Exists(j) => k <= j
  <2>1. OpToRel(<, Nat) = {ss \in Nat \X Nat : ss[1] < ss[2]}
    BY DEF OpToRel
  <2>2. \A j \in Job : ~Exists(j) => ~(<<j, k>> \in {ss \in Nat \X Nat : ss[1] < ss[2]})
    BY <1>1, <2>1
  <2>3. \A i, j \in Job : i < j => <<i, j>> \in {ss \in Nat \X Nat : ss[1] < ss[2]}
    BY QueueAssumption DEF Job
  <2>4. \A i, j \in Job : i < j \/ j <= i
    BY QueueAssumption DEF Job
  <2>5. k \in Job /\ ~Exists(k)
    OBVIOUS
  <2>. HIDE DEF Free
  <2>6. \A j \in Job : ~Exists(j) => ~(j < k)
    BY <2>2, <2>3, <2>5
  <2>. QED BY <2>4, <2>5, <2>6
<1>. HIDE DEF Free
<1>3. \A i \in 1..k - 1 : Exists(i)
  BY <1>2, QueueAssumption DEF Job
<1>4. k \in Enqueue
  BY <1>2, <1>3 DEF Enqueue
<1>5. \A j \in Job : Exists(j) => j < k
  <2>1. \A j \in Job : Exists(j) => ~(k < j) /\ j # k
    BY <1>2 DEF TableFit, Exists
  <2>. QED BY <1>2, <2>1, QueueAssumption DEF Job
<1>6. \A j \in Enqueue : j = k
  BY <1>2, <1>4, QueueAssumption DEF Enqueue, Job
<1>. QED BY <1>2, <1>4, <1>5, <1>6

\* Enqueuing makes the newest job the only active one, unless one is active.
LEMMA EnqueuedIsNewest ==
  ASSUME Sound, ActiveIsNewest, job' = Enqueued, \E j \in Job : Active(j) \/ ~Exists(j)
  PROVE  /\ \A j \in Job : job[j].state = "queued" => job'[j].state = "queued"
         /\ \A j \in Job : Newest(j)' => Active(j)'
         /\ ActiveIsNewest'
<1>1. CASE \E j \in Job : Active(j)
  <2>1. Enqueue = {}
    BY <1>1 DEF Enqueue
  <2>2. \A j \in Job : job'[j] = job[j]
    BY <2>1 DEF Enqueued
  <2>3. \A j \in Job : (Active(j)' <=> Active(j)) /\ (Newest(j)' <=> Newest(j))
    BY <2>2 DEF Active, Newest, Exists
  <2>4. \A i, j \in Job : Newest(i) /\ Newest(j) => i = j
    BY DEF Newest, Job
  <2>. QED BY <1>1, <2>2, <2>3, <2>4 DEF ActiveIsNewest
<1>2. CASE \A j \in Job : ~Active(j)
  <2>1. PICK k \in Job : Enqueue = {k} /\ \A j \in Job : Exists(j) => j < k
    BY <1>2, PlaceFound, TablesTyped
  <2>2. job'[k].state = "queued" /\ \A j \in Job : j # k => job'[j] = job[j]
    BY <2>1, NewJobTyped DEF Enqueued
  <2>3. Active(k)' /\ Exists(k)' /\ \A j \in Job : j # k => ~Active(j)' /\ (Exists(j)' <=> Exists(j))
    BY <1>2, <2>2 DEF Active, Exists
  <2>4. Newest(k)' /\ \A j \in Job : Newest(j)' => j = k
    <3>1. \A j \in Job : Exists(j)' => j <= k
      BY <2>1, <2>3 DEF Job
    <3>. QED BY <2>3, <3>1 DEF Newest, Job
  <2>. QED BY <1>2, <2>3, <2>4 DEF ActiveIsNewest, Active
<1>. QED BY <1>1, <1>2

LEMMA TellingByCommand ==
  ASSUME Sound, CommandsFit, Telling, AllLeased, Plain, Plain', NEW p \in Operator, CommandStep(p)
  PROVE  Telling'
<1>. USE DEF Telling
<1>1. /\ UNCHANGED worker /\ command[p] \in Commands /\ NoCommand.pc = "-" /\ status # "deleted"
      /\ \A v \in Worker : (At(v, "giveup") => Busy(v)) /\ (At(v, "complete") => Busy(v))
  <2>1. UNCHANGED worker
    BY DEF CommandStep, RetryJob, Reprocess, ResetForReprocess, MarkStopped, EnqueueAgain, Delete,
           DeleteRow, Abandon
  <2>. QED BY <2>1, TablesTyped DEF NoCommand, Plain, At, Busy, Handling
<1>2. \A c : Proceed(p, c) => command'[p] = c /\ \A q \in Operator : q # p => command'[q] = command[q]
  BY TablesTyped DEF Proceed
<1>3. CASE \E j \in Job : RetryJob(p, j)
  <2>1. PICK j \in Job : RetryJob(p, j)
    BY <1>3
  <2>2. /\ job[j].state = "failed" /\ job' = Retried(j) /\ "retried" \in history' /\ UNCHANGED status
        /\ command[p] = NoCommand /\ Proceed(p, [op |-> "retry", pc |-> "stopped", full |-> FALSE])
    BY <2>1 DEF RetryJob, Retryable, Begins, records
  <2>3. job'[j].state = "queued" /\ \A i \in Job : i # j => job'[i] = job[i]
    BY <2>2, NewJobTyped, TablesTyped DEF Retried, TableFit
  <2>4. \A i \in Job : Exists(i)' => i = j
    BY <2>2, <2>3 DEF Plain, Exists
  <2>5. Newest(j)' /\ \A i \in Job : Active(i)' \/ Newest(i)' => i = j
    BY <2>3, <2>4 DEF Newest, Active, Exists, Job
  <2>6. Retrying(p)'
    BY <1>2, <2>2 DEF Retrying
  <2>7. OneBusy' /\ ActiveIsNewest' /\ RetriesQueued' /\ CompletesProcessed' /\ NewestTold'
    BY <1>1, <2>2, <2>3, <2>5 DEF OneBusy, Busy, ActiveIsNewest, RetriesQueued, CompletesProcessed, At,
                                  NewestTold
  <2>8. \A w \in Worker : At(w, "giveup") => worker[w].job = j
    <3>1. \A w \in Worker : At(w, "giveup") => worker[w].job \in Job /\ Exists(worker[w].job)
      BY DEF At, Handling, Sound, Formed, GivesUpNewest, Newest
    <3>2. \A i \in Job : Exists(i) => Exists(i)'
      BY <2>3 DEF Exists
    <3>. QED BY <2>4, <3>1, <3>2
  <2>9. GivesUpNewest'
    BY <1>1, <2>3, <2>5, <2>6, <2>8 DEF GivesUpNewest, At
  <2>. QED BY <2>7, <2>9
<1>4. ASSUME UNCHANGED <<job, status>>, NEW c, Proceed(p, c),
             ~(command[p].op = "retry" /\ command[p].pc = "stopped"), command[p].pc # "enqueue",
             ~(c.op = "retry" /\ c.pc = "stopped")
      PROVE  Telling'
  <2>1. \A q \in Operator : Retrying(q)' <=> Retrying(q)
    BY <1>2, <1>4 DEF Retrying
  <2>2. Requeueing => Requeueing'
    BY <1>2, <1>4 DEF Requeueing
  <2>3. \A j \in Job : /\ Exists(j)' <=> Exists(j)
                       /\ Active(j)' <=> Active(j)
                       /\ Newest(j)' <=> Newest(j)
    BY <1>4 DEF Exists, Active, Newest
  <2>4. OneBusy' /\ ActiveIsNewest' /\ RetriesQueued' /\ CompletesProcessed'
    BY <1>1, <1>4, <2>1, <2>3 DEF OneBusy, Busy, ActiveIsNewest, RetriesQueued, CompletesProcessed, At
  <2>5. GivesUpNewest'
    <3>1. \A w \in Worker : At(w, "giveup") => worker[w].job \in Job
      BY DEF At, Handling, Sound, Formed
    <3>. QED BY <1>1, <1>4, <2>1, <2>3, <3>1 DEF GivesUpNewest, At
  <2>6. NewestTold'
    BY <1>1, <1>4, <2>2, <2>3 DEF NewestTold, At
  <2>. QED BY <2>4, <2>5, <2>6
<1>5. CASE (\E full \in BOOLEAN : Reprocess(p, full)) \/ Delete(p)
  <2>1. /\ UNCHANGED <<job, status>> /\ command[p] = NoCommand
        /\ \/ \E full \in BOOLEAN : Proceed(p, [op |-> "reprocess", pc |-> "reset", full |-> full])
           \/ Proceed(p, [op |-> "delete", pc |-> "delete", full |-> FALSE])
    BY <1>5 DEF Reprocess, Delete, Begins, records
  <2>. QED BY <1>1, <1>4, <2>1
<1>6. CASE ResetForReprocess(p)
  <2>1. /\ UNCHANGED <<job, status>> /\ command[p].pc = "reset" /\ command[p].op # "retry"
        /\ Proceed(p, [command[p] EXCEPT !.pc = "stopped"])
    BY <1>6 DEF ResetForReprocess, Does, CommandsFit
  <2>2. [command[p] EXCEPT !.pc = "stopped"].op # "retry"
    BY <1>1, <2>1 DEF Commands
  <2>. QED BY <1>4, <2>1, <2>2
<1>7. CASE MarkStopped(p)
  <2>. DEFINE c == IF command[p].op = "retry" THEN NoCommand ELSE [command[p] EXCEPT !.pc = "enqueue"]
  <2>1. /\ UNCHANGED job /\ Proceed(p, c) /\ command[p].pc = "stopped" /\ \A w \in Worker : ~Busy(w)
    BY <1>7 DEF MarkStopped, Does, NoteRace, Plain
  <2>2. c.pc # "stopped" /\ (command[p].op = "retry" \/ c.pc = "enqueue")
    BY <1>1 DEF Commands
  <2>. HIDE DEF c
  <2>3. \A q \in Operator : Retrying(q)' => Retrying(q)
    BY <1>2, <2>1, <2>2 DEF Retrying
  <2>4. \A j \in Job : /\ Exists(j)' <=> Exists(j)
                       /\ Active(j)' <=> Active(j)
                       /\ Newest(j)' <=> Newest(j)
    BY <2>1 DEF Exists, Active, Newest
  <2>5. OneBusy' /\ ActiveIsNewest' /\ RetriesQueued' /\ GivesUpNewest' /\ CompletesProcessed'
    BY <1>1, <2>1, <2>3, <2>4
       DEF OneBusy, Busy, ActiveIsNewest, RetriesQueued, GivesUpNewest, CompletesProcessed, At
  <2>6. NewestTold'
    <3>1. CASE command[p].op = "retry"
      <4>1. \A i, j \in Job : Newest(i) /\ Newest(j) => i = j
        BY DEF Newest, Job
      <4>2. \A j \in Job : Newest(j) => job[j].state = "queued"
        BY <2>1, <3>1, <4>1 DEF RetriesQueued, Retrying, ActiveIsNewest, Active
      <4>. QED BY <2>1, <2>4, <4>2 DEF NewestTold
    <3>2. CASE command[p].op # "retry"
      BY <1>2, <2>1, <2>2, <3>2 DEF NewestTold, Requeueing
    <3>. QED BY <3>1, <3>2
  <2>. QED BY <2>5, <2>6
<1>8. CASE EnqueueAgain(p)
  <2>1. /\ job' = Enqueued /\ UNCHANGED status /\ command[p].pc = "enqueue" /\ Proceed(p, NoCommand)
        /\ \A w \in Worker : ~At(w, "giveup")
        /\ \E j \in Job : Active(j) \/ ~Exists(j)
    BY <1>1, <1>8 DEF EnqueueAgain, Does, Plain, records
  <2>2. /\ \A j \in Job : job[j].state = "queued" => job'[j].state = "queued"
        /\ \A j \in Job : Newest(j)' => Active(j)'
        /\ ActiveIsNewest'
    BY <2>1, EnqueuedIsNewest
  <2>3. \A q \in Operator : Retrying(q)' => Retrying(q)
    BY <1>1, <1>2, <2>1 DEF Retrying
  <2>4. OneBusy' /\ RetriesQueued' /\ GivesUpNewest' /\ CompletesProcessed'
    BY <1>1, <2>1, <2>2, <2>3 DEF OneBusy, Busy, RetriesQueued, GivesUpNewest, CompletesProcessed, At
  <2>5. NewestTold'
    BY <2>2 DEF NewestTold, Active
  <2>. QED BY <2>2, <2>4, <2>5
<1>9. CASE DeleteRow(p)
  BY <1>9 DEF DeleteRow, Plain
<1>10. CASE Abandon(p)
  BY <1>10, PlainCalls DEF Abandon
<1>. QED BY <1>3, <1>5, <1>6, <1>7, <1>8, <1>9, <1>10 DEF CommandStep

LEMMA ToldInductive == Sound /\ CommandsFit /\ Leases /\ Told /\ [Next]_vars => Told'
<1>. SUFFICES ASSUME Sound, CommandsFit, Leases, Told, [Next]_vars, Plain' PROVE Telling'
  BY DEF Told
<1>1. Plain /\ Telling
  BY PlainBefore DEF Told
<1>2. NoStall
  BY PlainCalls, NothingForgotten DEF NoStall, Without
<1>3. AllLeased
  BY <1>2 DEF Leases, AllLeased, Leased
<1>. QED BY <1>1, <1>3, TellingByWorker, TellingByTime, TellingByCommand DEF Next

-----------------------------------------------------------------------------
(* The theorems.                                                           *)

LEMMA Inductive == Spec => []IInv
<1>1. Init => IInv
  <2>. SUFFICES ASSUME Init PROVE IInv
    OBVIOUS
  <2>1. /\ \A w \in Worker : worker[w].pc = "idle"
        /\ \A p \in Operator : command[p].pc = "-" /\ command[p].op = "none"
        /\ \A j \in Job : job[j].state \in {"none", "queued"} /\ (job[j].state = "queued" => j = 1)
    BY NewJobTyped DEF Init, Idle, Off, NoCommand
  <2>2. \A w \in Worker : ~Busy(w) /\ ~Holds(w) /\ ~At(w, "giveup") /\ ~At(w, "complete")
    BY <2>1 DEF Busy, Holds, At, Handling
  <2>3. CommandsFit /\ Leases /\ OneActiveJob /\ OneHolder /\ NotDoneYet
    BY <2>1, <2>2 DEF CommandsFit, Leases, OneActiveJob, OneHolder, NotDoneYet, Active
  <2>4. Progresses
    BY <2>1 DEF Progresses, Progress, Init, NoSummary
  <2>5. Told
    <3>1. \A j \in Job : Exists(j) => j = 1 /\ job[j].state = "queued"
      BY <2>1 DEF Exists
    <3>2. \A j \in Job : Active(j) => Newest(j)
      BY <2>1, <3>1 DEF Active, Newest, Exists, Job
    <3>. QED BY <2>1, <2>2, <3>1, <3>2 DEF Told, Telling, OneBusy, ActiveIsNewest, RetriesQueued, GivesUpNewest,
                                           CompletesProcessed, NewestTold, Retrying, Newest
  <2>. QED BY <2>3, <2>4, <2>5, InitSound DEF IInv
<1>2. IInv /\ [Next]_vars => IInv'
  BY SoundInductive, CommandsFitInductive, LeasesInductive, OneActiveInductive, OneHolderInductive,
     NotDoneInductive, ProgressInductive, ToldInductive DEF IInv
<1>. QED BY <1>1, <1>2, PTL DEF Spec

\* queue.enqueue: a recording is in the queue once.
THEOREM QueuedOnce == Spec => []OneActiveJob
<1>1. IInv => OneActiveJob
  BY DEF IInv
<1>. QED BY <1>1, Inductive, PTL

\* queue.claim and the leases: a recording is processed by one worker at a time.
THEOREM WorkersExclude == Spec => []OneWorkerAtATime
<1>1. IInv => OneWorkerAtATime
  BY DEF IInv, OneHolder, OneWorkerAtATime, Undisturbed, NoStall, Holds, Running, At
<1>. QED BY <1>1, Inductive, PTL

\* processRecording: a track already transcribed is not transcribed twice.
THEOREM TranscribedOnce == Spec => []NotTranscribedTwice
<1>1. IInv => NotTranscribedTwice
  <2>1. Sound => \A w \in Worker : At(w, "save") => worker[w].cur \in worker[w].todo
    BY DEF Sound, Formed, At
  <2>. QED BY <2>1 DEF IInv, NotDoneYet, NotTranscribedTwice, Undisturbed, NoStall, At
<1>. QED BY <1>1, Inductive, PTL

\* processRecording: a private track is never handed to Whisper.
THEOREM PrivateUnheard == Spec => []PrivateIsNotHeard
<1>1. Sound => PrivateIsNotHeard
  BY DEF Sound, Formed, PrivateIsNotHeard, At, Public
<1>2. IInv => Sound
  BY DEF IInv
<1>. QED BY <1>1, <1>2, Inductive, PTL

\* finishProcessing: a processed recording has all its transcripts and both summaries.
THEOREM RecordsAreComplete == Spec => []ProcessedIsComplete
<1>1. IInv => ProcessedIsComplete
  BY DEF IInv, Progresses, ProcessedIsComplete, Without
<1>. QED BY <1>1, Inductive, PTL

\* onGiveUp: once all is quiet the row tells how the newest job ended.
THEOREM RowTellsOutcome == Spec => []StatusTellsOutcome
<1>1. IInv => StatusTellsOutcome
  <2>. SUFFICES ASSUME IInv, Settled, status # "deleted", history \cap {"raced", "untold"} = {}, faults \subseteq Models,
                       NEW j \in Job, Exists(j), \A i \in Job \ {j} : Exists(i) => i < j /\ "retried" \notin history
                PROVE  /\ job[j].state = "done" => status = "processed"
                       /\ job[j].state = "failed" => status = "failed"
    BY DEF StatusTellsOutcome
  <2>1. Plain /\ Newest(j)
    BY DEF Plain, Newest, Job
  <2>2. ~Requeueing /\ \A w \in Worker : ~At(w, "giveup")
    BY DEF Settled, Requeueing, NoCommand, At, Busy, Handling
  <2>. QED BY <2>1, <2>2 DEF IInv, Told, Telling, NewestTold
<1>. QED BY <1>1, Inductive, PTL

\* queue.complete and queue.fail: a finished job stays finished.
THEOREM FinishedStays == Spec => DoneIsFinal
<1>1. IInv /\ [Next]_vars =>
        (Without(DbLost \cup Stall) =>
           \A j \in Job : job[j].state = "done" => job'[j].state \in {"done", "none"})
  <2>. SUFFICES ASSUME IInv, [Next]_vars, NoStall, NEW j \in Job, job[j].state = "done"
                PROVE  job'[j].state \in {"done", "none"}
    BY DEF NoStall
  <2>1. Sound /\ AllLeased /\ ~Active(j)
    BY DEF IInv, Leases, AllLeased, Leased, Active
  <2>. QED BY <2>1, EndedStays
<1>. QED BY <1>1, Inductive, PTL DEF Spec, DoneIsFinal
=============================================================================
