---------------------------- MODULE RecordsWorker ----------------------------
(***************************************************************************)
(* What turns a stopped recording into records: workers that claim its     *)
(* process-recording job and transcribe, merge and summarise               *)
(* (worker.ts, processRecording.ts), and the people who retry a job, have  *)
(* the recording reprocessed or delete it (admin.ts, recordsRoutes.ts).    *)
(* They share the job queue and the records tables and nothing else; a     *)
(* step is one awaited call plus the code up to the next one.              *)
(***************************************************************************)
EXTENDS JobQueue, Sequences, FiniteSets

CONSTANTS
  Track,        \* the track files of the recording
  Private,      \* those marked private
  NoTrack,      \* "no track": a worker that is not busy with one
  Worker,       \* worker processes
  Operator,     \* people giving commands
  MaxCommands,  \* bound: commands given
  MaxFaults,    \* bound: kinds of faults that happen
  Faults        \* the <<call, outcome>> pairs that may happen at all

ASSUME WorkerAssumption ==
  /\ Private \subseteq Track /\ NoTrack \notin Track
  /\ MaxCommands \in Nat /\ MaxFaults \in Nat

Kind == <<"session", "dm-only">>   \* SUMMARIES, in order
Public == Track \ Private

VARIABLES
  status,       \* table recordings: the status of the row, "deleted" when there is none
  transcribed,  \* table recording_tracks: the tracks with transcribed_at set
  summary,      \* table summaries: whether each exists, and the tracks it was written from
  worker,       \* what each worker is doing
  command,      \* what each operator's command is doing
  given,        \* how many commands were given
  faults,       \* the faults that happened so far
  history       \* ghost: what happened that some properties have to except

records == <<status, transcribed, summary>>
people  == <<command, given>>
vars == <<job, records, worker, people, faults, history>>

NoSummary == [written |-> FALSE, from |-> {}]
Off  == [pc |-> "off", job |-> 0, todo |-> {}, cur |-> NoTrack, heard |-> {}, kinds |-> <<>>, seen |-> {}]
Idle == [Off EXCEPT !.pc = "idle"]
NoCommand == [op |-> "none", pc |-> "-", full |-> FALSE]

\* The parts of a job, from its claim to its end.
Handling == {"load", "begin", "tracks", "transcribe", "save", "merge", "look", "summarise", "put",
             "finish", "complete", "error", "giveup"}
Busy(w) == worker[w].pc \in Handling
Running(w) == Busy(w) /\ worker[w].pc \notin {"error", "giveup"}

\* What the tables and the workers hold; attempts never exceed max_attempts (queue.ts:67-75).
TypeOK ==
  /\ QueueTypeOK
  /\ status \in {"stopped", "processing", "processed", "failed", "deleted"}
  /\ transcribed \subseteq Track
  /\ summary \in [1..2 -> [written : BOOLEAN, from : SUBSET Track]]
  /\ worker \in [Worker -> [pc : {"off", "idle", "claim"} \cup Handling, job : Job \cup {0},
                            todo : SUBSET Track, cur : Track \cup {NoTrack}, heard : SUBSET Track,
                            kinds : {<<>>, <<1>>, <<2>>, <<1, 2>>},
                            seen : SUBSET (Job \X (0..MaxAttempts))]]
  /\ command \in [Operator -> [op : {"none", "retry", "reprocess", "delete"},
                               pc : {"-", "reset", "stopped", "enqueue", "delete"}, full : BOOLEAN]]
  /\ given \in 0..MaxCommands
  /\ faults \subseteq Faults
  /\ history \subseteq {"raced", "retried", "untold"}

\* A recording that was stopped, queued or not, or one that a restart gave up.
Init ==
  /\ status \in {"stopped", "failed"}
  /\ job \in [Job -> {NoJob, Queued}]
  /\ \A j \in Job : job[j] = Queued => j = 1 /\ status = "stopped"
  /\ transcribed = {}
  /\ summary = [k \in 1..2 |-> NoSummary]
  /\ worker = [w \in Worker |-> Idle]
  /\ command = [p \in Operator |-> NoCommand]
  /\ given = 0
  /\ faults = {}
  /\ history = {}

-----------------------------------------------------------------------------
(* Awaited calls: answered, rejected without an effect, or with an effect  *)
(* and the answer lost.  Whisper and the language model may fail for good. *)

Outcome == {"ok", "rejected", "lost"}
Landed(o) == o # "rejected"
Models == {<<"whisper", "rejected">>, <<"llm", "rejected">>}

Call(c, o) ==
  \/ o = "ok" /\ UNCHANGED faults
  \/ /\ <<c, o>> \in Faults
     /\ <<c, o>> \in Models \/ <<c, o>> \notin faults
     /\ Cardinality(faults \cup {<<c, o>>}) <= MaxFaults
     /\ faults' = faults \cup {<<c, o>>}

Goto(w, k) == worker' = [worker EXCEPT ![w] = k]
At(w, pc) == worker[w].pc = pc

\* Inside the try of processNext an error leads to queue.fail; outside it, it ends the process.
OrError(w, o, k) == Goto(w, IF o = "ok" THEN k ELSE [worker[w] EXCEPT !.pc = "error"])
OrExit(w, o, k) == Goto(w, IF o = "ok" THEN k ELSE Off)

\* A row that refers to the recording can only be written while the recording exists.
IfExists(o) == IF status = "deleted" THEN "rejected" ELSE o

-----------------------------------------------------------------------------
(* processNext.                                                            *)

\* claim, first statement.
GiveUpDead(w, o) ==
  /\ At(w, "idle") /\ Call("db", o)
  /\ job' = IF Landed(o) THEN GivenUp ELSE job
  /\ history' = IF job' # job THEN history \cup {"untold"} ELSE history
  /\ OrExit(w, o, [Idle EXCEPT !.pc = "claim",
                               !.seen = {<<j, job[j].attempts>> : j \in LeftOver}])
  /\ UNCHANGED <<records, people>>

\* claim, second statement; without a job the worker sleeps for a while.
Claim(w, o) ==
  /\ At(w, "claim") /\ Call("db", o)
  /\ LET due == {j \in Job : Claimable(j, worker[w].seen)} IN
     IF due = {} THEN UNCHANGED job /\ OrExit(w, o, Idle)
     ELSE \E j \in due : /\ \A i \in due : j <= i
                         /\ job' = IF Landed(o) THEN Claimed(j) ELSE job
                         /\ OrExit(w, o, [Idle EXCEPT !.pc = "load", !.job = j])
  /\ history' = IF job' # job /\ \E p \in Operator : command[p].pc = "stopped"
                THEN history \cup {"raced"} ELSE history
  /\ UNCHANGED <<records, people>>

Load(w, o) ==
  /\ At(w, "load") /\ o # "lost" /\ Call("db", o)
  /\ OrError(w, IfExists(o), [worker[w] EXCEPT !.pc = "begin"])
  /\ UNCHANGED <<job, records, people, history>>

SetStatus(o, s) == status' = IF Landed(o) /\ status # "deleted" THEN s ELSE status

BeginProcessing(w, o) ==
  /\ At(w, "begin") /\ Call("db", o)
  /\ SetStatus(o, "processing")
  /\ OrError(w, o, [worker[w] EXCEPT !.pc = "tracks"])
  /\ UNCHANGED <<job, transcribed, summary, people, history>>

\* The tracks to transcribe, as they are when they are listed.
\* Mutants: tracks that were done by an earlier attempt are done again; private ones are not skipped.
PendingAgain == Public
PendingPrivate == Track \ transcribed
Pending == Public \ transcribed

\* Where a worker goes with the tracks `todo' left.
Transcribing(k, todo) ==
  [k EXCEPT !.pc = IF todo = {} THEN "merge" ELSE "transcribe", !.todo = todo, !.cur = NoTrack]

ListTracks(w, o) ==
  /\ At(w, "tracks") /\ o # "lost" /\ Call("db", o)
  /\ OrError(w, o, Transcribing(worker[w], IF status = "deleted" THEN {} ELSE Pending))
  /\ UNCHANGED <<job, records, people, history>>

\* Mutant: a track whose transcription fails is left out.
HeardOrNext(w, t, o) ==
  Goto(w, IF o = "ok" THEN [worker[w] EXCEPT !.pc = "save", !.cur = t]
          ELSE Transcribing(worker[w], worker[w].todo \ {t}))
HeardOrError(w, t, o) == OrError(w, o, [worker[w] EXCEPT !.pc = "save", !.cur = t])

Transcribe(w, t, o) ==
  /\ At(w, "transcribe") /\ t \in worker[w].todo
  /\ o # "lost" /\ Call("whisper", o)
  /\ HeardOrError(w, t, o)
  /\ UNCHANGED <<job, records, people, history>>

\* saveTrackTranscript: one transaction, refused for a private track.
SaveTranscript(w, o) ==
  /\ At(w, "save") /\ Call("db", o)
  /\ LET t == worker[w].cur
         r == IF t \in Private THEN "rejected" ELSE IfExists(o)
     IN /\ transcribed' = IF Landed(r) THEN transcribed \cup {t} ELSE transcribed
        /\ OrError(w, r, Transcribing(worker[w], worker[w].todo \ {t}))
  /\ UNCHANGED <<job, status, summary, people, history>>

Summarising(k, kinds) == [k EXCEPT !.pc = IF kinds = <<>> THEN "finish" ELSE "look", !.kinds = kinds]

\* listTranscripts and mergeTranscripts.
Merge(w, o) ==
  /\ At(w, "merge") /\ o # "lost" /\ Call("db", o)
  /\ OrError(w, o, Summarising([worker[w] EXCEPT !.heard = transcribed \ Private], <<1, 2>>))
  /\ UNCHANGED <<job, records, people, history>>

LookForSummary(w, o) ==
  /\ At(w, "look") /\ o # "lost" /\ Call("db", o)
  /\ LET k == worker[w] IN
     OrError(w, o, IF summary[Head(k.kinds)].written THEN Summarising(k, Tail(k.kinds))
                   ELSE [k EXCEPT !.pc = "summarise"])
  /\ UNCHANGED <<job, records, people, history>>

\* Without speech no model is asked.
Summarise(w, o) ==
  /\ At(w, "summarise") /\ o # "lost" /\ Call("llm", o)
  /\ worker[w].heard = {} => o = "ok"
  /\ OrError(w, o, [worker[w] EXCEPT !.pc = "put"])
  /\ UNCHANGED <<job, records, people, history>>

PutSummary(w, o) ==
  /\ At(w, "put") /\ Call("db", o)
  /\ LET k == worker[w] IN
     /\ summary' = IF Landed(IfExists(o))
                   THEN [summary EXCEPT ![Head(k.kinds)] = [written |-> TRUE, from |-> k.heard]]
                   ELSE summary
     /\ OrError(w, IfExists(o), Summarising(k, Tail(k.kinds)))
  /\ UNCHANGED <<job, status, transcribed, people, history>>

FinishProcessing(w, o) ==
  /\ At(w, "finish") /\ Call("db", o)
  /\ SetStatus(o, "processed")
  /\ OrError(w, o, [worker[w] EXCEPT !.pc = "complete"])
  /\ UNCHANGED <<job, transcribed, summary, people, history>>

Complete(w, o) ==
  /\ At(w, "complete") /\ Call("db", o)
  /\ job' = IF Landed(o) THEN Completed(worker[w].job) ELSE job
  /\ OrError(w, o, Idle)
  /\ UNCHANGED <<records, people, history>>

\* queue.fail; it throws when the job is gone.
FailJob(w, o) ==
  /\ At(w, "error") /\ Call("db", o)
  /\ LET j == worker[w].job IN
     /\ job' = IF Landed(o) THEN Failed(j) ELSE job
     /\ OrExit(w, IF Exists(j) THEN o ELSE "rejected",
               IF job'[j].state = "failed" THEN [worker[w] EXCEPT !.pc = "giveup"] ELSE Idle)
  /\ UNCHANGED <<records, people, history>>

\* onGiveUp; an error is ignored.
\* Mutant: the row is left alone.
GiveUpSilently(o) == UNCHANGED status
MarkFailed(o) == SetStatus(o, "failed")

OnGiveUp(w, o) ==
  /\ At(w, "giveup") /\ Call("db", o)
  /\ MarkFailed(o)
  /\ Goto(w, Idle)
  /\ UNCHANGED <<job, transcribed, summary, people, history>>

-----------------------------------------------------------------------------
(* Time, death and restart.  A death outside `Handling' loses nothing.     *)

Crash(w) ==
  /\ Busy(w)
  /\ Goto(w, Off)
  /\ history' = IF At(w, "giveup") THEN history \cup {"untold"} ELSE history
  /\ UNCHANGED <<job, records, people, faults>>

Restart(w) ==
  /\ At(w, "off")
  /\ Goto(w, Idle)
  /\ UNCHANGED <<job, records, people, faults, history>>

Held(j) == \E w \in Worker : Busy(w) /\ worker[w].job = j

\* A worker's heartbeat keeps the lease, unless the heartbeats do not get through.
LeaseRunsOut(j) ==
  /\ job[j].state = "running" /\ ~job[j].expired
  /\ IF Held(j) THEN Call("heartbeat", "rejected") ELSE UNCHANGED faults
  /\ job' = [job EXCEPT ![j].expired = TRUE]
  /\ UNCHANGED <<records, worker, people, history>>

Heartbeat(w) ==
  /\ Busy(w) /\ LeaseOver(worker[w].job)
  /\ job' = Extended(worker[w].job)
  /\ UNCHANGED <<records, worker, people, faults, history>>

RetryIsDue(j) ==
  /\ job[j].state = "queued" /\ ~job[j].due
  /\ job' = [job EXCEPT ![j].due = TRUE]
  /\ UNCHANGED <<records, worker, people, faults, history>>

-----------------------------------------------------------------------------
(* Commands: `jobs retry', `recording reprocess [--retranscribe]' and the  *)
(* deletion by the DM.                                                     *)

Proceed(p, c) == command' = [command EXCEPT ![p] = c]

Begins(p) == command[p] = NoCommand /\ given < MaxCommands /\ given' = given + 1
Does(p, pc) == command[p].pc = pc /\ UNCHANGED given

\* No command asks whether a worker is busy with the recording, nor keeps one from claiming it.
NoteRace == history' = IF \E w \in Worker : Busy(w) THEN history \cup {"raced"} ELSE history

RetryJob(p, j) ==
  /\ Begins(p) /\ Retryable(j)
  /\ job' = Retried(j)
  /\ history' = history \cup {"retried"}
  /\ Proceed(p, [op |-> "retry", pc |-> "stopped", full |-> FALSE])
  /\ UNCHANGED <<records, worker, faults>>

Reprocess(p, full) ==
  /\ Begins(p) /\ status # "deleted"
  /\ Proceed(p, [op |-> "reprocess", pc |-> "reset", full |-> full])
  /\ UNCHANGED <<job, records, worker, faults, history>>

ResetForReprocess(p) ==
  /\ Does(p, "reset")
  /\ summary' = [k \in 1..2 |-> NoSummary]
  /\ transcribed' = IF command[p].full THEN {} ELSE transcribed
  /\ NoteRace
  /\ Proceed(p, [command[p] EXCEPT !.pc = "stopped"])
  /\ UNCHANGED <<job, status, worker, faults>>

MarkStopped(p) ==
  /\ Does(p, "stopped")
  /\ SetStatus("ok", "stopped")
  /\ NoteRace
  /\ Proceed(p, IF command[p].op = "retry" THEN NoCommand ELSE [command[p] EXCEPT !.pc = "enqueue"])
  /\ UNCHANGED <<job, transcribed, summary, worker, faults>>

EnqueueAgain(p) ==
  /\ Does(p, "enqueue")
  /\ \E j \in Job : Active(j) \/ ~Exists(j)   \* the bound on jobs
  /\ job' = IF status = "deleted" THEN job ELSE Enqueued
  /\ history' = IF \E w \in Worker : At(w, "giveup") THEN history \cup {"raced"} ELSE history
  /\ Proceed(p, NoCommand)
  /\ UNCHANGED <<records, worker, faults>>

Delete(p) ==
  /\ Begins(p) /\ status \notin {"processing", "deleted"}
  /\ Proceed(p, [op |-> "delete", pc |-> "delete", full |-> FALSE])
  /\ UNCHANGED <<job, records, worker, faults, history>>

\* The tracks, transcripts, summaries and jobs go with the row.
DeleteRow(p) ==
  /\ Does(p, "delete")
  /\ status' = "deleted" /\ transcribed' = {} /\ summary' = [k \in 1..2 |-> NoSummary]
  /\ job' = [j \in Job |-> NoJob]
  /\ Proceed(p, NoCommand)
  /\ UNCHANGED <<worker, faults, history>>

\* A command stops half way: its database is away, or its process is killed.
Abandon(p) ==
  /\ command[p] # NoCommand
  /\ Call("command", "rejected")
  /\ Proceed(p, NoCommand)
  /\ UNCHANGED <<job, records, worker, given, history>>

-----------------------------------------------------------------------------

\* One turn of the loop of runWorker, and the supervisor that restarts the process.
WorkerStep(w) ==
  \/ Restart(w)
  \/ \E o \in Outcome : GiveUpDead(w, o) \/ Claim(w, o)
  \/ /\ Busy(w)
     /\ \E o \in Outcome :
          \/ Load(w, o) \/ BeginProcessing(w, o) \/ ListTracks(w, o) \/ SaveTranscript(w, o)
          \/ Merge(w, o) \/ LookForSummary(w, o) \/ Summarise(w, o) \/ PutSummary(w, o)
          \/ FinishProcessing(w, o) \/ Complete(w, o) \/ FailJob(w, o) \/ OnGiveUp(w, o)
          \/ \E t \in Track : Transcribe(w, t, o)

CommandStep(p) ==
  \/ \E j \in Job : RetryJob(p, j)
  \/ \E full \in BOOLEAN : Reprocess(p, full)
  \/ ResetForReprocess(p) \/ MarkStopped(p) \/ EnqueueAgain(p)
  \/ Delete(p) \/ DeleteRow(p) \/ Abandon(p)

Next ==
  \/ \E w \in Worker : WorkerStep(w) \/ Crash(w) \/ Heartbeat(w)
  \/ \E j \in Job : LeaseRunsOut(j) \/ RetryIsDue(j)
  \/ \E p \in Operator : CommandStep(p)

Spec == Init /\ [][Next]_vars

\* Awaited calls end one way or the other, the worker is restarted, and time passes.
Fairness ==
  /\ \A w \in Worker : WF_vars(WorkerStep(w))
  /\ \A j \in Job : WF_vars(~Held(j) /\ LeaseRunsOut(j)) /\ WF_vars(RetryIsDue(j))

FairSpec == Spec /\ Fairness

-----------------------------------------------------------------------------
(* What the pipeline owes its users.                                       *)

Without(F) == faults \cap F = {}
DbLost    == {<<"db", "lost">>}
Stall     == {<<"heartbeat", "rejected">>}

\* Nobody is working on the recording and no command is half way.
Settled == (\A w \in Worker : ~Busy(w)) /\ (\A p \in Operator : command[p] = NoCommand)

\* queue.ts:15-16: a recording is in the queue once, however often it is stopped and reprocessed
\* (only retrying an old job by hand, or an answer that gets lost, can put it there twice).
OneActiveJob ==
  Without(DbLost \cup Stall) /\ "retried" \notin history =>
    \A i, j \in Job : Active(i) /\ Active(j) => i = j

\* A recording is processed by one worker at a time, as long as heartbeats get through: workers
\* overlap neither when they claim at once nor when one takes over from a dead one.
OneWorkerAtATime ==
  Without(DbLost \cup Stall) /\ "retried" \notin history =>
    \A v, w \in Worker : Running(v) /\ Running(w) => v = w

\* processRecording.ts:36: a track already transcribed is not transcribed twice, whatever attempts
\* died or failed in between.
NotTranscribedTwice ==
  Without(DbLost \cup Stall) /\ "retried" \notin history =>
    \A w \in Worker : At(w, "save") => worker[w].cur \notin transcribed

\* A private track is never handed to Whisper.
PrivateIsNotHeard ==
  \A w \in Worker : At(w, "save") => worker[w].cur \notin Private

RecordsComplete == transcribed = Public /\ \A k \in 1..2 : summary[k] = [written |-> TRUE, from |-> Public]

\* A processed recording has a transcript of every track that is not private, and both summaries,
\* written from all of them; unless it was reset while a worker was busy with it.
ProcessedIsComplete ==
  /\ "raced" \notin history /\ Without({<<"command", "rejected">>})
  /\ \A p \in Operator : command[p].pc \notin {"stopped"}
  => (status = "processed" => RecordsComplete)

\* Once all is quiet the row tells how the newest job ended, after failing models, too (an older
\* job is not retried here).
StatusTellsOutcome ==
  Settled /\ status # "deleted" /\ history \cap {"raced", "untold"} = {} /\ faults \subseteq Models =>
    \A j \in Job : (Exists(j) /\ \A i \in Job \ {j} : Exists(i) => i < j /\ "retried" \notin history) =>
      /\ job[j].state = "done" => status = "processed"
      /\ job[j].state = "failed" => status = "failed"

\* A finished job stays finished: no worker that comes late puts it back.
DoneIsFinal ==
  [][Without(DbLost \cup Stall) =>
       \A j \in Job : job[j].state = "done" => job'[j].state \in {"done", "none"}]_vars

\* queue.ts:17-19: a job cannot loop forever, not even one that crashes every worker.
EveryJobEnds == \A j \in Job : Active(j) ~> ~Active(j)

=============================================================================
