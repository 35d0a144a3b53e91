# Verification of the VTT Chat App

TLA+ specifications of the parts of the VTT Chat App in which several things happen at once: the
server that records a session, the queue and workers that turn a recording into records, the chat
that clients must not lose when connections break, who is signed in and who is there, the campaigns
and their members, and the desktop client with its consent cues and its microphone. TLC checks them
on small instances; TLAPS proves the most important theorems for every value of the constants.

Paths are relative to `src/`. Throughout, **one step is one awaited call and the code up to the next
`await`**: Node.js runs everything in between without interruption, and at an `await` any request,
timer, socket or other process may come first.

## 1. The system

A group plays over voice chat. A tray application (Rust, Tauri) holds each player's LiveKit voice
connection and a WebSocket to the backend (Node.js). The DM starts and stops recordings; the backend
has LiveKit Egress write one file per microphone, but only for players who have heard the cue that
says a recording has started. A worker process transcribes the files and has a language model
summarise them.

| Part | State it keeps | Operations | Talks to |
|---|---|---|---|
| Recording state (`backend/src/lib/recording/recordingState.ts`) | per campaign: the recording that is on, and whether it is paused (memory) | start, pause, resume, stop | capture, hub (listeners called synchronously) |
| Acknowledgements (`ackStore.ts`) | recording × player, 30 minutes (memory) | ack, hasAcked | hub writes, capture reads |
| Audio capture (`capture.ts`, `liveKitRecorder.ts`) | per campaign: live recording, its segments, a promise chain (memory) | a task per change, acknowledgement and tick; recovery at boot | LiveKit, records store, job queue |
| Realtime hub (`realtime/hub.ts`, `wsServer.ts`) | connections, subscriptions, presence (memory) | auth, resume, chat, presence, recording.ack, ping; announcements | replay buffer, stores, recording state |
| Replay buffer (`replayBuffer.ts`, `valkeyReplayBuffer.ts`) | per campaign: epoch, counter, last 500 events | append, since, epoch, latestSeq, recent | hub; Valkey if configured |
| Client sync (`tauri-client/rust-sync`) | token, subscriptions, a cursor per campaign | connection loop, resume, frames, backoff | hub |
| Consent loop of the client (`src-tauri/src/recording.rs`, `mic_gate.rs`, `rust-livekit/src/cue/policy.rs`) | recordings known, pending cue, gate of the microphone | recording frames, cue finished, cue policy | sync session, voice |
| Voice (`rust-livekit/src/lib.rs`, `reconnect.rs`) | room, mute state, supervisor | connect, reconnect, mute, leave | LiveKit |
| Job queue (`ai/src/lib/jobs`) | table `jobs` | enqueue, claim, extendLease, complete, fail, retry | PostgreSQL |
| Records worker (`ai/src/lib/records`, `ai/src/cli/worker.ts`) | none beyond its current job | transcribe, merge, summarise | job queue, records tables, Whisper, language model |
| Records API and admin commands (`http/recordsRoutes.ts`, `cli/admin.ts`) | none | delete; `jobs retry`, `recording reprocess` | the same tables |
| Accounts (`auth/accountService.ts`) | users, sessions, magic links | register, redeem, authenticate, revoke | stores |
| Campaigns (`campaigns/campaignService.ts`) | campaigns, memberships, invites, characters | create, join, swap the DM, leave, remove | stores |
| Stores (`store/memoryStore.ts`, `postgresStore.ts`) | tables | reads, whole-row writes, transactions | PostgreSQL |
| Providers (`ai/src/lib/providers`) | a cooldown per provider | fallback to the local model | network |
| Speech windows (`speechWindows.ts`) | none | silences, windows, segments of a track | ffmpeg, Whisper |
| Merging and summarising (`merge.ts`, `chunk.ts`, `summarise.ts`) | none | lines, chunks, rounds of notes | language model |
| Other pure algorithms (`rateLimit.ts`, `backoff.rs`) | little or none | | |

### What is hard

* *The chain of a campaign against everything else.* Each campaign's capture work is strictly
  ordered, but every task is cut at every await by requests of the DM, acknowledgements, microphones
  and egresses.
* *Calls that fail half way.* A call to LiveKit or PostgreSQL may be refused, or take effect and
  lose its answer. Most tasks do not undo anything; the next tick is meant to repair it.
* *Restarts.* The flag, the acknowledgements, the live recording and the chain are in memory;
  egresses and rows are not.
* *Several workers and people on the same tables*, with leases that run out, statements that ask
  neither for the owner nor for the state of a job, and checks separated from acts.
* *A cursor that must mean "everything up to here was seen"* although numbering, listing and
  broadcasting are separate steps, and (with Valkey) separate commands.
* *Reads written back whole* in accounts and campaigns: lost updates that undo a revocation or a
  swap.

`PROJECT.json` lists each hazard at its line, with the properties that would notice.

### What makes each part correct

* Capture: nobody is recorded who has not acknowledged *this* recording; a speaker has one file at a
  time; when a recording is off or paused, nothing is being written, except what an outage has left
  running, and during a pause that is not lost sight of; the row tells the truth; the job is queued
  once everything is in, and nothing is added after that; stops, pauses and late speakers are dealt
  with eventually.
* Queue and workers: one active job per recording, one worker at a time, no work done twice, private
  tracks never heard, `processed` means complete, `failed` and `done` mean what they say, every job
  ends.
* Chat: no cursor passes a message its client has not seen, no `chat.message` brings what its client
  has, a cursor does not go back, whoever stays connected catches up.
* Consent loop: an acknowledgement is of a recording whose cue was heard, everybody is asked, the
  gate opens again, the indicator tells the truth.
* Microphone and connection: the microphone does what mute and gate say, also after the room was
  lost; what the app subscribes to is resumed, and the app knows whether it is connected.
* Presence: the connections that count as online are those that get the broadcasts (with one
  exception in the code); what a client was told is so.
* Accounts: a session that is over stays over, and its connections are closed.
* Campaigns: however requests overlap, memberships change one operation at a time, and a campaign
  has exactly one DM.

## 2. Modules

| Module | What it is |
|---|---|
| `RecordingCapture` | recording state, acknowledgements, capture, LiveKit and restart, for one campaign |
| `RecordingCaptureProofs` | theorems about it: types, consent, files, rows, bookmarks and silence |
| `JobQueue` | the job table: one operator per SQL statement |
| `RecordsWorker` | EXTENDS `JobQueue`: the workers and the commands that share it with the records tables |
| `RecordsWorkerProofs` | theorems about both |
| `ReplaySync` | the replay buffer (in memory or Valkey), the hub's resume and chat handlers, the client's cursor |
| `ReplaySyncSteps`, `ReplaySyncProofs` | the ground for theorems about it: types, steps, queue, connections; and the theorems, which EXTEND it |
| `Roster` | what a campaign promises about its members: every operation is one step |
| `Campaigns` | the requests that change a campaign, over both stores; implements `Roster` |
| `Sessions` | sessions of accounts under the REST routes and under the hub |
| `Presence` | the presence of a campaign and the hub handlers that keep and tell it |
| `ConsentLoop` | recording state, hub and one player's app, from the DM's start to the acknowledgement |
| `SyncClient` | the client's connection loop, with commands, failures and backoff |
| `Microphone` | mute, consent gate and the voice connection they are pushed to |
| `SpeechWindows` | the windows of one track, and its transcription window by window |
| `Summaries` | from transcripts to lines, chunks, notes and a summary |
| `CampaignsProofs`, `SessionsProofs`, `PresenceProofs` | theorems about them |
| `ClientProofs` | theorems about `ConsentLoop`, `SyncClient` and `Microphone`, as `MCClient` runs them |
| `MCRecordingCapture`, `MCRecordsWorker`, `MCReplaySync`, `MCCampaigns`, `MCSessions`, `MCPresence`, `MCTranscripts`, `MCClient` | small instances: who publishes what, who owns what, which calls may fail; `MCClient` takes the three parts of the client into one run, `MCTranscripts` the two functions on transcripts |

The hub is in four of them, each with the handlers that touch its state: `Sessions` decides who is
authenticated, `Presence` who is subscribed and shown, `ReplaySync` what a cursor counts,
`RecordingCapture` and `ConsentLoop` what a recording does to its players. They meet at connections:
`Presence` begins with a connection that `Sessions` has let in, and `ReplaySync` with one that
`Presence` has subscribed.

### RecordingCapture

Campaigns do not share a chain, so one is followed. `flag` and `issued` are `RecordingState`; `acks`
is the acknowledgement store, in which an expired or lost entry becomes `"gone"` so that properties
can tell it was there; `chain` is the work waiting on the promise chain, and `task` the local state
of the task being done: its operation (`op`), the await it is at (`pc`), and the loop variables
(`todo`, `cur`, `file`). `live` is the entry of the map `live`, or, once a stop has taken it out of
the map (`inMap = FALSE`), the object the stopping task still holds. `mic` and `egress` belong to
LiveKit; `recordings`, `events`, `trackRows` and `jobs` are tables.

| Actions | Code |
|---|---|
| `Start`, `Pause`, `Resume`, `Stop` | `RecordingState`, called by the recording route; the listener puts work on the chain in the same step |
| `RecordingAck`, `AckExpires` | `Hub.recordingAck` with `MemoryAckStore`; the 30 minutes |
| `Tick`, `Begin` | the timer; the chain starting its next task, up to its first await |
| `PutRecording`, `AddEvent`, `EnqueueJob` | the awaited writes of `started`, `paused`, `resumed`, `stopped` |
| `NextSegment`, `LeaveRunning`, `Collect`, `ResultRejected`, `PutTrack` | `finishSegments`: ask to stop, ask for the result, give up waiting, register the file |
| `ListAudioTracks`, `CheckAck`, `StartEgress` | `reconcile` |
| `Publish`, `Mute`, `Unmute`, `Unpublish`, `EgressCompletes`, `EgressFails` | LiveKit (external) |
| `Crash`, `Boot`, `MarkInterrupted`, `AddInterrupted`, `Listen` | death, and `recoverInterrupted` before the server listens |

A call ends `"ok"`, `"rejected"` (no effect), or `"lost"` (an effect, and the caller sees an error);
`Call(c, o)` counts anything but `"ok"` in `faults`. A task that throws is over: the chain logs it.
The rejection of a stop is ignored (`capture.ts:257`), an error of the list means "nobody"
(`liveKitRecorder.ts`). Left out: paths, times, offsets, names, the words of log lines, and the five
seconds between two polls of a result. Waiting is one step, which ends when the egress has ended or
when the five minutes are over. An egress whose stop was refused records on, so that the wait for it
always ends by the clock (`LeaveRunning`); that one which was asked to end takes longer than the
wait is a fault, `<<"result", "slow">>` (`WaitedEnough`).

### JobQueue and RecordsWorker

A job is its state, its attempts, whether it is due, and whether its lease is over: all the queue
ever compares with the clock. `claim` is two statements and hence two actions, `GiveUpDead` and
`Claim`; because both compare with the time at which the claim began, the second takes only leases
that were over then (`seen`). A worker's `pc` names the call it is at, from `load` to `complete`; an
error leads to `queue.fail` (`FailJob`), and a job that failed for good to `OnGiveUp`. An error
outside the `try` ends the process (`Off`, then `Restart`). `RetryJob`, `Reprocess` and `Delete` are
commands of people, whose steps interleave with the workers'. A transcript is reduced to its track,
a summary to the set of tracks it was written from.

### ReplaySync

The stream of one campaign, `stream`, is an epoch, a counter and the events kept. A handler (`task`)
is interrupted while it waits for the database. While it waits for the buffer its record has the
`next` of its commands, and it stands in the queue `calls`, whose head `BufferAnswers` serves, one
command per step. If the buffer is Valkey, the commands of all handlers go round in that queue and
anything may happen between two of them; if it is in memory, an `await` is of a resolved promise,
and `MayRun` lets nothing else happen until the queue is empty. `Appending`, `Since`, `Report` and
`Recent` are the commands of each operation, in order (a buffer in memory does the same work within
one call); `Executed` is what a command does to the stream and `Learnt` what the handler learns from
it. An append whose epoch has vanished, and a `since` whose cursor is of another epoch, end early
(`EndsEarly`); otherwise the last answer leads to `Finished`, what the handler does with it. Frames
travel on `wire`; `Heard` is the client's `on_text`: how a snapshot, an answer to `resume` and a
message move its cursor. A subscription outlives its connection, a handler too. `Drop`, `Restart`,
`Flush` and `EventAges` are what goes wrong.

### Campaigns and Roster

A request (`task`) reads row by row and then writes; every statement is a step. A write (`first`,
`second`) carries the value that was read before it (`from`), so that `StaleMember` can tell a lost
update. `View` is what a statement sees: the committed rows and its own transaction's. `WaitsFor`
are the requests that hold a row or a place in the index `one_dm_per_campaign`, `Clashes` is that
index, `BreakDeadlock` what PostgreSQL does to a circle, and `Fail` a refused call or a restart,
either of which undoes the transaction. In memory (`postgres = FALSE`) `MayBegin` lets a request run
alone, since no call of `memoryStore.ts` yields.

| Actions | Code |
|---|---|
| `Begin` | a route of `campaignRoutes.ts` calls `CampaignService` |
| `ReadSettings`, `ReadMember`, `ReadInvite`, `ReadCharacter` | `createCampaign`, `requireMember`, `requireDm`, `joinWithInvite`, `addCharacter`, `setActiveCharacter`, `leaveCampaign`, the invites |
| `ReadActor`, `ReadOther` | `swapDm` in its transaction |
| `Write`, `Commit` | the statements of `postgresStore.ts`, one or two of them, and the commit |

`Roster` has `Create`, `Join`, `Leave`, `Activate`, `Park` and `Swap` as single steps on the same
rows, and gives up its promise with the first lost update. `KeepsPromise` says that every behaviour
of `Campaigns` is one of `Roster`; `rows` and `lost` map to themselves, everything else is hidden.

### Sessions

Every check of a token reads the row of its session and later writes it back whole with the time
(`Checking`, `HasRead`, `Touched`); a REST request, a connection's `auth` frame and the hub's
recheck each do so. `RevokeRead` and `RevokePut` are `DELETE /sessions/:id` and `/logout`, the
`Reset` actions a password reset, which revokes a user's sessions one after the other and tells the
hub nothing; the `Recheck` actions are `recheckSessions`, which works on a copy of the connections.
The write of a revocation and `hub.revokeSession` are one step, as there is no other `await` in
between. Secrets and times are left out: a row is `live`, `revoked`, or `silent` when the limit for
devices that were off has passed.

### Presence

`presence` is `PresenceTracker` for one campaign, `conn` the connections with the frames that wait
and the await that the handler is at, `view` what each client would show if it believed all it was
told. `resume` is cut at each of its awaits (`member`, `since`, `list`, `fill`, `ack`); `Close` may
come at any of them, and `Fail` ends a handler at one. Simplifications: `muted` goes with `inVoice`;
statistics are kept but not in the view, since only DMs are told; connections begin signed in; the
answer of the membership query is free (so a member may be refused); a replayed resume carries no
presence, as in the code; voice lingers when one of a user's two connections closes, as in the code.
The ghost `outlived` has the connections that a resume subscribed after they had closed.

### ConsentLoop, SyncClient, Microphone

`ConsentLoop` is one campaign and one player. The server side is `rec` (`RecordingState`), `acks`
and the hub's `resume`, `recordingSnapshot` and `recordingAck`; frames travel in order (`wire`,
`sent`). The app side is the shell, which takes one event at a time and waits for its cue (`Handle`,
`CueFinished`, `CueFailed`), deciding by `Decide` (`policy.rs`), with the gate and the indicator.
Connections break, the server restarts, acknowledgements expire, cues fail, the player signs in
again or out, or is revoked. The store of acknowledgements is the one in memory, whose look-up does
not yield, so `recordingSnapshot` and its frame are one step.

`SyncClient` is the loop of `client.rs`: provider, connect, open, wait. `subscriptions` is what the
loop remembers, `session` what the `Session` remembers across sockets, `socket` what the server got.
Commands of the app are taken while waiting (`WaitCommand`, which the session does not hear of) and
while open (`OpenCommand`). Every send may fail (`SendFails`). The delay itself is left out.

`Microphone`: four sides compute the effective mute and push it in a second step, in any order, to a
client that keeps it as a flag and applies it to the track it has; the supervisor loses the room and
joins again, publishing a new track to which the flag is applied before the track is active.
`livekit_disconnect` is one step with the abort of the supervisor, the reads that a toggle does are
taken into the choice of the new value, and a second `livekit_connect` without a leave is left out.

### SpeechWindows and Summaries

What `RecordsWorker` takes as single calls. `SpeechWindows` begins with any report that
`silencedetect` can make of a track (`Reports`); `SpeechIn` is `speechWindows` with its steps as
operators (`Invert`, `Long`, `Padded`, `Merge`, `SplitLong`), and `Transcribe` is one turn of the
loop in `transcribeWindows`, with any answer of Whisper. The properties are written on the instants
of the track and the report, and not on what the code computes on its way. `Summaries` begins with
any transcripts; `MergeTranscripts`, `ChunkLines` and `GroupByBudget` are folds with the code's loop
bodies (`Coalesce`, `AddLine`, `Group`), and each call of the model is a step. Texts have a length
and know what they are about; a model may answer at any length or fail.

## 3. What is checked

Bounds are constants whose comment says "bound", and every cfg gives them. They stop a model, not
the system: a run is finite because no more recordings, messages or faults come, so a state without
a successor is the end of the run. Only the run `pipeline` checks for deadlock (a worker always
polls); a quiet campaign or client is no error. Where requests wait for each other, in `Campaigns`,
the database resolves it (`BreakDeadlock`).

### Runs that pass

| Run | Instance | Shows |
|---|---|---|
| `capture` | one player, one track; two recordings, three egresses, two pieces of work waiting, one pause, one crash, one fault of any kind | `Consent`, `OneFileAtATime`, `SilentUnlessRecording`, `RowsAreTrue` (`RowMatchesFlag` and `BookmarksAlternate`), `JobCoversFiles`, `NoFileAfterJob` |
| `capture_live` | one player whose track is published again; one recording, four egresses, one pause; one call that LiveKit refuses (a start, a stop, a list, a status query) or one file that is late; with fairness | `StopIsProcessed`, `SpeakerIsCaptured`, `PauseSilences` |
| `pipeline` | two workers, an operator, two tracks of which one is private, two jobs of two attempts, one command, one kind of fault; with fairness | `OneActiveJob`, `OneWorkerAtATime`, `NotTranscribedTwice`, `PrivateIsNotHeard`, `ProcessedIsComplete`, `StatusTellsOutcome`, `DoneIsFinal`, and `EveryJobEnds`, even for a job that kills every worker |
| `sync` | two clients of which one talks, two messages, a buffer that keeps one, snapshots of one, three connections; both buffers; two mishaps with memory, one with Valkey | `NothingSkipped`, `HeardOnce`, `CursorNeverRewinds` |
| `sync_live` | the same with one message, with fairness | `CatchesUp` |
| `campaigns` | three users, one character, two requests at once, two joins; PostgreSQL and memory | `RolesAndCharacters`, `InviteCounts`, and the refinement `KeepsPromise` |
| `sessions` | a user with two sessions and two connections, one request at a time beside the hub and its recheck; with fairness | `SignOutIsPrompt`, `DeadForGood`, `DeadIsDropped` |
| `presence` | a user with two devices (which are symmetric) and one with one; four frames, one of which may wait per connection, one fault | `HearersAreOnline`, `NoStaleVoice`, `ViewIsTrue` |
| `client` | consent loop: two recordings, a pause, two mishaps; connection: two campaigns, three commands, two faults; microphone: three changes, one loss of the room | `AckedIsHeard`, `EveryoneIsAsked`, `IndicatorIsTrue`, `GateIsLetGo`; `FollowsTheApp`, `AppKnows`, `IsResumed` (with fairness); `MicFollows` |
| `transcripts` | tracks of 9 and 12 units with up to two silences; four sets of options in the proportions of the defaults. Sessions of three tracks of two speakers, up to two pieces each; three budgets, short and long answers, two rounds of combining | `TrackIsHeard`, `SessionIsSummarised` |

The three parts of `client` share no state. A behaviour is chosen to be one of one of them, so the
run is the sum of three state spaces and not their product, and a property of one part holds of the
others' initial states. `transcripts` is the sum of two in the same way: what `Summaries` begins
with is more varied than what a track of that length yields.

`TrackIsHeard` is the conjunction of `NothingIsClipped` (what is spoken is heard, with its context),
`SilenceIsSkipped` (nothing else is, but short pauses), `WindowsFit`, `SpeechIsNotCut` (what fits
into a window is in one) and `TimelineHolds` (segments are in order, and where they were heard).
`SessionIsSummarised` is that of `EverybodyIsQuoted` (once, by name and time, and no whisper),
`CrosstalkIsVisible`, `ScenesAreSeenWhole` (chunks share their last lines), `SummaryIsOfEverything`
and `CallsAreBounded`.

Each module has a type invariant, `TypeOK`, with what its comment adds to the types. It was checked
on the same instances, and is proved where section 4 says so; no run lists it.

Why these bounds reach the interesting cases. Two recordings are needed for an acknowledgement or a
late task of one to meet the other, and three egresses for a track to be recorded, lost or paused,
and recorded again. Two pieces of waiting work let a stop, an acknowledgement and a tick overtake
each other. One fault suffices for each of the disagreements below; which calls fail is `Faults`. In
`capture_live` a fault may cost an egress, so that four are left for two tracks before and after a
pause; a start whose answer is lost and an egress that breaks use up a fifth, which makes the run
too long to keep (the three properties hold with five). In the pipeline, two attempts are the
smallest number with a retry and a last attempt, two jobs allow an old failed and a new active one,
and a private track beside a public one is what `Pending` tells apart. For the chat a window of one
event makes falling behind, exactly reaching and trimming happen with two messages; three
connections leave one whose handler outlives it.

Two requests are enough for every lost update in `campaigns` (one reads, the other commits, the
first writes), three users for a DM, a player who takes over and one who leaves or joins meanwhile;
the proof in section 4 removes both bounds. `EndsWithLoss` stops new requests after a lost update,
since nothing is promised from there on but `RolesAndCharacters`, which is proved without it. In
`sessions` a second session tells "this one" from "all of them", and two connections let one be
checked while the other is revoked. In `presence` a second device decides whether a user is still
there when the first goes, and the other user is the one who is told; four frames let a resume, a
voice state and another resume meet. In `client` two recordings let a cue end during the next one,
and two mishaps make "came back and left again" possible; two campaigns tell one's resume from the
other's.

In `transcripts` three utterances are the fewest with a merge after a meeting in the middle; the
options keep a silence longer than the padding on one of its sides, as 0.7 s and 400 ms do by
default, and one of them has room for two utterances with a pause between that must not be merged. A
speaker with two tracks, and offsets that make pieces meet and overlap, decide who is quoted where,
and budgets of seven characters hold two short lines but no long one.

### What a property excepts, and why

An exception names a fault under which the property is false of this code; nothing else is excepted.

* `Without(F)`: none of the faults in `F` has happened. When the database refuses a row, or the
  answer to a start gets lost, the capture drops what it knew (it forgets a segment before it
  registers its file, and an egress whose identifier it never learnt). When a stop is refused, a
  status query fails, or a file outlasts the wait, a pause or a stop is over while an egress still
  runs, and the job of a stop may be queued without its file.
* `LeftRunning` in `RecordingCapture`: such an egress. It is excused in a silence, but only after
  one of these faults, and during a pause only if memory still has it as the segment of its track.
* `outlived` in `Presence`: see "Online without a connection" below.
* `history` in `RecordsWorker` records that a command ran into a busy worker (`"raced"`), that an
  old job was retried while a newer one existed (`"retried"`), or that a job failed without anyone
  being told (`"untold"`).
* `torn` in `ReplaySync` records that a connection broke, or data was lost, while a message had its
  number but not its broadcast, or after a message had overtaken the answer to `resume`.
* `lost` and `overtaken` in `Campaigns`: a row was overwritten by a request that had read an older
  one, of a member or of the invite. That is where `Roster` and `InviteCounts` end.
* `Dead` in `Sessions`: no check that read the session before it ended still has to write it back;
  such a write revives it (see below). `told` is the sessions of which the hub was told; one that
  such a write revives is taken out.
* `torn`, `misled`, `unannounced` in `Presence`: a snapshot undid what its client was told while it
  was put together; a user was announced after they had gone; a call failed before the announcement.
* `excused`, `skipped`, `cut` in `ConsentLoop`: the cue could not be played, or the acknowledgement
  expired; the player came during a pause; a new sign-in cut the cue short, which leaves the gate
  closed until a cue ends.
* `unheard`, `unsaid` in `SyncClient`: the campaign was left while there was no socket, which the
  session never hears of; a frame could not be sent, and the app was not told.
* `behind`, `missed` in `Microphone`: an older result was pushed last; the flag changed between its
  application to a new track and the activation of that track.

### Runs that find a violation

| Run | What the code says | What happens |
|---|---|---|
| `sync_lost` (`CursorIsSeen`) | `session.rs:48`: the cursor is "the last replayable event seen" | the hub reports a number that counts a message not yet broadcast; the connection breaks first, and the message is never sent again |
| `campaigns_no_dm` (`OneDM`) | `campaignService.ts:180`: "A DM must hand over first, so a campaign is never DM-less"; line 152: "there is always exactly one DM" | a player asks to leave and is read as a player; the DM hands over to them and commits; the deletion takes the only DM away |

The first run uses Valkey, where it takes one mishap. In memory the same happens when a live message
overtakes the snapshot of a client that was behind the window; that needs three messages, a window
of two and three mishaps (`Trouble` in `MCReplaySync`).

### Other disagreements

These came up in the same way. They have no run of their own; each is what one of the exceptions
above is for, or a definition that no run lists and that fails when one does.

* *Outage during a pause*, `capture.ts:73` ("logged and retried by the next tick"): LiveKit refuses
  a stop, which is swallowed, and the wait ends after five minutes; or one status query fails, which
  ends the loop before the remaining egresses are asked; or the answer to a start got lost. No tick
  asks an egress to stop, so a microphone is recorded for as long as the pause lasts.
  `PauseSilences` fails without any of its three exceptions; `SilentUnlessRecording` fails without
  `LeftRunning`.
* *A slow file*, `capture.ts:264` ("still running; collect it on a later tick"): a stop has left the
  map before it waits, so no tick looks at the segment again (`JobCoversFiles` without `<<"result",
  "slow">>`).
* *Giving up*, `worker.ts:6` ("called once when the job has failed for good"): a job whose worker
  died on its last attempt is failed by the next claim, which tells nobody: `processing` for ever
  (`"untold"`).
* *Reprocessing a busy recording*, `admin.ts:341`: it deletes what a worker has already passed, and
  its enqueue returns the running job, whose end is then `processed` without its records
  (`"raced"`).
* *A revocation undone*, `accountService.ts:222`, against `0001_init.sql:29` ("remotely revocable"):
  a ping that has read the session before it was revoked writes it back alive (`RevocationIsFinal`).
* *Online without a connection*, `hub.ts:262`, against `presence.ts:10` ("At least one open,
  authenticated connection"): a resume whose connection closes while it waits connects it
  afterwards, for good. That connection gets nothing and nothing takes it back
  (`HearersAreOnline` without `outlived`).
* *An open microphone behind a closed gate*, `hotkeys.rs:68`, against `mic_gate.rs:7`: two sides
  compute and push, and the older result comes last (`GateIsKept`).
* *Nobody asks after a pause*, `docs/architecture/RECORDING-AND-SUMMARIES.md:123` and `policy.rs`:
  who joins during a pause is not asked, since the snapshot says paused, nor at the resume, which
  plays the other cue (`ResumeReplaysTheCue`).
* *A gate that stays closed*: signing in again during a start cue aborts the shell, and nobody opens
  the gate (`cut`).
* *Chunks over their budget*, `chunk.ts:2` ("chunks of at most `maxChars` characters"): after a
  flush the repeated lines count against the budget, but the next line joins them whatever its
  length.
* *A magic link*, `accountService.ts:160` ("exactly once"): read, checked and written in separate
  calls, so two requests may both redeem it. Not modelled.
* *The token of a session*, `client.rs:123`, against `client.rs:14`: the session keeps the first
  token, whatever the provider returns later (today's provider returns the same one).

### Fairness

* Capture: `WF(TaskStep)`, the event loop runs the chain and every awaited call comes back, with an
  answer or an error (a LiveKit or a database that hangs for ever would block the chain of the
  campaign); `WF(Tick)`, `setInterval` (`capture.ts:114`); `WF(EgressCompletes)`, Egress finishes a
  file it was told to finish. Nothing is assumed of players, of the DM, or of acknowledgements.
* Pipeline: each worker goes on (`runWorker`), a dead one is started again (`restart:
  unless-stopped` in `infra/compose/compose.yml`), and time passes: leases of dead workers run out,
  retries become due. A worker may still die at every attempt.
* Chat: the server answers and the network delivers as long as a connection lasts. Nothing is
  assumed about a client's reconnecting.
* Sessions: the store answers, and `setInterval` brings the recheck round. The database may fail a
  round at any connection (`RecheckFails`), but not every time that one connection is checked:
  strong fairness of `RecheckNext` and `RecheckRead`. A round copies the connections, so one that is
  never reached would need a failure in every single round. Nothing is assumed of clients.
* Connection of the client: the loop runs (`tokio` polls it), the provider, the network and the
  server answer, and a wait is over at some time. Failures are bounded by `MaxFaults`: with failures
  for ever nothing is ever resumed.

## 4. What is proved

Eight modules of proofs, each for every value of the constants under the one named assumption of its
module (which says that bounds are numbers and owners are users), and without any bound on how much
runs at once. The named faults of section 3 are the only exceptions: a theorem about a property with
`Without(F)` holds for every behaviour, and promises nothing once a fault of `F` has happened.

**`RecordingCaptureProofs`**

* `TypeCorrect`: `Spec => []TypeOK`. `TypeOK` is not inductive. A task in the middle of its code
  uses `live.rec` and `task.cur` as if they were there, and only the position in the code says that
  they are. The strengthening is `Located`: every task of the chain has its recording, one at
  `poll`, `register` or `start` has its track, and a live entry in the map has a recording.
  `TypeInductive` and `LocatedInductive` show that every step keeps both, one lemma per action;
  `LoopsAreTasks` and `LoopsAreLocated` do so once for the loops of `finishSegments` and
  `reconcile`, which four of the operations share.
* `ConsentHolds`: `Spec => []Consent`, no egress exists for a player who has not acknowledged its
  recording. What makes it inductive is `Consented`: a task at `start`, between the answer about the
  acknowledgement and the answer of LiveKit, works for a recording its player has acknowledged. It
  is kept because an acknowledgement may expire or be lost but never becomes one that was not given
  (`AcksAreKept`), because the recording and the track of an egress do not change (`EgressesStay`),
  and because the only way to `start` is `CheckAck` for that track (`StartsConsented`).
* For what follows, one lemma per action says what the step does to each variable (`...Does`), so
  that no later proof opens the loops again. `Placed` says where a task of each operation can be and
  what `live` is then; `Ordered` says that recordings which were not started have left no trace,
  that no recording is started or stopped twice by what waits on the chain, and that the live one is
  not queued for processing.

The other safety properties of the capture each add a strengthening to `Known`, the conjunction of
all this with `Segments`.

* `OneFile` (`OneFileAtATime`) needs `Segments`: a segment of the live recording names a file of
  that recording and track; a file being written for it is named by a segment, unless the answer to
  its start was lost (`OneEach`); and a loop that starts files works on tracks without a segment.
* `FilesPrecedeJob` (`NoFileAfterJob`): a file is registered at `register` only, for the live
  recording, which by `Ordered` is not queued. It has no exception, and says nothing of a file that
  is never registered: that is `JobCovers`.
* `JobCovers` (`JobCoversFiles`) needs `Asked` (what a pause or a stop waits for was asked to end,
  unless it refused, so that only a late file is given up), `Ending` (a task that pauses or stops
  has every segment of the live recording still ahead of it, and none when its loop is over) and
  `Covered` (a file that memory has let go of is registered once, or is about to be, or its egress
  failed). A stop queues the job after its loop, when no segment is left.
* `RowsMatch` (`RowMatchesFlag`) needs `Story`: what the capture has in memory, with the changes
  that wait on the chain applied to it one after the other, ends at the flag. The witness is a
  sequence of flags, one per waiting change, so that no recursion is needed: a start or a stop of
  the DM appends to it, the beginning of a task drops its head. With `Rows` (the row that says
  `recording` is that of the recording the capture holds) an empty chain leaves memory and flag
  equal.
* `Bookmarks` (`BookmarksAlternate`; with `RowsMatch` it gives `RowsTellTruth`, what the run checks
  as `RowsAreTrue`) needs `Story` and `Bookmarked`: the last bookmark of the live recording says
  whether it is capturing, or is the one before the bookmark that the current task is about to add.
  That the next change fits is what `Story` says.
* `Silent` (`SilentUnlessRecording`) needs all of them and `Silence`: without an outage, a running
  egress belongs to the live recording, or to one a restart gave up or is about to, and a live
  recording that is not capturing has segments only while the task of its pause runs. With one,
  `Segments` still gives that a running egress of the recording in memory is the segment of its
  track (`CurrentIsTracked`).

Each strengthening was checked by TLC on the instance of `capture` (2 519 382 states) before it was
proved.

**`RecordsWorkerProofs`**: all safety properties of queue and workers, and `DoneIsFinal`. The
inductive invariant is `IInv`:

* `Sound`: the types; a worker has the local state its position needs, with attempts that the table
  agrees with; jobs are numbered without gaps, and a deleted recording has none.
* `Leases`: as long as heartbeats and answers get through, whoever handles a job holds its lease,
  and alone. `OneActiveJob` and `OneHolder`, unless an old job was retried by hand: with one active
  job, there is one who handles it.
* `NotDoneYet`: what is left to do has no transcript. `Progresses`: unless something was reset under
  a worker, its position says what is complete. Together they give `TranscribedOnce`,
  `RecordsAreComplete`.
* `Told`: while nothing but models failed, whoever is busy is alone with the newest job, and the row
  says how the newest job ended, or somebody is about to say so (`RowTellsOutcome`).

`DoneIsFinal` is shown step by step from `Sound` and `Leases`: a worker that completes or fails a
job is the one who holds it, and a claim takes no job that is done.

**`CampaignsProofs`**: `Campaigns` implements `Roster`, with any number of requests.

* The invariant `Inv` says of every request what it has read (`Reading`) or which writes it has
  prepared, one `Shape` per operation, each with rows that fit their user (`Fits`); that creating a
  campaign and anything in memory happens alone (`Creating`, `Memory`); that until an update is lost
  there is one DM, if there is anybody (`OneUnlessLost`), and that whoever is served finds somebody
  (`SomebodyIsThere`).
* Reading keeps it (`ReadsOn`). A commit that loses nothing has found the rows that it had read
  (`CommitInTime`), so it is one operation of `Roster`, shape by shape (`CommitCreate` to
  `CommitSwap`). The hard case is `CommitSwap`: a swap may have read its actor after another swap
  has made them a player; then the DM is somebody else, and the index refuses the promotion.
  `OperationKeeps` shows that an operation of `Roster` leaves one DM.
* Theorems: `Refines` (`Spec => KeepsPromise`), `Roles`, `Counts`, and `OneDMUntilLost`, which says
  that the lost update is the only way to what `campaigns_no_dm` finds.

**`SessionsProofs`**: `SignedOutAtOnce` and `OverForGood`. Inductive are the types (`Typed`) with
`Prompt`: a session of which the hub was told is revoked, and no open connection has it. For
`DeadForGood` every step shows `OnlyFresh` (a check that goes on to its write has read a live
session in that step, or was due to write before) and `OverStays` (a session that is over comes back
only by a write that was due).

**`PresenceProofs`**: `OnlineHear`, `VoiceIsCurrent` and `ToldIsTrue`. Presence and subscription
change together in `Subscribe` and `Close`, and nowhere else (`Subscribers`), and a connection is
subscribed but closed exactly if its resume outlived it (`Late`); leaving the voice room, or with
the last connection, ends what hangs on it. `ViewIsTrue` is not inductive: what an excuse covers
must not outlive it. `Told` says more. `ViewsAgree`: the voice of everybody is seen as it is, even
of those who are still to be announced, and somebody is seen wrongly online only if they are in
`misled`, wrongly offline only if they are there and announced late or never. `SnapshotsAgree`: the
same holds of a snapshot that is being filled, unless something was told since. `SeesItself`: a
connection sees its own user online from the first moment, so that nobody needs to tell it.

**`ClientProofs`**: the connection loop, the microphone and the consent loop, for any campaigns,
recordings, commands and failures.

* `SubscribedIsFollowed` (`FollowsTheApp`) and `AppIsTold` (`AppKnows`) need `Follows`: from the
  answer of the provider to the end of the socket, whatever is subscribed to is followed; besides,
  only what was unsubscribed while there was no socket is; and what is followed on a socket that has
  signed in was resumed on it.
* `MicrophoneObeys` (`MicFollows`) needs `Carried`, which follows a result from the button to the
  room: somebody has it still to push, or it is the flag; the device does what the flag says; and so
  does the track, from the moment the flag is applied to it.
* The consent loop: `AcksAreHeard`, `IndicatorIsRight`, `GateOpensAgain`, `NobodyIsForgotten`,
  and `TypeCorrect` for what they need. Inductive are `Heard` (what is on its way as an
  acknowledgement was heard), `Announced` (the last frame on the wire about the recording, or the
  indicator if there is none, is the state of the server, as long as the connection is joined) and
  `Owed` (a player who has not acknowledged what is on has its cue before them: in a frame on the
  wire, playing, or as an acknowledgement on its way).

**`ReplaySyncSteps`** and **`ReplaySyncProofs`**: the chat, over both buffers, with any number of
clients, connections, messages and mishaps. The inductive invariant has four parts, of which the
first two give everything but `HeardOnce`:

* `Orderly`: the types; how far a handler can be and what it knows by then (`Stages`); a handler
  waits exactly if it is in the queue, once (`Queue`), and alone if the buffer is in memory
  (`Alone`); a connection is open exactly if it is one client's (`Bound`); no epoch is known that
  was not made up (`Known`); at most one answer to `resume` is on its way to a client, and it is not
  sent twice (`Links`); a buffer in memory is over its limit only between a push and its trim
  (`Limited`). `TypeCorrect` follows.
* `Reliable`: as long as no data were lost under a handler (`Whole`), the numbers on events, in
  lists, on wires and in cursors are bounded by the counter of their stream, and an answer that
  waits is not behind the cursor (`Numbers`, `Counted`). `NeverRewinds` follows, step by step. And
  whatever the buffer holds is coming to every client that counts on it: seen, on its wire, or under
  way in the handler that pushed it and has not told it yet. A cursor counts on the events up to it
  (`Base`, `Asked`), a list that was read or an answer on its way counts on the rest (`Listed`,
  `Taken`, `Shown`, `Promised`). `SkipsNothing` follows: when all is quiet, nothing is coming any
  more, so it is seen.
* Two facts carry the hard cases. `Lags`: since the commands of all handlers go round in one queue,
  a handler that pushes after a snapshot's list was read has more answers to wait for than the
  snapshot has, and so tells its message after the snapshot was sent; otherwise a message could come
  before the snapshot that replaces it. `Rising`: in memory the numbers on a wire rise from the
  cursor on, so that a message cannot carry the cursor over another one.
* `Once` and `Memory`, for `HearsOnce`: no message waits twice, neither in an inbox nor in a
  handler; with a buffer in memory nothing that a client has seen or is being told still waits, what
  a handler has read is what the buffer holds, and what is numbered beyond a cursor, or beyond an
  answer on a wire, is not seen or told before it (`Fresh`, `Copied`, `NotTwice`).

`ReplaySyncSteps` says once what each command and each action does to each variable (`AnyStep`), so
that the later proofs do not open the handlers again. That events can be put in order by number
(`InOrder`, a `CHOOSE`) is itself proved, for lists of any length: of the lists that could not, take
a shortest one. The invariant was checked by TLC before it was proved, on
instances with two clients, two or three messages, both buffers and windows of one and two events.

Only model-checked: `TrackIsHeard` and `SessionIsSummarised`, and everything that is liveness:
`StopIsProcessed`, `SpeakerIsCaptured`, `PauseSilences`, `EveryJobEnds`, `CatchesUp`,
`DeadIsDropped`, `IsResumed`. The first two speak of what folds over a whole transcript compute, an
induction over data: the theorems of the library about induction and recursive functions take an
operator as a parameter, which the provers cannot instantiate. The way around it, a smallest
counterexample, gave `InOrder` but no equation for a fold, which is itself recursive. Liveness under
fairness and `ENABLED` are out of reach of the prover, and so are modules with RECURSIVE operators,
which is why these modules have none.

## 5. What is not modelled

The components with status `not_modelled` or `partly` in `PROJECT.json`, in short: bad frames, the
rate limit and `roster.changed` of the hub; registration and magic links before they are redeemed;
the plain rows of the stores (users, links, settings); provider failover; the delays, the other
participants and speaking of the voice connection; windows, tray and panels; settings, ffmpeg,
Whisper and Ollama as programs; deployment. `status` and `ddb` are empty packages. Content is never
modelled: audio, transcripts, summaries, names, text of messages, formats.

The rate limiter and provider failover run without interleaving, within one call or one job, and are
covered by unit tests over their edges.

## 6. Plan

Done, in this order:

1. `RecordingCapture`: consent and capture.
2. `JobQueue`, `RecordsWorker`: from a stopped recording to records.
3. `ReplaySync`: the cursor.
4. `ConsentLoop`, `Microphone`: cues, acknowledgements, gate, indicator and mute.
5. `Campaigns` and `Roster`: membership as one atomic object, and the statements that implement it.
6. `Sessions`: revocation, pings, recheck.
7. `Presence`: who is there, and who is told.
8. `SyncClient`: the connection loop.
9. `SpeechWindows`, `Summaries`: the algorithms between a file and its summary.

Next:

* `Records`, an abstract specification "a recording, once stopped, becomes records or is reported
  failed", and the composition of 1 and 2 shown to implement it where no fault happens.
* Rate limiter and provider failover.
