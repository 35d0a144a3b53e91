------------------------------- MODULE JobQueue -------------------------------
(***************************************************************************)
(* The durable queue of retryable jobs (queue.ts; postgresQueue.ts is the  *)
(* `jobs' table).  Every operator is the table after one SQL statement;    *)
(* the statements are the atomic steps that several workers and commands   *)
(* interleave.  Time is abstracted to what the queue compares with it:     *)
(* whether a queued job is due and whether a running job's lease is over.  *)
(* The jobs here are those of one recording (`kind' is always              *)
(* "process-recording"), in the order they were created.                   *)
(***************************************************************************)
EXTENDS Integers

CONSTANTS
  MaxJobs,      \* bound: jobs ever created
  MaxAttempts   \* max_attempts of a job

ASSUME QueueAssumption == MaxJobs \in Nat /\ MaxAttempts \in Nat \ {0}

Job == 1..MaxJobs
NoJob == [state |-> "none", attempts |-> 0, due |-> FALSE, expired |-> FALSE]
Queued == [NoJob EXCEPT !.state = "queued", !.due = TRUE]

VARIABLE job   \* table jobs

QueueTypeOK ==
  job \in [Job -> [state : {"none", "queued", "running", "done", "failed"},
                   attempts : 0..MaxAttempts, due : BOOLEAN, expired : BOOLEAN]]

Exists(j) == job[j].state # "none"
Active(j) == job[j].state \in {"queued", "running"}
LeaseOver(j) == job[j].state = "running" /\ job[j].expired

\* enqueue: an active job of the recording is returned instead of a new one.
\* Mutant: the duplicate check is missing.
EnqueueTwice == {j \in Job : ~Exists(j) /\ \A i \in 1..j - 1 : Exists(i)}
Enqueue == {j \in Job : (~\E i \in Job : Active(i)) /\ ~Exists(j) /\ \A i \in 1..j - 1 : Exists(i)}
Enqueued == [j \in Job |-> IF j \in Enqueue THEN Queued ELSE job[j]]

\* claim, first statement: a job whose worker died on its final attempt is failed.
Exhausted(j) == LeaseOver(j) /\ job[j].attempts >= MaxAttempts
GivenUp == [j \in Job |-> IF Exhausted(j)
                          THEN [job[j] EXCEPT !.state = "failed", !.expired = FALSE] ELSE job[j]]
LeftOver == {j \in Job : LeaseOver(j) /\ ~Exhausted(j)}

\* claim, second statement: the oldest job that is due, or whose lease was over when the claim
\* began (`seen').
\* Mutant: a running job is taken whatever its lease says.
ClaimableAlways(j, seen) == job[j].due \/ job[j].state = "running"
Claimable(j, seen) ==
  \/ job[j].state = "queued" /\ job[j].due
  \/ LeaseOver(j) /\ <<j, job[j].attempts>> \in seen
\* Mutant: a claim does not count as an attempt.
ClaimedFree(j) == [job EXCEPT ![j] = [@ EXCEPT !.state = "running", !.due = FALSE, !.expired = FALSE]]
Claimed(j) ==
  [job EXCEPT ![j] = [state |-> "running", attempts |-> @.attempts + 1, due |-> FALSE,
                      expired |-> FALSE]]

\* extendLease, complete and fail do not ask who holds the job; complete and fail do not ask
\* whether it is running.
Extended(j) == IF job[j].state = "running" THEN [job EXCEPT ![j].expired = FALSE] ELSE job
Completed(j) ==
  IF Exists(j) THEN [job EXCEPT ![j] = [@ EXCEPT !.state = "done", !.due = FALSE, !.expired = FALSE]]
  ELSE job
AfterFailure(j) ==
  IF ~Exists(j) THEN "none" ELSE IF job[j].attempts >= MaxAttempts THEN "failed" ELSE "queued"
Failed(j) ==
  [job EXCEPT ![j] = [@ EXCEPT !.state = AfterFailure(j), !.due = FALSE, !.expired = FALSE]]

\* retry: only a failed job goes back to the queue.
\* Mutant: any job does.
RetryAny(j) == Exists(j)
Retryable(j) == job[j].state = "failed"
Retried(j) == [job EXCEPT ![j] = Queued]

=============================================================================
