----------------------------- MODULE JobStatus ------------------------------
(***************************************************************************)
(* What the job queue promises those who enqueue and poll jobs: a job is   *)
(* tried until it succeeds, at most MaxAttempts times, and what has ended  *)
(* stays as it is.  JobQueue implements it.                                *)
(***************************************************************************)
EXTENDS Naturals

CONSTANTS
    Jobs,          \* job ids
    Handled,       \* jobs whose type has a handler in the worker process
    MaxAttempts    \* settings.jobs_max_attempts

VARIABLES
    status,        \* committed job_runs.status, "absent" before the row exists
    attempts       \* committed job_runs.attempts

JobState == {"absent", "queued", "running", "succeeded", "failed"}
Ended    == {"succeeded", "failed"}

Move(j, from, to) ==
    /\ status[j] = from
    /\ status' = [status EXCEPT ![j] = to]

Enqueued(j) == Move(j, "absent", "queued") /\ UNCHANGED attempts

Claimed(j) ==
    /\ Move(j, "queued", "running")
    /\ attempts[j] < MaxAttempts
    /\ attempts' = [attempts EXCEPT ![j] = @ + 1]

Succeeded(j) == j \in Handled /\ Move(j, "running", "succeeded") /\ UNCHANGED attempts

\* A job is given up when its tries are used up, or when nobody can run it.
GivenUp(j) ==
    /\ Move(j, "running", "failed")
    /\ j \in Handled => attempts[j] = MaxAttempts
    /\ UNCHANGED attempts

Retried(j) ==
    /\ Move(j, "running", "queued")
    /\ attempts[j] < MaxAttempts
    /\ UNCHANGED attempts

Init == /\ status = [j \in Jobs |-> "absent"]
        /\ attempts = [j \in Jobs |-> 0]

Next == \E j \in Jobs : Enqueued(j) \/ Claimed(j) \/ Succeeded(j) \/ GivenUp(j) \/ Retried(j)

Spec == Init /\ [][Next]_<<status, attempts>>
=============================================================================
