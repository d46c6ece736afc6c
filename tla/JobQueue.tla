------------------------------ MODULE JobQueue ------------------------------
(***************************************************************************)
(* The durable job queue: enqueue (infra/jobs/__init__.py), the sessions   *)
(* that call it, and worker processes that run process_once in a loop      *)
(* (infra/jobs/worker.py), with a handler like ReportExportHandler.run,    *)
(* which commits its own work before the worker commits the outcome.       *)
(*                                                                         *)
(* A worker claims a row in one transaction, runs the handler outside any, *)
(* and writes the outcome in another.  A worker process may die anywhere;  *)
(* its supervisor starts it again, and it goes back to polling.            *)
(***************************************************************************)
EXTENDS Naturals

CONSTANTS
    Jobs,          \* bound: job ids
    Handled,       \* jobs whose type has a handler in the worker process
    Workers,       \* worker processes
    MaxAttempts,   \* settings.jobs_max_attempts
    MaxCrashes     \* bound: how often workers die

ASSUME JobAssumption ==
    /\ Handled \subseteq Jobs
    /\ MaxAttempts \in Nat \ {0} /\ MaxCrashes \in Nat

VARIABLES
    status,        \* committed job_runs.status, "absent" before the row exists
    attempts,      \* committed job_runs.attempts
    enqueued_at,   \* job_runs.enqueued_at; 0 before enqueue
    caller,        \* the session that enqueues a job
    worker,        \* per worker: the process_once it is in
    effects,       \* history: how often a job's handler committed its work
    lost,          \* history: jobs whose worker died while it ran them
    crashes        \* how often a worker has died

vars == <<status, attempts, enqueued_at, caller, worker, effects, lost, crashes>>

S == INSTANCE JobStatus

Times == Nat
Tries == 0..MaxAttempts

\* "read" is the value of attempts that the claim has read.
Polling == [pc |-> "polling"]
Busy    == [pc: {"claiming", "handling", "worked"}, job: Jobs, read: Tries]
Running == {"handling", "worked"}

\* The row locks of open claims.
Locked == {worker[w].job : w \in {v \in Workers : worker[v].pc = "claiming"}}

-----------------------------------------------------------------------------
(* The session that enqueues: a request, with a registry of its own *)

\* The row is flushed. It carries the time of the call, not of the commit.
enqueue(j) ==
    /\ caller[j] = "new"
    /\ caller' = [caller EXCEPT ![j] = "flushed"]
    /\ \E now \in {enqueued_at[k] : k \in Jobs} \cup {enqueued_at[k] + 1 : k \in Jobs} :
         /\ now > 0 /\ \A k \in Jobs : enqueued_at[k] <= now
         /\ enqueued_at' = [enqueued_at EXCEPT ![j] = now]
    /\ UNCHANGED <<status, attempts, worker, effects, lost, crashes>>

CommitEnqueue(j) ==
    /\ caller[j] = "flushed"
    /\ caller' = [caller EXCEPT ![j] = "committed"]
    /\ status' = [status EXCEPT ![j] = "queued"]
    /\ UNCHANGED <<attempts, enqueued_at, worker, effects, lost, crashes>>

\* An exception, or a session closed without a commit, as after
\* ReportExportService._enqueue_async: the row never existed.
DropEnqueue(j) ==
    /\ caller[j] = "flushed"
    /\ caller' = [caller EXCEPT ![j] = "dropped"]
    /\ UNCHANGED <<status, attempts, enqueued_at, worker, effects, lost, crashes>>

-----------------------------------------------------------------------------
(* process_once *)

\* (mutant: without FOR UPDATE SKIP LOCKED)
UnlockedQueue == {j \in Jobs : status[j] = "queued"}

\* WHERE status = 'queued' ... FOR UPDATE SKIP LOCKED
Queue == {j \in Jobs : status[j] = "queued"} \ Locked

\* ORDER BY enqueued_at LIMIT 1
IsNext(j) == j \in Queue /\ \A k \in Queue : enqueued_at[j] <= enqueued_at[k]

Select(w) ==
    /\ worker[w].pc = "polling"
    /\ \E j \in Jobs :
         /\ IsNext(j)
         /\ worker' = [worker EXCEPT ![w] =
                         [pc |-> "claiming", job |-> j, read |-> attempts[j]]]
    /\ UNCHANGED <<status, attempts, enqueued_at, caller, effects, lost, crashes>>

\* UPDATE ... status = 'running', attempts = attempts + 1, COMMIT.
Claim(w) == LET r == worker[w] IN
    /\ r.pc = "claiming"
    /\ status'   = [status EXCEPT ![r.job] = "running"]
    /\ attempts' = [attempts EXCEPT ![r.job] = r.read + 1]
    /\ worker'   = [worker EXCEPT ![w].pc = "handling"]
    /\ UNCHANGED <<enqueued_at, caller, effects, lost, crashes>>

\* Write the outcome and poll again.
Finish(w, outcome) ==
    /\ status' = [status EXCEPT ![worker[w].job] = outcome]
    /\ worker' = [worker EXCEPT ![w] = Polling]
    /\ UNCHANGED <<attempts, enqueued_at, caller, effects, lost, crashes>>

NoHandler(w) ==
    /\ worker[w].pc = "handling" /\ worker[w].job \notin Handled
    /\ Finish(w, "failed")

\* (mutant: the worker takes a handler that returns for one that has worked)
RunNothing(w) ==
    /\ worker[w].pc = "handling" /\ worker[w].job \in Handled
    /\ worker' = [worker EXCEPT ![w].pc = "worked"]
    /\ UNCHANGED <<status, attempts, enqueued_at, caller, effects, lost, crashes>>

\* The handler saves its file, audits and commits.
Work(w) ==
    /\ worker[w].pc = "handling" /\ worker[w].job \in Handled
    /\ effects' = [effects EXCEPT ![worker[w].job] = @ + 1]
    /\ worker' = [worker EXCEPT ![w].pc = "worked"]
    /\ UNCHANGED <<status, attempts, enqueued_at, caller, lost, crashes>>

\* It returns.
Succeed(w) == worker[w].pc = "worked" /\ Finish(w, "succeeded")

\* (mutant: compares the attempts before this one)
OutcomeOneMore(read) == IF read >= MaxAttempts THEN "failed" ELSE "queued"

\* (mutant: the row is not put back)
OutcomeNotRequeued(read) == IF read + 1 >= MaxAttempts THEN "failed" ELSE "running"

\* (mutant: the first failure is final)
OutcomeNoRetry(read) == "failed"

Outcome(read) == IF read + 1 >= MaxAttempts THEN "failed" ELSE "queued"

\* It raises, before or after it committed its work.
Raise(w) ==
    /\ worker[w].pc \in Running /\ worker[w].job \in Handled
    /\ Finish(w, Outcome(worker[w].read))

\* The process dies: an open claim is rolled back, nothing else is undone.
\* An exception outside the handler ends the process too.
Crash(w) ==
    /\ worker[w].pc # "polling" /\ crashes < MaxCrashes
    /\ worker' = [worker EXCEPT ![w] = Polling]
    /\ lost' = IF worker[w].pc \in Running THEN lost \cup {worker[w].job} ELSE lost
    /\ crashes' = crashes + 1
    /\ UNCHANGED <<status, attempts, enqueued_at, caller, effects>>

-----------------------------------------------------------------------------
Init ==
    /\ S!Init
    /\ enqueued_at = [j \in Jobs |-> 0]
    /\ caller      = [j \in Jobs |-> "new"]
    /\ worker      = [w \in Workers |-> Polling]
    /\ effects     = [j \in Jobs |-> 0]
    /\ lost = {} /\ crashes = 0

process_once(w) == Select(w) \/ Claim(w) \/ NoHandler(w) \/ Work(w) \/ Succeed(w) \/ Raise(w)

Next ==
    \/ \E j \in Jobs : enqueue(j) \/ CommitEnqueue(j) \/ DropEnqueue(j)
    \/ \E w \in Workers : process_once(w) \/ Crash(w)

Spec == Init /\ [][Next]_vars

\* run_worker never stops polling, and handlers return or raise. Callers need
\* not commit.
FairSpec == Spec /\ \A w \in Workers : WF_vars(process_once(w))

-----------------------------------------------------------------------------
(* Properties *)

\* Every variable has its type.
TypeOK ==
    /\ status \in [Jobs -> S!JobState]
    /\ attempts \in [Jobs -> Tries]
    /\ enqueued_at \in [Jobs -> Times]
    /\ caller \in [Jobs -> {"new", "flushed", "committed", "dropped"}]
    /\ worker \in [Workers -> Busy \cup {Polling}]
    /\ effects \in [Jobs -> Tries]
    /\ lost \subseteq Jobs
    /\ crashes \in 0..MaxCrashes

\* Worker processes share the table without running a job twice at a time,
\* and a job in a worker's hands is not in the queue for the others.
ClaimedOnce ==
    \A v, w \in Workers :
        /\ worker[v].pc # "polling" /\ worker[w].pc # "polling" /\ v # w
              => worker[v].job # worker[w].job
        /\ worker[w].pc \in Running => status[worker[w].job] = "running"

\* A job that succeeded did its work; whatever fails or dies, the work is done
\* at most once per attempt that was counted.
WorkIsCounted ==
    \A j \in Jobs :
        /\ effects[j] <= attempts[j]
        /\ status[j] = "succeeded" => effects[j] > 0

\* A job is tried until it succeeds, at most MaxAttempts times; it is given up
\* only when the tries are used up, and an ended job is never touched again.
ImplementsJobStatus == S!Spec

\* Every job in the queue ends, unless a worker dies with it: neither retries
\* of other jobs nor the other workers' claims can keep it waiting for ever.
QueuedJobsEnd ==
    \A j \in Jobs : status[j] = "queued" ~> status[j] \in S!Ended \/ j \in lost

-----------------------------------------------------------------------------
(* The inductive invariant behind the safety properties *)

\* What a worker has read stays true while it holds the job.
WorkersConsistent ==
    \A w \in Workers : LET r == worker[w] IN
        /\ r.pc = "claiming" => status[r.job] = "queued" /\ attempts[r.job] = r.read
        /\ r.pc \in Running  => status[r.job] = "running" /\ attempts[r.job] = r.read + 1
        /\ r.pc = "worked"   => r.job \in Handled /\ effects[r.job] > 0
        /\ r.pc \in {"claiming", "handling"} => effects[r.job] <= r.read

RowsConsistent ==
    \A j \in Jobs :
        /\ status[j] \in {"absent", "queued"} => attempts[j] < MaxAttempts
        /\ status[j] = "absent" => attempts[j] = 0
        /\ status[j] # "absent" => caller[j] = "committed"

IInv == TypeOK /\ ClaimedOnce /\ WorkIsCounted /\ WorkersConsistent /\ RowsConsistent

-----------------------------------------------------------------------------
(* What the documentation says, and the code does not do *)

\* Exports "must survive process restart": a job in the queue ends, also when
\* the worker that runs it dies and is started again.
JobsSurviveRestart == \A j \in Jobs : status[j] = "queued" ~> status[j] \in S!Ended
=============================================================================
