--------------------------- MODULE JobQueueProofs ---------------------------
(***************************************************************************)
(* Safety of the job queue for any number of jobs, workers, attempts and   *)
(* crashes: no job is in two hands, its work is done at most once per      *)
(* counted attempt, and the queue implements JobStatus.                    *)
(***************************************************************************)
EXTENDS JobQueue, TLAPS

\* What a worker's record tells of its type.
LEMMA BusyTells ==
    ASSUME NEW r \in Busy \cup {Polling}, r.pc # "polling"
    PROVE  /\ r \in Busy /\ r.job \in Jobs /\ r.read \in Tries
           /\ r.pc \in {"claiming", "handling", "worked"}
BY DEF Busy, Polling

\* A step that only moves worker w on, to a phase of the same job.
LEMMA PhaseType ==
    ASSUME TypeOK, NEW w \in Workers, worker[w].pc # "polling",
           NEW p \in {"claiming", "handling", "worked"},
           worker' = [worker EXCEPT ![w].pc = p]
    PROVE  /\ worker' \in [Workers -> Busy \cup {Polling}]
           /\ worker'[w].pc = p /\ worker'[w].job = worker[w].job
           /\ worker'[w].read = worker[w].read
           /\ \A v \in Workers \ {w} : worker'[v] = worker[v]
<1>1. worker \in [Workers -> Busy \cup {Polling}]
  BY DEF TypeOK
<1>2. worker[w] \in Busy
  BY <1>1, BusyTells
<1>3. [worker[w] EXCEPT !.pc = p] \in Busy
  BY <1>2 DEF Busy
<1>4. worker' = [worker EXCEPT ![w] = [worker[w] EXCEPT !.pc = p]]
  OBVIOUS
<1> QED
  BY <1>1, <1>2, <1>3, <1>4 DEF Busy

LEMMA InitInv == Init => IInv
BY JobAssumption
   DEF Init, S!Init, IInv, TypeOK, S!JobState, Times, Tries, Polling, Busy, Running,
       ClaimedOnce, WorkIsCounted, WorkersConsistent, RowsConsistent

-----------------------------------------------------------------------------
\* enqueue, its commit and its rollback touch no row that a worker holds.
LEMMA EnqueueStep ==
    ASSUME IInv, NEW j \in Jobs, enqueue(j) \/ CommitEnqueue(j) \/ DropEnqueue(j)
    PROVE  IInv'
<1> USE DEF IInv
<1>1. TypeOK'
  <2>1. CASE enqueue(j)
    <3>1. PICK now : /\ now \in {enqueued_at[k] : k \in Jobs} \cup {enqueued_at[k] + 1 : k \in Jobs}
                     /\ enqueued_at' = [enqueued_at EXCEPT ![j] = now]
      BY <2>1 DEF enqueue
    <3>2. now \in Nat
      BY <3>1 DEF TypeOK, Times
    <3> QED
      BY <2>1, <3>1, <3>2 DEF enqueue, TypeOK, Times
  <2>2. CASE CommitEnqueue(j)
    BY <2>2 DEF CommitEnqueue, TypeOK, S!JobState
  <2>3. CASE DropEnqueue(j)
    BY <2>3 DEF DropEnqueue, TypeOK
  <2> QED
    BY <2>1, <2>2, <2>3
<1>2. /\ UNCHANGED <<attempts, worker, effects>>
      /\ caller' \in [Jobs -> {"new", "flushed", "committed", "dropped"}]
      /\ caller[j] \in {"new", "flushed"}
      /\ \A k \in Jobs \ {j} : caller'[k] = caller[k] /\ status'[k] = status[k]
      /\ \/ status'[j] = status[j]
         \/ status'[j] = "queued" /\ caller'[j] = "committed"
  <2>1. CASE enqueue(j)
    BY <1>1, <2>1 DEF enqueue, TypeOK
  <2>2. CASE CommitEnqueue(j)
    BY <1>1, <2>2 DEF CommitEnqueue, TypeOK
  <2>3. CASE DropEnqueue(j)
    BY <1>1, <2>3 DEF DropEnqueue, TypeOK
  <2> QED
    BY <2>1, <2>2, <2>3
<1>3. status[j] = "absent" /\ attempts[j] = 0
  BY <1>2 DEF RowsConsistent
<1>4. \A w \in Workers : worker[w].pc # "polling" => worker[w].job \in Jobs \ {j}
  <2> SUFFICES ASSUME NEW w \in Workers, worker[w].pc # "polling"
               PROVE  worker[w].job \in Jobs \ {j}
    OBVIOUS
  <2>1. worker[w].job \in Jobs /\ worker[w].pc \in {"claiming", "handling", "worked"}
    BY BusyTells DEF TypeOK
  <2>2. status[worker[w].job] \in {"queued", "running"}
    BY <2>1 DEF WorkersConsistent, Running
  <2> QED
    BY <1>3, <2>1, <2>2
<1>5. ClaimedOnce' /\ WorkersConsistent'
  BY <1>2, <1>4 DEF ClaimedOnce, WorkersConsistent, Running
<1>6. WorkIsCounted'
  BY <1>2, <1>3 DEF WorkIsCounted
<1>7. RowsConsistent'
  BY <1>2, <1>3, JobAssumption DEF RowsConsistent
<1> QED
  BY <1>1, <1>5, <1>6, <1>7

-----------------------------------------------------------------------------
\* The jobs of the other workers are other jobs.
LEMMA Elsewhere ==
    ASSUME IInv, NEW w \in Workers, worker[w].pc # "polling"
    PROVE  /\ worker[w] \in Busy
           /\ worker[w].job \in Jobs /\ worker[w].read \in Tries
           /\ worker[w].pc \in {"claiming", "handling", "worked"}
           /\ \A v \in Workers \ {w} :
                 worker[v].pc # "polling" => worker[v].job \in Jobs \ {worker[w].job}
BY BusyTells DEF IInv, TypeOK, ClaimedOnce

\* The queue holds no job of a worker, so a select takes a free one.
LEMMA SelectStep ==
    ASSUME IInv, NEW w \in Workers, Select(w)
    PROVE  IInv'
<1> USE DEF IInv
<1>1. PICK j \in Jobs :
         /\ IsNext(j)
         /\ worker' = [worker EXCEPT ![w] =
                         [pc |-> "claiming", job |-> j, read |-> attempts[j]]]
  BY DEF Select
<1>2. UNCHANGED <<status, attempts, enqueued_at, caller, effects, lost, crashes>>
  BY DEF Select
<1>3. status[j] = "queued" /\ j \notin Locked
  BY <1>1 DEF IsNext, Queue
<1>4. \A v \in Workers : worker[v].pc # "polling" => worker[v].job \in Jobs \ {j}
  <2> SUFFICES ASSUME NEW v \in Workers, worker[v].pc # "polling"
               PROVE  worker[v].job \in Jobs \ {j}
    OBVIOUS
  <2>1. worker[v].job \in Jobs /\ worker[v].pc \in {"claiming", "handling", "worked"}
    BY Elsewhere
  <2>2. CASE worker[v].pc = "claiming"
    BY <1>3, <2>1, <2>2 DEF Locked
  <2>3. CASE worker[v].pc \in Running
    BY <1>3, <2>1, <2>3 DEF WorkersConsistent
  <2> QED
    BY <2>1, <2>2, <2>3 DEF Running
<1>5. [pc |-> "claiming", job |-> j, read |-> attempts[j]] \in Busy
  BY DEF Busy, TypeOK
<1>6. TypeOK'
  BY <1>1, <1>2, <1>5 DEF TypeOK
<1>7. /\ worker'[w] = [pc |-> "claiming", job |-> j, read |-> attempts[j]]
      /\ \A v \in Workers \ {w} : worker'[v] = worker[v]
  BY <1>1 DEF TypeOK
<1>8. ClaimedOnce' /\ WorkersConsistent'
  BY <1>2, <1>3, <1>4, <1>7 DEF ClaimedOnce, WorkersConsistent, WorkIsCounted, Running
<1>9. WorkIsCounted' /\ RowsConsistent'
  BY <1>2 DEF WorkIsCounted, RowsConsistent
<1> QED
  BY <1>6, <1>8, <1>9

\* A claim counts an attempt that was left.
LEMMA ClaimStep ==
    ASSUME IInv, NEW w \in Workers, Claim(w)
    PROVE  IInv'
<1> USE DEF IInv
<1> DEFINE j == worker[w].job
<1>1. /\ worker[w].pc = "claiming"
      /\ status' = [status EXCEPT ![j] = "running"]
      /\ attempts' = [attempts EXCEPT ![j] = worker[w].read + 1]
      /\ worker' = [worker EXCEPT ![w].pc = "handling"]
      /\ UNCHANGED <<enqueued_at, caller, effects, lost, crashes>>
  BY DEF Claim
<1>2. /\ j \in Jobs /\ worker[w].read \in Tries
      /\ \A v \in Workers \ {w} : worker[v].pc # "polling" => worker[v].job \in Jobs \ {j}
  BY <1>1, Elsewhere
<1>3. status[j] = "queued" /\ attempts[j] = worker[w].read /\ effects[j] <= worker[w].read
  BY <1>1 DEF WorkersConsistent
<1>4. worker[w].read < MaxAttempts /\ caller[j] = "committed"
  BY <1>2, <1>3 DEF RowsConsistent
<1>5. worker[w].read + 1 \in Tries
  BY <1>2, <1>4, JobAssumption DEF Tries
<1>6. /\ worker' \in [Workers -> Busy \cup {Polling}]
      /\ worker'[w].pc = "handling" /\ worker'[w].job = j
      /\ worker'[w].read = worker[w].read
      /\ \A v \in Workers \ {w} : worker'[v] = worker[v]
  BY <1>1, PhaseType
<1>7. TypeOK'
  BY <1>1, <1>2, <1>5, <1>6 DEF TypeOK, S!JobState
<1>8. /\ status'[j] = "running" /\ attempts'[j] = worker[w].read + 1
      /\ \A k \in Jobs \ {j} : status'[k] = status[k] /\ attempts'[k] = attempts[k]
  BY <1>1, <1>2 DEF TypeOK
<1> HIDE DEF j
<1>9. ClaimedOnce'
  BY <1>2, <1>6, <1>8 DEF ClaimedOnce, Running
<1>10. WorkersConsistent'
  <2> SUFFICES ASSUME NEW v \in Workers
               PROVE  WorkersConsistent!(v)'
    BY DEF WorkersConsistent
  <2>1. CASE v = w
    BY <1>1, <1>3, <1>6, <1>8, <2>1 DEF Running
  <2>2. CASE v # w /\ worker[v].pc # "polling"
    BY <1>1, <1>2, <1>6, <1>8, <2>2 DEF WorkersConsistent
  <2>3. CASE v # w /\ worker[v].pc = "polling"
    BY <1>6, <2>3 DEF Running
  <2> QED
    BY <2>1, <2>2, <2>3
<1>11. WorkIsCounted'
  BY <1>1, <1>2, <1>3, <1>8 DEF WorkIsCounted, TypeOK, Tries
<1>12. RowsConsistent'
  BY <1>1, <1>4, <1>8 DEF RowsConsistent
<1> QED
  BY <1>7, <1>9, <1>10, <1>11, <1>12

\* The handler's work is covered by the attempt that the claim counted.
LEMMA WorkStep ==
    ASSUME IInv, NEW w \in Workers, Work(w)
    PROVE  IInv'
<1> USE DEF IInv
<1> DEFINE j == worker[w].job
<1>1. /\ worker[w].pc = "handling" /\ j \in Handled
      /\ effects' = [effects EXCEPT ![j] = @ + 1]
      /\ worker' = [worker EXCEPT ![w].pc = "worked"]
      /\ UNCHANGED <<status, attempts, enqueued_at, caller, lost, crashes>>
  BY DEF Work
<1>2. /\ j \in Jobs /\ worker[w].read \in Tries
      /\ \A v \in Workers \ {w} : worker[v].pc # "polling" => worker[v].job \in Jobs \ {j}
  BY <1>1, Elsewhere
<1>3. status[j] = "running" /\ attempts[j] = worker[w].read + 1 /\ effects[j] <= worker[w].read
  BY <1>1 DEF WorkersConsistent, Running
<1>4. /\ worker' \in [Workers -> Busy \cup {Polling}]
      /\ worker'[w].pc = "worked" /\ worker'[w].job = j
      /\ worker'[w].read = worker[w].read
      /\ \A v \in Workers \ {w} : worker'[v] = worker[v]
  BY <1>1, PhaseType
<1>5. effects[j] + 1 \in Tries /\ effects[j] + 1 > 0 /\ effects[j] + 1 <= attempts[j]
  BY <1>2, <1>3, JobAssumption DEF TypeOK, Tries
<1>6. /\ effects'[j] = effects[j] + 1
      /\ \A k \in Jobs \ {j} : effects'[k] = effects[k]
  BY <1>1, <1>2 DEF TypeOK
<1>7. TypeOK'
  BY <1>1, <1>4, <1>5 DEF TypeOK
<1> HIDE DEF j
<1>8. ClaimedOnce'
  BY <1>1, <1>2, <1>3, <1>4 DEF ClaimedOnce
<1>9. WorkersConsistent'
  <2> SUFFICES ASSUME NEW v \in Workers
               PROVE  WorkersConsistent!(v)'
    BY DEF WorkersConsistent
  <2>1. CASE v = w
    BY <1>1, <1>3, <1>4, <1>5, <1>6, <2>1 DEF Running
  <2>2. CASE v # w /\ worker[v].pc # "polling"
    BY <1>1, <1>2, <1>4, <1>6, <2>2 DEF WorkersConsistent
  <2>3. CASE v # w /\ worker[v].pc = "polling"
    BY <1>4, <2>3 DEF Running
  <2> QED
    BY <2>1, <2>2, <2>3
<1>10. WorkIsCounted'
  BY <1>1, <1>5, <1>6 DEF WorkIsCounted
<1>11. RowsConsistent'
  BY <1>1 DEF RowsConsistent
<1> QED
  BY <1>7, <1>8, <1>9, <1>10, <1>11

\* An outcome frees the job: it may go back to the queue while tries are left,
\* and counts as a success only once its work is committed.
LEMMA FinishStep ==
    ASSUME IInv, NEW w \in Workers, worker[w].pc \in Running,
           NEW outcome \in {"queued", "succeeded", "failed"},
           outcome = "queued" => attempts[worker[w].job] < MaxAttempts,
           outcome = "succeeded" => effects[worker[w].job] > 0,
           Finish(w, outcome)
    PROVE  IInv'
<1> USE DEF IInv
<1> DEFINE j == worker[w].job
<1>1. /\ status' = [status EXCEPT ![j] = outcome]
      /\ worker' = [worker EXCEPT ![w] = Polling]
      /\ UNCHANGED <<attempts, enqueued_at, caller, effects, lost, crashes>>
  BY DEF Finish
<1>2. /\ j \in Jobs
      /\ \A v \in Workers \ {w} : worker[v].pc # "polling" => worker[v].job \in Jobs \ {j}
  BY Elsewhere DEF Running
<1>3. status[j] = "running" /\ caller[j] = "committed"
  BY <1>2 DEF WorkersConsistent, RowsConsistent
<1>4. TypeOK'
  BY <1>1, <1>2 DEF TypeOK, S!JobState
<1>5. /\ worker'[w].pc = "polling"
      /\ \A v \in Workers \ {w} : worker'[v] = worker[v]
  BY <1>1 DEF TypeOK, Polling
<1>6. /\ status'[j] = outcome
      /\ \A k \in Jobs \ {j} : status'[k] = status[k]
  BY <1>1, <1>2 DEF TypeOK
<1> HIDE DEF j
<1>7. ClaimedOnce'
  BY <1>2, <1>5, <1>6 DEF ClaimedOnce, Running
<1>8. WorkersConsistent'
  BY <1>1, <1>2, <1>5, <1>6 DEF WorkersConsistent, Running
<1>9. WorkIsCounted'
  BY <1>1, <1>6, j = worker[w].job DEF WorkIsCounted, j
<1>10. RowsConsistent'
  BY <1>1, <1>3, <1>6 DEF RowsConsistent, j
<1> QED
  BY <1>4, <1>7, <1>8, <1>9, <1>10

\* A worker that dies lets go of its job, and changes no row.
LEMMA CrashStep ==
    ASSUME IInv, NEW w \in Workers, Crash(w)
    PROVE  IInv'
<1> USE DEF IInv
<1>1. /\ worker[w].pc # "polling" /\ crashes < MaxCrashes
      /\ worker' = [worker EXCEPT ![w] = Polling]
      /\ lost' = IF worker[w].pc \in Running THEN lost \cup {worker[w].job} ELSE lost
      /\ crashes' = crashes + 1
      /\ UNCHANGED <<status, attempts, enqueued_at, caller, effects>>
  BY DEF Crash
<1>2. worker[w].job \in Jobs
  BY <1>1, Elsewhere
<1>3. TypeOK'
  BY <1>1, <1>2, JobAssumption DEF TypeOK
<1>4. /\ worker'[w].pc = "polling"
      /\ \A v \in Workers \ {w} : worker'[v] = worker[v]
  BY <1>1 DEF TypeOK, Polling
<1>5. ClaimedOnce' /\ WorkersConsistent'
  BY <1>1, <1>4 DEF ClaimedOnce, WorkersConsistent, Running
<1>6. WorkIsCounted' /\ RowsConsistent'
  BY <1>1 DEF WorkIsCounted, RowsConsistent
<1> QED
  BY <1>3, <1>5, <1>6

\* NoHandler, Succeed and Raise are outcomes of that kind.
LEMMA OutcomeStep ==
    ASSUME IInv, NEW w \in Workers, NoHandler(w) \/ Succeed(w) \/ Raise(w)
    PROVE  IInv'
<1>1. CASE NoHandler(w)
  BY <1>1, FinishStep DEF NoHandler, Running
<1>2. CASE Succeed(w)
  <2>1. worker[w].pc = "worked" /\ Finish(w, "succeeded")
    BY <1>2 DEF Succeed
  <2>2. effects[worker[w].job] > 0
    BY <2>1 DEF IInv, WorkersConsistent
  <2> QED
    BY <2>1, <2>2, FinishStep DEF Running
<1>3. CASE Raise(w)
  <2>1. worker[w].pc \in Running /\ Finish(w, Outcome(worker[w].read))
    BY <1>3 DEF Raise
  <2>2. attempts[worker[w].job] = worker[w].read + 1 /\ worker[w].read \in Tries
    BY <2>1, Elsewhere DEF IInv, WorkersConsistent, Running
  <2>3. CASE worker[w].read + 1 >= MaxAttempts
    BY <2>1, <2>3, FinishStep DEF Outcome
  <2>4. CASE ~(worker[w].read + 1 >= MaxAttempts)
    <3>1. attempts[worker[w].job] < MaxAttempts
      BY <2>2, <2>4, JobAssumption DEF Tries
    <3> QED
      BY <2>1, <2>4, <3>1, FinishStep DEF Outcome
  <2> QED
    BY <2>3, <2>4
<1> QED
  BY <1>1, <1>2, <1>3

LEMMA InvariantStep == IInv /\ [Next]_vars => IInv'
<1> SUFFICES ASSUME IInv, [Next]_vars
             PROVE  IInv'
  OBVIOUS
<1>1. ASSUME NEW j \in Jobs, enqueue(j) \/ CommitEnqueue(j) \/ DropEnqueue(j)
      PROVE  IInv'
  BY <1>1, EnqueueStep
<1>2. ASSUME NEW w \in Workers, process_once(w) \/ Crash(w)
      PROVE  IInv'
  BY <1>2, SelectStep, ClaimStep, WorkStep, OutcomeStep, CrashStep DEF process_once
<1>3. CASE UNCHANGED vars
  BY <1>3 DEF vars, IInv, TypeOK, ClaimedOnce, WorkIsCounted, WorkersConsistent, RowsConsistent
<1> QED
  BY <1>1, <1>2, <1>3 DEF Next

-----------------------------------------------------------------------------
\* The invariant holds in every reachable state.
THEOREM InductiveInvariant == Spec => []IInv
BY InitInv, InvariantStep, PTL DEF Spec

\* Every variable of the queue keeps its type; in particular, no job is ever
\* tried more than MaxAttempts times.
THEOREM TypeCorrect == Spec => []TypeOK
<1>1. IInv => TypeOK
  BY DEF IInv
<1> QED
  BY <1>1, InductiveInvariant, PTL

\* No two worker processes ever hold the same job, and the rows they run are
\* out of the queue.
THEOREM ClaimsExclusive == Spec => []ClaimedOnce
<1>1. IInv => ClaimedOnce
  BY DEF IInv
<1> QED
  BY <1>1, InductiveInvariant, PTL

\* Whatever fails or dies, and whenever: a job's work is done at most once per
\* counted attempt, and a job that succeeded did it.
THEOREM WorkCounted == Spec => []WorkIsCounted
<1>1. IInv => WorkIsCounted
  BY DEF IInv
<1> QED
  BY <1>1, InductiveInvariant, PTL

-----------------------------------------------------------------------------
\* Every step of a worker is a step of JobStatus, or invisible in it.
LEMMA WorkerRefines ==
    ASSUME IInv, NEW w \in Workers, process_once(w) \/ Crash(w)
    PROVE  [S!Next]_<<status, attempts>>
<1> DEFINE j == worker[w].job
<1>1. worker[w].pc # "polling" => j \in Jobs /\ worker[w].read \in Tries
  BY Elsewhere
<1>2. worker[w].pc \in Running => status[j] = "running" /\ attempts[j] = worker[w].read + 1
  BY DEF IInv, WorkersConsistent
<1>3. CASE Select(w) \/ Work(w) \/ Crash(w)
  BY <1>3 DEF Select, Work, Crash
<1>4. CASE Claim(w)
  <2>1. status[j] = "queued" /\ attempts[j] = worker[w].read
    BY <1>4 DEF Claim, IInv, WorkersConsistent
  <2>2. j \in Jobs /\ attempts[j] < MaxAttempts
    BY <1>1, <1>4, <2>1 DEF Claim, IInv, RowsConsistent
  <2>3. S!Claimed(j)
    BY <1>4, <2>1, <2>2 DEF Claim, S!Claimed, S!Move
  <2> QED
    BY <2>2, <2>3 DEF S!Next
<1>5. CASE NoHandler(w)
  <2>1. j \in Jobs /\ S!GivenUp(j)
    BY <1>1, <1>2, <1>5 DEF NoHandler, Finish, Running, S!GivenUp, S!Move
  <2> QED
    BY <2>1 DEF S!Next
<1>6. CASE Succeed(w)
  <2>1. j \in Handled
    BY <1>6 DEF Succeed, IInv, WorkersConsistent
  <2>2. j \in Jobs /\ S!Succeeded(j)
    BY <1>1, <1>2, <1>6, <2>1 DEF Succeed, Finish, Running, S!Succeeded, S!Move
  <2> QED
    BY <2>2 DEF S!Next
<1>7. CASE Raise(w)
  <2>1. j \in Jobs /\ worker[w].read \in Tries /\ status[j] = "running"
        /\ attempts[j] = worker[w].read + 1 /\ attempts[j] \in Tries
    BY <1>1, <1>2, <1>7 DEF Raise, Running, IInv, TypeOK
  <2>2. CASE worker[w].read + 1 >= MaxAttempts
    <3>1. attempts[j] = MaxAttempts
      BY <2>1, <2>2, JobAssumption DEF Tries
    <3>2. S!GivenUp(j)
      BY <1>7, <2>1, <2>2, <3>1 DEF Raise, Finish, Outcome, S!GivenUp, S!Move
    <3> QED
      BY <2>1, <3>2 DEF S!Next
  <2>3. CASE ~(worker[w].read + 1 >= MaxAttempts)
    <3>1. attempts[j] < MaxAttempts
      BY <2>1, <2>3, JobAssumption DEF Tries
    <3>2. S!Retried(j)
      BY <1>7, <2>1, <2>3, <3>1 DEF Raise, Finish, Outcome, S!Retried, S!Move
    <3> QED
      BY <2>1, <3>2 DEF S!Next
  <2> QED
    BY <2>2, <2>3
<1> QED
  BY <1>3, <1>4, <1>5, <1>6, <1>7 DEF process_once

\* The queue, with its workers, retries and crashes, implements JobStatus.
THEOREM Implements == Spec => ImplementsJobStatus
<1>1. Init => S!Init
  BY DEF Init
<1>2. ASSUME IInv, [Next]_vars
      PROVE  [S!Next]_<<status, attempts>>
  <2>1. ASSUME NEW j \in Jobs, enqueue(j) \/ DropEnqueue(j)
        PROVE  [S!Next]_<<status, attempts>>
    BY <2>1 DEF enqueue, DropEnqueue
  <2>2. ASSUME NEW j \in Jobs, CommitEnqueue(j)
        PROVE  [S!Next]_<<status, attempts>>
    <3>1. status[j] = "absent"
      BY <1>2, <2>2 DEF IInv, RowsConsistent, CommitEnqueue
    <3>2. S!Enqueued(j)
      BY <2>2, <3>1 DEF CommitEnqueue, S!Enqueued, S!Move
    <3> QED
      BY <3>2 DEF S!Next
  <2>3. CASE UNCHANGED vars
    BY <2>3 DEF vars
  <2> QED
    BY <1>2, <2>1, <2>2, <2>3, WorkerRefines DEF Next
<1> QED
  BY <1>1, <1>2, InductiveInvariant, PTL DEF Spec, ImplementsJobStatus, S!Spec
=============================================================================
