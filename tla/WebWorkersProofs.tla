-------------------------- MODULE WebWorkersProofs --------------------------
(***************************************************************************)
(* Theorems of WebWorkers for any number of projects, workers, runs,       *)
(* faults and deaths.                                                      *)
(***************************************************************************)
EXTENDS WebWorkers, WorkflowRunnerProofs

\* Admission and its rollback, one transaction per row.
LEMMA AdmissionKeepsTypes ==
    ASSUME TypeOK, NEW p \in Project,
           \/ CreateJob(p) \/ ApiStep(p) \/ EnqueueFails(p) \/ AdmissionFaults(p)
    PROVE  TypeOK'
<1> USE DEF SetApi, Writers
<1>1. CASE CreateJob(p)
  <2>1. admitted[p] + 1 \in 0..MaxRuns
    BY <1>1, RunnerAssumption DEF CreateJob, TypeOK, RunnerTypeOK
  <2>2. QED BY <1>1, <2>1 DEF CreateJob, TypeOK, RunnerTypeOK, webVars, ActiveStatuses
<1>2. CASE ApiStep(p)
  <2>1. CASE (ApiLeave(p) \/ ApiReturn(p)) /\ UNCHANGED webVars
    BY <2>1, ApiKeepsTypes DEF TypeOK, webVars
  <2>2. CASE MarkBusy(p)
    BY <2>2 DEF MarkBusy, TypeOK, RunnerTypeOK, webVars, ProjectStatuses, RUNNING_PROJECT_STATUSES
  <2>3. CASE Enqueue(p)
    BY <2>3 DEF Enqueue, TypeOK, RunnerTypeOK, catalog
  <2>4. CASE UndoJob(p)
    BY <2>4 DEF UndoJob, TypeOK, RunnerTypeOK, webVars, TerminalStatuses
  <2>5. CASE UndoProject(p)
    BY <2>5 DEF UndoProject, Release, Nobody, Holders, IdleApi, TypeOK, RunnerTypeOK, webVars,
                ProjectStatuses
  <2>6. QED BY <1>2, <2>1, <2>2, <2>3, <2>4, <2>5 DEF ApiStep
<1>3. CASE EnqueueFails(p)
  BY <1>3, FaultKeepsBound DEF EnqueueFails, TypeOK, RunnerTypeOK, catalog
<1>4. CASE AdmissionFaults(p)
  BY <1>4, FaultKeepsBound
     DEF AdmissionFaults, Release, Nobody, Holders, IdleApi, TypeOK, RunnerTypeOK, catalog,
         webVars, ProjectStatuses
<1>5. QED BY <1>1, <1>2, <1>3, <1>4

\* The queue delivers, forgets and loses runs; tasks are cancelled; processes die.
LEMMA QueueKeepsTypes ==
    ASSUME TypeOK,
           \/ \E w \in Worker, r \in Run : Take(w, r) \/ Redeliver(w, r)
           \/ \E r \in Run : Forget(r)
           \/ LoseQueue
           \/ \E w \in Worker : CancelTask(w) \/ WorkerDies(w)
           \/ \E p \in Project : ApiDies(p)
    PROVE  TypeOK'
<1>1. ASSUME NEW w \in Worker, NEW r \in Run, Take(w, r) \/ Redeliver(w, r)
      PROVE  TypeOK'
  <2>1. thread' \in [Worker -> Threads]
    BY <1>1, DeliverKeepsThreads DEF Take, Redeliver, TypeOK, RunnerTypeOK
  <2>2. faults' \in 0..MaxFaults
    BY <1>1, FaultKeepsBound DEF Take, Redeliver, TypeOK, RunnerTypeOK
  <2>3. QED
    BY <1>1, <2>1, <2>2 DEF Take, Redeliver, Deliver, TypeOK, RunnerTypeOK, catalog, webVars
<1>2. ASSUME NEW r \in Run, Forget(r) PROVE TypeOK'
  BY <1>2 DEF Forget, TypeOK, RunnerTypeOK, runnerVars, catalog
<1>3. CASE LoseQueue
  BY <1>3, FaultKeepsBound DEF LoseQueue, TypeOK, RunnerTypeOK, catalog
<1>4. ASSUME NEW w \in Worker, CancelTask(w) PROVE TypeOK'
  BY <1>4, CancelledIsThread
     DEF CancelTask, SetThread, TypeOK, RunnerTypeOK, catalog, webVars
<1>5. ASSUME NEW w \in Worker, WorkerDies(w) PROVE TypeOK'
  <2>1. crashes' \in 0..MaxCrashes
    BY <1>5, WebAssumption DEF WorkerDies, TypeOK
  <2>2. RunnerTypeOK'
    BY <1>5, DieKeepsTypes, FaultKeepsBound DEF WorkerDies, TypeOK, RunnerTypeOK
  <2>3. QED BY <1>5, <2>1, <2>2 DEF WorkerDies, TypeOK
<1>6. ASSUME NEW p \in Project, ApiDies(p) PROVE TypeOK'
  <2>1. crashes' \in 0..MaxCrashes
    BY <1>6, WebAssumption DEF ApiDies, TypeOK
  <2>2. RunnerTypeOK'
    BY <1>6, DieKeepsTypes, FaultKeepsBound DEF ApiDies, TypeOK, RunnerTypeOK
  <2>3. QED BY <1>6, <2>1, <2>2 DEF ApiDies, TypeOK
<1>7. QED BY <1>1, <1>2, <1>3, <1>4, <1>5, <1>6

\* The recovery loop.
LEMMA RecoveryKeepsTypes ==
    ASSUME TypeOK, NEW i \in Interrupter,
           \/ \E r \in Run : Inspect(i, r)
           \/ RecoveryStep(i)
           \/ InterruptFaults(i) /\ UNCHANGED webVars
    PROVE  TypeOK'
<1>1. CASE \/ \E r \in Run : Inspect(i, r)
           \/ /\ InterruptLock(i) \/ InterruptBusy(i) \/ InterruptProject(i) \/ InterruptFaults(i)
              /\ UNCHANGED webVars
  BY <1>1, InterruptKeepsTypes DEF Inspect, TypeOK, webVars
<1>2. CASE Confirm(i)
  <2>1. runLock' \in [Project -> Holders]
    BY <1>2 DEF Confirm, Release, Nobody, Holders, TypeOK, RunnerTypeOK
  <2>2. interrupt' \in [Interrupter -> Interrupts]
    BY <1>2, MovesKeepInterrupts DEF Confirm, InterruptLockedPcs, TypeOK, RunnerTypeOK
  <2>3. QED BY <1>2, <2>1, <2>2 DEF Confirm, TypeOK, RunnerTypeOK, catalog, webVars
<1>3. CASE Overwrite(i)
  BY <1>3, MovesKeepInterrupts
     DEF Overwrite, InterruptLockedPcs, TerminalStatuses, TypeOK, RunnerTypeOK, webVars
<1>4. QED BY <1>1, <1>2, <1>3 DEF RecoveryStep

\* Every variable keeps its type in every behaviour of the Web platform.
THEOREM TypeCorrect == Spec => []TypeOK
<1>1. Init => TypeOK
  BY RunnerAssumption, WebAssumption
     DEF Init, RunnerInit, TypeOK, RunnerTypeOK, ProjectStatuses, Holders, Nobody, IdleApi,
         Writers, Threads, Interrupts
<1>2. TypeOK /\ [Next]_vars => TypeOK'
  <2> SUFFICES ASSUME TypeOK, [Next]_vars PROVE TypeOK'
    OBVIOUS
  <2>1. ASSUME NEW p \in Project, (ApiEnter(p) \/ RequestPause(p)) /\ UNCHANGED webVars
        PROVE  TypeOK'
    BY <2>1, ApiKeepsTypes DEF TypeOK, webVars
  <2>2. ASSUME NEW p \in Project,
               CreateJob(p) \/ ApiStep(p) \/ EnqueueFails(p) \/ AdmissionFaults(p)
        PROVE  TypeOK'
    BY <2>2, AdmissionKeepsTypes
  <2>3. CASE \/ \E w \in Worker, r \in Run : Take(w, r) \/ Redeliver(w, r)
             \/ \E r \in Run : Forget(r)
             \/ LoseQueue
             \/ \E w \in Worker : CancelTask(w) \/ WorkerDies(w)
             \/ \E p \in Project : ApiDies(p)
    BY <2>3, QueueKeepsTypes
  <2>4. ASSUME NEW w \in Worker,
               (ThreadStep(w) \/ ThreadFault(w) \/ MonitorPause(w)) /\ UNCHANGED webVars
        PROVE  TypeOK'
    BY <2>4, ThreadStepKeepsTypes, ThreadFaultKeepsTypes DEF TypeOK, webVars
  <2>5. ASSUME NEW i \in Interrupter,
               \/ \E r \in Run : Inspect(i, r)
               \/ RecoveryStep(i)
               \/ InterruptFaults(i) /\ UNCHANGED webVars
        PROVE  TypeOK'
    BY <2>5, RecoveryKeepsTypes
  <2>6. CASE UNCHANGED vars
    BY <2>6 DEF vars, runnerVars, webVars, catalog, TypeOK, RunnerTypeOK
  <2>7. QED BY <2>1, <2>2, <2>3, <2>4, <2>5, <2>6 DEF Next
<1>3. QED BY <1>1, <1>2, PTL DEF Spec

-----------------------------------------------------------------------------
(* Mutual exclusion, by the argument of the Desktop runtime: the lock is    *)
(* exact, so an admission finds nobody inside and recovery confirms nobody. *)

LockInv == LockMatchesHolder /\ OnlyLatestRunWorks

\* Admission and its rollback.
LEMMA AdmissionKeepsLocks ==
    ASSUME TypeOK, LockInv, NEW p \in Project,
           \/ (ApiEnter(p) \/ RequestPause(p)) /\ UNCHANGED webVars
           \/ CreateJob(p) \/ ApiStep(p) \/ EnqueueFails(p) \/ AdmissionFaults(p)
    PROVE  LockInv'
<1> USE DEF LockInv, TypeOK
<1>1. CASE CreateJob(p)
  <2>1. LockMatchesHolder'
    BY <1>1, ApiMoves DEF CreateJob
  <2>2. \A w \in Worker : thread[w].pc \in DomainPcs => ProjectOf(thread[w].run) # p
    BY <1>1, HoldersDiffer
       DEF CreateJob, LockMatchesHolder, ThreadInside, DomainPcs, LockedPcs
  <2>3. OnlyLatestRunWorks'
    BY <1>1, <2>2, BusyHasProject
       DEF CreateJob, OnlyLatestRunWorks, IsLatest, ProjectOf, RunnerTypeOK
  <2>4. QED BY <2>1, <2>3
<1>2. CASE ~CreateJob(p)
  <2>1. UNCHANGED <<admitted, thread>>
    BY <1>2 DEF ApiEnter, RequestPause, ApiStep, ApiLeave, ApiReturn, MarkBusy, Enqueue, UndoJob,
                UndoProject, EnqueueFails, AdmissionFaults, catalog
  <2>2. OnlyLatestRunWorks'
    BY <2>1 DEF OnlyLatestRunWorks, IsLatest
  <2>3. CASE ApiEnter(p) \/ RequestPause(p) \/ ApiLeave(p) \/ ApiReturn(p)
    BY <2>2, <2>3, ApiKeepsLocks
  <2>4. CASE MarkBusy(p) \/ Enqueue(p) \/ EnqueueFails(p) \/ UndoJob(p)
    BY <2>2, <2>4, ApiMoves DEF MarkBusy, Enqueue, EnqueueFails, UndoJob
  <2>5. CASE UndoProject(p) \/ AdmissionFaults(p)
    BY <2>2, <2>5, ApiReleases DEF UndoProject, AdmissionFaults
  <2>6. QED BY <1>2, <2>3, <2>4, <2>5 DEF ApiStep
<1>3. QED BY <1>1, <1>2

\* Delivery and cancellation move a thread outside the lock, or leave it where it is.
LEMMA QueueKeepsLocks ==
    ASSUME TypeOK, LockInv,
           \/ \E w \in Worker, r \in Run : Take(w, r) \/ Redeliver(w, r)
           \/ \E r \in Run : Forget(r)
           \/ LoseQueue
           \/ \E w \in Worker : CancelTask(w)
    PROVE  LockInv'
<1> USE DEF LockInv, TypeOK
<1>1. ASSUME NEW w \in Worker, NEW r \in Run, Take(w, r) \/ Redeliver(w, r)
      PROVE  LockInv'
  BY <1>1, ThreadMoves, LatestUnlessEntered
     DEF Take, Redeliver, Deliver, catalog, LockedPcs, DomainPcs
<1>2. CASE LoseQueue \/ \E r \in Run : Forget(r)
  BY <1>2 DEF LoseQueue, Forget, runnerVars, catalog, LockMatchesHolder, ThreadInside,
              InterruptInside, OnlyLatestRunWorks, IsLatest
<1>3. ASSUME NEW w \in Worker, CancelTask(w) PROVE LockInv'
  <2>1. /\ Cancelled(thread[w]).pc \in LockedPcs <=> thread[w].pc \in LockedPcs
        /\ Cancelled(thread[w]).pc \in DomainPcs <=> thread[w].pc \in DomainPcs
        /\ Cancelled(thread[w]).pc \in LockedPcs => Cancelled(thread[w]).run = thread[w].run
    BY DEF Cancelled, Stopped, IdleThread, LockedPcs, DomainPcs
  <2>2. LockMatchesHolder'
    BY <1>3, <2>1, ThreadMoves DEF CancelTask
  <2>3. OnlyLatestRunWorks'
    BY <1>3, <2>1, LatestUnlessEntered DEF CancelTask, catalog, LockedPcs, DomainPcs
  <2>4. QED BY <2>2, <2>3
<1>4. QED BY <1>1, <1>2, <1>3

\* A process that dies leaves every locked region.
LEMMA DeathKeepsLocks ==
    ASSUME TypeOK, LockInv,
           (\E w \in Worker : WorkerDies(w)) \/ (\E p \in Project : ApiDies(p))
    PROVE  LockInv'
<1>1. PICK W \in SUBSET Worker, I \in SUBSET Interrupter, P \in SUBSET Project :
         Die(W, I, P) /\ UNCHANGED catalog
  <2>1. CASE \E w \in Worker : WorkerDies(w)
    <3>1. PICK w \in Worker : WorkerDies(w) BY <2>1
    <3>2. Die({w}, {w}, {}) /\ UNCHANGED catalog BY <3>1 DEF WorkerDies
    <3>3. QED BY <3>2, WebAssumption
  <2>2. CASE \E p \in Project : ApiDies(p)
    <3>1. PICK p \in Project : ApiDies(p) BY <2>2
    <3>2. Die({}, {}, {p}) /\ UNCHANGED catalog BY <3>1 DEF ApiDies
    <3>3. QED BY <3>2
  <2>3. QED BY <2>1, <2>2
<1>2. LockMatchesHolder'
  BY <1>1, DieKeepsLocks DEF LockInv, TypeOK
<1>3. OnlyLatestRunWorks'
  BY <1>1 DEF Die, LockInv, OnlyLatestRunWorks, IdleThread, DomainPcs, IsLatest, catalog
<1>4. QED BY <1>2, <1>3 DEF LockInv

\* The recovery loop.
LEMMA RecoveryKeepsLocks ==
    ASSUME TypeOK, LockInv, NEW i \in Interrupter,
           \/ \E r \in Run : Inspect(i, r)
           \/ RecoveryStep(i)
           \/ InterruptFaults(i) /\ UNCHANGED webVars
    PROVE  LockInv'
<1> USE DEF LockInv, TypeOK
<1>1. OnlyLatestRunWorks'
  <2>1. UNCHANGED <<admitted, thread>>
    BY DEF Inspect, RecoveryStep, InterruptLock, InterruptBusy, Confirm, Overwrite,
           InterruptProject, InterruptFaults, InterruptRead, catalog
  <2>2. QED BY <2>1 DEF OnlyLatestRunWorks, IsLatest
<1>2. CASE \/ \E r \in Run : Inspect(i, r)
           \/ InterruptLock(i) \/ InterruptBusy(i) \/ InterruptProject(i) \/ InterruptFaults(i)
  BY <1>1, <1>2, InterruptKeepsLocks DEF Inspect
<1>3. CASE Confirm(i)
  BY <1>1, <1>3, InterruptMoves, InterruptReleases
     DEF Confirm, InterruptGoto, InterruptLockedPcs, IdleInterrupt
<1>4. CASE Overwrite(i)
  BY <1>1, <1>4, InterruptMoves DEF Overwrite, InterruptGoto, InterruptLockedPcs
<1>5. QED BY <1>2, <1>3, <1>4 DEF RecoveryStep

\* The run lock is held by exactly the processes inside its locked region, and a
\* run inside it is the latest of its project, in every behaviour.
THEOREM LocksCorrect == Spec => [](LockMatchesHolder /\ OnlyLatestRunWorks)
<1>1. Init => LockInv
  BY DEF Init, RunnerInit, LockInv, LockMatchesHolder, OnlyLatestRunWorks, ThreadInside,
         InterruptInside, IdleApi, IdleThread, IdleInterrupt, LockedPcs, InterruptLockedPcs,
         DomainPcs, ByApi, ByThread, ByInterrupt, Nobody
<1>2. TypeOK /\ LockInv /\ [Next]_vars => LockInv'
  <2> SUFFICES ASSUME TypeOK, LockInv, [Next]_vars PROVE LockInv'
    OBVIOUS
  <2>1. ASSUME NEW p \in Project,
               \/ (ApiEnter(p) \/ RequestPause(p)) /\ UNCHANGED webVars
               \/ CreateJob(p) \/ ApiStep(p) \/ EnqueueFails(p) \/ AdmissionFaults(p)
        PROVE  LockInv'
    BY <2>1, AdmissionKeepsLocks
  <2>2. CASE \/ \E w \in Worker, r \in Run : Take(w, r) \/ Redeliver(w, r)
             \/ \E r \in Run : Forget(r)
             \/ LoseQueue
             \/ \E w \in Worker : CancelTask(w)
    BY <2>2, QueueKeepsLocks
  <2>3. CASE (\E w \in Worker : WorkerDies(w)) \/ (\E p \in Project : ApiDies(p))
    BY <2>3, DeathKeepsLocks
  <2>4. ASSUME NEW w \in Worker,
               (ThreadStep(w) \/ ThreadFault(w) \/ MonitorPause(w)) /\ UNCHANGED webVars
        PROVE  LockInv'
    BY <2>4, ThreadStepKeepsLocks, ThreadFaultKeepsLocks, ExecutionKeepsLatest
       DEF LockInv, TypeOK
  <2>5. ASSUME NEW i \in Interrupter,
               \/ \E r \in Run : Inspect(i, r)
               \/ RecoveryStep(i)
               \/ InterruptFaults(i) /\ UNCHANGED webVars
        PROVE  LockInv'
    BY <2>5, RecoveryKeepsLocks
  <2>6. CASE UNCHANGED vars
    BY <2>6 DEF vars, runnerVars, catalog, LockInv, LockMatchesHolder, ThreadInside,
                InterruptInside, OnlyLatestRunWorks, IsLatest
  <2>7. QED BY <2>1, <2>2, <2>3, <2>4, <2>5, <2>6 DEF Next
<1>3. LockInv => LockMatchesHolder /\ OnlyLatestRunWorks
  BY DEF LockInv
<1>4. QED BY <1>1, <1>2, <1>3, TypeCorrect, PTL DEF Spec

\* No two workers do domain work for one project at a time, whatever the queue
\* delivers and loses and whichever process dies.
THEOREM WorkIsExclusive == Spec => []OneWriterPerProject
<1>1. TypeOK /\ LockMatchesHolder => OneWriterPerProject
  BY LockExcludes DEF TypeOK
<1>2. QED BY <1>1, TypeCorrect, LocksCorrect, PTL

\* Recovery, which has the run lock when it confirms, never gives up a run whose
\* worker is between its claim and the end of its operation.
THEOREM WorkSurvivesRecovery == Spec => []WorkIsNeverDeclaredLost
<1>1. TypeOK /\ LockMatchesHolder => WorkIsNeverDeclaredLost
  <2> SUFFICES ASSUME TypeOK, LockMatchesHolder, NEW w \in Worker, NEW i \in Interrupter,
                      thread[w].pc \in DomainPcs, interrupt[i].pc \in {"confirmed", "marked"},
                      interrupt[i].run = thread[w].run
               PROVE  FALSE
    BY DEF WorkIsNeverDeclaredLost
  <2>1. ProjectOf(thread[w].run) \in Project
    BY BusyHasProject DEF DomainPcs, TypeOK
  <2>2. ByThread(w) = ByInterrupt(i)
    BY <2>1 DEF LockMatchesHolder, ThreadInside, InterruptInside, DomainPcs, LockedPcs,
                InterruptLockedPcs
  <2>3. QED BY <2>2, HoldersDiffer
<1>2. QED BY <1>1, TypeCorrect, LocksCorrect, PTL

\* What a worker works on is the latest run of its project (execute's identity check).
THEOREM LatestWorks == Spec => []OnlyLatestRunWorks
<1>1. LockMatchesHolder /\ OnlyLatestRunWorks => OnlyLatestRunWorks
  OBVIOUS
<1>2. QED BY <1>1, LocksCorrect, PTL

-----------------------------------------------------------------------------
(* The Web platform implements RunOwnership.                               *)

\* Whoever knows a run, knows one that has a row.
RowsKnown ==
    \A r \in Run : jobStatus[r] = "absent" =>
        /\ redis[r] = "absent"
        /\ \A w \in Worker : thread[w].pc # "idle" => thread[w].run # r
        /\ \A i \in Interrupter : interrupt[i].pc # "idle" => interrupt[i].run # r

RowsInv == RowsInOrder /\ WorkShows /\ RowsKnown

\* A step that neither inserts a row nor queues one again, after which nobody knows or works
\* on a run it did not know or work on.
LEMMA KnownRowsStay ==
    ASSUME TypeOK, RowsInv, UNCHANGED admitted,
           \A r \in Run : /\ jobStatus'[r] = "absent" <=> jobStatus[r] = "absent"
                          /\ jobStatus'[r] = "queued" => jobStatus[r] = "queued",
           \A r \in Run : redis'[r] # "absent" => redis[r] # "absent" \/ jobStatus[r] # "absent",
           \A w \in Worker : thread'[w].pc # "idle" =>
              \/ thread[w].pc # "idle" /\ thread'[w].run = thread[w].run
              \/ jobStatus[thread'[w].run] # "absent",
           \A w \in Worker : thread'[w].pc = "working" =>
              \/ thread[w].pc = "working" /\ thread'[w].run = thread[w].run
              \/ jobStatus'[thread'[w].run] # "queued",
           \A i \in Interrupter : interrupt'[i].pc # "idle" =>
              \/ interrupt[i].pc # "idle" /\ interrupt'[i].run = interrupt[i].run
              \/ jobStatus[interrupt'[i].run] # "absent"
    PROVE  RowsInv'
<1>1. RowsInOrder'
  BY DEF RowsInv, RowsInOrder
<1>2. \A w \in Worker : thread[w].pc = "working" => thread[w].run \in Run
  BY BusyThread DEF TypeOK, RunnerTypeOK
<1>3. WorkShows'
  BY <1>2 DEF RowsInv, WorkShows
<1>4. RowsKnown'
  BY DEF RowsInv, RowsKnown
<1>5. QED BY <1>1, <1>3, <1>4 DEF RowsInv

\* Admission and its rollback.
LEMMA AdmissionKeepsRows ==
    ASSUME TypeOK, RowsInv, NEW p \in Project,
           \/ (ApiEnter(p) \/ RequestPause(p)) /\ UNCHANGED webVars
           \/ CreateJob(p) \/ ApiStep(p) \/ EnqueueFails(p) \/ AdmissionFaults(p)
    PROVE  RowsInv'
<1>1. CASE CreateJob(p)
  <2> DEFINE new == <<p, admitted[p] + 1>>
  <2>1. /\ admitted' = [admitted EXCEPT ![p] = admitted[p] + 1]
        /\ jobStatus' = [jobStatus EXCEPT ![new] = "queued"]
        /\ new \in Run /\ admitted[p] \in Nat
        /\ UNCHANGED <<thread, interrupt, redis>>
    BY <1>1, RunnerAssumption DEF CreateJob, webVars, Run, TypeOK, RunnerTypeOK
  <2>2. RowsInOrder'
    <3>1. ASSUME NEW r \in Run, r # new
          PROVE  /\ jobStatus'[r] = jobStatus[r]
                 /\ r[2] <= admitted'[r[1]] <=> r[2] <= admitted[r[1]]
      <4>1. jobStatus'[r] = jobStatus[r]
        BY <2>1, <3>1 DEF TypeOK, RunnerTypeOK
      <4>2. PICK q \in Project, n \in 1..MaxRuns : r = <<q, n>>
        BY DEF Run
      <4>3. r[1] = q /\ r[2] = n /\ n \in Nat
        BY <4>2, RunnerAssumption
      <4>4. CASE q # p
        BY <2>1, <4>1, <4>3, <4>4 DEF TypeOK, RunnerTypeOK
      <4>5. CASE q = p
        <5>1. n # admitted[p] + 1
          BY <3>1, <4>2, <4>5
        <5>2. admitted'[q] = admitted[p] + 1
          BY <2>1, <4>5 DEF TypeOK, RunnerTypeOK
        <5>3. QED BY <2>1, <4>1, <4>3, <4>5, <5>1, <5>2
      <4>6. QED BY <4>4, <4>5
    <3>2. jobStatus'[new] = "queued" /\ new[2] <= admitted'[new[1]]
      BY <2>1 DEF TypeOK, RunnerTypeOK
    <3>3. QED BY <3>1, <3>2 DEF RowsInv, RowsInOrder
  <2>3. jobStatus[new] = "absent"
    BY <2>1 DEF RowsInv, RowsInOrder
  <2>4. \A w \in Worker : thread[w].pc # "idle" => thread[w].run \in Run /\ thread[w].run # new
    BY <2>1, <2>3, BusyThread DEF RowsInv, RowsKnown, TypeOK, RunnerTypeOK
  <2>5. WorkShows'
    BY <2>1, <2>4 DEF RowsInv, WorkShows, TypeOK, RunnerTypeOK
  <2>6. RowsKnown'
    BY <2>1 DEF RowsInv, RowsKnown, TypeOK, RunnerTypeOK
  <2>7. QED BY <2>2, <2>5, <2>6 DEF RowsInv
<1>2. CASE ~CreateJob(p)
  <2>1. UNCHANGED <<admitted, thread, interrupt>>
    BY <1>2 DEF ApiEnter, RequestPause, ApiStep, ApiLeave, ApiReturn, MarkBusy, Enqueue, UndoJob,
                UndoProject, EnqueueFails, AdmissionFaults, catalog
  <2>2. Latest(p) \in Run => jobStatus[Latest(p)] # "absent"
    BY DEF RowsInv, RowsInOrder, Latest, TypeOK, RunnerTypeOK
  <2>3. \A r \in Run : /\ jobStatus'[r] = "absent" <=> jobStatus[r] = "absent"
                       /\ jobStatus'[r] = "queued" => jobStatus[r] = "queued"
    <3>1. CASE UndoJob(p)
      BY <2>2, <3>1 DEF UndoJob, TypeOK, RunnerTypeOK
    <3>2. CASE UNCHANGED jobStatus
      BY <3>2
    <3>3. QED BY <1>2, <3>1, <3>2 DEF ApiEnter, RequestPause, ApiStep, ApiLeave, ApiReturn,
                MarkBusy, Enqueue, UndoProject, EnqueueFails, AdmissionFaults, catalog
  <2>4. \A r \in Run : redis'[r] # "absent" => redis[r] # "absent" \/ jobStatus[r] # "absent"
    <3>1. CASE redis' = [redis EXCEPT ![Latest(p)] = "queued"]
      BY <2>2, <3>1 DEF TypeOK
    <3>2. CASE UNCHANGED redis
      BY <3>2
    <3>3. QED BY <1>2, <3>1, <3>2 DEF ApiStep, MarkBusy, Enqueue, UndoJob, UndoProject,
                EnqueueFails, AdmissionFaults, webVars
  <2>5. QED BY <2>1, <2>3, <2>4, KnownRowsStay
<1>3. QED BY <1>1, <1>2

\* Delivery, loss and death bring no run without a row.
LEMMA QueueKeepsRows ==
    ASSUME TypeOK, RowsInv,
           \/ \E w \in Worker, r \in Run : Take(w, r) \/ Redeliver(w, r)
           \/ \E r \in Run : Forget(r)
           \/ LoseQueue
           \/ \E w \in Worker : CancelTask(w) \/ WorkerDies(w)
           \/ \E p \in Project : ApiDies(p)
    PROVE  RowsInv'
<1>1. ASSUME NEW w \in Worker, NEW r \in Run, Take(w, r) \/ Redeliver(w, r)
      PROVE  RowsInv'
  <2>1. /\ UNCHANGED <<catalog, interrupt>>
        /\ thread' = [thread EXCEPT ![w] = thread'[w]]
        /\ thread'[w].run = r /\ thread'[w].pc = "dispatched"
    BY <1>1 DEF Take, Redeliver, Deliver, SetThread, TypeOK, RunnerTypeOK
  <2>2. redis[r] # "absent" /\ \A s \in Run : s # r => redis'[s] = redis[s]
    BY <1>1 DEF Take, Redeliver, webVars, TypeOK
  <2>3. jobStatus[r] # "absent"
    BY <2>2 DEF RowsInv, RowsKnown
  <2>4. \A v \in Worker : v # w => thread'[v] = thread[v]
    BY <2>1 DEF TypeOK, RunnerTypeOK
  <2>5. QED BY <2>1, <2>2, <2>3, <2>4, KnownRowsStay DEF catalog
<1>2. CASE LoseQueue \/ \E r \in Run : Forget(r)
  <2>1. /\ UNCHANGED <<catalog, thread, interrupt>>
        /\ \A r \in Run : redis'[r] # "absent" => redis[r] # "absent"
    BY <1>2 DEF LoseQueue, Forget, runnerVars, TypeOK
  <2>2. QED BY <2>1, KnownRowsStay DEF catalog
<1>3. CASE (\E w \in Worker : CancelTask(w) \/ WorkerDies(w)) \/ (\E p \in Project : ApiDies(p))
  <2>1. UNCHANGED <<catalog, redis>>
    BY <1>3 DEF CancelTask, WorkerDies, ApiDies, webVars
  <2>2. ASSUME NEW v \in Worker, thread'[v].pc # "idle"
        PROVE  thread'[v].pc = thread[v].pc /\ thread'[v].run = thread[v].run
    BY <1>3, <2>2 DEF CancelTask, WorkerDies, ApiDies, Die, SetThread, Cancelled, Stopped,
                      IdleThread, TypeOK, RunnerTypeOK
  <2>3. ASSUME NEW i \in Interrupter, interrupt'[i].pc # "idle" PROVE interrupt'[i] = interrupt[i]
    BY <1>3, <2>3 DEF CancelTask, WorkerDies, ApiDies, Die, IdleInterrupt
  <2>4. QED BY <2>1, <2>2, <2>3, KnownRowsStay DEF catalog
<1>4. QED BY <1>1, <1>2, <1>3

\* An execution and a recovery write rows of runs they know.
LEMMA RunnersKeepRows ==
    ASSUME TypeOK, RowsInv,
           \/ \E w \in Worker :
                 (ThreadStep(w) \/ ThreadFault(w) \/ MonitorPause(w)) /\ UNCHANGED webVars
           \/ \E i \in Interrupter : \/ \E r \in Run : Inspect(i, r)
                                     \/ RecoveryStep(i)
                                     \/ InterruptFaults(i) /\ UNCHANGED webVars
    PROVE  RowsInv'
<1>1. ASSUME NEW w \in Worker,
             (ThreadStep(w) \/ ThreadFault(w) \/ MonitorPause(w)) /\ UNCHANGED webVars
      PROVE  RowsInv'
  <2> DEFINE run == thread[w].run
  <2>1. /\ thread[w].pc # "idle" /\ run \in Run /\ jobStatus[run] # "absent"
        /\ \A v \in Worker : v # w => thread'[v] = thread[v]
        /\ thread'[w].pc # "idle" => thread'[w].run = run
        /\ UNCHANGED <<admitted, interrupt, redis>>
    BY <1>1, ThreadContinues, BusyThread DEF TypeOK, RunnerTypeOK, RowsInv, RowsKnown, webVars
  <2>2. /\ \A r \in Run : r # run => jobStatus'[r] = jobStatus[r]
        /\ jobStatus'[run] # jobStatus[run] =>
              jobStatus'[run] \in {"done", "paused", "error", "interrupted", "running"}
    BY <1>1, JobContinues DEF TypeOK, TerminalStatuses
  <2>3. thread'[w].pc = "working" => thread[w].pc = "working" \/ jobStatus'[run] # "queued"
    <3>1. CASE MarkRunning(w)
      BY <2>1, <3>1 DEF MarkRunning, TypeOK, RunnerTypeOK
    <3>2. ASSUME ~MarkRunning(w), thread'[w].pc = "working" PROVE thread[w].pc = "working"
      <4>1. ThreadStep(w) \/ ThreadFault(w) \/ MonitorPause(w)
        BY <1>1
      <4>2. thread \in [Worker -> Threads]
        BY DEF TypeOK, RunnerTypeOK
      <4>3. CASE Claim(w)
        BY <3>2, <4>2, <4>3 DEF Claim, Goto, SetThread, At
      <4>4. CASE MonitorPause(w)
        BY <3>2, <4>2, <4>4 DEF MonitorPause, SetThread, Stopped
      <4>5. CASE ThreadFault(w)
        BY <3>2, <4>2, <4>5 DEF ThreadFault, StartupFails, ExecuteFaults, RecordFaults,
           RecordTryFaults, Unwind, Return, SetThread, Recording, IdleThread
      <4>6. CASE ClaimRefused(w) \/ PublishJob(w) \/ TerminalJob(w)
        BY <3>2, <4>2, <4>6 DEF ClaimRefused, PublishJob, TerminalJob, Unwind, Return, SetThread,
                                IdleThread
      <4>7. CASE \/ Begin(w) \/ StartupSucceeds(w) \/ Finish(w) \/ PublishProject(w)
                 \/ TerminalRead(w) \/ TerminalLock(w) \/ TerminalProject(w)
        BY <3>2, <4>2, <4>7 DEF Begin, StartupSucceeds, Finish, PublishProject, TerminalRead,
                                TerminalLock, TerminalProject, Goto, SetThread, At
      <4>8. CASE Halt(w, "paused") \/ Halt(w, "error")
        BY <3>2, <4>2, <4>8 DEF Halt, SetThread, Recording
      <4>9. QED BY <3>2, <4>1, <4>3, <4>4, <4>5, <4>6, <4>7, <4>8 DEF ThreadStep
    <3>3. QED BY <3>1, <3>2
  <2>4. QED BY <2>1, <2>2, <2>3, KnownRowsStay
<1>2. ASSUME NEW i \in Interrupter,
             \/ \E r \in Run : Inspect(i, r)
             \/ RecoveryStep(i)
             \/ InterruptFaults(i) /\ UNCHANGED webVars
      PROVE  RowsInv'
  <2>1. UNCHANGED <<admitted, thread, redis>>
    BY <1>2 DEF Inspect, RecoveryStep, InterruptLock, InterruptBusy, Confirm, Overwrite,
           InterruptProject, InterruptFaults, InterruptRead, catalog, webVars
  <2>2. ASSUME NEW j \in Interrupter, interrupt'[j].pc # "idle"
        PROVE  \/ interrupt[j].pc # "idle" /\ interrupt'[j].run = interrupt[j].run
               \/ jobStatus[interrupt'[j].run] # "absent"
    BY <1>2, <2>2 DEF Inspect, RecoveryStep, InterruptLock, InterruptBusy, Confirm, Overwrite,
           InterruptProject, InterruptFaults, InterruptRead, InterruptGoto, SetInterrupt,
           IdleInterrupt, ActiveStatuses, TypeOK, RunnerTypeOK
  <2>3. \A r \in Run : /\ jobStatus'[r] = "absent" <=> jobStatus[r] = "absent"
                       /\ jobStatus'[r] = "queued" => jobStatus[r] = "queued"
    <3>1. CASE Overwrite(i)
      <4>1. interrupt[i].run \in Run /\ jobStatus[interrupt[i].run] # "absent"
        BY <3>1 DEF Overwrite, RowsInv, RowsKnown, TypeOK, RunnerTypeOK, Interrupts, IdleInterrupt
      <4>2. QED BY <3>1, <4>1 DEF Overwrite, TypeOK, RunnerTypeOK
    <3>2. CASE UNCHANGED jobStatus
      BY <3>2
    <3>3. QED BY <1>2, <3>1, <3>2 DEF Inspect, RecoveryStep, InterruptLock, InterruptBusy, Confirm,
                InterruptProject, InterruptFaults, InterruptRead, catalog
  <2>4. QED BY <2>1, <2>2, <2>3, KnownRowsStay
<1>3. QED BY <1>1, <1>2

\* Every run somebody knows has a row, in every behaviour.
LEMMA RowsHold == Spec => []RowsInv
<1>1. Init => RowsInv
  BY DEF Init, RunnerInit, RowsInv, RowsInOrder, WorkShows, RowsKnown, Run, IdleThread,
         IdleInterrupt
<1>2. TypeOK /\ RowsInv /\ [Next]_vars => RowsInv'
  <2> SUFFICES ASSUME TypeOK, RowsInv, [Next]_vars PROVE RowsInv'
    OBVIOUS
  <2>1. CASE UNCHANGED vars
    BY <2>1 DEF vars, runnerVars, webVars, catalog, RowsInv, RowsInOrder, WorkShows, RowsKnown
  <2>2. QED BY <2>1, AdmissionKeepsRows, QueueKeepsRows, RunnersKeepRows DEF Next
<1>3. QED BY <1>1, <1>2, TypeCorrect, PTL DEF Spec


\* An admission that inserts a row has the lock; its rollback ends the run.
LEMMA OwnershipOfAdmission ==
    ASSUME TypeOK, LockInv, RowsInv, OneWriterPerProject, OneWriterPerProject', NEW p \in Project,
           \/ (ApiEnter(p) \/ RequestPause(p)) /\ UNCHANGED webVars
           \/ CreateJob(p) \/ ApiStep(p) \/ EnqueueFails(p) \/ AdmissionFaults(p)
    PROVE  [Ownership!Next]_RunState
<1> USE DEF TypeOK, LockInv, RowsInv
<1>1. CASE CreateJob(p)
  <2>1. \A w \in Worker : thread[w].pc \in DomainPcs => ProjectOf(thread[w].run) # p
    BY <1>1, HoldersDiffer
       DEF CreateJob, LockMatchesHolder, ThreadInside, DomainPcs, LockedPcs
  <2>2. QED BY <1>1, <2>1, OwnershipAdmits DEF CreateJob
<1>2. CASE UndoJob(p) /\ Latest(p) \in Run
  <2>1. jobStatus' = [jobStatus EXCEPT ![Latest(p)] = "error"] /\ UNCHANGED thread
    BY <1>2 DEF UndoJob
  <2>2. jobStatus[Latest(p)] # "absent"
    BY <1>2 DEF RowsInOrder, Latest, RunnerTypeOK
  <2>3. QED BY <1>2, <2>1, <2>2, OwnershipOfRows
<1>3. CASE ~CreateJob(p) /\ ~(UndoJob(p) /\ Latest(p) \in Run)
  <2>1. UNCHANGED <<jobStatus, thread>>
    <3>1. CASE UndoJob(p)
      BY <1>3, <3>1 DEF UndoJob, RunnerTypeOK
    <3>2. CASE ~UndoJob(p)
      BY <1>3, <3>2 DEF ApiEnter, RequestPause, ApiStep, ApiLeave, ApiReturn, MarkBusy, Enqueue,
                        UndoProject, EnqueueFails, AdmissionFaults, catalog
    <3>3. QED BY <3>1, <3>2
  <2>2. \A w \in Worker : Works(w)' => Works(w) /\ thread'[w].run = thread[w].run
    BY <2>1 DEF Works
  <2>3. QED BY <2>1, <2>2, OwnershipOfWork
<1>4. QED BY <1>1, <1>2, <1>3

\* Deliveries, losses, cancellations and deaths start no work; recovery, which has the lock,
\* writes the row of a run that nobody works on.
LEMMA OwnershipOfOthers ==
    ASSUME TypeOK, LockInv, RowsInv, OneWriterPerProject, OneWriterPerProject',
           \/ \E w \in Worker, r \in Run : Take(w, r) \/ Redeliver(w, r)
           \/ \E r \in Run : Forget(r)
           \/ LoseQueue
           \/ \E w \in Worker : CancelTask(w) \/ WorkerDies(w)
           \/ \E p \in Project : ApiDies(p)
           \/ \E i \in Interrupter : \/ \E r \in Run : Inspect(i, r)
                                     \/ RecoveryStep(i)
                                     \/ InterruptFaults(i) /\ UNCHANGED webVars
    PROVE  [Ownership!Next]_RunState
<1> USE DEF TypeOK, LockInv, RowsInv
<1>1. ASSUME NEW i \in Interrupter, Overwrite(i) PROVE [Ownership!Next]_RunState
  <2>1. /\ jobStatus' = [jobStatus EXCEPT ![interrupt[i].run] = "interrupted"]
        /\ interrupt[i].run \in Run /\ interrupt[i].pc # "idle" /\ UNCHANGED thread
    BY <1>1 DEF Overwrite, RunnerTypeOK, Interrupts, IdleInterrupt
  <2>2. PICK run \in Run : /\ jobStatus' = [jobStatus EXCEPT ![run] = "interrupted"]
                          /\ jobStatus[run] # "absent"
    BY <2>1 DEF RowsKnown
  <2>3. QED BY <2>1, <2>2, OwnershipOfRows
<1>2. ASSUME UNCHANGED jobStatus,
             \A w \in Worker : thread'[w].pc \in DomainPcs =>
                thread'[w].pc = thread[w].pc /\ thread'[w].run = thread[w].run
      PROVE  [Ownership!Next]_RunState
  <2>1. \A w \in Worker : Works(w)' => Works(w) /\ thread'[w].run = thread[w].run
    BY <1>2 DEF Works, DomainPcs
  <2>2. QED BY <1>2, <2>1, OwnershipOfWork
<1>3. ASSUME NEW i \in Interrupter, ~Overwrite(i),
             \/ \E r \in Run : Inspect(i, r)
             \/ RecoveryStep(i)
             \/ InterruptFaults(i) /\ UNCHANGED webVars
      PROVE  UNCHANGED <<jobStatus, thread>>
  BY <1>3 DEF Inspect, RecoveryStep, InterruptLock, InterruptBusy, Confirm, InterruptProject,
              InterruptFaults, InterruptRead, catalog
<1>4. ASSUME NEW w \in Worker, NEW r \in Run, Take(w, r) \/ Redeliver(w, r)
      PROVE  [Ownership!Next]_RunState
  <2>1. UNCHANGED jobStatus
    BY <1>4 DEF Take, Redeliver, Deliver, catalog
  <2>2. \A v \in Worker : thread'[v].pc \in DomainPcs =>
           thread'[v].pc = thread[v].pc /\ thread'[v].run = thread[v].run
    BY <1>4 DEF Take, Redeliver, Deliver, SetThread, DomainPcs, RunnerTypeOK
  <2>3. QED BY <1>2, <2>1, <2>2
<1>5. CASE \/ \E r \in Run : Forget(r)
           \/ LoseQueue
           \/ \E w \in Worker : CancelTask(w) \/ WorkerDies(w)
           \/ \E p \in Project : ApiDies(p)
  <2>1. UNCHANGED jobStatus
    BY <1>5 DEF Forget, LoseQueue, CancelTask, WorkerDies, ApiDies, runnerVars, catalog
  <2>2. ASSUME NEW v \in Worker, thread'[v].pc \in DomainPcs
        PROVE  thread'[v].pc = thread[v].pc /\ thread'[v].run = thread[v].run
    BY <1>5, <2>2 DEF Forget, LoseQueue, CancelTask, WorkerDies, ApiDies, Die, SetThread, Cancelled,
                      Stopped, IdleThread, DomainPcs, runnerVars, RunnerTypeOK
  <2>3. QED BY <1>2, <2>1, <2>2
<1>6. ASSUME UNCHANGED <<jobStatus, thread>> PROVE [Ownership!Next]_RunState
  <2>1. \A w \in Worker : thread'[w].pc \in DomainPcs =>
           thread'[w].pc = thread[w].pc /\ thread'[w].run = thread[w].run
    BY <1>6
  <2>2. QED BY <1>2, <1>6, <2>1
<1>7. QED BY <1>1, <1>3, <1>4, <1>5, <1>6

\* Whatever the queue delivers twice or loses and whichever process dies, each run is worked
\* on at most once, by one execution, only as the latest run of its project, and none is
\* admitted during work: the Web platform implements RunOwnership.
THEOREM RunsAreOwnedOnce == Spec => ImplementsOwnership
<1>1. Init => Ownership!Init
  BY DEF Init, RunnerInit, Ownership!Init, Ownership!Run, RunState, Run
<1>2. TypeOK /\ LockMatchesHolder /\ OnlyLatestRunWorks /\ RowsInv /\ OneWriterPerProject
         /\ OneWriterPerProject' /\ [Next]_vars => [Ownership!Next]_RunState
  <2> SUFFICES ASSUME TypeOK, LockInv, RowsInv, OneWriterPerProject, OneWriterPerProject',
                      [Next]_vars
               PROVE  [Ownership!Next]_RunState
    BY DEF LockInv
  <2>1. ASSUME NEW p \in Project,
               \/ (ApiEnter(p) \/ RequestPause(p)) /\ UNCHANGED webVars
               \/ CreateJob(p) \/ ApiStep(p) \/ EnqueueFails(p) \/ AdmissionFaults(p)
        PROVE  [Ownership!Next]_RunState
    BY <2>1, OwnershipOfAdmission
  <2>2. ASSUME NEW w \in Worker, ThreadStep(w) \/ ThreadFault(w) \/ MonitorPause(w)
        PROVE  [Ownership!Next]_RunState
    <3>1. thread[w].pc # "idle" /\ thread[w].run \in Run
      BY <2>2, ThreadContinues, BusyThread DEF TypeOK, RunnerTypeOK
    <3>2. jobStatus[thread[w].run] # "absent"
      BY <3>1 DEF RowsInv, RowsKnown
    <3>3. QED BY <2>2, <3>2, OwnershipOfExecution DEF TypeOK, LockInv, RowsInv
  <2>3. CASE \/ \E w \in Worker, r \in Run : Take(w, r) \/ Redeliver(w, r)
             \/ \E r \in Run : Forget(r)
             \/ LoseQueue
             \/ \E w \in Worker : CancelTask(w) \/ WorkerDies(w)
             \/ \E p \in Project : ApiDies(p)
             \/ \E i \in Interrupter : \/ \E r \in Run : Inspect(i, r)
                                       \/ RecoveryStep(i)
                                       \/ InterruptFaults(i) /\ UNCHANGED webVars
    BY <2>3, OwnershipOfOthers
  <2>4. CASE UNCHANGED vars
    BY <2>4 DEF vars, runnerVars, catalog, RunState, Shared, Works
  <2>5. QED BY <2>1, <2>2, <2>3, <2>4 DEF Next
<1>3. QED BY <1>1, <1>2, TypeCorrect, LocksCorrect, RowsHold, WorkIsExclusive, PTL
          DEF Spec, ImplementsOwnership, Ownership!Spec


=============================================================================
