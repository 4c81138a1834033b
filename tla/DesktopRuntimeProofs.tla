------------------------- MODULE DesktopRuntimeProofs -------------------------
(***************************************************************************)
(* Theorems of DesktopRuntime for any number of projects, slots, runs,     *)
(* faults, shutdowns and crashes.                                          *)
(***************************************************************************)
EXTENDS DesktopRuntime, WorkflowRunnerProofs

\* Admission and its rollback (admit_job, enqueue, fail_admission).
LEMMA AdmissionKeepsTypes ==
    ASSUME TypeOK, NEW p \in Project,
           \/ AdmitJob(p) \/ ApiStep(p) \/ EnqueueFails(p) \/ AdmissionLost(p)
    PROVE  TypeOK'
<1> USE DEF SetApi, Writers
<1>1. CASE AdmitJob(p)
  <2>1. admitted[p] + 1 \in 0..MaxRuns
    BY <1>1, RunnerAssumption DEF AdmitJob, TypeOK, RunnerTypeOK
  <2>2. QED BY <1>1, <2>1 DEF AdmitJob, TypeOK, RunnerTypeOK, desktopVars, ActiveStatuses,
                              ProjectStatuses, RUNNING_PROJECT_STATUSES
<1>2. CASE ApiStep(p)
  <2>1. CASE (ApiLeave(p) \/ ApiReturn(p)) /\ UNCHANGED desktopVars
    BY <2>1, ApiKeepsTypes DEF TypeOK, desktopVars
  <2>2. CASE \E w \in Worker : Enqueue(p, w)
    BY <2>2 DEF Enqueue, TypeOK, RunnerTypeOK, catalog
  <2>3. CASE EnqueueFails(p)
    BY <2>3, FaultKeepsBound DEF EnqueueFails, TypeOK, RunnerTypeOK, catalog, desktopVars
  <2>4. CASE FailAdmission(p)
    BY <2>4 DEF FailAdmission, Release, Nobody, Holders, IdleApi, TypeOK, RunnerTypeOK,
                TerminalStatuses, ProjectStatuses, desktopVars
  <2>5. QED BY <1>2, <2>1, <2>2, <2>3, <2>4 DEF ApiStep
<1>3. CASE EnqueueFails(p)
  BY <1>3, FaultKeepsBound DEF EnqueueFails, TypeOK, RunnerTypeOK, catalog, desktopVars
<1>4. CASE AdmissionLost(p)
  BY <1>4, FaultKeepsBound DEF AdmissionLost, Release, Nobody, Holders, IdleApi,
     TypeOK, RunnerTypeOK, ProjectStatuses, catalog, desktopVars
<1>5. QED BY <1>1, <1>2, <1>3, <1>4

\* A supervisor that moves on, or ends, is still one of a run.
LEMMA MovesKeepSupervisors ==
    ASSUME TypeOK, NEW w \in Worker,
           \/ sup' = [sup EXCEPT ![w] = IdleSup]
           \/ /\ sup[w].pc # "none"
              /\ \E pc \in {"watching", "draining", "interrupting"} : SetSup(w, pc)
    PROVE  sup' \in [Worker -> {IdleSup} \cup
                       [pc : {"spawned", "watching", "draining", "interrupting"}, run : Run]]
<1>1. CASE sup' = [sup EXCEPT ![w] = IdleSup]
  BY <1>1 DEF TypeOK
<1>2. CASE /\ sup[w].pc # "none"
           /\ \E pc \in {"watching", "draining", "interrupting"} : SetSup(w, pc)
  <2>1. sup[w].run \in Run
    BY <1>2 DEF TypeOK, IdleSup
  <2>2. QED BY <1>2, <2>1 DEF SetSup, TypeOK
<1>3. QED BY <1>1, <1>2

\* Supervision: every step of _run_job.
LEMMA SupervisorKeepsTypes ==
    ASSUME TypeOK, NEW w \in Worker, SupervisorStep(w) \/ Timeout(w)
    PROVE  TypeOK'
<1>1. CASE Supervise(w)
  <2>1. sup[w].run \in Run
    BY <1>1 DEF Supervise, TypeOK, IdleSup
  <2>2. thread' \in [Worker -> Threads]
    BY <1>1, <2>1, DeliverKeepsThreads DEF Supervise, TypeOK, RunnerTypeOK
  <2>3. QED BY <1>1, <2>2, MovesKeepSupervisors
               DEF Supervise, Deliver, TypeOK, RunnerTypeOK, catalog
<1>2. CASE SupervisorEnds(w)
  BY <1>2, MovesKeepSupervisors DEF SupervisorEnds, TypeOK, RunnerTypeOK, runnerVars, catalog
<1>3. CASE SupervisorInterrupts(w)
  <2>1. CASE InterruptRead(w, sup[w].run) /\ SetSup(w, "interrupting")
    <3>1. sup[w].run \in Run /\ w \in Interrupter
      BY <1>3, DesktopAssumption DEF SupervisorInterrupts, TypeOK, IdleSup
    <3>2. RunnerTypeOK'
      BY <2>1, <3>1, InterruptKeepsTypes DEF TypeOK
    <3>3. QED BY <1>3, <2>1, <3>2, MovesKeepSupervisors DEF SupervisorInterrupts, TypeOK
  <2>2. CASE sup' = [sup EXCEPT ![w] = IdleSup] /\ UNCHANGED runnerVars
    BY <1>3, <2>2, MovesKeepSupervisors
       DEF SupervisorInterrupts, TypeOK, RunnerTypeOK, runnerVars, catalog
  <2>3. QED BY <1>3, <2>1, <2>2 DEF SupervisorInterrupts
<1>4. CASE InterruptReturns(w)
  BY <1>4, MovesKeepSupervisors DEF InterruptReturns, TypeOK, RunnerTypeOK, runnerVars, catalog
<1>5. CASE Timeout(w)
  BY <1>5, CancelledIsThread, MovesKeepSupervisors
     DEF Timeout, SetThread, TypeOK, RunnerTypeOK, catalog
<1>6. QED BY <1>1, <1>2, <1>3, <1>4, <1>5 DEF SupervisorStep

\* Interruption and the recovery pass.
LEMMA RecoveryKeepsTypes ==
    ASSUME TypeOK,
           \/ \E i \in Interrupter : Interruption(i)
           \/ RecoverPass
           \/ \E r \in Run : RecoverJob(r)
    PROVE  TypeOK'
<1>1. CASE \E i \in Interrupter : Interruption(i)
  <2>1. PICK i \in Interrupter : Interruption(i) BY <1>1
  <2>2. CASE InterruptLock(i) \/ InterruptBusy(i) \/ InterruptProject(i) \/ InterruptFaults(i)
    BY <2>1, <2>2, InterruptKeepsTypes DEF Interruption, InterruptStep, TypeOK, desktopVars
  <2>3. CASE InterruptMark(i) /\ UNCHANGED desktopVars
    <3>1. /\ UNCHANGED <<projectStatus, admitted, api, thread, faults>>
          /\ jobStatus' \in [Run -> {"absent"} \cup ActiveStatuses \cup TerminalStatuses]
      BY <2>3 DEF InterruptMark, TerminalStatuses, TypeOK, RunnerTypeOK
    <3>2. runLock' \in [Project -> Holders]
      BY <2>3 DEF InterruptMark, Release, Nobody, Holders, TypeOK, RunnerTypeOK
    <3>3. interrupt' \in [Interrupter -> Interrupts]
      BY <2>3, MovesKeepInterrupts DEF InterruptMark, InterruptLockedPcs, TypeOK, RunnerTypeOK
    <3>4. QED BY <2>3, <3>1, <3>2, <3>3 DEF TypeOK, RunnerTypeOK, desktopVars
  <2>4. QED BY <2>1, <2>2, <2>3 DEF Interruption, InterruptStep
<1>2. CASE RecoverPass
  BY <1>2 DEF RecoverPass, ActiveRuns, TypeOK, RunnerTypeOK, runnerVars, catalog
<1>3. CASE \E r \in Run : RecoverJob(r)
  <2>1. PICK r \in Run : RecoverJob(r) BY <1>3
  <2>2. CASE InterruptRead(Recoverer, r)
    BY <2>1, <2>2, InterruptKeepsTypes, DesktopAssumption DEF RecoverJob, TypeOK
  <2>3. CASE UNCHANGED runnerVars
    BY <2>1, <2>3 DEF RecoverJob, TypeOK, RunnerTypeOK, runnerVars, catalog
  <2>4. QED BY <2>1, <2>2, <2>3 DEF RecoverJob
<1>4. QED BY <1>1, <1>2, <1>3

\* Start, stop, exit and death of the process.
LEMMA ProcessKeepsTypes ==
    ASSUME TypeOK, Launch \/ Open \/ BeginStop \/ ReleaseWorkspace \/ Exit \/ Crash
    PROVE  TypeOK'
<1>1. CASE Launch \/ Open \/ ReleaseWorkspace
  BY <1>1 DEF Launch, Open, ReleaseWorkspace, ActiveRuns, TypeOK, RunnerTypeOK, runnerVars, catalog
<1>2. CASE BeginStop
  <2>1. \A w \in Worker : sup[w].pc = "watching" => sup[w].run \in Run
    BY DEF TypeOK, IdleSup
  <2>2. thread' \in [Worker -> Threads]
    BY <1>2, CancelledIsThread DEF BeginStop, TypeOK, RunnerTypeOK
  <2>3. sup' \in [Worker -> {IdleSup} \cup
                    [pc : {"spawned", "watching", "draining", "interrupting"}, run : Run]]
    BY <1>2, <2>1 DEF BeginStop, TypeOK
  <2>4. stops' \in 0..MaxStops
    BY <1>2, DesktopAssumption DEF BeginStop, TypeOK
  <2>5. QED BY <1>2, <2>2, <2>3, <2>4 DEF BeginStop, TypeOK, RunnerTypeOK, catalog
<1>3. CASE Exit
  BY <1>3, DieKeepsTypes DEF Exit, TypeOK, RunnerTypeOK
<1>4. CASE Crash
  BY <1>4, DieKeepsTypes, DesktopAssumption DEF Crash, IdleSup, TypeOK, RunnerTypeOK
<1>5. QED BY <1>1, <1>2, <1>3, <1>4

\* Every variable keeps its type in every behaviour of the Desktop runtime.
THEOREM TypeCorrect == Spec => []TypeOK
<1>1. Init => TypeOK
  BY RunnerAssumption, DesktopAssumption
     DEF Init, RunnerInit, TypeOK, RunnerTypeOK, ProjectStatuses, Holders, Nobody, IdleApi, Writers,
         IdleThread, Threads, ThreadPcs, LockedPcs, IdleInterrupt, Interrupts, IdleSup
<1>2. TypeOK /\ [Next]_vars => TypeOK'
  <2> SUFFICES ASSUME TypeOK, [Next]_vars PROVE TypeOK'
    OBVIOUS
  <2>1. ASSUME NEW p \in Project, Request(p) PROVE TypeOK'
    BY <2>1, ApiKeepsTypes DEF Request, TypeOK, desktopVars
  <2>2. ASSUME NEW p \in Project,
               ApiStep(p) \/ AdmitJob(p) \/ EnqueueFails(p) \/ AdmissionLost(p)
        PROVE  TypeOK'
    BY <2>2, AdmissionKeepsTypes
  <2>3. ASSUME NEW w \in Worker, SupervisorStep(w) \/ Timeout(w) PROVE TypeOK'
    BY <2>3, SupervisorKeepsTypes
  <2>4. ASSUME NEW w \in Worker, Execution(w) PROVE TypeOK'
    BY <2>4, ThreadStepKeepsTypes, ThreadFaultKeepsTypes DEF Execution, TypeOK, desktopVars
  <2>5. CASE \/ \E i \in Interrupter : Interruption(i)
             \/ RecoverPass \/ \E r \in Run : RecoverJob(r)
    BY <2>5, RecoveryKeepsTypes
  <2>6. CASE Launch \/ Open \/ BeginStop \/ ReleaseWorkspace \/ Exit \/ Crash
    BY <2>6, ProcessKeepsTypes
  <2>7. CASE UNCHANGED vars
    BY <2>7 DEF vars, runnerVars, desktopVars, catalog, TypeOK, RunnerTypeOK
  <2>8. QED
    BY <2>1, <2>2, <2>3, <2>4, <2>5, <2>6, <2>7 DEF Next
<1>3. QED
  BY <1>1, <1>2, PTL DEF Spec

-----------------------------------------------------------------------------
(* Mutual exclusion.  LockMatchesHolder needs TypeOK, which says that       *)
(* whoever is inside a locked region has a run and so a project;            *)
(* OnlyLatestRunWorks needs LockMatchesHolder, because an admission makes   *)
(* another run the latest and must find nobody inside.                      *)

LockInv == LockMatchesHolder /\ OnlyLatestRunWorks

\* An admission finds no thread inside the locked region of its project.
LEMMA AdmissionFindsNoWork ==
    ASSUME TypeOK, LockInv, NEW p \in Project, api[p].pc # "idle", NEW w \in Worker,
           thread[w].pc \in DomainPcs
    PROVE  ProjectOf(thread[w].run) # p
BY HoldersDiffer
   DEF LockInv, LockMatchesHolder, ThreadInside, DomainPcs, LockedPcs

\* Admission and its rollback.
LEMMA AdmissionKeepsLocks ==
    ASSUME TypeOK, LockInv, NEW p \in Project,
           \/ Request(p) \/ AdmitJob(p) \/ ApiStep(p) \/ EnqueueFails(p) \/ AdmissionLost(p)
    PROVE  LockInv'
<1> USE DEF LockInv, TypeOK
<1>1. CASE AdmitJob(p)
  <2>1. LockMatchesHolder'
    BY <1>1, ApiMoves DEF AdmitJob
  <2>2. \A w \in Worker : thread[w].pc \in DomainPcs => ProjectOf(thread[w].run) # p
    BY <1>1, AdmissionFindsNoWork DEF AdmitJob
  <2>3. OnlyLatestRunWorks'
    BY <1>1, <2>2, BusyHasProject
       DEF AdmitJob, OnlyLatestRunWorks, IsLatest, ProjectOf, RunnerTypeOK
  <2>4. QED BY <2>1, <2>3
<1>2. CASE ~AdmitJob(p)
  <2>1. UNCHANGED <<admitted, thread>>
    BY <1>2 DEF Request, ApiEnter, RequestPause, ApiStep, ApiLeave, ApiReturn, Enqueue,
                EnqueueFails, FailAdmission, AdmissionLost, catalog
  <2>2. OnlyLatestRunWorks'
    BY <2>1 DEF OnlyLatestRunWorks, IsLatest
  <2>3. CASE Request(p) \/ ApiLeave(p) \/ ApiReturn(p)
    BY <2>2, <2>3, ApiKeepsLocks DEF Request
  <2>4. CASE (\E w \in Worker : Enqueue(p, w)) \/ EnqueueFails(p)
    BY <2>2, <2>4, ApiMoves DEF Enqueue, EnqueueFails
  <2>5. CASE FailAdmission(p) \/ AdmissionLost(p)
    BY <2>2, <2>5, ApiReleases DEF FailAdmission, AdmissionLost
  <2>6. QED BY <1>2, <2>3, <2>4, <2>5 DEF ApiStep
<1>3. QED BY <1>1, <1>2

\* Supervision and execution: a supervisor moves a thread only outside the lock,
\* or leaves it where it is.
LEMMA SupervisorKeepsLocks ==
    ASSUME TypeOK, LockInv, NEW w \in Worker,
           SupervisorStep(w) \/ Timeout(w) \/ Execution(w)
    PROVE  LockInv'
<1> USE DEF LockInv, TypeOK
<1>1. CASE Execution(w)
  BY <1>1, ThreadStepKeepsLocks, ThreadFaultKeepsLocks, ExecutionKeepsLatest DEF Execution
<1>2. CASE Supervise(w)
  BY <1>2, ThreadMoves, LatestUnlessEntered
     DEF Supervise, Deliver, catalog, LockedPcs, DomainPcs
<1>3. CASE Timeout(w)
  <2>1. /\ Cancelled(thread[w]).pc \in LockedPcs <=> thread[w].pc \in LockedPcs
        /\ Cancelled(thread[w]).pc \in DomainPcs <=> thread[w].pc \in DomainPcs
        /\ Cancelled(thread[w]).pc \in LockedPcs => Cancelled(thread[w]).run = thread[w].run
    BY DEF Cancelled, Stopped, IdleThread, LockedPcs, DomainPcs
  <2>2. LockMatchesHolder'
    BY <1>3, <2>1, ThreadMoves DEF Timeout
  <2>3. OnlyLatestRunWorks'
    BY <1>3, <2>1, LatestUnlessEntered DEF Timeout, catalog, LockedPcs, DomainPcs
  <2>4. QED BY <2>2, <2>3
<1>4. CASE SupervisorEnds(w) \/ InterruptReturns(w) \/ SupervisorInterrupts(w)
  <2>1. CASE UNCHANGED runnerVars
    BY <2>1 DEF runnerVars, catalog, LockMatchesHolder, ThreadInside, InterruptInside,
                OnlyLatestRunWorks, IsLatest
  <2>2. CASE sup[w].pc # "none" /\ InterruptRead(w, sup[w].run)
    <3>1. sup[w].run \in Run /\ w \in Interrupter
      BY <2>2, DesktopAssumption DEF IdleSup
    <3>2. LockMatchesHolder'
      BY <2>2, <3>1, InterruptKeepsLocks
    <3>3. OnlyLatestRunWorks'
      BY <2>2 DEF InterruptRead, catalog, OnlyLatestRunWorks, IsLatest
    <3>4. QED BY <3>2, <3>3
  <2>3. QED
    BY <1>4, <2>1, <2>2 DEF SupervisorEnds, InterruptReturns, SupervisorInterrupts
<1>5. QED BY <1>1, <1>2, <1>3, <1>4 DEF SupervisorStep

\* Interruption and the recovery pass.
LEMMA RecoveryKeepsLocks ==
    ASSUME TypeOK, LockInv,
           \/ \E i \in Interrupter : Interruption(i)
           \/ RecoverPass
           \/ \E r \in Run : RecoverJob(r)
    PROVE  LockInv'
<1> USE DEF LockInv, TypeOK
<1>1. OnlyLatestRunWorks'
  <2>1. UNCHANGED <<admitted, thread>>
    BY DEF Interruption, InterruptStep, InterruptLock, InterruptBusy, InterruptMark,
           InterruptProject, InterruptFaults, RecoverPass, RecoverJob, InterruptRead, runnerVars,
           catalog
  <2>2. QED BY <2>1 DEF OnlyLatestRunWorks, IsLatest
<1>2. ASSUME NEW i \in Interrupter, Interruption(i) PROVE LockMatchesHolder'
  <2>1. CASE InterruptLock(i) \/ InterruptBusy(i) \/ InterruptProject(i) \/ InterruptFaults(i)
    BY <2>1, InterruptKeepsLocks
  <2>2. CASE InterruptMark(i)
    BY <2>2, InterruptMoves, InterruptReleases
       DEF InterruptMark, InterruptGoto, InterruptLockedPcs, IdleInterrupt
  <2>3. QED BY <1>2, <2>1, <2>2 DEF Interruption, InterruptStep
<1>3. CASE UNCHANGED runnerVars
  BY <1>1, <1>3 DEF runnerVars, catalog, LockMatchesHolder, ThreadInside, InterruptInside
<1>4. ASSUME NEW r \in Run, RecoverJob(r) PROVE LockInv'
  <2>1. CASE InterruptRead(Recoverer, r)
    BY <1>1, <2>1, InterruptKeepsLocks, DesktopAssumption
  <2>2. QED BY <1>3, <1>4, <2>1 DEF RecoverJob
<1>5. QED BY <1>1, <1>2, <1>3, <1>4 DEF RecoverPass

\* Start, stop, exit and death of the process.
LEMMA ProcessKeepsLocks ==
    ASSUME TypeOK, LockInv, Launch \/ Open \/ BeginStop \/ ReleaseWorkspace \/ Exit \/ Crash
    PROVE  LockInv'
<1> USE DEF LockInv, TypeOK
<1>1. CASE Launch \/ Open \/ ReleaseWorkspace
  BY <1>1 DEF Launch, Open, ReleaseWorkspace, runnerVars, catalog, LockMatchesHolder,
              ThreadInside, InterruptInside, OnlyLatestRunWorks, IsLatest
<1>2. CASE BeginStop
  <2>1. \A w \in Worker : /\ thread'[w].pc \in LockedPcs <=> thread[w].pc \in LockedPcs
                          /\ thread'[w].pc \in DomainPcs <=> thread[w].pc \in DomainPcs
                          /\ thread'[w].pc \in LockedPcs => thread'[w].run = thread[w].run
    BY <1>2 DEF BeginStop, Cancelled, Stopped, IdleThread, LockedPcs, DomainPcs
  <2>2. LockMatchesHolder'
    BY <1>2, <2>1 DEF BeginStop, LockMatchesHolder, ThreadInside, InterruptInside, ByThread
  <2>3. OnlyLatestRunWorks'
    BY <1>2, <2>1 DEF BeginStop, catalog, OnlyLatestRunWorks, IsLatest, LockedPcs, DomainPcs
  <2>4. QED BY <2>2, <2>3
<1>3. CASE Exit \/ Crash
  <2>1. Die(Worker, Interrupter, Project) /\ UNCHANGED catalog
    BY <1>3 DEF Exit, Crash
  <2>2. LockMatchesHolder'
    BY <2>1, DieKeepsLocks
  <2>3. OnlyLatestRunWorks'
    BY <2>1 DEF Die, OnlyLatestRunWorks, IdleThread, DomainPcs
  <2>4. QED BY <2>2, <2>3
<1>4. QED BY <1>1, <1>2, <1>3

\* The run lock is held by exactly the processes inside its locked region, and a
\* run inside it is the latest of its project, in every behaviour.
THEOREM LocksCorrect == Spec => [](LockMatchesHolder /\ OnlyLatestRunWorks)
<1>1. Init => LockInv
  BY DEF Init, RunnerInit, LockInv, LockMatchesHolder, OnlyLatestRunWorks, ThreadInside,
         InterruptInside, IdleApi, IdleThread, IdleInterrupt, LockedPcs, InterruptLockedPcs,
         DomainPcs, ByApi, ByThread, ByInterrupt, Nobody
<1>2. TypeOK /\ LockInv /\ [Next]_vars => LockInv'
  <2> SUFFICES ASSUME TypeOK, LockInv, [Next]_vars PROVE LockInv'
    OBVIOUS
  <2>1. ASSUME NEW p \in Project,
               \/ Request(p) \/ ApiStep(p) \/ AdmitJob(p) \/ EnqueueFails(p) \/ AdmissionLost(p)
        PROVE  LockInv'
    BY <2>1, AdmissionKeepsLocks
  <2>2. ASSUME NEW w \in Worker, SupervisorStep(w) \/ Timeout(w) \/ Execution(w) PROVE LockInv'
    BY <2>2, SupervisorKeepsLocks
  <2>3. CASE \/ \E i \in Interrupter : Interruption(i)
             \/ RecoverPass \/ \E r \in Run : RecoverJob(r)
    BY <2>3, RecoveryKeepsLocks
  <2>4. CASE Launch \/ Open \/ BeginStop \/ ReleaseWorkspace \/ Exit \/ Crash
    BY <2>4, ProcessKeepsLocks
  <2>5. CASE UNCHANGED vars
    BY <2>5 DEF vars, runnerVars, catalog, LockInv, LockMatchesHolder, ThreadInside,
                InterruptInside, OnlyLatestRunWorks, IsLatest
  <2>6. QED BY <2>1, <2>2, <2>3, <2>4, <2>5 DEF Next
<1>3. LockInv => LockMatchesHolder /\ OnlyLatestRunWorks
  BY DEF LockInv
<1>4. QED BY <1>1, <1>2, <1>3, TypeCorrect, PTL DEF Spec

\* No two executions do domain work for one project at a time.
THEOREM WorkIsExclusive == Spec => []OneWriterPerProject
<1>1. TypeOK /\ LockMatchesHolder => OneWriterPerProject
  BY LockExcludes DEF TypeOK
<1>2. QED BY <1>1, TypeCorrect, LocksCorrect, PTL

-----------------------------------------------------------------------------
(***************************************************************************)
(* What the rows of the catalog say of the runs in the slots of the        *)
(* Desktop runtime.  First whose a run is: it is submitted once, to one    *)
(* slot, and nothing else that could change its rows knows of it.  From    *)
(* that, that the rows of a run that works or publishes tell the truth,    *)
(* that a run ends once, and that a released workspace has no work left.   *)
(***************************************************************************)

Supervised(w, r) == sup[w].pc # "none" /\ sup[w].run = r
Executed(w, r) == thread[w].pc # "idle" /\ thread[w].run = r
Has(w, r) == Supervised(w, r) \/ Executed(w, r)
Interrupted(i, r) == interrupt[i].pc # "idle" /\ interrupt[i].run = r

\* A run whose admission has committed but which is in no slot yet.
Unsubmitted(r) == api[ProjectOf(r)].pc = "admitted" /\ IsLatest(r)

\* A thread belongs to the supervisor of its slot, unless it is the abandoned second
\* recording of a failure.
SlotsMatch ==
    \A w \in Worker :
        /\ OnlyRecords(thread[w])
        /\ thread[w].pc # "idle" => thread[w].fallback \/ sup[w].pc \in {"watching", "draining"}
        /\ thread[w].pc # "idle" /\ sup[w].pc # "none" => sup[w].run = thread[w].run
        /\ sup[w].pc = "spawned" => thread[w].pc = "idle"
        /\ interrupt[w].pc # "idle" => sup[w].pc = "interrupting" /\ interrupt[w].run = sup[w].run

\* Slots are empty unless requests can fill them.
PhasesMatch ==
    /\ phase \in {"released", "down", "starting"} => \A w \in Worker : sup[w].pc = "none"
    /\ phase \in {"down", "starting"} => \A p \in Project : api[p].pc = "idle"

\* Rows exist up to the number of admissions, and for every run somebody works on.
RowsExist ==
    /\ RowsInOrder
    /\ \A r \in pass : jobStatus[r] # "absent"
    /\ \A r \in Run : jobStatus[r] = "absent" =>
          /\ \A w \in Worker : ~Has(w, r)
          /\ \A i \in Interrupter : ~Interrupted(i, r)

\* A run is in one slot at most.
OneSlotPerRun ==
    \A r \in Run : \A v, w \in Worker : Has(v, r) /\ Has(w, r) => v = w

\* Nothing else knows of a run that is not submitted yet, and recovery never looks at one
\* that is.
NotYetKnown ==
    \A r \in Run :
        /\ Unsubmitted(r) => /\ r \notin pass /\ ~Interrupted(Recoverer, r)
                             /\ \A w \in Worker : ~Has(w, r)
        /\ Interrupted(Recoverer, r) => \A w \in Worker : ~Supervised(w, r)

Known == RowsExist /\ OneSlotPerRun /\ NotYetKnown

OwnInv == SlotsMatch /\ PhasesMatch /\ Known

-----------------------------------------------------------------------------
(* Whose a run is                                                          *)

\* A step after which no slot, interruption, pass or request has a run it did not have.
LEMMA NobodyNewKnows ==
    ASSUME Known, UNCHANGED admitted,
           \A r \in Run : jobStatus'[r] = "absent" <=> jobStatus[r] = "absent",
           \A r \in Run : Unsubmitted(r)' => Unsubmitted(r),
           \A w \in Worker, r \in Run : /\ Has(w, r)' => Has(w, r)
                                        /\ Supervised(w, r)' => Supervised(w, r),
           \A i \in Interrupter, r \in Run : Interrupted(i, r)' => Interrupted(i, r),
           pass' \subseteq pass, pass \subseteq Run, Recoverer \in Interrupter
    PROVE  Known'
<1>1. RowsExist'
  BY DEF Known, RowsExist, RowsInOrder
<1>2. OneSlotPerRun'
  BY DEF Known, OneSlotPerRun
<1>3. NotYetKnown'
  BY DEF Known, NotYetKnown
<1>4. QED BY <1>1, <1>2, <1>3 DEF Known

\* The steps of an execution.
LEMMA ExecutionKeepsSlots ==
    ASSUME TypeOK, OwnInv, NEW w \in Worker, Execution(w)
    PROVE  OwnInv'
<1>1. /\ thread[w].pc # "idle"
      /\ \A v \in Worker : v # w => thread'[v] = thread[v]
      /\ thread'[w].pc # "idle" => thread'[w].run = thread[w].run
      /\ OnlyRecords(thread[w]) => OnlyRecords(thread'[w])
      /\ thread[w].fallback /\ thread'[w].pc # "idle" => thread'[w].fallback
      /\ UNCHANGED <<admitted, api, interrupt, phase, sup, pass>>
  BY ThreadContinues DEF Execution, TypeOK, desktopVars
<1>2. SlotsMatch'
  BY <1>1 DEF OwnInv, SlotsMatch
<1>3. PhasesMatch'
  BY <1>1 DEF OwnInv, PhasesMatch
<1>4. thread[w].run \in Run /\ jobStatus[thread[w].run] # "absent"
  BY <1>1, BusyThread DEF TypeOK, RunnerTypeOK, OwnInv, Known, RowsExist, Has, Executed
<1>5. \A r \in Run : jobStatus'[r] = "absent" <=> jobStatus[r] = "absent"
  <2>1. jobStatus'[thread[w].run] # "absent"
    BY <1>4, JobContinues DEF Execution, TypeOK, TerminalStatuses
  <2>2. QED BY <1>4, <2>1, JobContinues DEF Execution, TypeOK
<1>6. \A v \in Worker, r \in Run : /\ Has(v, r)' => Has(v, r)
                                   /\ Supervised(v, r)' => Supervised(v, r)
  BY <1>1 DEF Has, Supervised, Executed
<1>7. \A r \in Run : Unsubmitted(r)' => Unsubmitted(r)
  BY <1>1 DEF Unsubmitted, IsLatest
<1>8. \A i \in Interrupter, r \in Run : Interrupted(i, r)' => Interrupted(i, r)
  BY <1>1 DEF Interrupted
<1>9. Known'
  BY <1>1, <1>5, <1>6, <1>7, <1>8, NobodyNewKnows, DesktopAssumption DEF OwnInv, TypeOK
<1>10. QED BY <1>2, <1>3, <1>9 DEF OwnInv

\* Admission: the run that becomes the latest is new, and its submission moves it from the
\* request to one slot.
LEMMA AdmissionKeepsSlots ==
    ASSUME TypeOK, OwnInv, NEW p \in Project,
           \/ Request(p) \/ ApiStep(p) \/ AdmitJob(p) \/ EnqueueFails(p) \/ AdmissionLost(p)
    PROVE  OwnInv'
<1> USE DEF OwnInv
<1>1. CASE AdmitJob(p)
  <2> DEFINE new == <<p, admitted[p] + 1>>
  <2>1. /\ admitted' = [admitted EXCEPT ![p] = admitted[p] + 1]
        /\ jobStatus' = [jobStatus EXCEPT ![new] = "queued"]
        /\ api' = [api EXCEPT ![p] = [pc |-> "admitted", previous |-> api[p].previous]]
        /\ admitted[p] \in Nat /\ api[p].pc = "entered"
        /\ UNCHANGED <<thread, interrupt, phase, sup, pass>>
    BY <1>1 DEF AdmitJob, SetApi, desktopVars, TypeOK, RunnerTypeOK
  <2>2. new \in Run /\ jobStatus[new] = "absent"
    BY <1>1, <2>1, RunnerAssumption DEF AdmitJob, Run, Known, RowsExist, RowsInOrder
  <2>3. PhasesMatch'
    BY <2>1 DEF PhasesMatch, TypeOK, RunnerTypeOK
  <2>4. /\ SlotsMatch' /\ OneSlotPerRun'
        /\ \A w \in Worker, r \in Run : /\ Has(w, r)' <=> Has(w, r)
                                        /\ Supervised(w, r)' <=> Supervised(w, r)
        /\ \A i \in Interrupter, r \in Run : Interrupted(i, r)' <=> Interrupted(i, r)
    BY <2>1 DEF SlotsMatch, Known, OneSlotPerRun, Has, Supervised, Executed, Interrupted
  <2>5. RowsExist'
    <3>1. ASSUME NEW r \in Run PROVE jobStatus'[r] # "absent" <=> r[2] <= admitted'[r[1]]
      <4>1. /\ r[1] \in Project /\ r[2] \in Nat /\ r = <<r[1], r[2]>>
            /\ jobStatus[r] # "absent" <=> r[2] <= admitted[r[1]]
        BY RunnerAssumption DEF Run, Known, RowsExist, RowsInOrder
      <4>2. CASE r = new
        BY <2>1, <2>2, <4>1, <4>2 DEF TypeOK, RunnerTypeOK
      <4>3. CASE r # new
        <5>1. jobStatus'[r] = jobStatus[r] /\ (r[1] = p => r[2] # admitted[p] + 1)
          BY <2>1, <2>2, <4>1, <4>3 DEF TypeOK, RunnerTypeOK
        <5>2. admitted'[r[1]] = IF r[1] = p THEN admitted[p] + 1 ELSE admitted[r[1]]
          BY <2>1, <4>1 DEF TypeOK, RunnerTypeOK
        <5>3. QED BY <2>1, <4>1, <5>1, <5>2
      <4>4. QED BY <4>2, <4>3
    <3>2. RowsInOrder'
      BY <3>1 DEF RowsInOrder
    <3>3. QED
      BY <2>1, <2>2, <2>4, <3>2 DEF Known, RowsExist, TypeOK, RunnerTypeOK
  <2>6. ASSUME NEW r \in Run, Unsubmitted(r)' PROVE r = new \/ Unsubmitted(r)
    BY <2>1, <2>6 DEF Unsubmitted, IsLatest, ProjectOf, Run, TypeOK, RunnerTypeOK
  <2>7. NotYetKnown'
    <3>1. /\ new \notin pass /\ ~Interrupted(Recoverer, new)
          /\ \A w \in Worker : ~Has(w, new)
      BY <2>2, DesktopAssumption DEF Known, RowsExist, RowsInOrder
    <3>2. QED BY <2>1, <2>2, <2>4, <2>6, <3>1, DesktopAssumption DEF Known, NotYetKnown
  <2>8. QED BY <2>3, <2>4, <2>5, <2>7 DEF Known
<1>2. ASSUME NEW w \in Worker, Enqueue(p, w) PROVE OwnInv'
  <2> DEFINE run == Latest(p)
  <2>1. /\ run \in Run \ Submitted /\ jobStatus[run] = "queued"
        /\ sup[w].pc = "none" /\ thread[w].pc = "idle" /\ phase = "accepting"
        /\ sup' = [sup EXCEPT ![w] = [pc |-> "spawned", run |-> run]]
        /\ api[p].pc = "admitted"
        /\ api' = [api EXCEPT ![p] = [pc |-> "enqueued", previous |-> api[p].previous]]
        /\ UNCHANGED <<admitted, jobStatus, thread, interrupt, phase, pass>>
    BY <1>2 DEF Enqueue, SetApi, catalog
  <2>2. Unsubmitted(run)
    BY <2>1 DEF Unsubmitted, IsLatest, Latest, ProjectOf
  <2>3. SlotsMatch' /\ PhasesMatch'
    BY <2>1 DEF SlotsMatch, PhasesMatch, TypeOK, RunnerTypeOK
  <2>4. /\ \A v \in Worker, r \in Run :
              /\ Has(v, r)' => Has(v, r) \/ (v = w /\ r = run)
              /\ Supervised(v, r)' => Supervised(v, r) \/ (v = w /\ r = run)
        /\ \A i \in Interrupter, r \in Run : Interrupted(i, r)' <=> Interrupted(i, r)
    BY <2>1 DEF Has, Supervised, Executed, Interrupted, TypeOK
  <2>5. RowsExist'
    BY <2>1, <2>4 DEF Known, RowsExist, RowsInOrder
  <2>6. OneSlotPerRun'
    BY <2>1, <2>2, <2>4 DEF Known, OneSlotPerRun, NotYetKnown
  <2>7. \A r \in Run : Unsubmitted(r)' => Unsubmitted(r) /\ r # run
    BY <2>1 DEF Unsubmitted, IsLatest, Latest, ProjectOf, TypeOK, RunnerTypeOK
  <2>8. NotYetKnown'
    BY <2>1, <2>2, <2>4, <2>7, DesktopAssumption DEF Known, NotYetKnown
  <2>9. QED BY <2>3, <2>5, <2>6, <2>8 DEF Known
<1>3. CASE \/ Request(p)
           \/ (ApiLeave(p) \/ ApiReturn(p)) /\ UNCHANGED desktopVars
           \/ EnqueueFails(p) \/ FailAdmission(p) \/ AdmissionLost(p)
  <2>1. UNCHANGED <<admitted, thread, interrupt, phase, sup, pass>>
    BY <1>3 DEF Request, ApiEnter, RequestPause, ApiLeave, ApiReturn, EnqueueFails, FailAdmission,
                AdmissionLost, desktopVars, catalog
  <2>2. /\ \A q \in Project : q # p => api'[q] = api[q]
        /\ api'[p].pc # "admitted" \/ api'[p] = api[p]
        /\ phase \in {"down", "starting"} /\ api[p].pc = "idle" => api'[p] = api[p]
    BY <1>3 DEF Request, ApiEnter, RequestPause, ApiLeave, ApiReturn, EnqueueFails, FailAdmission,
                AdmissionLost, SetApi, IdleApi, TypeOK, RunnerTypeOK
  <2>3. \A r \in Run : jobStatus'[r] = "absent" <=> jobStatus[r] = "absent"
    BY <1>3 DEF Request, ApiEnter, RequestPause, ApiLeave, ApiReturn, EnqueueFails, FailAdmission,
                AdmissionLost, catalog, TypeOK, RunnerTypeOK
  <2>4. SlotsMatch' /\ PhasesMatch'
    BY <2>1, <2>2 DEF SlotsMatch, PhasesMatch
  <2>5. \A r \in Run : Unsubmitted(r)' => Unsubmitted(r)
    BY <2>1, <2>2 DEF Unsubmitted, IsLatest, ProjectOf, Run
  <2>6. /\ \A w \in Worker, r \in Run : /\ Has(w, r)' => Has(w, r)
                                        /\ Supervised(w, r)' => Supervised(w, r)
        /\ \A i \in Interrupter, r \in Run : Interrupted(i, r)' => Interrupted(i, r)
    BY <2>1 DEF Has, Supervised, Executed, Interrupted
  <2>7. Known'
    BY <2>1, <2>3, <2>5, <2>6, NobodyNewKnows, DesktopAssumption DEF TypeOK
  <2>8. QED BY <2>4, <2>7
<1>4. \/ AdmitJob(p) \/ \E w \in Worker : Enqueue(p, w)
      \/ Request(p)
      \/ (ApiLeave(p) \/ ApiReturn(p)) /\ UNCHANGED desktopVars
      \/ EnqueueFails(p) \/ FailAdmission(p) \/ AdmissionLost(p)
  BY DEF ApiStep
<1>5. QED BY <1>1, <1>2, <1>3, <1>4


\* Supervision: the run stays in the slot of its supervisor (_run_job).
LEMMA SupervisorKeepsSlots ==
    ASSUME TypeOK, OwnInv, NEW w \in Worker, SupervisorStep(w) \/ Timeout(w)
    PROVE  OwnInv'
<1> USE DEF OwnInv
<1>1. w \in Interrupter /\ Recoverer \in Interrupter /\ w # Recoverer
  BY DesktopAssumption
<1>2. /\ UNCHANGED <<admitted, jobStatus, api, phase, pass>>
      /\ \A v \in Worker : v # w => sup'[v] = sup[v] /\ thread'[v] = thread[v]
      /\ \A i \in Interrupter : i # w => interrupt'[i] = interrupt[i]
      /\ sup[w].pc # "none" /\ sup[w].run \in Run
  BY DEF SupervisorStep, Supervise, SupervisorEnds, SupervisorInterrupts, InterruptReturns,
         Timeout, Deliver, InterruptRead, SetSup, SetThread, SetInterrupt, runnerVars, catalog,
         TypeOK, RunnerTypeOK, IdleSup
<1>3. PhasesMatch'
  BY <1>2 DEF PhasesMatch
<1>4. /\ thread'[w].pc # "idle" => thread'[w].run = sup[w].run
      /\ thread'[w].pc # "idle" /\ thread[w].pc = "idle" => sup'[w].pc # "none"
      /\ sup'[w].pc # "none" => sup'[w].run = sup[w].run
      /\ interrupt'[w].pc # "idle" =>
            /\ interrupt'[w].run = sup[w].run
            /\ interrupt[w].pc # "idle" \/ jobStatus[sup[w].run] # "absent"
  BY <1>1 DEF SupervisorStep, Supervise, SupervisorEnds, SupervisorInterrupts, InterruptReturns,
         Timeout, Deliver, InterruptRead, SetSup, SetThread, SetInterrupt, runnerVars, catalog,
         TypeOK, RunnerTypeOK, IdleSup, IdleThread, Cancelled, Stopped, SlotsMatch, ActiveStatuses
<1>5. SlotsMatch'
  <2>1. \A v \in Worker : v # w => UNCHANGED <<sup[v], thread[v], interrupt[v]>>
    BY <1>2, DesktopAssumption
  <2>2. CASE Supervise(w)
    <3>1. /\ thread[w].pc = "idle" /\ sup[w].pc = "spawned" /\ UNCHANGED interrupt
          /\ thread'[w].pc = "dispatched" /\ thread'[w].run = sup[w].run /\ ~thread'[w].fallback
          /\ sup'[w] = [pc |-> "watching", run |-> sup[w].run]
      BY <2>2 DEF Supervise, Deliver, SetThread, SetSup, TypeOK, RunnerTypeOK
    <3>2. QED BY <2>1, <3>1 DEF SlotsMatch, OnlyRecords
  <2>3. CASE Timeout(w)
    <3>1. /\ thread'[w] = Cancelled(thread[w]) /\ sup'[w] = [pc |-> "draining", run |-> sup[w].run]
          /\ sup[w].pc = "watching" /\ UNCHANGED interrupt
      BY <2>3 DEF Timeout, SetThread, SetSup, TypeOK, RunnerTypeOK
    <3>2. QED BY <2>1, <3>1 DEF SlotsMatch, OnlyRecords, Cancelled, Stopped, IdleThread
  <2>4. CASE SupervisorEnds(w) \/ InterruptReturns(w)
    <3>1. /\ sup'[w] = IdleSup /\ UNCHANGED <<thread, interrupt>>
          /\ thread[w].pc = "idle" \/ sup[w].pc = "interrupting"
          /\ sup[w].pc = "interrupting" => interrupt[w].pc = "idle"
      BY <2>4 DEF SupervisorEnds, InterruptReturns, runnerVars, TypeOK, SlotsMatch
    <3>2. QED BY <2>1, <3>1, <1>2 DEF SlotsMatch, IdleSup
  <2>5. CASE SupervisorInterrupts(w)
    <3>1. /\ UNCHANGED thread /\ sup[w].pc # "interrupting"
          /\ thread[w].pc = "idle" \/ thread[w].fallback
      BY <2>5 DEF SupervisorInterrupts, InterruptRead, runnerVars, TaskEnded, SlotsMatch
    <3>2. \/ /\ sup'[w] = [pc |-> "interrupting", run |-> sup[w].run]
             /\ interrupt'[w].run = sup[w].run
          \/ sup'[w] = IdleSup /\ UNCHANGED interrupt
      BY <2>5, <1>1 DEF SupervisorInterrupts, InterruptRead, SetInterrupt, SetSup, runnerVars,
                        TypeOK, RunnerTypeOK
    <3>3. QED BY <1>2, <2>1, <3>1, <3>2 DEF SlotsMatch, IdleSup
  <2>6. QED BY <2>2, <2>3, <2>4, <2>5 DEF SupervisorStep
<1>6. /\ \A v \in Worker, r \in Run : /\ Has(v, r)' => Has(v, r)
                                      /\ Supervised(v, r)' => Supervised(v, r)
      /\ \A i \in Interrupter, r \in Run :
            Interrupted(i, r)' => Interrupted(i, r) \/ (i = w /\ jobStatus[r] # "absent")
      /\ \A r \in Run : Unsubmitted(r)' => Unsubmitted(r)
  <2>1. ASSUME NEW r \in Run PROVE /\ Has(w, r)' => Has(w, r)
                                   /\ Supervised(w, r)' => Supervised(w, r)
    BY <1>2, <1>4 DEF Has, Supervised, Executed
  <2>2. ASSUME NEW v \in Worker, v # w, NEW r \in Run
        PROVE  Has(v, r)' => Has(v, r) /\ (Supervised(v, r)' => Supervised(v, r))
    BY <1>2, <2>2 DEF Has, Supervised, Executed
  <2>3. ASSUME NEW r \in Run
        PROVE  Interrupted(w, r)' => Interrupted(w, r) \/ jobStatus[r] # "absent"
    BY <1>2, <1>4 DEF Interrupted, SlotsMatch
  <2>4. \A i \in Interrupter, r \in Run : i # w /\ Interrupted(i, r)' => Interrupted(i, r)
    BY <1>2 DEF Interrupted
  <2>5. \A r \in Run : Unsubmitted(r)' => Unsubmitted(r)
    BY <1>2 DEF Unsubmitted, IsLatest
  <2>6. QED BY <2>1, <2>2, <2>3, <2>4, <2>5 DEF Has
<1>7. RowsExist'
  BY <1>2, <1>6 DEF Known, RowsExist, RowsInOrder
<1>8. OneSlotPerRun'
  BY <1>6 DEF Known, OneSlotPerRun
<1>9. NotYetKnown'
  BY <1>1, <1>2, <1>6 DEF Known, NotYetKnown
<1>10. QED BY <1>3, <1>5, <1>7, <1>8, <1>9 DEF Known

\* Interruption and recovery: a listed run is none of a supervisor or an admission.
LEMMA RecoveryKeepsSlots ==
    ASSUME TypeOK, OwnInv,
           \/ \E i \in Interrupter : Interruption(i)
           \/ RecoverPass
           \/ \E r \in Run : RecoverJob(r)
    PROVE  OwnInv'
<1> USE DEF OwnInv
<1>0. Recoverer \in Interrupter /\ Worker \subseteq Interrupter /\ Recoverer \notin Worker
  BY DesktopAssumption
<1>1. UNCHANGED <<admitted, thread, api, sup, phase>>
  BY DEF Interruption, InterruptStep, InterruptLock, InterruptBusy, InterruptMark, InterruptProject,
         InterruptFaults, RecoverPass, RecoverJob, InterruptRead, runnerVars, catalog, desktopVars
<1>2. PhasesMatch'
  BY <1>1 DEF PhasesMatch
<1>3. /\ \A v \in Worker, r \in Run : /\ Has(v, r)' <=> Has(v, r)
                                      /\ Supervised(v, r)' <=> Supervised(v, r)
      /\ \A r \in Run : Unsubmitted(r)' <=> Unsubmitted(r)
  BY <1>1 DEF Has, Supervised, Executed, Unsubmitted, IsLatest
<1>4. ASSUME NEW i \in Interrupter, Interruption(i) PROVE OwnInv'
  <2>1. /\ \A j \in Interrupter : j # i => interrupt'[j] = interrupt[j]
        /\ interrupt[i].pc # "idle"
        /\ interrupt'[i].pc = "idle" \/ interrupt'[i].run = interrupt[i].run
        /\ UNCHANGED pass
    BY <1>4 DEF Interruption, InterruptStep, InterruptLock, InterruptBusy, InterruptMark,
         InterruptProject, InterruptFaults, InterruptGoto, SetInterrupt, IdleInterrupt, TypeOK,
         InterruptLockedPcs, RunnerTypeOK, desktopVars
  <2>2. \A r \in Run : jobStatus'[r] = "absent" <=> jobStatus[r] = "absent"
    BY <1>4 DEF Interruption, InterruptStep, InterruptLock, InterruptBusy, InterruptMark,
         InterruptProject, InterruptFaults, catalog, TypeOK, RunnerTypeOK, ActiveStatuses
  <2>3. SlotsMatch'
    BY <1>0, <1>1, <2>1 DEF SlotsMatch
  <2>4. \A j \in Interrupter, r \in Run : Interrupted(j, r)' => Interrupted(j, r)
    BY <2>1 DEF Interrupted
  <2>5. Known'
    BY <1>0, <1>1, <1>3, <2>1, <2>2, <2>4, NobodyNewKnows DEF TypeOK
  <2>6. QED BY <1>2, <2>3, <2>5
<1>5. CASE RecoverPass
  <2>1. /\ pass' = {r \in ActiveRuns : ~InAdmission(r)} /\ UNCHANGED <<jobStatus, interrupt>>
    BY <1>5 DEF RecoverPass, runnerVars, catalog
  <2>2. \A r \in pass' : r \in Run /\ jobStatus[r] # "absent" /\ ~Unsubmitted(r)
    BY <2>1 DEF ActiveRuns, InAdmission, Unsubmitted, ActiveStatuses
  <2>3. SlotsMatch' /\ OneSlotPerRun'
    BY <1>1, <1>3, <2>1 DEF SlotsMatch, Known, OneSlotPerRun
  <2>4. RowsExist' /\ NotYetKnown'
    BY <1>1, <1>3, <2>1, <2>2 DEF Known, RowsExist, RowsInOrder, NotYetKnown, Interrupted
  <2>5. QED BY <1>2, <2>3, <2>4 DEF Known
<1>6. ASSUME NEW r \in Run, RecoverJob(r) PROVE OwnInv'
  <2>1. /\ r \in pass /\ pass' = pass \ {r} /\ UNCHANGED jobStatus
        /\ \A i \in Interrupter : i # Recoverer => interrupt'[i] = interrupt[i]
        /\ interrupt[Recoverer].pc = "idle"
    BY <1>6 DEF RecoverJob, InterruptRead, SetInterrupt, runnerVars, catalog, TypeOK, RunnerTypeOK
  <2>2. interrupt'[Recoverer].pc # "idle" =>
           interrupt'[Recoverer].run = r /\ jobStatus[r] # "absent" /\ r \notin Submitted
    BY <1>0, <1>6, <2>1 DEF RecoverJob, InterruptRead, SetInterrupt, runnerVars, ActiveRuns,
       ActiveStatuses, TypeOK, RunnerTypeOK
  <2>3. \A w \in Worker : r \notin Submitted => ~Supervised(w, r)
    BY DEF Submitted, Supervised
  <2>4. \A q \in Run : Interrupted(Recoverer, q)' =>
           q = r /\ jobStatus[r] # "absent" /\ \A w \in Worker : ~Supervised(w, r)
    BY <2>2, <2>3 DEF Interrupted
  <2>5. SlotsMatch' /\ OneSlotPerRun'
    BY <1>0, <1>1, <1>3, <2>1 DEF SlotsMatch, Known, OneSlotPerRun
  <2>6. \A i \in Interrupter, q \in Run : i # Recoverer /\ Interrupted(i, q)' => Interrupted(i, q)
    BY <2>1 DEF Interrupted
  <2>7. RowsExist' /\ NotYetKnown'
    BY <1>0, <1>1, <1>3, <2>1, <2>4, <2>6 DEF Known, RowsExist, RowsInOrder, NotYetKnown
  <2>8. QED BY <1>2, <2>5, <2>7 DEF Known
<1>7. QED BY <1>4, <1>5, <1>6


\* Start, stop, exit and death of the process.
LEMMA ProcessKeepsSlots ==
    ASSUME TypeOK, OwnInv, Launch \/ Open \/ BeginStop \/ ReleaseWorkspace \/ Exit \/ Crash
    PROVE  OwnInv'
<1> USE DEF OwnInv
<1>0. Recoverer \in Interrupter /\ Worker \subseteq Interrupter
  BY DesktopAssumption
<1>1. UNCHANGED <<admitted, jobStatus>>
  BY DEF Launch, Open, BeginStop, ReleaseWorkspace, Exit, Crash, runnerVars, catalog
<1>2. CASE Launch
  <2>1. /\ pass' = ActiveRuns /\ phase = "down" /\ phase' = "starting"
        /\ UNCHANGED <<thread, interrupt, api, sup>>
    BY <1>2 DEF Launch, runnerVars
  <2>2. \A r \in Run : ~Unsubmitted(r)'
    BY <2>1 DEF PhasesMatch, Unsubmitted, ProjectOf, Run
  <2>3. SlotsMatch' /\ PhasesMatch' /\ OneSlotPerRun'
    BY <2>1 DEF SlotsMatch, PhasesMatch, Known, OneSlotPerRun, Has, Supervised, Executed
  <2>4. RowsExist' /\ NotYetKnown'
    BY <1>1, <2>1, <2>2 DEF Known, RowsExist, RowsInOrder, NotYetKnown, ActiveRuns, ActiveStatuses,
                            Has, Supervised, Executed, Interrupted
  <2>5. QED BY <2>3, <2>4 DEF Known
<1>3. CASE Open \/ ReleaseWorkspace
  <2>1. UNCHANGED <<thread, interrupt, api, sup, pass>>
    BY <1>3 DEF Open, ReleaseWorkspace, runnerVars
  <2>2. SlotsMatch' /\ PhasesMatch'
    BY <1>3, <2>1 DEF SlotsMatch, PhasesMatch, Open, ReleaseWorkspace, Idle
  <2>3. Known'
    BY <1>0, <1>1, <2>1, NobodyNewKnows
       DEF Has, Supervised, Executed, Interrupted, Unsubmitted, IsLatest, TypeOK
  <2>4. QED BY <2>2, <2>3
<1>4. CASE BeginStop
  <2>0. phase' = "stopping" /\ UNCHANGED <<interrupt, api, pass>>
    BY <1>4 DEF BeginStop
  <2>1. ASSUME NEW w \in Worker
        PROVE \/ thread'[w] = thread[w] /\ sup'[w] = sup[w]
              \/ /\ thread'[w] = Cancelled(thread[w]) /\ sup[w].pc = "watching"
                 /\ sup'[w] = [pc |-> "draining", run |-> sup[w].run]
    BY <1>4 DEF BeginStop, TypeOK, RunnerTypeOK
  <2>2. ASSUME NEW w \in Worker
        PROVE  /\ thread'[w].pc # "idle" => /\ thread'[w].run = thread[w].run
                                            /\ thread[w].pc # "idle"
                                            /\ thread'[w].fallback <=> thread[w].fallback
               /\ OnlyRecords(thread[w]) => OnlyRecords(thread'[w])
               /\ sup'[w].run = sup[w].run
               /\ sup'[w].pc = sup[w].pc \/ (sup[w].pc = "watching" /\ sup'[w].pc = "draining")
    <3>1. CASE thread'[w] = thread[w] /\ sup'[w] = sup[w]
      BY <3>1 DEF OnlyRecords
    <3>2. CASE /\ thread'[w] = Cancelled(thread[w]) /\ sup[w].pc = "watching"
               /\ sup'[w] = [pc |-> "draining", run |-> sup[w].run]
      BY <3>2 DEF Cancelled, Stopped, IdleThread, OnlyRecords
    <3>3. QED BY <2>1, <3>1, <3>2
  <2>3. SlotsMatch' /\ PhasesMatch'
    BY <2>0, <2>2 DEF SlotsMatch, PhasesMatch
  <2>4. \A w \in Worker, r \in Run : /\ Has(w, r)' => Has(w, r)
                                     /\ Supervised(w, r)' => Supervised(w, r)
    BY <2>2 DEF Has, Supervised, Executed
  <2>5. Known'
    BY <1>0, <1>1, <2>0, <2>4, NobodyNewKnows DEF Interrupted, Unsubmitted, IsLatest, TypeOK
  <2>6. QED BY <2>3, <2>5
<1>5. CASE Exit \/ Crash
  <2>1. /\ Die(Worker, Interrupter, Project) /\ phase' = "down"
        /\ \A w \in Worker : sup'[w].pc = "none"
        /\ pass' \subseteq pass
    BY <1>5 DEF Exit, Crash, IdleSup, PhasesMatch
  <2>2. /\ \A w \in Worker : thread'[w] = IdleThread
        /\ \A i \in Interrupter : interrupt'[i] = IdleInterrupt
        /\ \A p \in Project : api'[p] = IdleApi
    BY <2>1 DEF Die
  <2>3. SlotsMatch' /\ PhasesMatch'
    BY <1>0, <2>1, <2>2 DEF SlotsMatch, PhasesMatch, OnlyRecords, IdleThread, IdleInterrupt, IdleApi
  <2>4. /\ \A w \in Worker, r \in Run : ~Has(w, r)' /\ ~Supervised(w, r)'
        /\ \A i \in Interrupter, r \in Run : ~Interrupted(i, r)'
        /\ \A r \in Run : ~Unsubmitted(r)'
    BY <2>1, <2>2 DEF Has, Supervised, Executed, Interrupted, Unsubmitted, IdleThread,
                      IdleInterrupt, IdleApi, ProjectOf, Run
  <2>5. Known'
    BY <1>0, <1>1, <2>1, <2>4, NobodyNewKnows DEF TypeOK
  <2>6. QED BY <2>3, <2>5
<1>6. QED BY <1>2, <1>3, <1>4, <1>5

\* Every run is in one slot, and known to one submission, in every behaviour.
LEMMA RunsAreOwned == Spec => []OwnInv
<1>1. Init => OwnInv
  BY DesktopAssumption
     DEF Init, RunnerInit, OwnInv, SlotsMatch, PhasesMatch, Known, RowsExist, RowsInOrder,
         OneSlotPerRun, NotYetKnown, Has, Supervised, Executed, Interrupted, Unsubmitted, OnlyRecords, ProjectOf,
         Run, IdleApi, IdleThread, IdleInterrupt, IdleSup
<1>2. TypeOK /\ OwnInv /\ [Next]_vars => OwnInv'
  <2> SUFFICES ASSUME TypeOK, OwnInv, [Next]_vars PROVE OwnInv'
    OBVIOUS
  <2>1. ASSUME NEW p \in Project,
               \/ Request(p) \/ ApiStep(p) \/ AdmitJob(p) \/ EnqueueFails(p) \/ AdmissionLost(p)
        PROVE  OwnInv'
    BY <2>1, AdmissionKeepsSlots
  <2>2. ASSUME NEW w \in Worker, SupervisorStep(w) \/ Timeout(w) PROVE OwnInv'
    BY <2>2, SupervisorKeepsSlots
  <2>3. ASSUME NEW w \in Worker, Execution(w) PROVE OwnInv'
    BY <2>3, ExecutionKeepsSlots
  <2>4. CASE \/ \E i \in Interrupter : Interruption(i)
             \/ RecoverPass \/ \E r \in Run : RecoverJob(r)
    BY <2>4, RecoveryKeepsSlots
  <2>5. CASE Launch \/ Open \/ BeginStop \/ ReleaseWorkspace \/ Exit \/ Crash
    BY <2>5, ProcessKeepsSlots
  <2>6. CASE UNCHANGED vars
    BY <2>6 DEF vars, runnerVars, desktopVars, catalog, OwnInv, SlotsMatch, PhasesMatch, Known,
        RowsExist, RowsInOrder, OneSlotPerRun, NotYetKnown, Has, Supervised, Executed, Interrupted,
        Unsubmitted, IsLatest, OnlyRecords
  <2>7. QED BY <2>1, <2>2, <2>3, <2>4, <2>5, <2>6 DEF Next
<1>3. QED BY <1>1, <1>2, TypeCorrect, PTL DEF Spec

\* A released workspace has no supervisor and no thread that works or publishes: what is left
\* is at most the abandoned second recording of a failure (LocalRuntime.stop).
THEOREM ReleaseIsClean == Spec => []ReleasedMeansNoWork
<1>1. OwnInv => ReleasedMeansNoWork
  BY DEF OwnInv, SlotsMatch, PhasesMatch, OnlyRecords, TerminalPcs, ReleasedMeansNoWork
<1>2. QED BY <1>1, RunsAreOwned, PTL


-----------------------------------------------------------------------------
(* What the rows say                                                       *)

\* A job row says how far the run in the slot is.
JobsMatch ==
    \A w \in Worker :
        /\ thread[w].pc # "idle" => JobFits(thread[w], jobStatus[thread[w].run])
        /\ sup[w].pc = "spawned" => jobStatus[sup[w].run] # "done"

\* An interruption that has marked its job has ended it.
MarksMatch ==
    \A i \in Interrupter :
        interrupt[i].pc = "marked" => jobStatus[interrupt[i].run] \notin ActiveStatuses

\* A run that is going to work, or works.
Upcoming(r) ==
    \/ Unsubmitted(r)
    \/ \E w \in Worker : sup[w].pc = "spawned" /\ sup[w].run = r
    \/ \E w \in Worker : thread[w].pc \in UpcomingPcs /\ thread[w].run = r

Occupied(p) == projectStatus[p] \in RUNNING_PROJECT_STATUSES

\* The project of the latest run is busy from its admission to its publication.
ProjectsMatch ==
    /\ \A r \in Run : Upcoming(r) /\ IsLatest(r) /\ jobStatus[r] \in ActiveStatuses
                         => Occupied(ProjectOf(r))
    /\ \A w \in Worker : thread[w].pc = "publishProject"
                            => IsLatest(thread[w].run) /\ Occupied(ProjectOf(thread[w].run))

RowsInv == JobsMatch /\ MarksMatch /\ ProjectsMatch

\* A step that writes no row keeps what the rows say, if it only moves a run on within its
\* slot, or drops it.
LEMMA NoRowIsWritten ==
    ASSUME TypeOK, RowsInv, UNCHANGED catalog,
           \A w \in Worker : thread'[w].pc # "idle" =>
              \/ thread'[w].pc = thread[w].pc /\ thread'[w].run = thread[w].run
              \/ /\ thread'[w].pc = "dispatched" /\ thread'[w].run = sup[w].run
                 /\ sup[w].pc = "spawned",
           \A w \in Worker : sup'[w].pc = "spawned" =>
              \/ sup[w].pc = "spawned" /\ sup'[w].run = sup[w].run
              \/ Unsubmitted(sup'[w].run) /\ jobStatus[sup'[w].run] = "queued",
           \A i \in Interrupter : interrupt'[i].pc = "marked" =>
              interrupt[i].pc = "marked" /\ interrupt'[i].run = interrupt[i].run,
           \A r \in Run : Unsubmitted(r)' => Unsubmitted(r)
    PROVE  RowsInv'
<1> USE DEF RowsInv, catalog
<1>1. JobsMatch'
  BY DEF JobsMatch, JobFits
<1>2. MarksMatch'
  BY DEF MarksMatch
<1>3. \A r \in Run : Upcoming(r)' => Upcoming(r)
  BY DEF Upcoming, UpcomingPcs
<1>4. ProjectsMatch'
  BY <1>3 DEF ProjectsMatch, Occupied, IsLatest
<1>5. QED BY <1>1, <1>2, <1>4

\* Whoever is being interrupted can only still record its failure.
LEMMA InterruptedIsOver ==
    ASSUME TypeOK, OwnInv, NEW i \in Interrupter, interrupt[i].pc # "idle",
           NEW w \in Worker, thread[w].pc # "idle", thread[w].run = interrupt[i].run
    PROVE  thread[w].pc \in TerminalPcs
<1> DEFINE run == interrupt[i].run
<1>1. run \in Run
  BY DEF TypeOK, RunnerTypeOK, Interrupts, IdleInterrupt
<1>2. CASE i \in Worker
  <2>1. Has(i, run) /\ Has(w, run) /\ sup[i].pc = "interrupting"
    BY <1>2 DEF OwnInv, SlotsMatch, Has, Supervised, Executed
  <2>2. i = w
    BY <1>1, <1>2, <2>1 DEF OwnInv, Known, OneSlotPerRun
  <2>3. QED BY <2>1, <2>2 DEF OwnInv, SlotsMatch, OnlyRecords
<1>3. CASE i = Recoverer
  <2>1. ~Supervised(w, run)
    BY <1>1, <1>3 DEF OwnInv, Known, NotYetKnown, Interrupted
  <2>2. QED BY <2>1 DEF OwnInv, SlotsMatch, OnlyRecords, Supervised
<1>4. QED BY <1>2, <1>3, DesktopAssumption

\* The latest run is in no other slot than the one that publishes or records it.
LEMMA NobodyElseIsUpcoming ==
    ASSUME TypeOK, OwnInv, NEW w \in Worker, thread[w].pc # "idle", NEW v \in Worker, v # w
    PROVE  /\ ~(sup[v].pc # "none" /\ sup[v].run = thread[w].run)
           /\ ~(thread[v].pc # "idle" /\ thread[v].run = thread[w].run)
           /\ ~Unsubmitted(thread[w].run)
           /\ sup[w].pc # "spawned"
<1>1. thread[w].run \in Run /\ Has(w, thread[w].run)
  BY BusyThread DEF TypeOK, RunnerTypeOK, Has, Executed
<1>2. QED
  BY <1>1 DEF OwnInv, SlotsMatch, Known, OneSlotPerRun, NotYetKnown, Has, Supervised, Executed


\* Admission keeps what the rows say: a project that is not busy has no run that works or
\* publishes, and its new run is in no slot (admit_job); the rollback finds a run that
\* nothing has claimed (fail_admission).
LEMMA AdmissionKeepsRows ==
    ASSUME TypeOK, LockInv, OwnInv, RowsInv, NEW p \in Project,
           \/ Request(p) \/ ApiStep(p) \/ AdmitJob(p) \/ EnqueueFails(p) \/ AdmissionLost(p)
    PROVE  RowsInv'
<1> USE DEF RowsInv
<1>1. CASE AdmitJob(p)
  <2> DEFINE new == <<p, admitted[p] + 1>>
  <2>1. /\ admitted' = [admitted EXCEPT ![p] = admitted[p] + 1]
        /\ jobStatus' = [jobStatus EXCEPT ![new] = "queued"]
        /\ projectStatus' = [projectStatus EXCEPT ![p] = "busy"]
        /\ api' = [api EXCEPT ![p] = [pc |-> "admitted", previous |-> api[p].previous]]
        /\ admitted[p] \in Nat /\ ~Occupied(p)
        /\ UNCHANGED <<thread, interrupt, sup>>
    BY <1>1 DEF AdmitJob, SetApi, desktopVars, TypeOK, RunnerTypeOK, Occupied
  <2>2. /\ new \in Run
        /\ \A w \in Worker : ~Has(w, new)
        /\ \A i \in Interrupter : ~Interrupted(i, new)
    BY <1>1, <2>1, RunnerAssumption DEF AdmitJob, Run, OwnInv, Known, RowsExist, RowsInOrder
  <2>3. JobsMatch' /\ MarksMatch'
    BY <2>1, <2>2 DEF JobsMatch, JobFits, MarksMatch, Has, Supervised, Executed, Interrupted,
                      TypeOK, RunnerTypeOK
  <2>4. ASSUME NEW r \in Run, Upcoming(r)', IsLatest(r)', jobStatus'[r] \in ActiveStatuses
        PROVE  Occupied(ProjectOf(r))'
    <3>1. CASE ProjectOf(r) = p
      BY <2>1, <3>1 DEF Occupied, RUNNING_PROJECT_STATUSES, TypeOK, RunnerTypeOK
    <3>2. CASE ProjectOf(r) # p
      <4>1. /\ Upcoming(r) /\ IsLatest(r) /\ jobStatus[r] \in ActiveStatuses
            /\ ProjectOf(r) \in Project
        BY <2>1, <2>4, <3>2 DEF Upcoming, Unsubmitted, IsLatest, ProjectOf, Run, TypeOK,
                                RunnerTypeOK
      <4>2. QED BY <2>1, <3>2, <4>1 DEF ProjectsMatch, Occupied, TypeOK, RunnerTypeOK
    <3>3. QED BY <3>1, <3>2
  <2>5. ASSUME NEW w \in Worker, thread'[w].pc = "publishProject"
        PROVE  IsLatest(thread[w].run)' /\ Occupied(ProjectOf(thread[w].run))'
    <3>1. thread[w].run \in Run /\ IsLatest(thread[w].run) /\ Occupied(ProjectOf(thread[w].run))
      BY <2>1, <2>5, BusyThread DEF ProjectsMatch, TypeOK, RunnerTypeOK
    <3>2. ProjectOf(thread[w].run) # p /\ ProjectOf(thread[w].run) \in Project
      BY <2>1, <3>1 DEF Run, ProjectOf
    <3>3. QED BY <2>1, <3>1, <3>2 DEF IsLatest, Occupied, ProjectOf, TypeOK, RunnerTypeOK
  <2>6. QED BY <2>3, <2>4, <2>5 DEF ProjectsMatch
<1>2. CASE FailAdmission(p) /\ jobStatus[Latest(p)] = "queued"
  <2> DEFINE run == Latest(p)
  <2>1. /\ jobStatus' = [jobStatus EXCEPT ![run] = "error"]
        /\ projectStatus' = [projectStatus EXCEPT ![p] = api[p].previous]
        /\ api' = [api EXCEPT ![p] = IdleApi] /\ api[p].pc # "idle"
        /\ UNCHANGED <<admitted, thread, interrupt, sup>>
    BY <1>2 DEF FailAdmission, desktopVars
  <2>2. \A w \in Worker : thread[w].pc # "idle" /\ thread[w].run = run
            => thread[w].pc \notin {"claimed", "working", "publishProject", "publishJob"}
    BY <1>2, <2>1, AdmissionFindsNoWork DEF JobsMatch, JobFits, DomainPcs, ProjectOf, Latest
  <2>3. JobsMatch' /\ MarksMatch'
    BY <2>1, <2>2 DEF JobsMatch, JobFits, MarksMatch, ActiveStatuses, TypeOK, RunnerTypeOK
  <2>4. ASSUME NEW r \in Run, IsLatest(r), ProjectOf(r) = p PROVE r = run
    BY <2>4 DEF IsLatest, ProjectOf, Latest, Run
  <2>5. ASSUME NEW r \in Run, Upcoming(r)', IsLatest(r)', jobStatus'[r] \in ActiveStatuses
        PROVE  Occupied(ProjectOf(r))'
    <3>1. Upcoming(r) /\ IsLatest(r) /\ r # run /\ jobStatus[r] \in ActiveStatuses
      BY <2>1, <2>5 DEF Upcoming, Unsubmitted, IsLatest, ProjectOf, Run, IdleApi, ActiveStatuses,
                        TypeOK, RunnerTypeOK
    <3>2. ProjectOf(r) # p
      BY <2>4, <3>1
    <3>3. QED BY <2>1, <3>1, <3>2 DEF ProjectsMatch, Occupied, TypeOK, RunnerTypeOK
  <2>6. ASSUME NEW w \in Worker, thread'[w].pc = "publishProject"
        PROVE  IsLatest(thread[w].run)' /\ Occupied(ProjectOf(thread[w].run))'
    <3>1. /\ thread[w].run \in Run /\ IsLatest(thread[w].run)
          /\ Occupied(ProjectOf(thread[w].run)) /\ thread[w].run # run
      BY <2>1, <2>2, <2>6, BusyThread DEF ProjectsMatch, TypeOK, RunnerTypeOK
    <3>2. ProjectOf(thread[w].run) # p
      BY <2>4, <3>1
    <3>3. QED BY <2>1, <3>1, <3>2 DEF IsLatest, Occupied, TypeOK, RunnerTypeOK
  <2>7. QED BY <2>3, <2>5, <2>6 DEF ProjectsMatch
<1>3. CASE RequestPause(p) /\ UNCHANGED desktopVars
  <2>1. /\ projectStatus' = [projectStatus EXCEPT ![p] = "pausing"]
        /\ UNCHANGED <<admitted, jobStatus, api, thread, interrupt, sup>>
    BY <1>3 DEF RequestPause, desktopVars
  <2>2. \A q \in Project : Occupied(q) => Occupied(q)'
    BY <2>1 DEF Occupied, RUNNING_PROJECT_STATUSES, TypeOK, RunnerTypeOK
  <2>3. \A r \in Run : ProjectOf(r) \in Project /\ (Upcoming(r)' => Upcoming(r))
    BY <2>1 DEF Upcoming, Unsubmitted, IsLatest, ProjectOf, Run
  <2>4. \A w \in Worker : thread[w].pc = "publishProject" => thread[w].run \in Run
    BY BusyThread DEF TypeOK, RunnerTypeOK
  <2>5. QED BY <2>1, <2>2, <2>3, <2>4 DEF JobsMatch, JobFits, MarksMatch, ProjectsMatch, IsLatest
<1>4. ASSUME NEW w \in Worker, Enqueue(p, w) PROVE RowsInv'
  <2>1. /\ UNCHANGED <<catalog, thread, interrupt>>
        /\ api[p].pc = "admitted" /\ jobStatus[Latest(p)] = "queued"
        /\ sup' = [sup EXCEPT ![w] = [pc |-> "spawned", run |-> Latest(p)]]
        /\ api' = [api EXCEPT ![p] = [pc |-> "enqueued", previous |-> api[p].previous]]
    BY <1>4 DEF Enqueue, SetApi
  <2>2. Unsubmitted(Latest(p))
    BY <2>1 DEF Unsubmitted, IsLatest, Latest, ProjectOf
  <2>3. \A r \in Run : Unsubmitted(r)' => Unsubmitted(r)
    BY <2>1 DEF Unsubmitted, IsLatest, catalog, TypeOK, RunnerTypeOK
  <2>4. QED BY <2>1, <2>2, <2>3, NoRowIsWritten DEF TypeOK, RunnerTypeOK
<1>5. CASE \/ ApiEnter(p) /\ UNCHANGED desktopVars
           \/ (ApiLeave(p) \/ ApiReturn(p)) /\ UNCHANGED desktopVars
           \/ EnqueueFails(p) \/ AdmissionLost(p)
           \/ FailAdmission(p) /\ jobStatus[Latest(p)] # "queued"
  <2>1. UNCHANGED <<catalog, thread, interrupt, sup>>
    BY <1>5 DEF ApiEnter, ApiLeave, ApiReturn, EnqueueFails, FailAdmission, AdmissionLost,
                desktopVars, catalog
  <2>2. /\ \A q \in Project : q # p => api'[q] = api[q]
        /\ api'[p].pc # "admitted"
    BY <1>5 DEF ApiEnter, ApiLeave, ApiReturn, EnqueueFails, FailAdmission, AdmissionLost,
                SetApi, IdleApi, TypeOK, RunnerTypeOK
  <2>3. \A r \in Run : Unsubmitted(r)' => Unsubmitted(r)
    BY <2>1, <2>2 DEF Unsubmitted, IsLatest, ProjectOf, Run, catalog
  <2>4. QED BY <2>1, <2>3, NoRowIsWritten
<1>6. \/ AdmitJob(p) \/ \E w \in Worker : Enqueue(p, w)
      \/ RequestPause(p) /\ UNCHANGED desktopVars
      \/ ApiEnter(p) /\ UNCHANGED desktopVars
      \/ (ApiLeave(p) \/ ApiReturn(p)) /\ UNCHANGED desktopVars
      \/ EnqueueFails(p) \/ FailAdmission(p) \/ AdmissionLost(p)
  BY DEF ApiStep, Request
<1>7. QED BY <1>1, <1>2, <1>3, <1>4, <1>5, <1>6


\* An execution writes the rows of its own run, which nobody else works on, and the project
\* row only for the latest run (execute, record_terminal_status).
LEMMA ExecutionKeepsRows ==
    ASSUME TypeOK, LockInv, OwnInv, RowsInv, NEW w \in Worker, Execution(w)
    PROVE  RowsInv'
<1> USE DEF RowsInv
<1> DEFINE run == thread[w].run
<1>1. /\ thread[w].pc # "idle" /\ run \in Run
      /\ \A v \in Worker : v # w => thread'[v] = thread[v]
      /\ thread'[w].pc # "idle" => thread'[w].run = run
      /\ thread'[w].pc \in UpcomingPcs => thread[w].pc \in UpcomingPcs
      /\ UNCHANGED <<admitted, api, interrupt, sup>>
  BY ThreadContinues, BusyThread DEF Execution, TypeOK, RunnerTypeOK, desktopVars
<1>2. /\ \A r \in Run : r # run => jobStatus'[r] = jobStatus[r]
      /\ jobStatus'[run] # jobStatus[run] =>
            \/ jobStatus'[run] \in TerminalStatuses
            \/ jobStatus'[run] = "running" /\ thread[w].pc = "claimed"
      /\ JobFits(thread[w], jobStatus[run]) => JobFits(thread'[w], jobStatus'[run])
  BY JobContinues DEF Execution, TypeOK
<1>3. /\ JobFits(thread[w], jobStatus[run])
      /\ thread[w].pc = "claimed" => jobStatus[run] = "queued"
      /\ thread[w].pc \in {"working", "publishProject"} => jobStatus[run] = "running"
  BY <1>1 DEF JobsMatch, JobFits
<1>4. \A r \in Run : jobStatus'[r] \in ActiveStatuses => jobStatus[r] \in ActiveStatuses
  BY <1>2, <1>3 DEF ActiveStatuses, TerminalStatuses
<1>5. JobsMatch'
  <2>1. ASSUME NEW v \in Worker, thread'[v].pc # "idle"
        PROVE  JobFits(thread'[v], jobStatus'[thread'[v].run])
    <3>1. CASE v = w
      BY <1>1, <1>2, <1>3, <2>1, <3>1
    <3>2. CASE v # w
      <4>1. thread[v].run \in Run /\ thread[v].run # run /\ thread'[v] = thread[v]
        BY <1>1, <2>1, <3>2, NobodyElseIsUpcoming, BusyThread DEF TypeOK, RunnerTypeOK
      <4>2. QED BY <1>2, <2>1, <4>1 DEF JobsMatch
    <3>3. QED BY <3>1, <3>2
  <2>2. ASSUME NEW v \in Worker, sup[v].pc = "spawned" PROVE jobStatus'[sup[v].run] # "done"
    <3>1. v # w /\ sup[v].run \in Run
      BY <1>1, <2>2 DEF OwnInv, SlotsMatch, TypeOK, IdleSup
    <3>2. sup[v].run # run
      BY <1>1, <2>2, <3>1, NobodyElseIsUpcoming
    <3>3. QED BY <1>2, <2>2, <3>1, <3>2 DEF JobsMatch
  <2>3. QED BY <1>1, <2>1, <2>2 DEF JobsMatch
<1>6. MarksMatch'
  <2>1. ASSUME NEW i \in Interrupter, interrupt[i].pc = "marked"
        PROVE  jobStatus'[interrupt[i].run] \notin ActiveStatuses
    <3>1. interrupt[i].run \in Run /\ jobStatus[interrupt[i].run] \notin ActiveStatuses
      BY <2>1 DEF MarksMatch, TypeOK, RunnerTypeOK, Interrupts, IdleInterrupt
    <3>2. QED BY <1>4, <3>1
  <2>2. QED BY <1>1, <2>1 DEF MarksMatch
<1>7. \A r \in Run : Upcoming(r)' => Upcoming(r)
  <2>1. ASSUME NEW r \in Run, NEW v \in Worker, thread'[v].pc \in UpcomingPcs, thread'[v].run = r
        PROVE  thread[v].pc \in UpcomingPcs /\ thread[v].run = r
    BY <1>1, <2>1 DEF UpcomingPcs
  <2>2. QED BY <1>1, <2>1 DEF Upcoming, Unsubmitted, IsLatest
<1>8. ASSUME NEW v \in Worker, thread'[v].pc = "publishProject"
      PROVE  /\ thread'[v].run = thread[v].run /\ thread[v].run \in Run
             /\ thread[v].pc # "idle" /\ IsLatest(thread[v].run)
             /\ Occupied(ProjectOf(thread[v].run))
             /\ projectStatus' = projectStatus \/ v # w
  <2>1. CASE v # w
    BY <1>1, <1>8, <2>1, BusyThread DEF ProjectsMatch, TypeOK, RunnerTypeOK
  <2>2. CASE v = w
    <3>1. thread[w].pc \in {"working", "publishProject"} /\ projectStatus' = projectStatus
      BY <1>8, <2>2 DEF Execution, ThreadStep, ThreadFault, MonitorPause, Begin, StartupSucceeds,
         Claim, ClaimRefused, MarkRunning, Finish, Halt, PublishProject, PublishJob, TerminalRead,
         TerminalLock, TerminalProject, TerminalJob, StartupFails, ExecuteFaults, RecordFaults,
         RecordTryFaults, Goto, Return, SetThread, At, Recording, Stopped, Unwind, IdleThread,
         catalog, TypeOK, RunnerTypeOK
    <3>2. CASE thread[w].pc = "working"
      <4>1. IsLatest(run) /\ Upcoming(run) /\ jobStatus[run] \in ActiveStatuses
        BY <1>1, <1>3, <3>2 DEF LockInv, OnlyLatestRunWorks, DomainPcs, Upcoming, UpcomingPcs,
                                ActiveStatuses
      <4>2. QED BY <1>1, <1>8, <2>2, <3>1, <3>2, <4>1 DEF ProjectsMatch
    <3>3. CASE thread[w].pc = "publishProject"
      BY <1>1, <1>8, <2>2, <3>1, <3>3 DEF ProjectsMatch
    <3>4. QED BY <3>1, <3>2, <3>3
  <2>3. QED BY <2>1, <2>2
<1>9. ASSUME NEW r \in Run PROVE (IsLatest(r)' <=> IsLatest(r)) /\ ProjectOf(r) \in Project
  BY <1>1 DEF IsLatest, ProjectOf, Run
<1>10. CASE projectStatus' = projectStatus
  <2>1. \A r \in Run : Upcoming(r)' /\ IsLatest(r)' /\ (jobStatus[r] \in ActiveStatuses)'
                          => Occupied(ProjectOf(r))'
    BY <1>4, <1>7, <1>9, <1>10 DEF ProjectsMatch, Occupied
  <2>2. \A v \in Worker : (thread[v].pc = "publishProject")'
            => (IsLatest(thread[v].run) /\ Occupied(ProjectOf(thread[v].run)))'
    BY <1>1, <1>8, <1>10 DEF Occupied, IsLatest
  <2>3. QED BY <1>5, <1>6, <2>1, <2>2 DEF ProjectsMatch
<1>11. CASE /\ thread[w].pc \in {"publishProject", "terminalProject"} /\ IsLatest(run)
            /\ thread'[w].pc \notin UpcomingPcs
            /\ \A q \in Project : q # ProjectOf(run) => projectStatus'[q] = projectStatus[q]
            /\ projectStatus' # projectStatus
  <2>1. ASSUME NEW r \in Run, IsLatest(r), ProjectOf(r) = ProjectOf(run) PROVE r = run
    BY <1>1, <1>11, <2>1 DEF IsLatest, ProjectOf, Run
  <2>2. \A r \in Run : Upcoming(r)' => r # run
    <3>1. \A v \in Worker : ~(thread'[v].pc \in UpcomingPcs /\ thread'[v].run = run)
      BY <1>1, <1>11, NobodyElseIsUpcoming DEF UpcomingPcs
    <3>2. \A v \in Worker : ~(sup[v].pc = "spawned" /\ sup[v].run = run)
      BY <1>1, NobodyElseIsUpcoming DEF OwnInv, SlotsMatch
    <3>3. ~Unsubmitted(run)
      BY <1>1 DEF OwnInv, Known, NotYetKnown, Has, Executed
    <3>4. QED BY <1>1, <3>1, <3>2, <3>3 DEF Upcoming, Unsubmitted, IsLatest
  <2>3. ASSUME NEW r \in Run, Upcoming(r)', IsLatest(r)', jobStatus'[r] \in ActiveStatuses
        PROVE  Occupied(ProjectOf(r))'
    <3>1. Upcoming(r) /\ IsLatest(r) /\ jobStatus[r] \in ActiveStatuses /\ r # run
      BY <1>4, <1>7, <1>9, <2>2, <2>3
    <3>2. ProjectOf(r) # ProjectOf(run)
      BY <2>1, <3>1
    <3>3. QED BY <1>9, <1>11, <3>1, <3>2 DEF ProjectsMatch, Occupied
  <2>4. ASSUME NEW v \in Worker, thread'[v].pc = "publishProject"
        PROVE  (IsLatest(thread[v].run) /\ Occupied(ProjectOf(thread[v].run)))'
    <3>1. v # w /\ thread[v].run # run
      BY <1>1, <1>8, <1>11, <2>4, NobodyElseIsUpcoming
    <3>2. ProjectOf(thread[v].run) # ProjectOf(run)
      BY <1>8, <2>1, <2>4, <3>1
    <3>3. QED BY <1>1, <1>8, <1>9, <1>11, <2>4, <3>1, <3>2 DEF Occupied, IsLatest
  <2>5. QED BY <1>5, <1>6, <2>3, <2>4 DEF ProjectsMatch
<1>12. \/ projectStatus' = projectStatus
       \/ /\ thread[w].pc \in {"publishProject", "terminalProject"} /\ IsLatest(run)
          /\ thread'[w].pc \notin UpcomingPcs
          /\ \A q \in Project : q # ProjectOf(run) => projectStatus'[q] = projectStatus[q]
  <2>1. CASE PublishProject(w)
    BY <1>1, <2>1 DEF PublishProject, Goto, SetThread, At, UpcomingPcs, ProjectsMatch, TypeOK,
                       RunnerTypeOK
  <2>2. CASE TerminalProject(w)
    BY <1>1, <2>2 DEF TerminalProject, Goto, SetThread, At, UpcomingPcs, TypeOK, RunnerTypeOK
  <2>3. CASE ~PublishProject(w) /\ ~TerminalProject(w)
    BY <2>3 DEF Execution, ThreadStep, ThreadFault, MonitorPause, Begin, StartupSucceeds, Claim,
       ClaimRefused, MarkRunning, Finish, Halt, PublishJob, TerminalRead, TerminalLock, TerminalJob,
       StartupFails, ExecuteFaults, RecordFaults, RecordTryFaults, catalog
  <2>4. QED BY <2>1, <2>2, <2>3
<1>13. QED BY <1>10, <1>11, <1>12

\* Supervision writes no row (_run_job).
LEMMA SupervisorKeepsRows ==
    ASSUME TypeOK, OwnInv, RowsInv, NEW w \in Worker, SupervisorStep(w) \/ Timeout(w)
    PROVE  RowsInv'
<1>1. /\ UNCHANGED <<catalog, api>>
      /\ \A v \in Worker : v # w => sup'[v] = sup[v] /\ thread'[v] = thread[v]
      /\ sup'[w].pc # "spawned"
  BY DEF SupervisorStep, Supervise, SupervisorEnds, SupervisorInterrupts, InterruptReturns,
         Timeout, Deliver, InterruptRead, SetSup, SetThread, runnerVars, catalog, TypeOK,
         RunnerTypeOK, IdleSup
<1>2. \A i \in Interrupter : interrupt'[i].pc = "marked" => interrupt'[i] = interrupt[i]
  BY DEF SupervisorStep, Supervise, SupervisorEnds, SupervisorInterrupts, InterruptReturns,
         Timeout, Deliver, InterruptRead, SetInterrupt, runnerVars, TypeOK, RunnerTypeOK
<1>3. thread'[w].pc # "idle" =>
         \/ thread'[w].pc = thread[w].pc /\ thread'[w].run = thread[w].run
         \/ thread'[w].pc = "dispatched" /\ thread'[w].run = sup[w].run /\ sup[w].pc = "spawned"
  BY DEF SupervisorStep, Supervise, SupervisorEnds, SupervisorInterrupts, InterruptReturns,
         Timeout, Deliver, InterruptRead, SetThread, Cancelled, Stopped, IdleThread, runnerVars,
         TypeOK, RunnerTypeOK
<1>4. \A r \in Run : Unsubmitted(r)' => Unsubmitted(r)
  BY <1>1 DEF Unsubmitted, IsLatest, catalog
<1>5. QED BY <1>1, <1>2, <1>3, <1>4, NoRowIsWritten


\* Interruption ends a job that nobody works on, and then frees the project of the latest
\* one (_interrupt); the recovery pass only chooses whom to interrupt.
LEMMA RecoveryKeepsRows ==
    ASSUME TypeOK, OwnInv, RowsInv,
           \/ \E i \in Interrupter : Interruption(i)
           \/ RecoverPass
           \/ \E r \in Run : RecoverJob(r)
    PROVE  RowsInv'
<1> USE DEF RowsInv
<1>1. ASSUME NEW i \in Interrupter, InterruptMark(i), UNCHANGED desktopVars,
             jobStatus[interrupt[i].run] \in ActiveStatuses
      PROVE  RowsInv'
  <2> DEFINE run == interrupt[i].run
  <2>1. /\ jobStatus' = [jobStatus EXCEPT ![run] = "interrupted"]
        /\ interrupt' = [interrupt EXCEPT ![i] = [pc |-> "marked", run |-> run]]
        /\ interrupt[i].pc # "idle" /\ run \in Run
        /\ UNCHANGED <<projectStatus, admitted, api, thread, sup>>
    BY <1>1 DEF InterruptMark, InterruptGoto, SetInterrupt, desktopVars, TypeOK, RunnerTypeOK,
                Interrupts, IdleInterrupt
  <2>2. \A w \in Worker : thread[w].pc # "idle" /\ thread[w].run = run
                             => thread[w].pc \in TerminalPcs
    BY <2>1, InterruptedIsOver
  <2>3. JobsMatch'
    BY <2>1, <2>2 DEF JobsMatch, JobFits, TerminalPcs, TypeOK, RunnerTypeOK
  <2>4. MarksMatch'
    BY <2>1 DEF MarksMatch, ActiveStatuses, TypeOK, RunnerTypeOK
  <2>5. \A r \in Run : jobStatus'[r] \in ActiveStatuses => jobStatus[r] \in ActiveStatuses
    BY <2>1 DEF ActiveStatuses, TypeOK, RunnerTypeOK
  <2>6. \A r \in Run : Upcoming(r)' => Upcoming(r)
    BY <2>1 DEF Upcoming, Unsubmitted, IsLatest
  <2>7. ProjectsMatch'
    BY <2>1, <2>5, <2>6 DEF ProjectsMatch, Occupied, IsLatest
  <2>8. QED BY <2>3, <2>4, <2>7
<1>2. ASSUME NEW i \in Interrupter, InterruptProject(i), UNCHANGED desktopVars,
             IsLatest(interrupt[i].run)
      PROVE  RowsInv'
  <2> DEFINE run == interrupt[i].run
  <2>1. /\ projectStatus' = [projectStatus EXCEPT ![ProjectOf(run)] = "paused"]
        /\ interrupt' = [interrupt EXCEPT ![i] = IdleInterrupt]
        /\ interrupt[i].pc = "marked" /\ run \in Run /\ jobStatus[run] \notin ActiveStatuses
        /\ UNCHANGED <<admitted, jobStatus, api, thread, sup>>
    BY <1>2 DEF InterruptProject, SetInterrupt, desktopVars, MarksMatch, TypeOK, RunnerTypeOK,
                Interrupts, IdleInterrupt
  <2>2. JobsMatch' /\ MarksMatch'
    BY <2>1 DEF JobsMatch, JobFits, MarksMatch, IdleInterrupt, TypeOK, RunnerTypeOK
  <2>3. ASSUME NEW r \in Run, IsLatest(r), ProjectOf(r) = ProjectOf(run) PROVE r = run
    BY <1>2, <2>1, <2>3 DEF IsLatest, ProjectOf, Run
  <2>4. ASSUME NEW r \in Run, Upcoming(r)', IsLatest(r)', jobStatus'[r] \in ActiveStatuses
        PROVE  Occupied(ProjectOf(r))'
    <3>1. /\ Upcoming(r) /\ IsLatest(r) /\ r # run /\ jobStatus[r] \in ActiveStatuses
          /\ ProjectOf(r) \in Project
      BY <2>1, <2>4 DEF Upcoming, Unsubmitted, IsLatest, ProjectOf, Run
    <3>2. ProjectOf(r) # ProjectOf(run)
      BY <2>3, <3>1
    <3>3. QED BY <2>1, <3>1, <3>2 DEF ProjectsMatch, Occupied, TypeOK, RunnerTypeOK
  <2>5. ASSUME NEW w \in Worker, thread'[w].pc = "publishProject"
        PROVE  (IsLatest(thread[w].run) /\ Occupied(ProjectOf(thread[w].run)))'
    <3>1. /\ thread[w].run \in Run /\ IsLatest(thread[w].run)
          /\ Occupied(ProjectOf(thread[w].run)) /\ thread[w].run # run
          /\ ProjectOf(thread[w].run) \in Project
      BY <2>1, <2>5, BusyThread
         DEF ProjectsMatch, JobsMatch, JobFits, ActiveStatuses, Run, ProjectOf, TypeOK, RunnerTypeOK
    <3>2. ProjectOf(thread[w].run) # ProjectOf(run)
      BY <2>3, <3>1
    <3>3. QED BY <2>1, <3>1, <3>2 DEF IsLatest, Occupied, TypeOK, RunnerTypeOK
  <2>6. QED BY <2>2, <2>4, <2>5 DEF ProjectsMatch
<1>3. ASSUME NEW i \in Interrupter,
             \/ /\ \/ InterruptLock(i) \/ InterruptBusy(i)
                   \/ InterruptMark(i) /\ jobStatus[interrupt[i].run] \notin ActiveStatuses
                   \/ InterruptProject(i) /\ ~IsLatest(interrupt[i].run)
                   \/ InterruptFaults(i)
                /\ UNCHANGED desktopVars
      PROVE  RowsInv'
  <2>1. UNCHANGED <<catalog, api, thread, sup>>
    BY <1>3 DEF InterruptLock, InterruptBusy, InterruptMark, InterruptProject, InterruptFaults,
                desktopVars, catalog
  <2>2. \A j \in Interrupter : interrupt'[j].pc = "marked" => interrupt'[j] = interrupt[j]
    BY <1>3 DEF InterruptLock, InterruptBusy, InterruptMark, InterruptProject, InterruptFaults,
                InterruptGoto, SetInterrupt, IdleInterrupt, TypeOK, RunnerTypeOK
  <2>3. \A r \in Run : Unsubmitted(r)' => Unsubmitted(r)
    BY <2>1 DEF Unsubmitted, IsLatest, catalog
  <2>4. QED BY <2>1, <2>2, <2>3, NoRowIsWritten
<1>4. CASE RecoverPass \/ \E r \in Run : RecoverJob(r)
  <2>1. UNCHANGED <<catalog, api, thread, sup>>
    BY <1>4 DEF RecoverPass, RecoverJob, InterruptRead, runnerVars
  <2>2. \A j \in Interrupter : interrupt'[j].pc = "marked" => interrupt'[j] = interrupt[j]
    BY <1>4, DesktopAssumption
       DEF RecoverPass, RecoverJob, InterruptRead, SetInterrupt, runnerVars, TypeOK, RunnerTypeOK
  <2>3. \A r \in Run : Unsubmitted(r)' => Unsubmitted(r)
    BY <2>1 DEF Unsubmitted, IsLatest, catalog
  <2>4. QED BY <2>1, <2>2, <2>3, NoRowIsWritten
<1>5. QED BY <1>1, <1>2, <1>3, <1>4 DEF Interruption, InterruptStep

\* The life of the process writes no row, and only ever drops runs.
LEMMA ProcessKeepsRows ==
    ASSUME TypeOK, OwnInv, RowsInv, Launch \/ Open \/ BeginStop \/ ReleaseWorkspace \/ Exit \/ Crash
    PROVE  RowsInv'
<1>1. UNCHANGED catalog
  BY DEF Launch, Open, BeginStop, ReleaseWorkspace, Exit, Crash, runnerVars
<1>2. ASSUME NEW w \in Worker, thread'[w].pc # "idle"
      PROVE  thread'[w].pc = thread[w].pc /\ thread'[w].run = thread[w].run
  BY <1>2 DEF Launch, Open, BeginStop, ReleaseWorkspace, Exit, Crash, Die, Cancelled, Stopped,
              IdleThread, runnerVars, TypeOK, RunnerTypeOK
<1>3. ASSUME NEW w \in Worker, sup'[w].pc = "spawned"
      PROVE  sup[w].pc = "spawned" /\ sup'[w].run = sup[w].run
  BY <1>3 DEF Launch, Open, BeginStop, ReleaseWorkspace, Exit, Crash, IdleSup, TypeOK
<1>4. ASSUME NEW i \in Interrupter, interrupt'[i].pc = "marked"
      PROVE  interrupt'[i] = interrupt[i]
  BY <1>4 DEF Launch, Open, BeginStop, ReleaseWorkspace, Exit, Crash, Die, IdleInterrupt,
              runnerVars, TypeOK, RunnerTypeOK
<1>5. ASSUME NEW r \in Run PROVE Unsubmitted(r)' => Unsubmitted(r)
  <2>1. ProjectOf(r) \in Project
    BY DEF ProjectOf, Run
  <2>2. QED BY <1>1, <2>1 DEF Launch, Open, BeginStop, ReleaseWorkspace, Exit, Crash, Die, IdleApi,
              Unsubmitted, IsLatest, runnerVars, catalog, TypeOK, RunnerTypeOK
<1>6. QED BY <1>1, <1>2, <1>3, <1>4, <1>5, NoRowIsWritten


\* The rows fit the runs in every behaviour.
LEMMA RowsFit == Spec => [](TypeOK /\ LockInv /\ OwnInv /\ RowsInv)
<1>1. Init => LockInv /\ RowsInv
  BY DEF Init, RunnerInit, LockInv, LockMatchesHolder, OnlyLatestRunWorks, ThreadInside,
         InterruptInside, IdleApi, IdleThread, IdleInterrupt, IdleSup, LockedPcs,
         InterruptLockedPcs, DomainPcs, ByApi, ByThread, ByInterrupt, Nobody, RowsInv, JobsMatch,
         JobFits, MarksMatch, ProjectsMatch, Upcoming, UpcomingPcs, Unsubmitted, ProjectOf, Run
<1>2. TypeOK /\ LockInv /\ OwnInv /\ RowsInv /\ [Next]_vars => RowsInv'
  <2> SUFFICES ASSUME TypeOK, LockInv, OwnInv, RowsInv, [Next]_vars PROVE RowsInv'
    OBVIOUS
  <2>1. ASSUME NEW p \in Project,
               \/ Request(p) \/ ApiStep(p) \/ AdmitJob(p) \/ EnqueueFails(p) \/ AdmissionLost(p)
        PROVE  RowsInv'
    BY <2>1, AdmissionKeepsRows
  <2>2. ASSUME NEW w \in Worker, SupervisorStep(w) \/ Timeout(w) PROVE RowsInv'
    BY <2>2, SupervisorKeepsRows
  <2>3. ASSUME NEW w \in Worker, Execution(w) PROVE RowsInv'
    BY <2>3, ExecutionKeepsRows
  <2>4. CASE \/ \E i \in Interrupter : Interruption(i)
             \/ RecoverPass \/ \E r \in Run : RecoverJob(r)
    BY <2>4, RecoveryKeepsRows
  <2>5. CASE Launch \/ Open \/ BeginStop \/ ReleaseWorkspace \/ Exit \/ Crash
    BY <2>5, ProcessKeepsRows
  <2>6. CASE UNCHANGED vars
    <3>1. UNCHANGED <<catalog, api, thread, sup, interrupt>>
      BY <2>6 DEF vars, runnerVars, desktopVars
    <3>2. \A r \in Run : Unsubmitted(r)' => Unsubmitted(r)
      BY <3>1 DEF Unsubmitted, IsLatest, catalog
    <3>3. QED BY <3>1, <3>2, NoRowIsWritten
  <2>7. QED BY <2>1, <2>2, <2>3, <2>4, <2>5, <2>6 DEF Next
<1>3. LockInv <=> LockMatchesHolder /\ OnlyLatestRunWorks
  BY DEF LockInv
<1>4. QED BY <1>1, <1>2, <1>3, TypeCorrect, LocksCorrect, RunsAreOwned, PTL DEF Spec

\* What the rows of a run that works, or is about to publish, say is so: its job is running,
\* its project busy, and no newer run has been admitted (admit_job, execute,
\* record_terminal_status, _interrupt).
THEOREM RowsAreTrue == Spec => []RowsTellTheTruth
<1>1. TypeOK /\ LockInv /\ OwnInv /\ RowsInv => RowsTellTheTruth
  <2> SUFFICES ASSUME TypeOK, LockInv, RowsInv PROVE RowsTellTheTruth
    OBVIOUS
  <2>1. WorkingRunIsRunning
    BY DEF RowsInv, JobsMatch, JobFits, WorkingRunIsRunning
  <2>2. ASSUME NEW w \in Worker, thread[w].pc = "working"
        PROVE  projectStatus[ProjectOf(thread[w].run)] \in RUNNING_PROJECT_STATUSES
    <3>1. /\ thread[w].run \in Run /\ IsLatest(thread[w].run) /\ Upcoming(thread[w].run)
          /\ jobStatus[thread[w].run] \in ActiveStatuses
      BY <2>1, <2>2, BusyThread
         DEF TypeOK, RunnerTypeOK, LockInv, OnlyLatestRunWorks, DomainPcs, Upcoming, UpcomingPcs,
             WorkingRunIsRunning, ActiveStatuses
    <3>2. QED BY <3>1 DEF RowsInv, ProjectsMatch, Occupied
  <2>3. CompletionIsLatest
    BY DEF RowsInv, ProjectsMatch, CompletionIsLatest
  <2>4. QED BY <2>1, <2>2, <2>3 DEF RowsTellTheTruth, WorkingProjectIsBusy
<1>2. QED BY <1>1, RowsFit, PTL

\* No step starts an ended run again, or takes back a completion.
LEMMA EndsStay ==
    ASSUME TypeOK, OwnInv, RowsInv, [Next]_vars, NEW r \in Run
    PROVE  /\ jobStatus[r] \in TerminalStatuses => jobStatus'[r] \in TerminalStatuses
           /\ jobStatus[r] = "done" => jobStatus'[r] = "done"
<1>1. ASSUME NEW p \in Project, AdmitJob(p) PROVE jobStatus[r] # "absent" => UNCHANGED jobStatus[r]
  <2>1. <<p, admitted[p] + 1>> # r \/ jobStatus[r] = "absent"
    BY <1>1 DEF OwnInv, Known, RowsExist, RowsInOrder, TypeOK, RunnerTypeOK
  <2>2. QED BY <1>1, <2>1 DEF AdmitJob, TypeOK, RunnerTypeOK
<1>2. ASSUME NEW p \in Project, FailAdmission(p)
      PROVE  jobStatus[r] \notin ActiveStatuses => UNCHANGED jobStatus[r]
  BY <1>2 DEF FailAdmission, ActiveStatuses, TypeOK, RunnerTypeOK
<1>3. ASSUME NEW i \in Interrupter, InterruptMark(i)
      PROVE  jobStatus[r] \notin ActiveStatuses => UNCHANGED jobStatus[r]
  BY <1>3 DEF InterruptMark, TypeOK, RunnerTypeOK
<1>4. ASSUME NEW w \in Worker, Execution(w)
      PROVE  /\ jobStatus[r] \in TerminalStatuses => jobStatus'[r] \in TerminalStatuses
             /\ jobStatus[r] = "done" => jobStatus'[r] = "done"
  <2>1. /\ thread[w].pc # "idle" /\ JobFits(thread[w], jobStatus[thread[w].run])
    BY <1>4, ThreadContinues DEF Execution, TypeOK, RowsInv, JobsMatch
  <2>2. /\ \A q \in Run : q # thread[w].run => jobStatus'[q] = jobStatus[q]
        /\ jobStatus'[thread[w].run] # jobStatus[thread[w].run] =>
              \/ jobStatus'[thread[w].run] \in TerminalStatuses
              \/ jobStatus'[thread[w].run] = "running" /\ thread[w].pc = "claimed"
    BY <1>4, JobContinues DEF Execution, TypeOK
  <2>3. QED BY <2>1, <2>2 DEF JobFits, TerminalStatuses
<1>5. CASE ~\E p \in Project : AdmitJob(p) \/ FailAdmission(p)
  <2>1. CASE \E w \in Worker : Execution(w)
    BY <1>4, <2>1
  <2>2. CASE \E i \in Interrupter : InterruptMark(i)
    BY <1>3, <2>2 DEF ActiveStatuses, TerminalStatuses
  <2>3. CASE /\ ~\E w \in Worker : Execution(w)
             /\ ~\E i \in Interrupter : InterruptMark(i)
    <3>1. ASSUME NEW p \in Project,
                 Request(p) \/ ApiStep(p) \/ EnqueueFails(p) \/ AdmissionLost(p)
          PROVE  UNCHANGED jobStatus
      BY <1>5, <3>1 DEF Request, ApiEnter, RequestPause, ApiStep, ApiLeave, ApiReturn, Enqueue,
                        EnqueueFails, AdmissionLost, catalog
    <3>2. ASSUME NEW w \in Worker, SupervisorStep(w) \/ Timeout(w) PROVE UNCHANGED jobStatus
      BY <3>2 DEF SupervisorStep, Supervise, SupervisorEnds, SupervisorInterrupts,
                  InterruptReturns, Timeout, Deliver, InterruptRead, runnerVars, catalog
    <3>3. ASSUME NEW i \in Interrupter, Interruption(i) PROVE UNCHANGED jobStatus
      BY <2>3, <3>3 DEF Interruption, InterruptStep, InterruptLock, InterruptBusy,
                        InterruptProject, InterruptFaults, catalog
    <3>4. CASE \/ RecoverPass \/ \E q \in Run : RecoverJob(q)
               \/ Launch \/ Open \/ BeginStop \/ ReleaseWorkspace \/ Exit \/ Crash
               \/ UNCHANGED vars
      BY <3>4 DEF RecoverPass, RecoverJob, InterruptRead, Launch, Open, BeginStop,
                  ReleaseWorkspace, Exit, Crash, vars, runnerVars, catalog
    <3>5. CASE Next
      <4>1. CASE \E p \in Project : \/ Request(p) \/ ApiStep(p) \/ AdmitJob(p) \/ EnqueueFails(p)
                                    \/ AdmissionLost(p)
        BY <1>5, <3>1, <4>1
      <4>2. CASE \E w \in Worker : SupervisorStep(w) \/ Timeout(w) \/ Execution(w)
        BY <2>3, <3>2, <4>2
      <4>3. CASE \E i \in Interrupter : Interruption(i)
        BY <3>3, <4>3
      <4>4. QED BY <3>4, <3>5, <4>1, <4>2, <4>3 DEF Next
    <3>6. QED BY <3>4, <3>5
  <2>4. QED BY <2>1, <2>2, <2>3
<1>6. QED BY <1>1, <1>2, <1>5 DEF ActiveStatuses, TerminalStatuses

\* The end of a run is its last word: no recovery, rollback, late recording or second
\* delivery starts it again or takes back its completion.
THEOREM EndsAreKept == Spec => EndsAreFinal
<1>1. TypeOK /\ OwnInv /\ RowsInv /\ [Next]_vars =>
         /\ [\A r \in Run : jobStatus[r] \in TerminalStatuses
                               => jobStatus'[r] \in TerminalStatuses]_runnerVars
         /\ [\A r \in Run : jobStatus[r] = "done" => jobStatus'[r] = "done"]_runnerVars
  BY EndsStay
<1>2. QED BY <1>1, RowsFit, PTL DEF Spec, EndsAreFinal, SettledRunsStaySettled, DoneIsFinal


-----------------------------------------------------------------------------
(* The runtime implements RunOwnership.                                    *)

\* An admission, its rollback or an interruption ends the row of a run at most.
LEMMA OwnershipOfAdmission ==
    ASSUME TypeOK, LockInv, OwnInv, RowsInv, WorkShows, OneWriterPerProject,
           OneWriterPerProject', NEW p \in Project,
           \/ Request(p) \/ ApiStep(p) \/ AdmitJob(p) \/ EnqueueFails(p) \/ AdmissionLost(p)
    PROVE  [Ownership!Next]_RunState
<1> USE DEF TypeOK, LockInv, OwnInv, Known, RowsExist
<1>1. CASE AdmitJob(p)
  <2>1. \A w \in Worker : thread[w].pc \in DomainPcs => ProjectOf(thread[w].run) # p
    BY <1>1, AdmissionFindsNoWork DEF AdmitJob
  <2>2. QED BY <1>1, <2>1, OwnershipAdmits DEF AdmitJob
<1>2. CASE FailAdmission(p) /\ jobStatus[Latest(p)] = "queued" /\ Latest(p) \in Run
  <2>1. jobStatus' = [jobStatus EXCEPT ![Latest(p)] = "error"] /\ UNCHANGED thread
    BY <1>2 DEF FailAdmission
  <2>2. QED BY <1>2, <2>1, OwnershipOfRows
<1>3. CASE /\ ~AdmitJob(p)
           /\ FailAdmission(p) => ~(jobStatus[Latest(p)] = "queued" /\ Latest(p) \in Run)
  <2>1. UNCHANGED <<jobStatus, thread>>
    <3>1. CASE FailAdmission(p)
      BY <1>3, <3>1 DEF FailAdmission, RunnerTypeOK
    <3>2. CASE ~FailAdmission(p)
      BY <1>3, <3>2 DEF Request, ApiEnter, RequestPause, ApiStep, ApiLeave, ApiReturn, Enqueue,
                        EnqueueFails, AdmissionLost, catalog
    <3>3. QED BY <3>1, <3>2
  <2>2. \A w \in Worker : Works(w)' => Works(w) /\ thread'[w].run = thread[w].run
    BY <2>1 DEF Works
  <2>3. QED BY <2>1, <2>2, OwnershipOfWork
<1>4. QED BY <1>1, <1>2, <1>3

\* Every other step leaves the rows alone and starts no work, or marks a run interrupted.
LEMMA OwnershipOfOthers ==
    ASSUME TypeOK, LockInv, OwnInv, RowsInv, WorkShows, OneWriterPerProject,
           OneWriterPerProject',
           \/ \E w \in Worker : SupervisorStep(w) \/ Timeout(w)
           \/ \E i \in Interrupter : Interruption(i)
           \/ RecoverPass \/ \E r \in Run : RecoverJob(r)
           \/ Launch \/ Open \/ BeginStop \/ ReleaseWorkspace \/ Exit \/ Crash
    PROVE  [Ownership!Next]_RunState
<1> USE DEF TypeOK, LockInv, OwnInv, Known, RowsExist
<1>1. ASSUME NEW i \in Interrupter, InterruptMark(i), jobStatus[interrupt[i].run] \in ActiveStatuses
      PROVE  [Ownership!Next]_RunState
  <2>1. /\ jobStatus' = [jobStatus EXCEPT ![interrupt[i].run] = "interrupted"]
        /\ interrupt[i].run \in Run /\ UNCHANGED thread
    BY <1>1 DEF InterruptMark, RunnerTypeOK, Interrupts, IdleInterrupt
  <2>2. PICK run \in Run : /\ jobStatus' = [jobStatus EXCEPT ![run] = "interrupted"]
                          /\ jobStatus[run] # "absent"
    BY <1>1, <2>1 DEF ActiveStatuses
  <2>3. QED BY <2>1, <2>2, OwnershipOfRows
<1>2. ASSUME UNCHANGED jobStatus,
             \A w \in Worker : thread'[w].pc \in DomainPcs =>
                thread'[w].pc = thread[w].pc /\ thread'[w].run = thread[w].run
      PROVE  [Ownership!Next]_RunState
  <2>1. \A w \in Worker : Works(w)' => Works(w) /\ thread'[w].run = thread[w].run
    BY <1>2 DEF Works, DomainPcs
  <2>2. QED BY <1>2, <2>1, OwnershipOfWork
<1>3. ASSUME NEW i \in Interrupter, Interruption(i),
             ~(InterruptMark(i) /\ jobStatus[interrupt[i].run] \in ActiveStatuses)
      PROVE  UNCHANGED <<jobStatus, thread>>
  BY <1>3 DEF Interruption, InterruptStep, InterruptLock, InterruptBusy, InterruptMark,
              InterruptProject, InterruptFaults, catalog
<1>4. ASSUME NEW w \in Worker, SupervisorStep(w) \/ Timeout(w)
      PROVE  /\ UNCHANGED jobStatus
             /\ \A v \in Worker : thread'[v].pc \in DomainPcs =>
                   thread'[v].pc = thread[v].pc /\ thread'[v].run = thread[v].run
  BY <1>4 DEF SupervisorStep, Supervise, SupervisorEnds, SupervisorInterrupts, InterruptReturns,
              Timeout, Deliver, InterruptRead, SetThread, Cancelled, Stopped, IdleThread, DomainPcs,
              runnerVars, catalog, RunnerTypeOK
<1>5. CASE \/ RecoverPass \/ \E r \in Run : RecoverJob(r)
           \/ Launch \/ Open \/ BeginStop \/ ReleaseWorkspace \/ Exit \/ Crash
  <2>1. UNCHANGED jobStatus
    BY <1>5 DEF RecoverPass, RecoverJob, InterruptRead, Launch, Open, BeginStop, ReleaseWorkspace,
                Exit, Crash, runnerVars, catalog
  <2>2. ASSUME NEW w \in Worker, thread'[w].pc \in DomainPcs
        PROVE  thread'[w].pc = thread[w].pc /\ thread'[w].run = thread[w].run
    <3>1. CASE BeginStop \/ Exit \/ Crash
      BY <2>2, <3>1 DEF BeginStop, Exit, Crash, Die, Cancelled, Stopped, IdleThread, DomainPcs,
                        RunnerTypeOK
    <3>2. CASE UNCHANGED thread
      BY <3>2
    <3>3. QED BY <1>5, <3>1, <3>2 DEF RecoverPass, RecoverJob, InterruptRead, Launch, Open,
                                      ReleaseWorkspace, runnerVars
  <2>3. QED BY <1>2, <2>1, <2>2
<1>6. QED BY <1>1, <1>2, <1>3, <1>4, <1>5

\* Each run is worked on at most once, by one execution, only as the latest run of its
\* project, and none is admitted during work: the Desktop runtime implements RunOwnership,
\* whatever fails and whenever it is stopped or killed.
THEOREM RunsAreOwnedOnce == Spec => ImplementsOwnership
<1>1. Init => Ownership!Init
  BY DEF Init, RunnerInit, Ownership!Init, Ownership!Run, RunState, Run
<1>2. TypeOK /\ LockInv /\ OwnInv /\ RowsInv /\ OneWriterPerProject /\ OneWriterPerProject'
         /\ [Next]_vars => [Ownership!Next]_RunState
  <2> SUFFICES ASSUME TypeOK, LockInv, OwnInv, RowsInv, OneWriterPerProject, OneWriterPerProject',
                      [Next]_vars
               PROVE  [Ownership!Next]_RunState
    OBVIOUS
  <2>1. WorkShows
    BY DEF WorkShows, RowsInv, JobsMatch, JobFits
  <2>2. ASSUME NEW p \in Project,
               \/ Request(p) \/ ApiStep(p) \/ AdmitJob(p) \/ EnqueueFails(p) \/ AdmissionLost(p)
        PROVE  [Ownership!Next]_RunState
    BY <2>1, <2>2, OwnershipOfAdmission
  <2>3. ASSUME NEW w \in Worker, Execution(w) PROVE [Ownership!Next]_RunState
    <3>1. thread[w].pc # "idle" /\ thread[w].run \in Run
      BY <2>3, ThreadContinues, BusyThread DEF Execution, TypeOK, RunnerTypeOK
    <3>2. jobStatus[thread[w].run] # "absent"
      BY <3>1 DEF OwnInv, Known, RowsExist, Has, Executed
    <3>3. QED
      BY <2>1, <2>3, <3>2, OwnershipOfExecution
         DEF Execution, TypeOK, LockInv, OwnInv, Known, RowsExist
  <2>4. CASE \/ \E w \in Worker : SupervisorStep(w) \/ Timeout(w)
             \/ \E i \in Interrupter : Interruption(i)
             \/ RecoverPass \/ \E r \in Run : RecoverJob(r)
             \/ Launch \/ Open \/ BeginStop \/ ReleaseWorkspace \/ Exit \/ Crash
    BY <2>1, <2>4, OwnershipOfOthers
  <2>5. CASE UNCHANGED vars
    BY <2>5 DEF vars, runnerVars, catalog, RunState, Shared, Works
  <2>6. QED BY <2>2, <2>3, <2>4, <2>5 DEF Next
<1>3. QED BY <1>1, <1>2, RowsFit, WorkIsExclusive, PTL DEF Spec, ImplementsOwnership, Ownership!Spec



-----------------------------------------------------------------------------
(***************************************************************************)
(* With nothing in flight the rows of a project agree.  That is so until a *)
(* call fails or the process dies: what the failure of a project's write   *)
(* leaves behind, or a death between the two writes of an interruption, is *)
(* repaired by no later pass (runner.record_terminal_status, _interrupt).  *)
(***************************************************************************)

NothingFailed == faults = 0 /\ crashes = 0

\* An interruption that has marked its job has still to write the project.
Marked(r) == \E i \in Interrupter : interrupt[i].pc = "marked" /\ interrupt[i].run = r
BusyIsActive == \A r \in Run :
    IsLatest(r) /\ Occupied(ProjectOf(r)) => jobStatus[r] \in ActiveStatuses \/ Marked(r)
BusyHasRun == \A p \in Project : Occupied(p) => admitted[p] # 0

\* An execution that has still to write its job has written its project.
EndsAgree == \A w \in Worker : thread[w].pc \in {"publishJob", "terminalJob"} =>
    ~(IsLatest(thread[w].run) /\ Occupied(ProjectOf(thread[w].run)))

\* An admission that is undone gives back a status at which the project is free.
AdmissionsAgree == \A p \in Project :
    api[p].pc \in {"admitted", "enqueued", "failed"}
        => api[p].previous \notin RUNNING_PROJECT_STATUSES

\* Recovery is over before the workspace is released.
RecoveryEnds == phase \in {"released", "down"} => pass = {} /\ interrupt[Recoverer].pc = "idle"

LEMMA AdmissionsStayFree ==
    ASSUME TypeOK, AdmissionsAgree, [Next]_vars PROVE AdmissionsAgree'
<1>1. ASSUME NEW p \in Project,
             \/ Request(p) \/ ApiStep(p) \/ AdmitJob(p) \/ EnqueueFails(p) \/ AdmissionLost(p)
      PROVE  /\ \A q \in Project : q # p => api'[q] = api[q]
             /\ api'[p].pc \in {"admitted", "enqueued", "failed"} =>
                   \/ api[p].previous \notin RUNNING_PROJECT_STATUSES
                      /\ api'[p].previous = api[p].previous
                   \/ api'[p] = api[p]
  BY <1>1 DEF Request, ApiEnter, RequestPause, ApiStep, ApiLeave, ApiReturn, Enqueue, EnqueueFails,
              FailAdmission, AdmissionLost, AdmitJob, SetApi, IdleApi, AdmissionsAgree, TypeOK,
              RunnerTypeOK
<1>2. ASSUME NEW w \in Worker, SupervisorStep(w) \/ Timeout(w) \/ Execution(w) PROVE api' = api
  <2>1. CASE SupervisorStep(w) \/ Timeout(w)
    BY <2>1 DEF SupervisorStep, Supervise, SupervisorEnds, SupervisorInterrupts, InterruptReturns,
                Timeout, Deliver, InterruptRead, runnerVars
  <2>2. CASE Execution(w)
    BY <2>2, ThreadContinues DEF Execution, TypeOK
  <2>3. QED BY <1>2, <2>1, <2>2
<1>3. CASE \/ \E i \in Interrupter : Interruption(i)
           \/ RecoverPass \/ \E r \in Run : RecoverJob(r)
           \/ Launch \/ Open \/ BeginStop \/ ReleaseWorkspace \/ UNCHANGED vars
  BY <1>3 DEF Interruption, InterruptStep, InterruptLock, InterruptBusy, InterruptMark,
              InterruptProject, InterruptFaults, RecoverPass, RecoverJob, InterruptRead, Launch,
              Open, BeginStop, ReleaseWorkspace, vars, runnerVars, AdmissionsAgree
<1>4. CASE Exit \/ Crash
  BY <1>4 DEF Exit, Crash, Die, IdleApi, AdmissionsAgree
<1>5. CASE \E p \in Project :
             \/ Request(p) \/ ApiStep(p) \/ AdmitJob(p) \/ EnqueueFails(p) \/ AdmissionLost(p)
  BY <1>1, <1>5 DEF AdmissionsAgree
<1>6. CASE \E w \in Worker : SupervisorStep(w) \/ Timeout(w) \/ Execution(w)
  BY <1>2, <1>6 DEF AdmissionsAgree
<1>7. QED BY <1>3, <1>4, <1>5, <1>6 DEF Next

LEMMA RecoveryStaysOver ==
    ASSUME TypeOK, RecoveryEnds, [Next]_vars PROVE RecoveryEnds'
<1>1. CASE Launch \/ Open \/ BeginStop \/ ReleaseWorkspace \/ Exit \/ Crash
  BY <1>1, DesktopAssumption
     DEF Launch, Open, BeginStop, ReleaseWorkspace, Exit, Crash, Die, IdleInterrupt, runnerVars,
         RecoveryEnds, TypeOK, RunnerTypeOK
<1>2. CASE RecoverPass \/ \E r \in Run : RecoverJob(r)
  BY <1>2 DEF RecoverPass, RecoverJob, RecoveryEnds
<1>3. ASSUME NEW i \in Interrupter, Interruption(i) PROVE RecoveryEnds'
  <2>1. /\ interrupt[i].pc # "idle" /\ UNCHANGED <<phase, pass>>
        /\ \A j \in Interrupter : j # i => interrupt'[j] = interrupt[j]
    BY <1>3 DEF Interruption, InterruptStep, InterruptLock, InterruptBusy, InterruptMark,
                InterruptProject, InterruptFaults, InterruptGoto, SetInterrupt, InterruptLockedPcs,
                desktopVars, TypeOK, RunnerTypeOK
  <2>2. QED BY <2>1, DesktopAssumption DEF RecoveryEnds
<1>4. ASSUME NEW w \in Worker, SupervisorStep(w) \/ Timeout(w) PROVE RecoveryEnds'
  <2>1. UNCHANGED <<phase, pass>> /\ interrupt'[Recoverer] = interrupt[Recoverer]
    BY <1>4, DesktopAssumption
       DEF SupervisorStep, Supervise, SupervisorEnds, SupervisorInterrupts, InterruptReturns,
           Timeout, Deliver, InterruptRead, SetInterrupt, runnerVars, TypeOK, RunnerTypeOK
  <2>2. QED BY <2>1 DEF RecoveryEnds
<1>5. ASSUME NEW w \in Worker, Execution(w) PROVE RecoveryEnds'
  BY <1>5, ThreadContinues DEF Execution, RecoveryEnds, desktopVars, TypeOK
<1>6. ASSUME NEW p \in Project,
             \/ Request(p) \/ ApiStep(p) \/ AdmitJob(p) \/ EnqueueFails(p) \/ AdmissionLost(p)
      PROVE  RecoveryEnds'
  BY <1>6 DEF Request, ApiEnter, RequestPause, ApiStep, ApiLeave, ApiReturn, Enqueue, EnqueueFails,
              FailAdmission, AdmissionLost, AdmitJob, RecoveryEnds, desktopVars
<1>7. CASE UNCHANGED vars
  BY <1>7 DEF vars, runnerVars, desktopVars, RecoveryEnds
<1>8. QED BY <1>1, <1>2, <1>3, <1>4, <1>5, <1>6, <1>7 DEF Next

AgreeInv == BusyHasRun /\ BusyIsActive /\ EndsAgree

\* A step that writes no row keeps the rows in agreement, if no execution gets past the
\* recording of its project and no interruption is given up between its writes.
LEMMA NothingIsWritten ==
    ASSUME AgreeInv, UNCHANGED catalog,
           \A w \in Worker : thread'[w].pc \in {"publishJob", "terminalJob"} =>
              thread'[w].run = thread[w].run /\ thread'[w].pc = thread[w].pc,
           \A i \in Interrupter : interrupt[i].pc = "marked" => interrupt'[i] = interrupt[i]
    PROVE  AgreeInv'
<1> USE DEF AgreeInv, catalog
<1>1. \A r \in Run : Marked(r) => Marked(r)'
  BY DEF Marked
<1>2. BusyIsActive' /\ BusyHasRun'
  BY <1>1 DEF BusyIsActive, BusyHasRun, Occupied, IsLatest
<1>3. EndsAgree'
  BY DEF EndsAgree, Occupied, IsLatest
<1>4. QED BY <1>2, <1>3

\* Admission and its rollback write both rows together (admit_job, fail_admission).
LEMMA AdmissionKeepsAgreement ==
    ASSUME TypeOK, OwnInv, AdmissionsAgree, AgreeInv, NEW p \in Project,
           \/ Request(p) \/ ApiStep(p) \/ AdmitJob(p) \/ EnqueueFails(p) \/ AdmissionLost(p)
    PROVE  AgreeInv'
<1> USE DEF AgreeInv
<1>1. CASE AdmitJob(p)
  <2> DEFINE new == <<p, admitted[p] + 1>>
  <2>1. /\ admitted' = [admitted EXCEPT ![p] = admitted[p] + 1]
        /\ jobStatus' = [jobStatus EXCEPT ![new] = "queued"]
        /\ projectStatus' = [projectStatus EXCEPT ![p] = "busy"]
        /\ admitted[p] \in Nat /\ new \in Run
        /\ UNCHANGED <<thread, interrupt>> /\ jobStatus[new] = "absent"
    BY <1>1, RunnerAssumption DEF AdmitJob, Run, OwnInv, Known, RowsExist, RowsInOrder, TypeOK,
                                  RunnerTypeOK
  <2>2. BusyHasRun'
    BY <2>1 DEF BusyHasRun, Occupied, TypeOK, RunnerTypeOK
  <2>3. ASSUME NEW r \in Run, IsLatest(r)', Occupied(ProjectOf(r))'
        PROVE  jobStatus'[r] \in ActiveStatuses \/ Marked(r)'
    <3>1. CASE ProjectOf(r) = p
      <4>1. r = new
        BY <2>1, <2>3, <3>1 DEF IsLatest, ProjectOf, Run, TypeOK, RunnerTypeOK
      <4>2. QED BY <2>1, <4>1 DEF ActiveStatuses, TypeOK, RunnerTypeOK
    <3>2. CASE ProjectOf(r) # p
      <4>1. r # new /\ IsLatest(r) /\ Occupied(ProjectOf(r)) /\ ProjectOf(r) \in Project
        BY <2>1, <2>3, <3>2 DEF IsLatest, ProjectOf, Run, Occupied, TypeOK, RunnerTypeOK
      <4>2. QED BY <2>1, <4>1 DEF BusyIsActive, Marked, TypeOK, RunnerTypeOK
    <3>3. QED BY <3>1, <3>2
  <2>4. ASSUME NEW w \in Worker, thread[w].pc \in {"publishJob", "terminalJob"}
        PROVE  ~(IsLatest(thread[w].run)' /\ Occupied(ProjectOf(thread[w].run))')
    <3>1. /\ thread[w].run \in Run /\ ProjectOf(thread[w].run) \in Project
          /\ thread[w].run # new
      BY <2>1, <2>4, BusyThread
         DEF ProjectOf, Run, OwnInv, Known, RowsExist, Has, Executed, TypeOK, RunnerTypeOK
    <3>2. CASE ProjectOf(thread[w].run) # p
      BY <2>1, <2>4, <3>1, <3>2 DEF EndsAgree, IsLatest, Occupied, ProjectOf, TypeOK, RunnerTypeOK
    <3>3. CASE ProjectOf(thread[w].run) = p
      BY <2>1, <3>1, <3>3 DEF IsLatest, ProjectOf, Run, TypeOK, RunnerTypeOK
    <3>4. QED BY <3>2, <3>3
  <2>5. QED BY <2>1, <2>2, <2>3, <2>4 DEF BusyIsActive, EndsAgree
<1>2. CASE FailAdmission(p) /\ jobStatus[Latest(p)] = "queued"
  <2>1. /\ jobStatus' = [jobStatus EXCEPT ![Latest(p)] = "error"]
        /\ projectStatus' = [projectStatus EXCEPT ![p] = api[p].previous]
        /\ api[p].previous \notin RUNNING_PROJECT_STATUSES
        /\ UNCHANGED <<admitted, thread, interrupt>>
    BY <1>2 DEF FailAdmission, AdmissionsAgree
  <2>2. ~Occupied(p)' /\ \A q \in Project : q # p => (Occupied(q)' <=> Occupied(q))
    BY <2>1 DEF Occupied, TypeOK, RunnerTypeOK
  <2>3. \A r \in Run : /\ ProjectOf(r) \in Project
                       /\ ProjectOf(r) # p => jobStatus'[r] = jobStatus[r]
    BY <2>1 DEF ProjectOf, Latest, Run, TypeOK, RunnerTypeOK
  <2>4. BusyHasRun' /\ BusyIsActive'
    BY <2>1, <2>2, <2>3 DEF BusyHasRun, BusyIsActive, Marked, IsLatest
  <2>5. \A w \in Worker : thread[w].pc \in {"publishJob", "terminalJob"}
                              => ProjectOf(thread[w].run) \in Project
    BY BusyThread DEF ProjectOf, Run, TypeOK, RunnerTypeOK
  <2>6. EndsAgree'
    BY <2>1, <2>2, <2>5 DEF EndsAgree, IsLatest
  <2>7. QED BY <2>4, <2>6
<1>3. CASE RequestPause(p) /\ UNCHANGED desktopVars
  <2>1. /\ projectStatus' = [projectStatus EXCEPT ![p] = "pausing"]
        /\ Occupied(p) /\ UNCHANGED <<admitted, jobStatus, thread, interrupt>>
    BY <1>3 DEF RequestPause, Occupied
  <2>2. \A q \in Project : Occupied(q)' => Occupied(q)
    BY <2>1 DEF Occupied, TypeOK, RunnerTypeOK
  <2>3. /\ \A r \in Run : ProjectOf(r) \in Project
        /\ \A w \in Worker : thread[w].pc \in {"publishJob", "terminalJob"}
                                 => ProjectOf(thread[w].run) \in Project
    BY BusyThread DEF ProjectOf, Run, TypeOK, RunnerTypeOK
  <2>4. QED BY <2>1, <2>2, <2>3 DEF BusyHasRun, BusyIsActive, EndsAgree, Marked, IsLatest
<1>4. CASE \/ \E w \in Worker : Enqueue(p, w)
           \/ ApiEnter(p) /\ UNCHANGED desktopVars
           \/ (ApiLeave(p) \/ ApiReturn(p)) /\ UNCHANGED desktopVars
           \/ EnqueueFails(p) \/ AdmissionLost(p)
           \/ FailAdmission(p) /\ jobStatus[Latest(p)] # "queued"
  <2>1. UNCHANGED <<catalog, thread, interrupt>>
    BY <1>4 DEF Enqueue, ApiEnter, ApiLeave, ApiReturn, EnqueueFails, FailAdmission, AdmissionLost,
                catalog
  <2>2. QED BY <2>1, NothingIsWritten
<1>5. QED BY <1>1, <1>2, <1>3, <1>4 DEF ApiStep, Request

\* An execution writes its project before its job, unless a call fails (execute,
\* record_terminal_status).
LEMMA ExecutionKeepsAgreement ==
    ASSUME TypeOK, LockInv, OwnInv, RowsInv, AgreeInv, NEW w \in Worker, Execution(w),
           faults' = 0
    PROVE  AgreeInv'
<1> USE DEF AgreeInv
<1>0. PICK run : run = thread[w].run
  OBVIOUS
<1>1. /\ thread[w].pc # "idle" /\ run \in Run /\ ProjectOf(run) \in Project
      /\ thread[w].outcome \in {"paused", "error"}
      /\ \A v \in Worker : v # w => thread'[v] = thread[v]
      /\ thread'[w].pc # "idle" => thread'[w].run = run
      /\ UNCHANGED <<admitted, api, interrupt>>
  BY <1>0, ThreadContinues, BusyThread DEF Execution, TypeOK, RunnerTypeOK, ProjectOf, Run
<1>2. ~ThreadFault(w)
  <2>1. faults \in Nat
    BY DEF TypeOK, RunnerTypeOK
  <2>2. ~Fault
    BY <2>1 DEF Fault
  <2>3. QED BY <2>2 DEF ThreadFault, StartupFails, ExecuteFaults, RecordFaults, RecordTryFaults
<1>3. \A v \in Worker : thread[v].pc \in {"publishJob", "terminalJob"}
                            => thread[v].run \in Run /\ ProjectOf(thread[v].run) \in Project
  BY BusyThread DEF ProjectOf, Run, TypeOK, RunnerTypeOK
<1>4. CASE PublishProject(w) \/ TerminalProject(w)
  <2>1. /\ jobStatus' = jobStatus
        /\ thread'[w].pc \in {"publishJob", "terminalJob"}
        /\ \/ IsLatest(run) /\ ~Occupied(ProjectOf(run))'
              /\ \A q \in Project : q # ProjectOf(run) => (Occupied(q)' <=> Occupied(q))
           \/ ~IsLatest(run) /\ projectStatus' = projectStatus
    <3>1. CASE PublishProject(w)
      BY <1>0, <1>1, <3>1 DEF PublishProject, Goto, SetThread, At, Occupied, RUNNING_PROJECT_STATUSES,
                        RowsInv, ProjectsMatch, TypeOK, RunnerTypeOK
    <3>2. CASE TerminalProject(w)
      BY <1>0, <1>1, <3>2 DEF TerminalProject, Goto, SetThread, At, Occupied, RUNNING_PROJECT_STATUSES,
                        TypeOK, RunnerTypeOK
    <3>3. QED BY <1>4, <3>1, <3>2
  <2>2. \A q \in Project : Occupied(q)' => Occupied(q)
    BY <2>1 DEF Occupied, TypeOK, RunnerTypeOK
  <2>3. BusyHasRun' /\ BusyIsActive'
    <3>1. \A r \in Run : ProjectOf(r) \in Project
      BY DEF ProjectOf, Run
    <3>2. QED BY <1>1, <2>1, <2>2, <3>1 DEF BusyHasRun, BusyIsActive, Marked, IsLatest
  <2>4. EndsAgree'
    <3>1. ASSUME NEW v \in Worker, thread'[v].pc \in {"publishJob", "terminalJob"}
          PROVE  ~(IsLatest(thread[v].run) /\ Occupied(ProjectOf(thread[v].run)))'
      <4>1. CASE v = w
        BY <1>1, <2>1, <3>1, <4>1 DEF IsLatest, Occupied
      <4>2. CASE v # w
        BY <1>1, <1>3, <2>2, <3>1, <4>2 DEF EndsAgree, IsLatest
      <4>3. QED BY <4>1, <4>2
    <3>2. QED BY <3>1 DEF EndsAgree
  <2>5. QED BY <2>3, <2>4
<1>5. CASE PublishJob(w) \/ TerminalJob(w) \/ MarkRunning(w)
  <2>1. /\ UNCHANGED projectStatus
        /\ \A r \in Run : r # run => jobStatus'[r] = jobStatus[r]
        /\ \/ thread[w].pc \in {"publishJob", "terminalJob"}
           \/ jobStatus'[run] = "running"
        /\ thread'[w].pc \notin {"publishJob", "terminalJob"}
    BY <1>0, <1>1, <1>5 DEF PublishJob, TerminalJob, MarkRunning, Unwind, Return, Goto, SetThread, At,
                      IdleThread, TypeOK, RunnerTypeOK
  <2>2. BusyHasRun' /\ EndsAgree'
    BY <1>1, <2>1 DEF BusyHasRun, EndsAgree, Occupied, IsLatest
  <2>3. ASSUME NEW r \in Run, IsLatest(r)', Occupied(ProjectOf(r))'
        PROVE  jobStatus'[r] \in ActiveStatuses \/ Marked(r)'
    <3>1. IsLatest(r) /\ Occupied(ProjectOf(r))
      BY <1>1, <2>1, <2>3 DEF IsLatest, Occupied
    <3>2. CASE r = run
      BY <1>0, <1>1, <2>1, <3>1, <3>2 DEF EndsAgree, ActiveStatuses
    <3>3. CASE r # run
      BY <1>1, <2>1, <3>1, <3>3 DEF BusyIsActive, Marked
    <3>4. QED BY <3>2, <3>3
  <2>4. QED BY <2>2, <2>3 DEF BusyIsActive
<1>6. CASE TerminalRead(w)
  <2>1. /\ UNCHANGED catalog
        /\ thread'[w].pc \in {"publishJob", "terminalJob"} =>
              ~(IsLatest(run) /\ Occupied(ProjectOf(run)))
    BY <1>0, <1>1, <1>6 DEF TerminalRead, Goto, SetThread, At, Occupied, RUNNING_PROJECT_STATUSES, TypeOK,
                      RunnerTypeOK
  <2>2. BusyHasRun' /\ BusyIsActive'
    BY <1>1, <2>1 DEF BusyHasRun, BusyIsActive, Occupied, IsLatest, Marked, catalog
  <2>3. ASSUME NEW v \in Worker, thread'[v].pc \in {"publishJob", "terminalJob"}
        PROVE  ~(IsLatest(thread[v].run) /\ Occupied(ProjectOf(thread[v].run)))'
    <3>1. CASE v = w
      BY <1>1, <2>1, <2>3, <3>1 DEF IsLatest, Occupied, catalog
    <3>2. CASE v # w
      BY <1>1, <2>1, <2>3, <3>2 DEF EndsAgree, IsLatest, Occupied, catalog
    <3>3. QED BY <3>1, <3>2
  <2>4. EndsAgree'
    BY <2>3 DEF EndsAgree
  <2>5. QED BY <2>2, <2>4
<1>7. CASE \/ Begin(w) \/ StartupSucceeds(w) \/ Claim(w) \/ ClaimRefused(w) \/ Finish(w)
           \/ Halt(w, "paused") \/ Halt(w, "error") \/ TerminalLock(w) \/ MonitorPause(w)
  <2>1. /\ UNCHANGED catalog
        /\ thread'[w].pc \notin {"publishJob", "terminalJob"}
    BY <1>7 DEF Begin, StartupSucceeds, Claim, ClaimRefused, Finish, Halt, TerminalLock, MonitorPause,
                Goto, Return, SetThread, At, Recording, Stopped, IdleThread, catalog, TypeOK,
                RunnerTypeOK
  <2>2. QED BY <1>1, <2>1, NothingIsWritten
<1>8. QED BY <1>2, <1>4, <1>5, <1>6, <1>7 DEF Execution, ThreadStep

\* An interruption writes the project of the job it has marked (_interrupt).
LEMMA RecoveryKeepsAgreement ==
    ASSUME TypeOK, AgreeInv, faults' = 0,
           \/ \E i \in Interrupter : Interruption(i)
           \/ RecoverPass
           \/ \E r \in Run : RecoverJob(r)
    PROVE  AgreeInv'
<1> USE DEF AgreeInv
<1>1. ASSUME NEW i \in Interrupter, InterruptMark(i), jobStatus[interrupt[i].run] \in ActiveStatuses
      PROVE  AgreeInv'
  <2>1. PICK run \in Run : run = interrupt[i].run
    BY <1>1 DEF InterruptMark, TypeOK, RunnerTypeOK, Interrupts, IdleInterrupt
  <2>2. /\ jobStatus' = [jobStatus EXCEPT ![run] = "interrupted"]
        /\ interrupt' = [interrupt EXCEPT ![i] = [pc |-> "marked", run |-> run]]
        /\ interrupt[i].pc = "locked"
        /\ UNCHANGED <<projectStatus, admitted, thread>>
    BY <1>1, <2>1 DEF InterruptMark, InterruptGoto, SetInterrupt
  <2>3. Marked(run)'
    BY <2>2 DEF Marked, TypeOK, RunnerTypeOK
  <2>4. \A r \in Run : r # run => jobStatus'[r] = jobStatus[r] /\ (Marked(r) => Marked(r)')
    BY <2>2 DEF Marked, TypeOK, RunnerTypeOK
  <2>5. BusyHasRun' /\ EndsAgree'
    BY <2>2 DEF BusyHasRun, EndsAgree, Occupied, IsLatest
  <2>6. BusyIsActive'
    BY <2>2, <2>3, <2>4 DEF BusyIsActive, Occupied, IsLatest
  <2>7. QED BY <2>5, <2>6
<1>2. ASSUME NEW i \in Interrupter, InterruptProject(i)
      PROVE  AgreeInv'
  <2>1. PICK run \in Run : run = interrupt[i].run
    BY <1>2 DEF InterruptProject, TypeOK, RunnerTypeOK, Interrupts, IdleInterrupt
  <2>2. /\ projectStatus' = IF IsLatest(run) THEN [projectStatus EXCEPT ![ProjectOf(run)] = "paused"]
                                             ELSE projectStatus
        /\ interrupt' = [interrupt EXCEPT ![i] = IdleInterrupt]
        /\ UNCHANGED <<admitted, jobStatus, thread>> /\ ProjectOf(run) \in Project
    BY <1>2, <2>1 DEF InterruptProject, SetInterrupt, ProjectOf, Run
  <2>3. /\ \A q \in Project : Occupied(q)' => Occupied(q)
        /\ IsLatest(run) => ~Occupied(ProjectOf(run))'
    BY <2>2 DEF Occupied, RUNNING_PROJECT_STATUSES, TypeOK, RunnerTypeOK
  <2>4. \A r \in Run : r # run => (Marked(r) => Marked(r)')
    BY <2>1, <2>2 DEF Marked, TypeOK, RunnerTypeOK
  <2>5. /\ \A r \in Run : ProjectOf(r) \in Project
        /\ \A w \in Worker : thread[w].pc \in {"publishJob", "terminalJob"}
                                 => ProjectOf(thread[w].run) \in Project
    BY BusyThread DEF ProjectOf, Run, TypeOK, RunnerTypeOK
  <2>6. BusyHasRun' /\ EndsAgree'
    BY <2>2, <2>3, <2>5 DEF BusyHasRun, EndsAgree, IsLatest
  <2>7. BusyIsActive'
    BY <2>2, <2>3, <2>4, <2>5 DEF BusyIsActive, IsLatest
  <2>8. QED BY <2>6, <2>7
<1>3. ASSUME NEW i \in Interrupter,
             \/ InterruptLock(i) \/ InterruptBusy(i)
             \/ InterruptMark(i) /\ jobStatus[interrupt[i].run] \notin ActiveStatuses
      PROVE  AgreeInv'
  <2>1. /\ UNCHANGED <<catalog, thread>> /\ interrupt[i].pc # "marked"
        /\ \A j \in Interrupter : j # i => interrupt'[j] = interrupt[j]
    BY <1>3 DEF InterruptLock, InterruptBusy, InterruptMark, InterruptGoto, SetInterrupt, catalog,
                TypeOK, RunnerTypeOK
  <2>2. QED BY <2>1, NothingIsWritten
<1>4. \A i \in Interrupter : ~InterruptFaults(i)
  <2>1. faults \in Nat
    BY DEF TypeOK, RunnerTypeOK
  <2>2. QED BY <2>1 DEF InterruptFaults, Fault
<1>5. CASE RecoverPass \/ \E r \in Run : RecoverJob(r)
  <2>1. /\ UNCHANGED <<catalog, thread>>
        /\ \A j \in Interrupter : interrupt[j].pc = "marked" => interrupt'[j] = interrupt[j]
    BY <1>5, DesktopAssumption
       DEF RecoverPass, RecoverJob, InterruptRead, SetInterrupt, runnerVars, TypeOK, RunnerTypeOK
  <2>2. QED BY <2>1, NothingIsWritten
<1>6. CASE \E i \in Interrupter : Interruption(i)
  BY <1>1, <1>2, <1>3, <1>4, <1>6 DEF Interruption, InterruptStep
<1>7. QED BY <1>5, <1>6

\* Supervision and the life of the process write no row, and a process ends with nothing
\* between two writes unless it dies (_run_job, stop).
LEMMA SupervisionKeepsAgreement ==
    ASSUME TypeOK, OwnInv, RecoveryEnds, AgreeInv, crashes' = 0,
           \/ \E w \in Worker : SupervisorStep(w) \/ Timeout(w)
           \/ Launch \/ Open \/ BeginStop \/ ReleaseWorkspace \/ Exit \/ Crash
    PROVE  AgreeInv'
<1>1. ~Crash
  BY DEF Crash, TypeOK
<1>2. ASSUME NEW w \in Worker, SupervisorStep(w) \/ Timeout(w) PROVE AgreeInv'
  <2>1. UNCHANGED catalog
    BY <1>2 DEF SupervisorStep, Supervise, SupervisorEnds, SupervisorInterrupts, InterruptReturns,
                Timeout, Deliver, InterruptRead, runnerVars, catalog
  <2>2. \A v \in Worker : thread'[v].pc \in {"publishJob", "terminalJob"} =>
            thread'[v].run = thread[v].run /\ thread'[v].pc = thread[v].pc
    BY <1>2 DEF SupervisorStep, Supervise, SupervisorEnds, SupervisorInterrupts, InterruptReturns,
                Timeout, Deliver, InterruptRead, SetThread, Cancelled, Stopped, IdleThread, runnerVars,
                TypeOK, RunnerTypeOK
  <2>3. \A i \in Interrupter : interrupt[i].pc = "marked" => interrupt'[i] = interrupt[i]
    BY <1>2, DesktopAssumption
       DEF SupervisorStep, Supervise, SupervisorEnds, SupervisorInterrupts, InterruptReturns,
           Timeout, Deliver, InterruptRead, SetInterrupt, runnerVars, TypeOK, RunnerTypeOK
  <2>4. QED BY <2>1, <2>2, <2>3, NothingIsWritten
<1>3. CASE Launch \/ Open \/ BeginStop \/ ReleaseWorkspace \/ Exit
  <2>1. UNCHANGED catalog
    BY <1>3 DEF Launch, Open, BeginStop, ReleaseWorkspace, Exit, runnerVars
  <2>2. \A v \in Worker : thread'[v].pc \in {"publishJob", "terminalJob"} =>
            thread'[v].run = thread[v].run /\ thread'[v].pc = thread[v].pc
    BY <1>3 DEF Launch, Open, BeginStop, ReleaseWorkspace, Exit, Die, Cancelled, Stopped, IdleThread,
                runnerVars, TypeOK, RunnerTypeOK
  <2>3. ASSUME NEW i \in Interrupter, interrupt[i].pc = "marked" PROVE interrupt'[i] = interrupt[i]
    <3>1. ~Exit
      BY <2>3, DesktopAssumption DEF Exit, RecoveryEnds, OwnInv, SlotsMatch, PhasesMatch
    <3>2. QED BY <1>3, <3>1 DEF Launch, Open, BeginStop, ReleaseWorkspace, runnerVars
  <2>4. QED BY <2>1, <2>2, <2>3, NothingIsWritten
<1>4. QED BY <1>1, <1>2, <1>3

\* Until a call fails or the process dies, a project that is shown as running while nothing is
\* in flight has an active job, which can be paused or recovered: no order of an end, an
\* interruption, a rollback and a shutdown leaves it busy with a job that has ended (execute,
\* record_terminal_status, _interrupt, LocalRuntime.stop).
THEOREM QuietUntilFailure == Spec => [](NothingFailed => QuietProjectsAreSettled)
<1> DEFINE Fits == TypeOK /\ LockInv /\ OwnInv /\ RowsInv
<1> DEFINE Inv == AdmissionsAgree /\ RecoveryEnds /\ (NothingFailed => AgreeInv)
<1>1. Init => Inv
  <2> SUFFICES ASSUME Init PROVE Inv
    OBVIOUS
  <2>1. \A p \in Project : ~Occupied(p)
    BY DEF Init, RunnerInit, Occupied, RUNNING_PROJECT_STATUSES
  <2>2. \A r \in Run : ProjectOf(r) \in Project
    BY DEF ProjectOf, Run
  <2>3. BusyHasRun /\ BusyIsActive
    BY <2>1, <2>2 DEF BusyHasRun, BusyIsActive
  <2>4. EndsAgree /\ AdmissionsAgree /\ RecoveryEnds
    BY DEF Init, RunnerInit, EndsAgree, AdmissionsAgree, RecoveryEnds, IdleThread, IdleApi
  <2>5. QED BY <2>3, <2>4 DEF AgreeInv
<1>2. Fits /\ Inv /\ [Next]_vars => Inv'
  <2> SUFFICES ASSUME TypeOK, LockInv, OwnInv, RowsInv, AdmissionsAgree, RecoveryEnds,
                      NothingFailed => AgreeInv, [Next]_vars
               PROVE  AdmissionsAgree' /\ RecoveryEnds' /\ (NothingFailed => AgreeInv)'
    OBVIOUS
  <2>1. AdmissionsAgree' /\ RecoveryEnds'
    BY AdmissionsStayFree, RecoveryStaysOver
  <2>2. ASSUME NothingFailed' PROVE NothingFailed
    <3>1. faults \in Nat /\ crashes \in Nat /\ faults' = 0 /\ crashes' = 0
      BY <2>2 DEF NothingFailed, TypeOK, RunnerTypeOK
    <3>0. ~Fault /\ ~Crash
      BY <3>1 DEF Fault, Crash
    <3>2. ASSUME NEW p \in Project,
                 \/ Request(p) \/ ApiStep(p) \/ AdmitJob(p) \/ EnqueueFails(p) \/ AdmissionLost(p)
          PROVE  faults = 0 /\ crashes = 0
      BY <3>0, <3>1, <3>2 DEF Request, ApiEnter, RequestPause, ApiStep, ApiLeave, ApiReturn, Enqueue,
         EnqueueFails, FailAdmission, AdmissionLost, AdmitJob, desktopVars
    <3>3. ASSUME NEW w \in Worker, SupervisorStep(w) \/ Timeout(w)
          PROVE  faults = 0 /\ crashes = 0
      BY <3>1, <3>3 DEF SupervisorStep, Supervise, SupervisorEnds, SupervisorInterrupts,
         InterruptReturns, Timeout, InterruptRead, runnerVars
    <3>4. ASSUME NEW w \in Worker, Execution(w) PROVE faults = 0 /\ crashes = 0
      BY <3>0, <3>1, <3>4 DEF Execution, ThreadStep, ThreadFault, MonitorPause, Begin, StartupSucceeds,
         Claim, ClaimRefused, MarkRunning, Finish, Halt, PublishProject, PublishJob, TerminalRead,
         TerminalLock, TerminalProject, TerminalJob, StartupFails, ExecuteFaults, RecordFaults,
         RecordTryFaults, desktopVars
    <3>5. CASE \/ \E i \in Interrupter : Interruption(i)
               \/ RecoverPass \/ \E r \in Run : RecoverJob(r)
      BY <3>0, <3>1, <3>5 DEF NothingFailed, Interruption, InterruptStep, InterruptLock, InterruptBusy, InterruptMark,
         InterruptProject, InterruptFaults, RecoverPass, RecoverJob, InterruptRead, catalog, runnerVars,
         desktopVars
    <3>6. CASE \/ Launch \/ Open \/ BeginStop \/ ReleaseWorkspace \/ Exit \/ Crash
               \/ UNCHANGED vars
      BY <3>0, <3>1, <3>6 DEF NothingFailed, Launch, Open, BeginStop, ReleaseWorkspace, Exit, vars, runnerVars,
         desktopVars
    <3>7. QED BY <3>2, <3>3, <3>4, <3>5, <3>6 DEF Next, NothingFailed
  <2>3. ASSUME NothingFailed' PROVE AgreeInv'
    <3>1. AgreeInv /\ faults' = 0 /\ crashes' = 0
      BY <2>2, <2>3 DEF NothingFailed
    <3>2. ASSUME NEW p \in Project,
                 \/ Request(p) \/ ApiStep(p) \/ AdmitJob(p) \/ EnqueueFails(p) \/ AdmissionLost(p)
          PROVE  AgreeInv'
      BY <3>1, <3>2, AdmissionKeepsAgreement
    <3>3. ASSUME NEW w \in Worker, Execution(w) PROVE AgreeInv'
      BY <3>1, <3>3, ExecutionKeepsAgreement
    <3>4. CASE \/ \E i \in Interrupter : Interruption(i)
               \/ RecoverPass \/ \E r \in Run : RecoverJob(r)
      BY <3>1, <3>4, RecoveryKeepsAgreement
    <3>5. CASE \/ \E w \in Worker : SupervisorStep(w) \/ Timeout(w)
               \/ Launch \/ Open \/ BeginStop \/ ReleaseWorkspace \/ Exit \/ Crash
      BY <3>1, <3>5, SupervisionKeepsAgreement
    <3>6. CASE UNCHANGED vars
      BY <3>1, <3>6, NothingIsWritten DEF vars, runnerVars
    <3>7. QED BY <3>2, <3>3, <3>4, <3>5, <3>6 DEF Next
  <2>4. QED BY <2>1, <2>3
<1>3. Fits /\ Inv => (NothingFailed => QuietProjectsAreSettled)
  <2> SUFFICES ASSUME TypeOK, BusyHasRun, BusyIsActive,
                      \A i \in Interrupter : interrupt[i].pc = "idle",
                      NEW p \in Project, Occupied(p)
               PROVE  jobStatus[Latest(p)] \in ActiveStatuses
    BY DEF AgreeInv, QuietProjectsAreSettled, Occupied
  <2>1. Latest(p) \in Run /\ IsLatest(Latest(p)) /\ ProjectOf(Latest(p)) = p
    BY RunnerAssumption DEF BusyHasRun, Latest, IsLatest, ProjectOf, Run, TypeOK, RunnerTypeOK
  <2>2. QED BY <2>1 DEF BusyIsActive, Marked
<1>4. Spec => []Fits
  BY RowsFit
<1>5. QED BY <1>1, <1>2, <1>3, <1>4, PTL DEF Spec

=============================================================================
