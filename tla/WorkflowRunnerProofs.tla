------------------------- MODULE WorkflowRunnerProofs -------------------------
(***************************************************************************)
(* Lemmas about the actions of WorkflowRunner, for the platforms that are  *)
(* built from them.  First, each keeps every variable in its type.  Then,  *)
(* the run lock of a project is held by exactly the processes inside its   *)
(* locked region: the ways a process may change its program point together *)
(* with the lock, and every action as an instance of one of them.          *)
(***************************************************************************)
EXTENDS WorkflowRunner, TLAPS

\* What is known of a thread that is not idle.
LEMMA BusyThread ==
    ASSUME thread \in [Worker -> Threads], NEW w \in Worker, thread[w].pc # "idle"
    PROVE  /\ thread[w].pc \in ThreadPcs
           /\ thread[w].run \in Run
           /\ thread[w].stop \in {"none", "paused", "cancelled"}
           /\ thread[w].outcome \in {"paused", "error"}
           /\ thread[w].failing \in BOOLEAN
           /\ thread[w].fallback \in BOOLEAN
BY DEF Threads, IdleThread

\* The ways a thread changes its record keep it a thread.
LEMMA MovesKeepThreads ==
    ASSUME thread \in [Worker -> Threads], NEW w \in Worker, thread[w].pc # "idle",
           \/ Return(w)
           \/ \E pc \in ThreadPcs : Goto(w, pc)
           \/ \E outcome \in {"paused", "error"}, failing \in BOOLEAN :
                 \/ SetThread(w, Recording(thread[w], "terminalRead", outcome, failing))
                 \/ SetThread(w, Recording(thread[w], "terminalJob", outcome, failing))
           \/ SetThread(w, Stopped(thread[w], "paused"))
    PROVE  thread' \in [Worker -> Threads]
<1>1. CASE Return(w)
  BY <1>1 DEF Return, SetThread, Threads
<1>2. CASE \E pc \in ThreadPcs : Goto(w, pc)
  BY <1>2, BusyThread DEF Goto, SetThread, At, Threads
<1>3. CASE \E outcome \in {"paused", "error"}, failing \in BOOLEAN :
              \/ SetThread(w, Recording(thread[w], "terminalRead", outcome, failing))
              \/ SetThread(w, Recording(thread[w], "terminalJob", outcome, failing))
  BY <1>3, BusyThread DEF SetThread, Recording, Threads, ThreadPcs
<1>4. CASE SetThread(w, Stopped(thread[w], "paused"))
  BY <1>4, BusyThread DEF SetThread, Stopped, Threads
<1>5. QED BY <1>1, <1>2, <1>3, <1>4

\* Unwinding execute leaves a thread that returned or records its failure again.
LEMMA UnwindKeepsThreads ==
    ASSUME thread \in [Worker -> Threads], NEW w \in Worker, thread[w].pc # "idle",
           NEW raised \in BOOLEAN, Unwind(w, raised)
    PROVE  thread' \in [Worker -> Threads]
<1> DEFINE again == raised /\ ~thread[w].fallback /\ thread[w].stop # "cancelled"
<1>1. CASE again
  <2>1. thread' = [thread EXCEPT ![w] = [pc |-> "terminalRead", run |-> thread[w].run,
                                         stop |-> thread[w].stop, outcome |-> "error",
                                         failing |-> TRUE, fallback |-> TRUE]]
    BY <1>1 DEF Unwind, SetThread
  <2>2. QED BY <2>1, BusyThread DEF Threads, ThreadPcs
<1>2. CASE ~again
  <2>1. Return(w)
    BY <1>2 DEF Unwind
  <2>2. QED BY <2>1, MovesKeepThreads
<1>3. QED BY <1>1, <1>2

\* A delivered run makes a thread of the idle slot.
LEMMA DeliverKeepsThreads ==
    ASSUME thread \in [Worker -> Threads], NEW w \in Worker, NEW r \in Run, Deliver(w, r)
    PROVE  thread' \in [Worker -> Threads]
BY DEF Deliver, SetThread, Threads, ThreadPcs

\* Failing calls are counted up to their bound.
LEMMA FaultKeepsBound ==
    ASSUME faults \in 0..MaxFaults, Fault
    PROVE  faults' \in 0..MaxFaults
BY RunnerAssumption DEF Fault

\* An HTTP writer that enters, leaves or returns, and a pause request
\* (project_write, request_pause).
LEMMA ApiKeepsTypes ==
    ASSUME RunnerTypeOK, NEW p \in Project,
           ApiEnter(p) \/ ApiLeave(p) \/ ApiReturn(p) \/ RequestPause(p)
    PROVE  RunnerTypeOK'
<1>1. CASE ApiEnter(p)
  BY <1>1 DEF ApiEnter, Acquire, ByApi, Holders, RunnerTypeOK, Writers, catalog
<1>2. CASE ApiLeave(p)
  BY <1>2
     DEF ApiLeave, IdleApi, ProjectStatuses, Release, Nobody, Holders, RunnerTypeOK,
         Writers, catalog
<1>3. CASE ApiReturn(p)
  BY <1>3
     DEF ApiReturn, IdleApi, ProjectStatuses, Release, Nobody, Holders, RunnerTypeOK,
         Writers, catalog
<1>4. CASE RequestPause(p)
  BY <1>4
     DEF RequestPause, ProjectStatuses, RUNNING_PROJECT_STATUSES, RunnerTypeOK, Writers,
         catalog
<1>5. QED BY <1>1, <1>2, <1>3, <1>4

\* Every step of an execution that needs no fault (execute, record_terminal_status).
LEMMA ThreadStepKeepsTypes ==
    ASSUME RunnerTypeOK, NEW w \in Worker, ThreadStep(w)
    PROVE  RunnerTypeOK'
<1>1. CASE Begin(w)
  BY <1>1, MovesKeepThreads DEF Begin, RunnerTypeOK, ThreadPcs, LockedPcs, catalog
<1>2. CASE StartupSucceeds(w)
  BY <1>2, MovesKeepThreads DEF StartupSucceeds, RunnerTypeOK, ThreadPcs, LockedPcs, catalog
<1>3. CASE Claim(w)
  BY <1>3, MovesKeepThreads
     DEF Claim, Acquire, ByThread, Holders, RunnerTypeOK, ThreadPcs, LockedPcs, catalog
<1>4. CASE ClaimRefused(w)
  BY <1>4, MovesKeepThreads DEF ClaimRefused, RunnerTypeOK, ThreadPcs, LockedPcs, catalog
<1>5. CASE MarkRunning(w)
  BY <1>5, MovesKeepThreads
     DEF MarkRunning, ActiveStatuses, RunnerTypeOK, ThreadPcs, LockedPcs, catalog
<1>6. CASE Finish(w)
  BY <1>6, MovesKeepThreads
     DEF Finish, Release, Nobody, Holders, RunnerTypeOK, ThreadPcs, LockedPcs, catalog
<1>7. CASE Halt(w, "paused")
  BY <1>7, MovesKeepThreads
     DEF Halt, Release, Nobody, Holders, RunnerTypeOK, ThreadPcs, LockedPcs, catalog
<1>8. CASE Halt(w, "error")
  BY <1>8, MovesKeepThreads
     DEF Halt, Release, Nobody, Holders, RunnerTypeOK, ThreadPcs, LockedPcs, catalog
<1>9. CASE PublishProject(w)
  BY <1>9, MovesKeepThreads
     DEF PublishProject, ProjectStatuses, RunnerTypeOK, ThreadPcs, LockedPcs, catalog
<1>10. CASE PublishJob(w)
  BY <1>10, MovesKeepThreads
     DEF PublishJob, TerminalStatuses, RunnerTypeOK, ThreadPcs, LockedPcs, catalog
<1>11. CASE TerminalRead(w)
  BY <1>11, MovesKeepThreads DEF TerminalRead, RunnerTypeOK, ThreadPcs, LockedPcs, catalog
<1>12. CASE TerminalLock(w)
  BY <1>12, MovesKeepThreads
     DEF TerminalLock, Acquire, ByThread, Holders, RunnerTypeOK, ThreadPcs, LockedPcs,
         catalog
<1>13. CASE TerminalProject(w)
  BY <1>13, MovesKeepThreads, BusyThread
     DEF TerminalProject, Release, Nobody, Holders, ProjectStatuses, RunnerTypeOK,
         ThreadPcs, LockedPcs, catalog
<1>14. CASE TerminalJob(w)
  BY <1>14, UnwindKeepsThreads, BusyThread
     DEF TerminalJob, TerminalStatuses, RunnerTypeOK, ThreadPcs, LockedPcs, catalog
<1>15. QED BY <1>1, <1>2, <1>3, <1>4, <1>5, <1>6, <1>7, <1>8, <1>9, <1>10, <1>11, <1>12, <1>13, <1>14 DEF ThreadStep

\* Every failing call of an execution, and the pause monitor.
LEMMA ThreadFaultKeepsTypes ==
    ASSUME RunnerTypeOK, NEW w \in Worker,
           ThreadFault(w) \/ MonitorPause(w)
    PROVE  RunnerTypeOK'
<1>1. CASE StartupFails(w)
  BY <1>1, UnwindKeepsThreads, FaultKeepsBound
     DEF StartupFails, RunnerTypeOK, ThreadPcs, LockedPcs, catalog
<1>2. CASE ExecuteFaults(w)
  BY <1>2, MovesKeepThreads, BusyThread, FaultKeepsBound
     DEF ExecuteFaults, Release, Nobody, Holders, RunnerTypeOK, ThreadPcs, LockedPcs,
         catalog
<1>3. CASE RecordFaults(w)
  <2>1. thread' \in [Worker -> Threads] /\ faults' \in 0..MaxFaults
    BY <1>3, UnwindKeepsThreads, FaultKeepsBound DEF RecordFaults, RunnerTypeOK
  <2>2. jobStatus' \in [Run -> {"absent"} \cup ActiveStatuses \cup TerminalStatuses]
    BY <1>3 DEF RecordFaults, RunnerTypeOK, Threads, TerminalStatuses, IdleThread
  <2>3. QED BY <1>3, <2>1, <2>2 DEF RecordFaults, RunnerTypeOK
<1>4. CASE RecordTryFaults(w)
  BY <1>4, MovesKeepThreads, BusyThread, FaultKeepsBound
     DEF RecordTryFaults, Release, Nobody, Holders, RunnerTypeOK, ThreadPcs, LockedPcs,
         catalog
<1>5. CASE MonitorPause(w)
  BY <1>5, MovesKeepThreads DEF MonitorPause, RunnerTypeOK, ThreadPcs, LockedPcs, catalog
<1>6. QED BY <1>1, <1>2, <1>3, <1>4, <1>5 DEF ThreadFault

\* An interruption that moves on, or ends, is still one of a run.
LEMMA MovesKeepInterrupts ==
    ASSUME interrupt \in [Interrupter -> Interrupts], NEW i \in Interrupter,
           \/ SetInterrupt(i, IdleInterrupt)
           \/ /\ interrupt[i].pc # "idle"
              /\ \E pc \in InterruptLockedPcs : InterruptGoto(i, pc)
    PROVE  interrupt' \in [Interrupter -> Interrupts]
<1>1. CASE SetInterrupt(i, IdleInterrupt)
  BY <1>1 DEF SetInterrupt, Interrupts
<1>2. CASE /\ interrupt[i].pc # "idle"
           /\ \E pc \in InterruptLockedPcs : InterruptGoto(i, pc)
  <2>1. interrupt[i].run \in Run
    BY <1>2 DEF Interrupts, IdleInterrupt
  <2>2. QED BY <1>2, <2>1 DEF InterruptGoto, SetInterrupt, Interrupts
<1>3. QED BY <1>1, <1>2

\* The steps of an interruption the platforms share.
LEMMA InterruptKeepsTypes ==
    ASSUME RunnerTypeOK, NEW i \in Interrupter,
           \/ \E r \in Run : InterruptRead(i, r)
           \/ InterruptLock(i) \/ InterruptBusy(i) \/ InterruptProject(i) \/ InterruptFaults(i)
    PROVE  RunnerTypeOK'
<1>1. CASE \E r \in Run : InterruptRead(i, r)
  BY <1>1 DEF InterruptRead, SetInterrupt, RunnerTypeOK, Interrupts, IdleInterrupt, catalog
<1>2. CASE InterruptLock(i)
  BY <1>2, MovesKeepInterrupts
     DEF InterruptLock, InterruptLockedPcs, Acquire, ByInterrupt, Holders, RunnerTypeOK, catalog
<1>3. CASE InterruptBusy(i)
  BY <1>3, MovesKeepInterrupts DEF InterruptBusy, RunnerTypeOK, catalog
<1>4. CASE InterruptProject(i)
  BY <1>4, MovesKeepInterrupts
     DEF InterruptProject, ProjectStatuses, Release, Nobody, Holders, RunnerTypeOK, catalog
<1>5. CASE InterruptFaults(i)
  BY <1>5, MovesKeepInterrupts, FaultKeepsBound
     DEF InterruptFaults, Release, Nobody, Holders, RunnerTypeOK, catalog
<1>6. QED BY <1>1, <1>2, <1>3, <1>4, <1>5

\* Death of any set of processes.
LEMMA DieKeepsTypes ==
    ASSUME RunnerTypeOK, NEW W, NEW I, NEW P, Die(W, I, P), UNCHANGED catalog,
           faults' \in 0..MaxFaults
    PROVE  RunnerTypeOK'
BY DEF Die, RunnerTypeOK, Threads, ThreadPcs, LockedPcs, Writers, Interrupts, Holders, Nobody,
       IdleThread, IdleApi, IdleInterrupt, ProjectStatuses, catalog

\* Cancelling a task leaves a thread.
LEMMA CancelledIsThread ==
    ASSUME NEW t \in Threads
    PROVE  Cancelled(t) \in Threads
BY DEF Cancelled, Stopped, IdleThread, Threads, ThreadPcs, LockedPcs

-----------------------------------------------------------------------------
(* What an execution carries along: its run, and the row of its job.       *)

\* The program points of record_terminal_status, and those before the end of the work.
TerminalPcs == {"terminalRead", "terminalLock", "terminalProject", "terminalJob"}
UpcomingPcs == {"dispatched", "starting", "claiming", "claimed", "working"}

\* The second recording of a failure does nothing but record.
OnlyRecords(t) == t.fallback => t.pc \in TerminalPcs

\* The row of a job says how far its execution is.
JobFits(t, status) ==
    /\ t.pc = "claimed" => status = "queued"
    /\ t.pc \in {"working", "publishProject", "publishJob"} => status = "running"
    /\ t.pc # "idle" => status # "done"

\* An execution keeps its run until it returns.
LEMMA ThreadContinues ==
    ASSUME RunnerTypeOK, NEW w \in Worker, ThreadStep(w) \/ ThreadFault(w) \/ MonitorPause(w)
    PROVE  /\ thread[w].pc # "idle"
           /\ \A v \in Worker : v # w => thread'[v] = thread[v]
           /\ thread'[w].pc # "idle" => thread'[w].run = thread[w].run
           /\ thread'[w].pc \in UpcomingPcs => thread[w].pc \in UpcomingPcs
           /\ OnlyRecords(thread[w]) => OnlyRecords(thread'[w])
           /\ thread[w].fallback /\ thread'[w].pc # "idle" => thread'[w].fallback
           /\ UNCHANGED <<admitted, api, interrupt>>
<1> USE DEF RunnerTypeOK, Goto, Return, SetThread, At, Recording, Stopped, Unwind, IdleThread,
            OnlyRecords, TerminalPcs, UpcomingPcs, catalog
<1>1. CASE Begin(w) \/ StartupSucceeds(w) \/ StartupFails(w)
  BY <1>1 DEF Begin, StartupSucceeds, StartupFails
<1>2. CASE Claim(w) \/ ClaimRefused(w) \/ MarkRunning(w)
  BY <1>2 DEF Claim, ClaimRefused, MarkRunning
<1>3. CASE Finish(w) \/ Halt(w, "paused") \/ Halt(w, "error")
  BY <1>3 DEF Finish, Halt
<1>4. CASE PublishProject(w) \/ PublishJob(w) \/ ExecuteFaults(w)
  BY <1>4 DEF PublishProject, PublishJob, ExecuteFaults
<1>5. CASE TerminalRead(w) \/ TerminalLock(w) \/ TerminalProject(w) \/ TerminalJob(w)
  BY <1>5 DEF TerminalRead, TerminalLock, TerminalProject, TerminalJob
<1>6. CASE RecordFaults(w) \/ RecordTryFaults(w)
  BY <1>6 DEF RecordFaults, RecordTryFaults
<1>7. CASE MonitorPause(w)
  BY <1>7 DEF MonitorPause
<1>8. QED BY <1>1, <1>2, <1>3, <1>4, <1>5, <1>6, <1>7 DEF ThreadStep, ThreadFault

\* An execution writes the row of its own job alone, and keeps it fitting.
LEMMA JobContinues ==
    ASSUME RunnerTypeOK, NEW w \in Worker, ThreadStep(w) \/ ThreadFault(w) \/ MonitorPause(w)
    PROVE  /\ \A r \in Run : r # thread[w].run => jobStatus'[r] = jobStatus[r]
           /\ jobStatus'[thread[w].run] # jobStatus[thread[w].run] =>
                 \/ jobStatus'[thread[w].run] \in TerminalStatuses
                 \/ jobStatus'[thread[w].run] = "running" /\ thread[w].pc = "claimed"
           /\ JobFits(thread[w], jobStatus[thread[w].run])
                 => JobFits(thread'[w], jobStatus'[thread[w].run])
<1> USE DEF RunnerTypeOK, Goto, Return, SetThread, At, Recording, Stopped, Unwind, IdleThread,
            JobFits, TerminalStatuses, catalog
<1>1. thread[w].pc # "idle" => thread[w].run \in Run /\ thread[w].outcome \in {"paused", "error"}
  BY BusyThread
<1>2. CASE Begin(w) \/ StartupSucceeds(w) \/ StartupFails(w)
  BY <1>2 DEF Begin, StartupSucceeds, StartupFails
<1>3. CASE Claim(w) \/ ClaimRefused(w) \/ MarkRunning(w)
  BY <1>1, <1>3 DEF Claim, ClaimRefused, MarkRunning
<1>4. CASE Finish(w) \/ Halt(w, "paused") \/ Halt(w, "error")
  BY <1>4 DEF Finish, Halt
<1>5. CASE PublishProject(w) \/ PublishJob(w) \/ ExecuteFaults(w)
  BY <1>1, <1>5 DEF PublishProject, PublishJob, ExecuteFaults
<1>6. CASE TerminalRead(w) \/ TerminalLock(w) \/ TerminalProject(w) \/ TerminalJob(w)
  BY <1>1, <1>6 DEF TerminalRead, TerminalLock, TerminalProject, TerminalJob
<1>7. CASE RecordFaults(w) \/ RecordTryFaults(w)
  BY <1>1, <1>7 DEF RecordFaults, RecordTryFaults
<1>8. CASE MonitorPause(w)
  BY <1>8 DEF MonitorPause
<1>9. QED BY <1>2, <1>3, <1>4, <1>5, <1>6, <1>7, <1>8 DEF ThreadStep, ThreadFault

-----------------------------------------------------------------------------
(* The run locks.                                                           *)

\* Taking or giving back a lock never mistakes one kind of holder for another.
LEMMA HoldersDiffer ==
    ASSUME NEW p, NEW w, NEW i
    PROVE  /\ ByApi(p) # ByThread(w) /\ ByApi(p) # ByInterrupt(i) /\ ByThread(w) # ByInterrupt(i)
           /\ Nobody # ByApi(p) /\ Nobody # ByThread(w) /\ Nobody # ByInterrupt(i)
           /\ \A q : ByApi(p) = ByApi(q) => p = q
           /\ \A v : ByThread(w) = ByThread(v) => w = v
           /\ \A j : ByInterrupt(i) = ByInterrupt(j) => i = j
BY DEF ByApi, ByThread, ByInterrupt, Nobody

\* The run of a busy thread or interruption belongs to a project.
LEMMA BusyHasProject ==
    ASSUME RunnerTypeOK
    PROVE  /\ \A w \in Worker : thread[w].pc # "idle" => ProjectOf(thread[w].run) \in Project
           /\ \A i \in Interrupter : interrupt[i].pc # "idle"
                                        => ProjectOf(interrupt[i].run) \in Project
BY DEF RunnerTypeOK, Threads, IdleThread, Interrupts, IdleInterrupt, ProjectOf, Run

\* A thread that stays inside, or stays outside, keeps the lock as it is.
LEMMA ThreadMoves ==
    ASSUME RunnerTypeOK, LockMatchesHolder, NEW w \in Worker, NEW t,
           SetThread(w, t),
           t.pc \in LockedPcs <=> thread[w].pc \in LockedPcs,
           t.pc \in LockedPcs => t.run = thread[w].run,
           UNCHANGED <<runLock, api, interrupt>>
    PROVE  LockMatchesHolder'
BY DEF RunnerTypeOK, LockMatchesHolder, ThreadInside, InterruptInside, SetThread, ByApi,
       ByThread, ByInterrupt

\* A thread that takes the lock is inside afterwards.
LEMMA ThreadAcquires ==
    ASSUME RunnerTypeOK, LockMatchesHolder, NEW w \in Worker, NEW t,
           thread[w].pc # "idle", thread[w].pc \notin LockedPcs,
           Acquire(ProjectOf(thread[w].run), ByThread(w)),
           SetThread(w, t), t.pc \in LockedPcs, t.run = thread[w].run,
           UNCHANGED <<api, interrupt>>
    PROVE  LockMatchesHolder'
<1>1. ProjectOf(thread[w].run) \in Project
  BY BusyHasProject
<1>2. QED
  BY <1>1, HoldersDiffer
     DEF RunnerTypeOK, LockMatchesHolder, ThreadInside, InterruptInside, SetThread, Acquire,
         LockFree

\* A thread that gives the lock back is outside afterwards.
LEMMA ThreadReleases ==
    ASSUME RunnerTypeOK, LockMatchesHolder, NEW w \in Worker, NEW t,
           thread[w].pc \in LockedPcs,
           Release(ProjectOf(thread[w].run)),
           SetThread(w, t), t.pc \notin LockedPcs,
           UNCHANGED <<api, interrupt>>
    PROVE  LockMatchesHolder'
<1>1. ProjectOf(thread[w].run) \in Project
  BY BusyHasProject DEF LockedPcs
<1>2. runLock[ProjectOf(thread[w].run)] = ByThread(w)
  BY <1>1 DEF LockMatchesHolder, ThreadInside
<1>3. QED
  BY <1>1, <1>2, HoldersDiffer
     DEF RunnerTypeOK, LockMatchesHolder, ThreadInside, InterruptInside, SetThread, Release

\* The same three ways for an interruption.
LEMMA InterruptMoves ==
    ASSUME RunnerTypeOK, LockMatchesHolder, NEW i \in Interrupter, NEW n,
           SetInterrupt(i, n),
           n.pc \in InterruptLockedPcs <=> interrupt[i].pc \in InterruptLockedPcs,
           n.pc \in InterruptLockedPcs => n.run = interrupt[i].run,
           UNCHANGED <<runLock, api, thread>>
    PROVE  LockMatchesHolder'
BY DEF RunnerTypeOK, LockMatchesHolder, ThreadInside, InterruptInside, SetInterrupt, ByApi,
       ByThread, ByInterrupt

LEMMA InterruptAcquires ==
    ASSUME RunnerTypeOK, LockMatchesHolder, NEW i \in Interrupter, NEW n,
           interrupt[i].pc = "trying",
           Acquire(ProjectOf(interrupt[i].run), ByInterrupt(i)),
           SetInterrupt(i, n), n.pc \in InterruptLockedPcs, n.run = interrupt[i].run,
           UNCHANGED <<api, thread>>
    PROVE  LockMatchesHolder'
<1>1. ProjectOf(interrupt[i].run) \in Project
  BY BusyHasProject
<1>2. interrupt[i].pc \notin InterruptLockedPcs
  BY DEF InterruptLockedPcs
<1>3. QED
  BY <1>1, <1>2, HoldersDiffer
     DEF RunnerTypeOK, LockMatchesHolder, ThreadInside, InterruptInside, SetInterrupt, Acquire,
         LockFree

LEMMA InterruptReleases ==
    ASSUME RunnerTypeOK, LockMatchesHolder, NEW i \in Interrupter, NEW n,
           interrupt[i].pc \in InterruptLockedPcs,
           Release(ProjectOf(interrupt[i].run)),
           SetInterrupt(i, n), n.pc \notin InterruptLockedPcs,
           UNCHANGED <<api, thread>>
    PROVE  LockMatchesHolder'
<1>1. ProjectOf(interrupt[i].run) \in Project
  BY BusyHasProject DEF InterruptLockedPcs
<1>2. runLock[ProjectOf(interrupt[i].run)] = ByInterrupt(i)
  BY <1>1 DEF LockMatchesHolder, InterruptInside
<1>3. QED
  BY <1>1, <1>2, HoldersDiffer
     DEF RunnerTypeOK, LockMatchesHolder, ThreadInside, InterruptInside, SetInterrupt, Release

\* An HTTP writer that goes on inside project_write.
LEMMA ApiMoves ==
    ASSUME RunnerTypeOK, LockMatchesHolder, NEW p \in Project, NEW pc,
           api[p].pc # "idle", pc # "idle", SetApi(p, pc),
           UNCHANGED <<runLock, thread, interrupt>>
    PROVE  LockMatchesHolder'
BY DEF RunnerTypeOK, LockMatchesHolder, ThreadInside, InterruptInside, SetApi, ByApi,
       ByThread, ByInterrupt

\* An HTTP writer that leaves project_write.
LEMMA ApiReleases ==
    ASSUME RunnerTypeOK, LockMatchesHolder, NEW p \in Project,
           api[p].pc # "idle", Release(p), api' = [api EXCEPT ![p] = IdleApi],
           UNCHANGED <<thread, interrupt>>
    PROVE  LockMatchesHolder'
<1>1. runLock[p] = ByApi(p)
  BY DEF LockMatchesHolder
<1>2. QED
  BY <1>1, HoldersDiffer
     DEF RunnerTypeOK, LockMatchesHolder, ThreadInside, InterruptInside, Release, IdleApi

-----------------------------------------------------------------------------
\* HTTP writers and pause requests (project_write, request_pause).
LEMMA ApiKeepsLocks ==
    ASSUME RunnerTypeOK, LockMatchesHolder, NEW p \in Project,
           ApiEnter(p) \/ ApiLeave(p) \/ ApiReturn(p) \/ RequestPause(p)
    PROVE  LockMatchesHolder'
<1>1. CASE ApiEnter(p)
  BY <1>1, HoldersDiffer
     DEF ApiEnter, RunnerTypeOK, LockMatchesHolder, ThreadInside, InterruptInside, Acquire, LockFree
<1>2. CASE ApiLeave(p) \/ ApiReturn(p)
  BY <1>2, ApiReleases DEF ApiLeave, ApiReturn
<1>3. CASE RequestPause(p)
  BY <1>3 DEF RequestPause, LockMatchesHolder, ThreadInside, InterruptInside
<1>4. QED BY <1>1, <1>2, <1>3

\* Ending execute outside the locked region.
LEMMA UnwindKeepsLocks ==
    ASSUME RunnerTypeOK, LockMatchesHolder, NEW w \in Worker, NEW raised \in BOOLEAN,
           thread[w].pc \notin LockedPcs, Unwind(w, raised),
           UNCHANGED <<runLock, api, interrupt>>
    PROVE  LockMatchesHolder'
<1>1. PICK t : SetThread(w, t) /\ t.pc \notin LockedPcs
  BY DEF Unwind, Return, IdleThread, LockedPcs
<1>2. QED BY <1>1, ThreadMoves

\* Every step of an execution (execute, record_terminal_status).
LEMMA ThreadStepKeepsLocks ==
    ASSUME RunnerTypeOK, LockMatchesHolder, NEW w \in Worker, ThreadStep(w)
    PROVE  LockMatchesHolder'
<1> USE DEF LockedPcs, Goto, At, Recording, Return, IdleThread
<1>1. CASE Begin(w) \/ StartupSucceeds(w) \/ PublishProject(w) \/ TerminalRead(w)
  BY <1>1, ThreadMoves DEF Begin, StartupSucceeds, PublishProject, TerminalRead
<1>2. CASE Claim(w)
  BY <1>2, ThreadAcquires DEF Claim
<1>3. CASE ClaimRefused(w) \/ PublishJob(w)
  BY <1>3, ThreadMoves DEF ClaimRefused, PublishJob
<1>4. CASE MarkRunning(w)
  BY <1>4, ThreadMoves DEF MarkRunning
<1>5. CASE Finish(w) \/ Halt(w, "paused") \/ Halt(w, "error") \/ TerminalProject(w)
  BY <1>5, ThreadReleases DEF Finish, Halt, TerminalProject
<1>6. CASE TerminalLock(w)
  BY <1>6, ThreadAcquires DEF TerminalLock
<1>7. CASE TerminalJob(w)
  <2>1. thread[w].failing \in BOOLEAN
    BY <1>7, BusyThread DEF TerminalJob, RunnerTypeOK
  <2>2. QED BY <1>7, <2>1, UnwindKeepsLocks DEF TerminalJob
<1>8. QED BY <1>1, <1>2, <1>3, <1>4, <1>5, <1>6, <1>7 DEF ThreadStep

\* Every failing call of an execution, and the pause monitor.
LEMMA ThreadFaultKeepsLocks ==
    ASSUME RunnerTypeOK, LockMatchesHolder, NEW w \in Worker, ThreadFault(w) \/ MonitorPause(w)
    PROVE  LockMatchesHolder'
<1> USE DEF LockedPcs, Recording, Stopped
<1>1. CASE StartupFails(w) \/ RecordFaults(w)
  BY <1>1, UnwindKeepsLocks DEF StartupFails, RecordFaults
<1>2. CASE ExecuteFaults(w)
  BY <1>2, ThreadMoves, ThreadReleases DEF ExecuteFaults
<1>3. CASE RecordTryFaults(w)
  BY <1>3, ThreadMoves, ThreadReleases DEF RecordTryFaults
<1>4. CASE MonitorPause(w)
  BY <1>4, ThreadMoves DEF MonitorPause
<1>5. QED BY <1>1, <1>2, <1>3, <1>4 DEF ThreadFault

\* The steps of an interruption the platforms share.
LEMMA InterruptKeepsLocks ==
    ASSUME RunnerTypeOK, LockMatchesHolder, NEW i \in Interrupter,
           \/ \E r \in Run : InterruptRead(i, r)
           \/ InterruptLock(i) \/ InterruptBusy(i) \/ InterruptProject(i) \/ InterruptFaults(i)
    PROVE  LockMatchesHolder'
<1> USE DEF InterruptLockedPcs, IdleInterrupt
<1>1. CASE (\E r \in Run : InterruptRead(i, r)) \/ InterruptBusy(i)
  BY <1>1, InterruptMoves DEF InterruptRead, InterruptBusy
<1>2. CASE InterruptLock(i)
  BY <1>2, InterruptAcquires DEF InterruptLock, InterruptGoto
<1>3. CASE InterruptProject(i) \/ InterruptFaults(i)
  BY <1>3, InterruptReleases DEF InterruptProject, InterruptFaults
<1>4. QED BY <1>1, <1>2, <1>3

\* Processes that die are outside and hold nothing; the others keep what they hold.
LEMMA DieKeepsLocks ==
    ASSUME RunnerTypeOK, LockMatchesHolder, NEW W \in SUBSET Worker, NEW I \in SUBSET Interrupter,
           NEW P \in SUBSET Project, Die(W, I, P)
    PROVE  LockMatchesHolder'
<1> USE HoldersDiffer DEF RunnerTypeOK, Die, LockMatchesHolder
<1>1. \A p \in Project : (api[p].pc # "idle")' <=> (runLock[p] = ByApi(p))'
  BY DEF IdleApi, ByApi, Nobody
<1>2. \A p \in Project, w \in Worker : ThreadInside(w, p)' <=> (runLock[p] = ByThread(w))'
  BY DEF ThreadInside, IdleThread, ByThread, Nobody, LockedPcs
<1>3. \A p \in Project, i \in Interrupter :
         InterruptInside(i, p)' <=> (runLock[p] = ByInterrupt(i))'
  BY DEF InterruptInside, IdleInterrupt, ByInterrupt, Nobody, InterruptLockedPcs
<1>4. QED BY <1>1, <1>2, <1>3

-----------------------------------------------------------------------------
\* A thread that changes its record without entering domain work.
LEMMA LatestUnlessEntered ==
    ASSUME RunnerTypeOK, OnlyLatestRunWorks, NEW w \in Worker, NEW t,
           SetThread(w, t), UNCHANGED admitted,
           t.pc \in DomainPcs => \/ IsLatest(t.run)
                                 \/ thread[w].pc \in DomainPcs /\ t.run = thread[w].run
    PROVE  OnlyLatestRunWorks'
BY DEF OnlyLatestRunWorks, RunnerTypeOK, SetThread, IsLatest

\* Ending execute enters no domain work.
LEMMA UnwindKeepsLatest ==
    ASSUME RunnerTypeOK, OnlyLatestRunWorks, NEW w \in Worker, NEW raised \in BOOLEAN,
           Unwind(w, raised), UNCHANGED admitted
    PROVE  OnlyLatestRunWorks'
<1>1. PICK t : SetThread(w, t) /\ t.pc \notin DomainPcs
  BY DEF Unwind, Return, IdleThread, DomainPcs
<1>2. QED BY <1>1, LatestUnlessEntered

\* Only the claim enters domain work, and it has just looked up the latest run.
LEMMA ExecutionKeepsLatest ==
    ASSUME RunnerTypeOK, OnlyLatestRunWorks, NEW w \in Worker,
           ThreadStep(w) \/ ThreadFault(w) \/ MonitorPause(w)
    PROVE  OnlyLatestRunWorks'
<1> USE DEF DomainPcs, Goto, At, Recording, Stopped, Return, IdleThread, catalog
<1>1. CASE Begin(w) \/ StartupSucceeds(w) \/ ClaimRefused(w) \/ Finish(w)
  BY <1>1, LatestUnlessEntered DEF Begin, StartupSucceeds, ClaimRefused, Finish
<1>2. CASE Claim(w)
  BY <1>2, LatestUnlessEntered DEF Claim
<1>3. CASE MarkRunning(w)
  BY <1>3, LatestUnlessEntered DEF MarkRunning
<1>4. CASE Halt(w, "paused") \/ Halt(w, "error") \/ PublishProject(w) \/ PublishJob(w)
  BY <1>4, LatestUnlessEntered DEF Halt, PublishProject, PublishJob
<1>5. CASE TerminalRead(w) \/ TerminalLock(w) \/ TerminalProject(w)
  BY <1>5, LatestUnlessEntered DEF TerminalRead, TerminalLock, TerminalProject
<1>6. CASE TerminalJob(w)
  <2>1. thread[w].failing \in BOOLEAN
    BY <1>6, BusyThread DEF TerminalJob, RunnerTypeOK
  <2>2. QED BY <1>6, <2>1, UnwindKeepsLatest DEF TerminalJob
<1>7. CASE StartupFails(w) \/ RecordFaults(w)
  BY <1>7, UnwindKeepsLatest DEF StartupFails, RecordFaults
<1>8. CASE ExecuteFaults(w) \/ RecordTryFaults(w) \/ MonitorPause(w)
  BY <1>8, LatestUnlessEntered DEF ExecuteFaults, RecordTryFaults, MonitorPause
<1>9. QED
  BY <1>1, <1>2, <1>3, <1>4, <1>5, <1>6, <1>7, <1>8 DEF ThreadStep, ThreadFault

\* A lock held by its holders keeps two executions from domain work on one project.
LEMMA LockExcludes ==
    ASSUME RunnerTypeOK, LockMatchesHolder
    PROVE  OneWriterPerProject
<1> SUFFICES ASSUME NEW v \in Worker, NEW w \in Worker, v # w,
                    thread[v].pc \in DomainPcs, thread[w].pc \in DomainPcs,
                    ProjectOf(thread[v].run) = ProjectOf(thread[w].run)
             PROVE  FALSE
  BY DEF OneWriterPerProject
<1>1. ProjectOf(thread[v].run) \in Project
  BY BusyHasProject DEF DomainPcs
<1>2. ByThread(v) = ByThread(w)
  BY <1>1 DEF LockMatchesHolder, ThreadInside, DomainPcs, LockedPcs
<1>3. QED BY <1>2, HoldersDiffer

-----------------------------------------------------------------------------
(* The runs as RunOwnership sees them: what a step of a platform does to   *)
(* rows and executions is a step of RunOwnership, or none.                 *)

\* The rows of a project are the ones of its admissions.
RowsInOrder == \A r \in Run : jobStatus[r] # "absent" <=> r[2] <= admitted[r[1]]

\* A run that works is no longer queued.
WorkShows == \A w \in Worker : thread[w].pc = "working" => jobStatus[thread[w].run] # "queued"

\* Work is done inside the locked region, on a row that has left the queue.
LEMMA WorkIsClaimed ==
    ASSUME WorkShows, NEW w \in Worker, Works(w)
    PROVE  thread[w].pc \in DomainPcs /\ jobStatus[thread[w].run] # "queued"
BY DEF WorkShows, Works, DomainPcs

\* What RunOwnership sees of a run, if nobody shares it.
Seen(r) ==
    IF jobStatus[r] = "absent" THEN "absent"
    ELSE IF \E w \in Worker : Works(w) /\ thread[w].run = r THEN "working"
    ELSE IF jobStatus[r] = "queued" THEN "waiting"
    ELSE "closed"

LEMMA StateOfRun ==
    ASSUME OneWriterPerProject, OneWriterPerProject', NEW r \in Run
    PROVE  RunState[r] = Seen(r) /\ RunState'[r] = Seen(r)'
<1>1. ~Shared(r) /\ ~Shared(r)'
  BY DEF Shared, Works, OneWriterPerProject, DomainPcs
<1>2. QED BY <1>1 DEF RunState, Seen

\* What changes in the states of the runs.
LEMMA StatesOfRuns ==
    /\ RunState = [s \in Run |-> RunState[s]]
    /\ RunState' = [s \in Run |-> RunState'[s]]
BY DEF RunState

LEMMA NoneMoves ==
    ASSUME \A s \in Run : RunState'[s] = RunState[s]
    PROVE  RunState' = RunState
BY StatesOfRuns

LEMMA OnlyOneMoves ==
    ASSUME NEW r \in Run, \A s \in Run : s # r => RunState'[s] = RunState[s]
    PROVE  RunState' = [RunState EXCEPT ![r] = RunState'[r]]
BY StatesOfRuns

\* A step that writes no row can only end work.
LEMMA OwnershipOfWork ==
    ASSUME RunnerTypeOK, WorkShows, UNCHANGED jobStatus, OneWriterPerProject, OneWriterPerProject',
           \A w \in Worker : Works(w)' => Works(w) /\ thread'[w].run = thread[w].run
    PROVE  [Ownership!Next]_RunState
<1> DEFINE Ended == {r \in Run : RunState[r] # RunState'[r]}
<1>1. ASSUME NEW r \in Run, RunState[r] # RunState'[r]
      PROVE  RunState[r] = "working" /\ RunState'[r] = "closed"
  <2>1. jobStatus[r] # "absent"
    BY <1>1, StateOfRun DEF Seen
  <2>2. \E w \in Worker : Works(w) /\ thread[w].run = r
    BY <1>1, <2>1, StateOfRun DEF Seen
  <2>3. jobStatus[r] # "queued"
    BY <2>2, WorkIsClaimed
  <2>4. QED BY <1>1, <2>1, <2>2, <2>3, StateOfRun DEF Seen
<1>2. CASE Ended = {}
  <2>1. RunState' = RunState
    BY <1>2, NoneMoves
  <2>2. QED BY <2>1
<1>3. CASE Ended # {}
  <2>1. Ended \in SUBSET {r \in Ownership!Run : RunState[r] \in {"waiting", "working"}}
    BY <1>1 DEF Run, Ownership!Run
  <2>2. RunState' = [r \in Ownership!Run |-> IF r \in Ended THEN "closed" ELSE RunState[r]]
    BY <1>1, StatesOfRuns DEF Run, Ownership!Run
  <2>3. QED BY <1>3, <2>1, <2>2 DEF Ownership!Next, Ownership!Close
<1>4. QED BY <1>2, <1>3

\* A run starts to work when the lock has made it the only one of its project.
LEMMA OwnershipStarts ==
    ASSUME RunnerTypeOK, RowsInOrder, WorkShows, OneWriterPerProject, OneWriterPerProject',
           OnlyLatestRunWorks,
           NEW w \in Worker, thread[w].pc = "claimed", jobStatus[thread[w].run] = "queued",
           RunState' = [RunState EXCEPT ![thread[w].run] = "working"]
    PROVE  Ownership!Next
<1> DEFINE run == thread[w].run
<1>1. run \in Run /\ run = <<run[1], run[2]>> /\ IsLatest(run) /\ run[1] \in Project
  BY BusyThread DEF RunnerTypeOK, OnlyLatestRunWorks, DomainPcs, Run
<1>2. ASSUME NEW v \in Worker, Works(v) PROVE thread[v].run[1] # run[1]
  <2>1. thread[v].pc \in DomainPcs /\ jobStatus[thread[v].run] # "queued"
    BY <1>2, WorkIsClaimed
  <2>2. QED BY <2>1 DEF OneWriterPerProject, ProjectOf, DomainPcs
<1>3. RunState[run] = "waiting"
  BY <1>1, <1>2, StateOfRun DEF Seen
<1>4. ASSUME NEW n \in 1..MaxRuns PROVE RunState[<<run[1], n>>] # "working"
  BY <1>1, <1>2, StateOfRun DEF Seen, Run
<1>5. ASSUME NEW n \in 1..MaxRuns, n > run[2] PROVE RunState[<<run[1], n>>] = "absent"
  <2>1. <<run[1], n>> \in Run /\ ~(n <= admitted[run[1]])
    BY <1>1, <1>5 DEF Run, IsLatest, RunnerTypeOK
  <2>2. jobStatus[<<run[1], n>>] = "absent"
    BY <2>1 DEF RowsInOrder
  <2>3. QED BY <2>1, <2>2, StateOfRun DEF Seen
<1>6. Ownership!Start(run)
  BY <1>3, <1>4, <1>5 DEF Ownership!Start, Ownership!IsLatest, Ownership!NoWork
<1>7. QED BY <1>1, <1>6 DEF Ownership!Next, Ownership!Run, Run

\* A row that gets its last word ends its run, unless the run has been claimed by then.
LEMMA OwnershipOfRows ==
    ASSUME RunnerTypeOK, RowsInOrder, WorkShows, OneWriterPerProject, OneWriterPerProject',
           OnlyLatestRunWorks,
           NEW r \in Run, jobStatus[r] # "absent", NEW status, status \notin {"absent", "queued"},
           jobStatus' = [jobStatus EXCEPT ![r] = status],
           \A w \in Worker : thread[w].pc \in DomainPcs \/ thread'[w].pc \in DomainPcs
                                => thread'[w] = thread[w]
    PROVE  [Ownership!Next]_RunState
<1>1. \A w \in Worker : Works(w)' => thread'[w] = thread[w] /\ thread[w].pc \in DomainPcs
  BY DEF Works, DomainPcs
<1>2. \A w \in Worker : Works(w) => thread'[w] = thread[w] /\ jobStatus[thread[w].run] # "queued"
  BY WorkIsClaimed
<1>3. \A w \in Worker : thread[w].pc \in DomainPcs => thread[w].run \in Run
  BY BusyThread DEF DomainPcs, RunnerTypeOK
<1>4. \A w \in Worker : thread[w].run # r => (Works(w)' <=> Works(w))
  BY <1>1, <1>2, <1>3 DEF Works, RunnerTypeOK
<1>5. ASSUME NEW s \in Run, s # r PROVE RunState'[s] = RunState[s]
  <2>1. jobStatus'[s] = jobStatus[s]
    BY <1>5 DEF RunnerTypeOK
  <2>2. (\E w \in Worker : Works(w)' /\ thread'[w].run = s)
           <=> (\E w \in Worker : Works(w) /\ thread[w].run = s)
    BY <1>1, <1>2, <1>4, <1>5
  <2>3. QED BY <2>1, <2>2, StateOfRun DEF Seen
<1>6. jobStatus'[r] = status
  BY DEF RunnerTypeOK
<1>7. CASE jobStatus[r] # "queued"
  <2>1. (\E w \in Worker : Works(w)' /\ thread'[w].run = r)
           <=> (\E w \in Worker : Works(w) /\ thread[w].run = r)
    BY <1>1, <1>2, <1>6, <1>7 DEF Works, DomainPcs
  <2>2. RunState'[r] = RunState[r]
    BY <1>6, <1>7, <2>1, StateOfRun DEF Seen
  <2>3. RunState' = RunState
    BY <1>5, <2>2, NoneMoves
  <2>4. QED BY <2>3
<1>8. ASSUME jobStatus[r] = "queued", NEW w \in Worker, thread[w].pc = "claimed", thread[w].run = r
      PROVE  [Ownership!Next]_RunState
  <2>1. RunState'[r] = "working"
    BY <1>6, <1>8, StateOfRun DEF Seen, Works, DomainPcs
  <2>2. RunState' = [RunState EXCEPT ![r] = "working"]
    BY <1>5, <2>1, OnlyOneMoves
  <2>3. QED BY <1>8, <2>2, OwnershipStarts
<1>9. CASE /\ jobStatus[r] = "queued"
           /\ ~\E w \in Worker : thread[w].pc = "claimed" /\ thread[w].run = r
  <2>1. ~\E w \in Worker : Works(w) /\ thread[w].run = r
    BY <1>2, <1>9
  <2>2. ~\E w \in Worker : Works(w)' /\ thread'[w].run = r
    BY <1>1, <1>9 DEF DomainPcs, WorkShows
  <2>3. RunState[r] = "waiting" /\ RunState'[r] = "closed"
    BY <1>6, <1>9, <2>1, <2>2, StateOfRun DEF Seen
  <2>4. RunState' = [s \in Ownership!Run |-> IF s \in {r} THEN "closed" ELSE RunState[s]]
    BY <1>5, <2>3, StatesOfRuns DEF Run, Ownership!Run
  <2>5. {r} \in SUBSET {s \in Ownership!Run : RunState[s] \in {"waiting", "working"}}
    BY <2>3 DEF Run, Ownership!Run
  <2>6. QED BY <2>4, <2>5 DEF Ownership!Next, Ownership!Close
<1>10. QED BY <1>7, <1>8, <1>9


\* An admission that has the lock finds no work in its project.
LEMMA OwnershipAdmits ==
    ASSUME RunnerTypeOK, RowsInOrder, OneWriterPerProject, OneWriterPerProject',
           NEW p \in Project, admitted[p] < MaxRuns,
           admitted' = [admitted EXCEPT ![p] = admitted[p] + 1],
           jobStatus' = [jobStatus EXCEPT ![<<p, admitted[p] + 1>>] = "queued"],
           UNCHANGED thread,
           \A w \in Worker : thread[w].pc \in DomainPcs => ProjectOf(thread[w].run) # p
    PROVE  Ownership!Next
<1> DEFINE new == <<p, admitted[p] + 1>>
<1>1. new \in Run /\ admitted[p] \in Nat
  BY RunnerAssumption DEF RunnerTypeOK, Run
<1>2. \A w \in Worker : thread[w].pc \in DomainPcs => thread[w].run \in Run /\ thread[w].run # new
  BY BusyThread DEF RunnerTypeOK, DomainPcs, ProjectOf
<1>3. ASSUME NEW s \in Run, s # new PROVE RunState'[s] = RunState[s]
  <2>1. jobStatus'[s] = jobStatus[s]
    BY <1>3 DEF RunnerTypeOK
  <2>2. \A w \in Worker : thread[w].run = s => (Works(w)' <=> Works(w))
    BY <2>1 DEF Works
  <2>3. QED BY <2>1, <2>2, StateOfRun DEF Seen
<1>4. RunState[new] = "absent"
  BY <1>1, StateOfRun DEF Seen, RowsInOrder
<1>5. RunState'[new] = "waiting"
  <2>1. jobStatus'[new] = "queued"
    BY <1>1 DEF RunnerTypeOK
  <2>2. \A w \in Worker : thread[w].run = new => ~Works(w)'
    BY <1>2 DEF Works, DomainPcs
  <2>3. QED BY <1>1, <2>1, <2>2, StateOfRun DEF Seen
<1>6. RunState' = [RunState EXCEPT ![new] = "waiting"]
  BY <1>1, <1>3, <1>5, OnlyOneMoves
<1>7. ASSUME NEW n \in 1..MaxRuns
      PROVE  /\ (n < new[2]) <=> (RunState[<<p, n>>] # "absent")
             /\ RunState[<<p, n>>] # "working"
  <2>1. <<p, n>> \in Run
    BY DEF Run
  <2>2. RunState[<<p, n>>] # "absent" <=> jobStatus[<<p, n>>] # "absent"
    BY <2>1, StateOfRun DEF Seen
  <2>3. jobStatus[<<p, n>>] # "absent" <=> n <= admitted[p]
    BY <2>1 DEF RowsInOrder
  <2>4. \A w \in Worker : Works(w) => thread[w].run # <<p, n>>
    BY DEF Works, DomainPcs, ProjectOf
  <2>5. RunState[<<p, n>>] # "working"
    BY <2>1, <2>4, StateOfRun DEF Seen
  <2>6. QED BY <1>1, <2>2, <2>3, <2>5
<1>8. Ownership!Admit(new)
  BY <1>4, <1>6, <1>7 DEF Ownership!Admit, Ownership!IsNext, Ownership!NoWork
<1>9. QED BY <1>1, <1>8 DEF Ownership!Next, Ownership!Run, Run

\* Every step of an execution of an existing run.
LEMMA OwnershipOfExecution ==
    ASSUME RunnerTypeOK, RowsInOrder, WorkShows, OneWriterPerProject, OneWriterPerProject',
           OnlyLatestRunWorks,
           NEW w \in Worker, ThreadStep(w) \/ ThreadFault(w) \/ MonitorPause(w),
           jobStatus[thread[w].run] # "absent"
    PROVE  [Ownership!Next]_RunState
<1> DEFINE run == thread[w].run
<1>1. /\ thread[w].pc # "idle" /\ run \in Run
      /\ thread[w].outcome \in {"paused", "error"}
      /\ \A v \in Worker : v # w => thread'[v] = thread[v]
      /\ thread'[w].pc # "idle" => thread'[w].run = run
  BY ThreadContinues, BusyThread DEF RunnerTypeOK
<1>2. CASE UNCHANGED jobStatus
  <2>1. ASSUME Works(w)' PROVE Works(w) /\ thread'[w].run = run
    <3>1. thread'[w].pc \in DomainPcs /\ thread'[w].run = run
      BY <1>1, <2>1 DEF Works, DomainPcs
    <3>2. CASE MarkRunning(w)
      <4>1. thread[w].pc = "claimed" /\ jobStatus[run] = "running"
        BY <1>1, <1>2, <3>2 DEF MarkRunning, RunnerTypeOK
      <4>2. QED BY <3>1, <4>1 DEF Works
    <3>3. CASE Claim(w)
      <4>1. thread'[w].pc = "claimed" /\ jobStatus[run] = "queued"
        BY <3>3 DEF Claim, Goto, SetThread, At, RunnerTypeOK
      <4>2. QED BY <1>1, <1>2, <2>1, <4>1 DEF Works
    <3>4. CASE ~MarkRunning(w) /\ ~Claim(w)
      <4>1. thread'[w].pc = thread[w].pc
        BY <3>1, <3>4
           DEF ThreadStep, ThreadFault, Begin, StartupSucceeds, ClaimRefused, Finish, Halt,
               PublishProject, PublishJob, TerminalRead, TerminalLock, TerminalProject, TerminalJob,
               StartupFails, ExecuteFaults, RecordFaults, RecordTryFaults, MonitorPause, Unwind,
               Goto, Return, SetThread, At, Recording, Stopped, IdleThread, DomainPcs, RunnerTypeOK
      <4>2. QED BY <1>2, <2>1, <3>1, <4>1 DEF Works
    <3>5. QED BY <3>2, <3>3, <3>4
  <2>2. ASSUME NEW v \in Worker, v # w, Works(v)' PROVE Works(v) /\ thread'[v].run = thread[v].run
    BY <1>1, <1>2, <2>2 DEF Works
  <2>3. QED BY <1>2, <2>1, <2>2, OwnershipOfWork
<1>3. CASE MarkRunning(w)
  <2>1. /\ thread[w].pc = "claimed"
        /\ thread'[w].pc = "working" /\ thread'[w].run = run
        /\ jobStatus' = [jobStatus EXCEPT ![run] = "running"]
    BY <1>3 DEF MarkRunning, Goto, SetThread, At, RunnerTypeOK
  <2>2. CASE jobStatus[run] # "queued"
    <3>1. \A v \in Worker : v # w => thread[v].run # run \/ ~(Works(v)' \/ Works(v))
      BY <1>1, <2>1 DEF Works, OneWriterPerProject, DomainPcs
    <3>2. RunState'[run] = RunState[run]
      BY <1>1, <2>1, <2>2, StateOfRun DEF Seen, Works, RunnerTypeOK
    <3>3. ASSUME NEW s \in Run, s # run PROVE RunState'[s] = RunState[s]
      <4>1. jobStatus'[s] = jobStatus[s]
        BY <2>1, <3>3 DEF RunnerTypeOK
      <4>2. (\E v \in Worker : Works(v)' /\ thread'[v].run = s)
               <=> (\E v \in Worker : Works(v) /\ thread[v].run = s)
        BY <1>1, <2>1, <3>3, <4>1 DEF Works
      <4>3. QED BY <4>1, <4>2, StateOfRun DEF Seen
    <3>4. RunState' = RunState
      BY <3>2, <3>3, NoneMoves
    <3>5. QED BY <3>4
  <2>3. CASE jobStatus[run] = "queued"
    <3>1. RunState'[run] = "working"
      BY <1>1, <2>1, StateOfRun DEF Seen, Works, RunnerTypeOK
    <3>2. ASSUME NEW s \in Run, s # run PROVE RunState'[s] = RunState[s]
      <4>1. jobStatus'[s] = jobStatus[s]
        BY <2>1, <3>2 DEF RunnerTypeOK
      <4>2. (\E v \in Worker : Works(v)' /\ thread'[v].run = s)
               <=> (\E v \in Worker : Works(v) /\ thread[v].run = s)
        BY <1>1, <2>1, <3>2, <4>1 DEF Works
      <4>3. QED BY <4>1, <4>2, StateOfRun DEF Seen
    <3>3. RunState' = [RunState EXCEPT ![run] = "working"]
      BY <1>1, <3>1, <3>2, OnlyOneMoves
    <3>4. QED BY <2>1, <2>3, <3>3, OwnershipStarts
  <2>4. QED BY <2>2, <2>3
<1>4. CASE ~UNCHANGED jobStatus /\ ~MarkRunning(w)
  <2>0. PublishJob(w) \/ TerminalJob(w) \/ RecordFaults(w)
    BY <1>4 DEF ThreadStep, ThreadFault, MonitorPause, Begin, StartupSucceeds, Claim, ClaimRefused,
           Finish, Halt, PublishProject, TerminalRead, TerminalLock, TerminalProject, StartupFails,
           ExecuteFaults, RecordTryFaults, catalog
  <2>1. /\ \/ jobStatus' = [jobStatus EXCEPT ![run] = "done"]
           \/ jobStatus' = [jobStatus EXCEPT ![run] = thread[w].outcome]
        /\ thread[w].pc \notin DomainPcs /\ thread'[w].pc \notin DomainPcs
    BY <1>4, <2>0 DEF PublishJob, TerminalJob, RecordFaults, Unwind, Return, SetThread, IdleThread,
                      DomainPcs, RunnerTypeOK
  <2>2. PICK status \in {"done", "paused", "error"} : jobStatus' = [jobStatus EXCEPT ![run] = status]
    BY <1>1, <2>1
  <2>3. QED BY <1>1, <2>1, <2>2, OwnershipOfRows
<1>5. QED BY <1>2, <1>3, <1>4


=============================================================================
