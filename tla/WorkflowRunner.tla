---------------------------- MODULE WorkflowRunner ----------------------------
(***************************************************************************)
(* The workflow runner that Desktop and Web share: the catalog rows of the *)
(* projects and their jobs, the run lock of each project, the HTTP writers *)
(* that take it, the synchronous execution of one delivered run, and the   *)
(* interruption of a run whose writer is gone.                             *)
(*                                                                         *)
(* A run is <<project, n>>: the n-th workflow job of the project in id     *)
(* order, so the latest run of project p is <<p, admitted[p]>>.  The       *)
(* preparing, translating, reviewing and parsing statuses are one value,   *)
(* "busy"; created, uploaded and prepared are "idle" or, after a run,      *)
(* "done".  Status messages are not modelled.                              *)
(*                                                                         *)
(* How a run is admitted, delivered and declared dead differs by platform: *)
(* DesktopRuntime and WebWorkers extend this module with those steps and   *)
(* give the specifications.                                                *)
(***************************************************************************)
EXTENDS Naturals, FiniteSets

CONSTANTS
    Project,      \* projects of the workspace
    Worker,       \* slots in which delivered runs execute, one thread each
    Interrupter,  \* processes that may declare a run dead
    NoRun,        \* the run of an idle process
    MaxRuns,      \* bound: workflow jobs admitted per project
    MaxFaults     \* bound: failing catalog or storage calls

Run == Project \X (1..MaxRuns)

ASSUME RunnerAssumption ==
    /\ MaxRuns \in Nat \ {0}
    /\ MaxFaults \in Nat
    /\ NoRun \notin Run

RUNNING_PROJECT_STATUSES == {"busy", "pausing"}
ProjectStatuses == RUNNING_PROJECT_STATUSES \cup {"idle", "paused", "error", "done"}
ActiveStatuses == {"queued", "running"}
TerminalStatuses == {"done", "paused", "error", "interrupted"}

VARIABLES
    projectStatus,  \* projects.status
    admitted,       \* number of workflow jobs the project has
    jobStatus,      \* jobs.status, "absent" before the row exists
    runLock,        \* who holds storage.lock() of the project
    api,            \* the HTTP writer inside project_write, per project
    thread,         \* the execution in each worker slot
    interrupt,      \* the interruption in progress, per interrupter
    faults          \* failed calls so far

catalog == <<projectStatus, admitted, jobStatus>>
runnerVars == <<catalog, runLock, api, thread, interrupt, faults>>

IdleApi == [pc |-> "idle", previous |-> "idle"]
IdleThread == [pc |-> "idle", run |-> NoRun, stop |-> "none", outcome |-> "error",
               failing |-> FALSE, fallback |-> FALSE]
IdleInterrupt == [pc |-> "idle", run |-> NoRun]

Nobody == <<"nobody", NoRun>>
ByApi(p) == <<"api", p>>
ByThread(w) == <<"thread", w>>
ByInterrupt(i) == <<"interrupt", i>>
Holders == {Nobody} \cup ({"api"} \X Project) \cup ({"thread"} \X Worker)
                    \cup ({"interrupt"} \X Interrupter)

\* The program points at which a thread is inside `with storage.lock()`.
LockedPcs == {"claimed", "working", "terminalProject"}
DomainPcs == {"claimed", "working"}
InterruptLockedPcs == {"locked", "confirmed", "marked"}
ThreadPcs == LockedPcs \cup {"dispatched", "starting", "claiming", "publishProject",
                             "publishJob", "terminalRead", "terminalLock", "terminalJob"}

\* Whoever is busy, is busy with a run.
Writers == [pc : {"idle", "entered", "created", "admitted", "enqueued", "failed", "undoing"},
            previous : ProjectStatuses]
Threads == {IdleThread} \cup
    [pc : ThreadPcs, run : Run, stop : {"none", "paused", "cancelled"},
     outcome : {"paused", "error"}, failing : BOOLEAN, fallback : BOOLEAN]
Interrupts == {IdleInterrupt} \cup [pc : {"trying"} \cup InterruptLockedPcs, run : Run]

RunnerTypeOK ==
    /\ projectStatus \in [Project -> ProjectStatuses]
    /\ admitted \in [Project -> 0..MaxRuns]
    /\ jobStatus \in [Run -> {"absent"} \cup ActiveStatuses \cup TerminalStatuses]
    /\ runLock \in [Project -> Holders]
    /\ api \in [Project -> Writers]
    /\ thread \in [Worker -> Threads]
    /\ interrupt \in [Interrupter -> Interrupts]
    /\ faults \in 0..MaxFaults

RunnerInit ==
    /\ projectStatus = [p \in Project |-> "idle"]
    /\ admitted = [p \in Project |-> 0]
    /\ jobStatus = [r \in Run |-> "absent"]
    /\ runLock = [p \in Project |-> Nobody]
    /\ api = [p \in Project |-> IdleApi]
    /\ thread = [w \in Worker |-> IdleThread]
    /\ interrupt = [i \in Interrupter |-> IdleInterrupt]
    /\ faults = 0

ProjectOf(r) == r[1]
IsLatest(r) == r[2] = admitted[r[1]]
Latest(p) == <<p, admitted[p]>>
LockFree(p) == runLock[p] = Nobody
Acquire(p, holder) == LockFree(p) /\ runLock' = [runLock EXCEPT ![p] = holder]
Release(p) == runLock' = [runLock EXCEPT ![p] = Nobody]
Fault == faults < MaxFaults /\ faults' = faults + 1

-----------------------------------------------------------------------------
(* HTTP writers: project_write and the common parts of start_job.          *)

SetApi(p, pc) == api' = [api EXCEPT ![p] = [pc |-> pc, previous |-> api[p].previous]]

\* project_write takes the run lock without waiting and reads the project.
ApiEnter(p) ==
    /\ api[p].pc = "idle"
    /\ Acquire(p, ByApi(p))
    /\ api' = [api EXCEPT ![p] = [pc |-> "entered", previous |-> projectStatus[p]]]
    /\ UNCHANGED <<catalog, thread, interrupt, faults>>

\* The project is busy, the request is invalid, or it was another kind of write.
ApiLeave(p) ==
    /\ api[p].pc = "entered"
    /\ Release(p)
    /\ api' = [api EXCEPT ![p] = IdleApi]
    /\ UNCHANGED <<catalog, thread, interrupt, faults>>

\* The queue took the run and the request returns.
ApiReturn(p) ==
    /\ api[p].pc = "enqueued"
    /\ Release(p)
    /\ api' = [api EXCEPT ![p] = IdleApi]
    /\ UNCHANGED <<catalog, thread, interrupt, faults>>

\* Mutant: the project's new status lands in the job row.
RequestPauseOfJob(p) ==
    /\ projectStatus[p] \in RUNNING_PROJECT_STATUSES
    /\ admitted[p] > 0
    /\ jobStatus[Latest(p)] \in ActiveStatuses
    /\ jobStatus' = [jobStatus EXCEPT ![Latest(p)] = "pausing"]
    /\ UNCHANGED <<projectStatus, admitted, runLock, api, thread, interrupt, faults>>

\* One transaction over the project row and its latest workflow job.
RequestPause(p) ==
    /\ projectStatus[p] \in RUNNING_PROJECT_STATUSES
    /\ admitted[p] > 0
    /\ jobStatus[Latest(p)] \in ActiveStatuses
    /\ projectStatus' = [projectStatus EXCEPT ![p] = "pausing"]
    /\ UNCHANGED <<admitted, jobStatus, runLock, api, thread, interrupt, faults>>

-----------------------------------------------------------------------------
(* One delivered run: runner.run, execute and record_terminal_status.      *)

\* What a thread keeps when it moves to another program point, possibly to record
\* an outcome, with an exception propagating or not.
At(t, pc) == [pc |-> pc, run |-> t.run, stop |-> t.stop, outcome |-> t.outcome,
              failing |-> t.failing, fallback |-> t.fallback]
Recording(t, pc, outcome, failing) ==
    [pc |-> pc, run |-> t.run, stop |-> t.stop, outcome |-> outcome,
     failing |-> failing, fallback |-> t.fallback]
Stopped(t, stop) == [pc |-> t.pc, run |-> t.run, stop |-> stop, outcome |-> t.outcome,
                     failing |-> t.failing, fallback |-> t.fallback]

SetThread(w, t) == thread' = [thread EXCEPT ![w] = t]
Goto(w, pc) == SetThread(w, At(thread[w], pc))
Return(w) == SetThread(w, IdleThread)

\* execute has ended.  An exception reaches runner.run, which records the
\* failure once more, unless the run was cancelled and is only being drained.
Unwind(w, raised) == LET t == thread[w] IN
    IF raised /\ ~t.fallback /\ t.stop # "cancelled"
    THEN SetThread(w, [pc |-> "terminalRead", run |-> t.run, stop |-> t.stop,
                       outcome |-> "error", failing |-> TRUE, fallback |-> TRUE])
    ELSE Return(w)

Deliver(w, r) ==
    /\ thread[w].pc = "idle"
    /\ SetThread(w, [pc |-> "dispatched", run |-> r, stop |-> "none", outcome |-> "error",
                     failing |-> FALSE, fallback |-> FALSE])
    /\ UNCHANGED <<catalog, runLock, api, interrupt>>

\* The task adapter reaches its first instruction and hands over to a thread.
Begin(w) ==
    /\ thread[w].pc = "dispatched"
    /\ Goto(w, "starting")
    /\ UNCHANGED <<catalog, runLock, api, interrupt, faults>>

\* Storage and telemetry are opened before the recovery scope of execute.
StartupSucceeds(w) ==
    /\ thread[w].pc = "starting"
    /\ Goto(w, "claiming")
    /\ UNCHANGED <<catalog, runLock, api, interrupt, faults>>

StartupFails(w) ==
    /\ thread[w].pc = "starting"
    /\ Fault
    /\ Unwind(w, TRUE)
    /\ UNCHANGED <<catalog, runLock, api, interrupt>>

\* Mutant: the run is checked but the lock is not held.
ClaimUnlocked(w) == LET r == thread[w].run IN
    /\ thread[w].pc = "claiming"
    /\ jobStatus[r] = "queued"
    /\ IsLatest(r)
    /\ Goto(w, "claimed")
    /\ UNCHANGED <<catalog, runLock, api, interrupt, faults>>

\* Mutant: the run delivered is trusted, its rows are not read under the lock.
ClaimUnchecked(w) ==
    /\ thread[w].pc = "claiming"
    /\ Acquire(ProjectOf(thread[w].run), ByThread(w))
    /\ Goto(w, "claimed")
    /\ UNCHANGED <<catalog, api, interrupt, faults>>

\* Waits for the run lock, then reads the job and the latest job under it.
Claim(w) == LET r == thread[w].run IN
    /\ thread[w].pc = "claiming"
    /\ jobStatus[r] = "queued"
    /\ IsLatest(r)
    /\ Acquire(ProjectOf(r), ByThread(w))
    /\ Goto(w, "claimed")
    /\ UNCHANGED <<catalog, api, interrupt, faults>>

\* A superseded, settled or already claimed run returns without a trace.
ClaimRefused(w) == LET r == thread[w].run IN
    /\ thread[w].pc = "claiming"
    /\ LockFree(ProjectOf(r))
    /\ ~(jobStatus[r] = "queued" /\ IsLatest(r))
    /\ Return(w)
    /\ UNCHANGED <<catalog, runLock, api, interrupt, faults>>

\* Mutant: the claimed job keeps its queued status.
MarkNothing(w) ==
    /\ thread[w].pc = "claimed"
    /\ Goto(w, "working")
    /\ UNCHANGED <<catalog, runLock, api, interrupt, faults>>

MarkRunning(w) == LET r == thread[w].run IN
    /\ thread[w].pc = "claimed"
    /\ jobStatus' = [jobStatus EXCEPT ![r] = "running"]
    /\ Goto(w, "working")
    /\ UNCHANGED <<projectStatus, admitted, runLock, api, interrupt, faults>>

\* The watcher thread polls is_paused and leaves the stop signal set.
MonitorPause(w) ==
    /\ thread[w].pc \in {"starting", "claiming", "claimed", "working"}
    /\ thread[w].stop = "none"
    /\ projectStatus[ProjectOf(thread[w].run)] \in {"paused", "pausing"}
    /\ SetThread(w, Stopped(thread[w], "paused"))
    /\ UNCHANGED <<catalog, runLock, api, interrupt, faults>>

\* Mutant: the lock is left to the closing of the storage.
FinishKeepingLock(w) ==
    /\ thread[w].pc = "working"
    /\ thread[w].stop = "none"
    /\ projectStatus[ProjectOf(thread[w].run)] \notin {"paused", "pausing"}
    /\ Goto(w, "publishProject")
    /\ UNCHANGED <<catalog, runLock, api, interrupt, faults>>

\* The operation ended and the last progress call saw no request to stop.
Finish(w) == LET p == ProjectOf(thread[w].run) IN
    /\ thread[w].pc = "working"
    /\ thread[w].stop = "none"
    /\ projectStatus[p] \notin {"paused", "pausing"}
    /\ Release(p)
    /\ Goto(w, "publishProject")
    /\ UNCHANGED <<catalog, api, interrupt, faults>>

\* A pause, an exhausted budget ("paused") or a failure ("error") ends the work.
Halt(w, outcome) ==
    /\ thread[w].pc = "working"
    /\ Release(ProjectOf(thread[w].run))
    /\ SetThread(w, Recording(thread[w], "terminalRead", outcome, outcome = "error"))
    /\ UNCHANGED <<catalog, api, interrupt, faults>>

\* Completion is published after the run lock has been released.
PublishProject(w) ==
    /\ thread[w].pc = "publishProject"
    /\ projectStatus' = [projectStatus EXCEPT ![ProjectOf(thread[w].run)] = "done"]
    /\ Goto(w, "publishJob")
    /\ UNCHANGED <<admitted, jobStatus, runLock, api, interrupt, faults>>

\* Mutant: a failure of the metrics that follow is recorded as the run's.
PublishJobThenFail(w) ==
    /\ thread[w].pc = "publishJob"
    /\ jobStatus' = [jobStatus EXCEPT ![thread[w].run] = "done"]
    /\ Return(w) \/ SetThread(w, Recording(thread[w], "terminalRead", "error", TRUE))
    /\ UNCHANGED <<projectStatus, admitted, runLock, api, interrupt, faults>>

PublishJob(w) ==
    /\ thread[w].pc = "publishJob"
    /\ jobStatus' = [jobStatus EXCEPT ![thread[w].run] = "done"]
    /\ Return(w)
    /\ UNCHANGED <<projectStatus, admitted, runLock, api, interrupt, faults>>

\* A call fails before, inside or after the locked region of execute.
ExecuteFaults(w) ==
    /\ thread[w].pc \in {"claiming", "claimed", "publishProject", "publishJob"}
    /\ Fault
    /\ IF thread[w].pc = "claimed" THEN Release(ProjectOf(thread[w].run))
                                   ELSE UNCHANGED runLock
    /\ SetThread(w, Recording(thread[w], "terminalRead", "error", TRUE))
    /\ UNCHANGED <<catalog, api, interrupt>>

\* record_terminal_status: only the latest run may touch the project, and a
\* status that is already recorded with the same message is left alone.
TerminalRead(w) == LET t == thread[w] IN
    /\ t.pc = "terminalRead"
    /\ \/ /\ IsLatest(t.run)
          /\ Goto(w, "terminalLock")
       \/ /\ \/ ~IsLatest(t.run)
             \/ jobStatus[t.run] = t.outcome /\ projectStatus[ProjectOf(t.run)] = t.outcome
          /\ Goto(w, "terminalJob")
    /\ UNCHANGED <<catalog, runLock, api, interrupt, faults>>

TerminalLock(w) ==
    /\ thread[w].pc = "terminalLock"
    /\ Acquire(ProjectOf(thread[w].run), ByThread(w))
    /\ Goto(w, "terminalProject")
    /\ UNCHANGED <<catalog, api, interrupt, faults>>

\* Mutant: the latest run is not looked up again under the lock.
TerminalAnyProject(w) == LET t == thread[w] IN
    /\ t.pc = "terminalProject"
    /\ projectStatus' = [projectStatus EXCEPT ![ProjectOf(t.run)] = t.outcome]
    /\ Release(ProjectOf(t.run))
    /\ Goto(w, "terminalJob")
    /\ UNCHANGED <<admitted, jobStatus, api, interrupt, faults>>

TerminalProject(w) == LET t == thread[w] IN
    /\ t.pc = "terminalProject"
    /\ projectStatus' = IF IsLatest(t.run)
                        THEN [projectStatus EXCEPT ![ProjectOf(t.run)] = t.outcome]
                        ELSE projectStatus
    /\ Release(ProjectOf(t.run))
    /\ Goto(w, "terminalJob")
    /\ UNCHANGED <<admitted, jobStatus, api, interrupt, faults>>

\* The job status is written in a `finally`, whatever happened before.
TerminalJob(w) == LET t == thread[w] IN
    /\ t.pc = "terminalJob"
    /\ jobStatus' = [jobStatus EXCEPT ![t.run] = t.outcome]
    /\ Unwind(w, t.failing)
    /\ UNCHANGED <<projectStatus, admitted, runLock, api, interrupt, faults>>

\* The first read fails outside the `try`, the job write inside its `finally`, or
\* the event log after it.
RecordFaults(w) == LET t == thread[w] IN
    /\ t.pc \in {"terminalRead", "terminalJob"}
    /\ Fault
    /\ \/ UNCHANGED jobStatus
       \/ /\ t.pc = "terminalJob"
          /\ jobStatus' = [jobStatus EXCEPT ![t.run] = t.outcome]
    /\ Unwind(w, TRUE)
    /\ UNCHANGED <<projectStatus, admitted, runLock, api, interrupt>>

\* A failure inside the `try` still runs the `finally`.
RecordTryFaults(w) == LET t == thread[w] IN
    /\ t.pc \in {"terminalRead", "terminalLock", "terminalProject"}
    /\ Fault
    /\ IF t.pc = "terminalProject" THEN Release(ProjectOf(t.run)) ELSE UNCHANGED runLock
    /\ SetThread(w, Recording(t, "terminalJob", t.outcome, TRUE))
    /\ UNCHANGED <<catalog, api, interrupt>>

\* asyncio cancellation: an adapter that has not begun never runs; one awaiting
\* the synchronous thread raises its stop signal and keeps waiting for it.  The
\* second recording is awaited without a shield, so its thread runs on alone.
Cancelled(t) ==
    IF t.pc \in {"idle", "dispatched"} THEN IdleThread
    ELSE IF t.fallback THEN t
    ELSE Stopped(t, "cancelled")

\* The steps of one execution, by whether they need a fault.
ThreadStep(w) ==
    \/ Begin(w) \/ StartupSucceeds(w) \/ Claim(w) \/ ClaimRefused(w) \/ MarkRunning(w)
    \/ Finish(w) \/ Halt(w, "paused") \/ Halt(w, "error")
    \/ PublishProject(w) \/ PublishJob(w)
    \/ TerminalRead(w) \/ TerminalLock(w) \/ TerminalProject(w) \/ TerminalJob(w)
ThreadFault(w) ==
    StartupFails(w) \/ ExecuteFaults(w) \/ RecordFaults(w) \/ RecordTryFaults(w)

-----------------------------------------------------------------------------
(* Declaring a run dead: the steps Desktop's _interrupt and Web's          *)
(* recover_jobs share.                                                     *)

SetInterrupt(i, value) == interrupt' = [interrupt EXCEPT ![i] = value]
InterruptGoto(i, pc) == SetInterrupt(i, [pc |-> pc, run |-> interrupt[i].run])

\* The row is read as active, then its lock is tried without waiting.
InterruptRead(i, r) ==
    /\ interrupt[i].pc = "idle"
    /\ jobStatus[r] \in ActiveStatuses
    /\ SetInterrupt(i, [pc |-> "trying", run |-> r])
    /\ UNCHANGED <<catalog, runLock, api, thread, faults>>

\* Mutant: an old row is proof enough that its worker is gone.
InterruptUnlocked(i) ==
    /\ interrupt[i].pc = "trying"
    /\ InterruptGoto(i, "locked")
    /\ UNCHANGED <<catalog, runLock, api, thread, faults>>

InterruptLock(i) ==
    /\ interrupt[i].pc = "trying"
    /\ Acquire(ProjectOf(interrupt[i].run), ByInterrupt(i))
    /\ InterruptGoto(i, "locked")
    /\ UNCHANGED <<catalog, api, thread, faults>>

\* A held lock means a live writer: the run is left alone.
InterruptBusy(i) ==
    /\ interrupt[i].pc = "trying"
    /\ ~LockFree(ProjectOf(interrupt[i].run))
    /\ SetInterrupt(i, IdleInterrupt)
    /\ UNCHANGED <<catalog, runLock, api, thread, faults>>

\* Mutant: the project of an interrupted run keeps its status.
InterruptNoProject(i) ==
    /\ interrupt[i].pc = "marked"
    /\ Release(ProjectOf(interrupt[i].run))
    /\ SetInterrupt(i, IdleInterrupt)
    /\ UNCHANGED <<catalog, api, thread, faults>>

\* With the job marked, the project of the latest run becomes resumable.
InterruptProject(i) == LET r == interrupt[i].run IN
    /\ interrupt[i].pc = "marked"
    /\ projectStatus' = IF IsLatest(r) THEN [projectStatus EXCEPT ![ProjectOf(r)] = "paused"]
                                       ELSE projectStatus
    /\ Release(ProjectOf(r))
    /\ SetInterrupt(i, IdleInterrupt)
    /\ UNCHANGED <<admitted, jobStatus, api, thread, faults>>

\* A catalog call fails while the interrupter holds the lock.
InterruptFaults(i) ==
    /\ interrupt[i].pc \in InterruptLockedPcs
    /\ Fault
    /\ Release(ProjectOf(interrupt[i].run))
    /\ SetInterrupt(i, IdleInterrupt)
    /\ UNCHANGED <<catalog, api, thread>>

\* Processes die: their memory is gone, the operating system or the database
\* session drops their locks, and only the catalog survives.
Die(W, I, P) ==
    /\ thread' = [w \in Worker |-> IF w \in W THEN IdleThread ELSE thread[w]]
    /\ interrupt' = [i \in Interrupter |-> IF i \in I THEN IdleInterrupt ELSE interrupt[i]]
    /\ api' = [p \in Project |-> IF p \in P THEN IdleApi ELSE api[p]]
    /\ runLock' = [p \in Project |->
                      IF runLock[p] \in ({"thread"} \X W) \cup ({"interrupt"} \X I)
                                        \cup ({"api"} \X P)
                      THEN Nobody ELSE runLock[p]]

-----------------------------------------------------------------------------
(* The runs as RunOwnership sees them.                                     *)

\* A claimed run works, if it is not given up first.  Its own row says so from
\* MarkRunning on; an earlier delivery that failed before its claim, and now records
\* its failure without the lock, can have ended the row by then.
Works(w) ==
    \/ thread[w].pc = "working"
    \/ thread[w].pc = "claimed" /\ jobStatus[thread[w].run] # "queued"

Shared(r) == \E v, w \in Worker :
    v # w /\ Works(v) /\ Works(w) /\ thread[v].run = r /\ thread[w].run = r

RunState == [r \in Run |->
    IF jobStatus[r] = "absent" THEN "absent"
    ELSE IF Shared(r) THEN "shared"   \* no state of RunOwnership
    ELSE IF \E w \in Worker : Works(w) /\ thread[w].run = r THEN "working"
    ELSE IF jobStatus[r] = "queued" THEN "waiting"
    ELSE "closed"]

Ownership == INSTANCE RunOwnership WITH state <- RunState

-----------------------------------------------------------------------------
(* What the runner promises on every platform.                             *)

\* Each run is worked on at most once, by one execution, only as the latest run of
\* its project, and nothing is admitted during work (admit_job, execute's claim).
ImplementsOwnership == Ownership!Spec

\* Which executions and interruptions are inside the locked region of a project.
ThreadInside(w, p) == thread[w].pc \in LockedPcs /\ ProjectOf(thread[w].run) = p
InterruptInside(i, p) == interrupt[i].pc \in InterruptLockedPcs /\ ProjectOf(interrupt[i].run) = p

\* The run lock is held by exactly the processes whose program point is inside
\* the locked region, and by one process at a time: no path leaks or steals it
\* (runner.execute, record_terminal_status, project_write, _interrupt).
LockMatchesHolder == \A p \in Project :
    /\ (api[p].pc # "idle") <=> (runLock[p] = ByApi(p))
    /\ \A w \in Worker : ThreadInside(w, p) <=> (runLock[p] = ByThread(w))
    /\ \A i \in Interrupter : InterruptInside(i, p) <=> (runLock[p] = ByInterrupt(i))

\* Two executions never do domain work for the same project at the same time,
\* whatever the queue delivers: "conflicting workflows within one project
\* remain mutually exclusive".
OneWriterPerProject ==
    \A v, w \in Worker :
        /\ v # w
        /\ thread[v].pc \in DomainPcs
        /\ thread[w].pc \in DomainPcs
        => ProjectOf(thread[v].run) # ProjectOf(thread[w].run)

\* Work is only ever done for the latest job of a project: a run that a newer
\* admission superseded neither starts nor goes on (execute's identity check).
OnlyLatestRunWorks ==
    \A w \in Worker : thread[w].pc \in DomainPcs => IsLatest(thread[w].run)

\* While a run works, its job says so: no recovery pass, queue rollback or late
\* recording declares a live run finished ("A live writer must never be declared
\* dead just because its work is slow").
WorkingRunIsRunning ==
    \A w \in Worker : thread[w].pc = "working" => jobStatus[thread[w].run] = "running"

\* While a run works, its project is busy or pausing, so it can be paused and
\* nothing else is admitted: no late completion of an older run says otherwise.
WorkingProjectIsBusy ==
    \A w \in Worker : thread[w].pc = "working"
        => projectStatus[ProjectOf(thread[w].run)] \in RUNNING_PROJECT_STATUSES

\* A run that ended is never started again: resuming creates a new run.
SettledRunsStaySettled ==
    [][\A r \in Run : jobStatus[r] \in TerminalStatuses
                         => jobStatus'[r] \in TerminalStatuses]_runnerVars

\* A run that completed keeps that result.
DoneIsFinal ==
    [][\A r \in Run : jobStatus[r] = "done" => jobStatus'[r] = "done"]_runnerVars

\* The end of a run is its last word, on every path that records one.
EndsAreFinal == SettledRunsStaySettled /\ DoneIsFinal

=============================================================================
