---------------------------- MODULE DesktopRuntime ----------------------------
(***************************************************************************)
(* LocalRuntime of Desktop: one engine process that admits runs into its   *)
(* SQLite catalog, supervises each in its own task and thread, times out,  *)
(* drains on shutdown, and recovers orphaned jobs at startup and every     *)
(* thirty seconds.  Catalog updates are one SQLite transaction each.       *)
(*                                                                         *)
(* Slot w holds the supervisor (sup[w]) and its inner task (thread[w]); the *)
(* supervisor's own call of _interrupt is interrupt[w], the recovery       *)
(* pass's is interrupt[Recoverer].                                         *)
(***************************************************************************)
EXTENDS WorkflowRunner

CONSTANTS
    Recoverer,   \* the startup and periodic recovery pass
    MaxStops,    \* bound: orderly shutdowns
    MaxCrashes   \* bound: deaths of the process

ASSUME DesktopAssumption ==
    /\ MaxStops \in Nat
    /\ MaxCrashes \in Nat
    /\ Recoverer \notin Worker
    /\ Interrupter = Worker \cup {Recoverer}

VARIABLES
    phase,   \* "down", "starting", "accepting", "stopping", "released"
    sup,     \* the supervisor _run_job of each slot
    pass,    \* the jobs the recovery pass in progress has still to look at
    stops,
    crashes

desktopVars == <<phase, sup, pass, stops, crashes>>
vars == <<runnerVars, desktopVars>>

IdleSup == [pc |-> "none", run |-> NoRun]

TypeOK ==
    /\ RunnerTypeOK
    /\ phase \in {"down", "starting", "accepting", "stopping", "released"}
    /\ sup \in [Worker -> {IdleSup} \cup
                 [pc : {"spawned", "watching", "draining", "interrupting"}, run : Run]]
    /\ pass \subseteq Run
    /\ stops \in 0..MaxStops
    /\ crashes \in 0..MaxCrashes

Init ==
    /\ RunnerInit
    /\ phase = "accepting"
    /\ sup = [w \in Worker |-> IdleSup]
    /\ pass = {}
    /\ stops = 0
    /\ crashes = 0

\* The run ids LocalRuntime._submitted holds: one per live supervisor.
Submitted == {sup[w].run : w \in {v \in Worker : sup[v].pc # "none"}}
\* LocalRuntime.idle
Idle == \A w \in Worker : sup[w].pc = "none"

-----------------------------------------------------------------------------
(* Admission (start_job with LocalBackend and LocalRuntime.enqueue).       *)

\* Job row and busy status commit together.
AdmitJob(p) ==
    /\ api[p].pc = "entered"
    /\ api[p].previous \notin RUNNING_PROJECT_STATUSES
    /\ projectStatus[p] \notin RUNNING_PROJECT_STATUSES
    /\ admitted[p] < MaxRuns
    /\ admitted' = [admitted EXCEPT ![p] = @ + 1]
    /\ jobStatus' = [jobStatus EXCEPT ![<<p, admitted[p] + 1>>] = "queued"]
    /\ projectStatus' = [projectStatus EXCEPT ![p] = "busy"]
    /\ SetApi(p, "admitted")
    /\ UNCHANGED <<runLock, thread, interrupt, faults, desktopVars>>

\* enqueue registers a queued run nobody owns and creates its supervisor, without
\* an await in between.
Enqueue(p, w) ==
    /\ api[p].pc = "admitted"
    /\ phase = "accepting"
    /\ sup[w].pc = "none"
    /\ thread[w].pc = "idle"
    /\ \E r \in Run \ Submitted :
          /\ r = Latest(p)
          /\ jobStatus[r] = "queued"
          /\ sup' = [sup EXCEPT ![w] = [pc |-> "spawned", run |-> r]]
    /\ SetApi(p, "enqueued")
    /\ UNCHANGED <<catalog, runLock, thread, interrupt, faults, phase, pass, stops, crashes>>

\* The engine is shutting down, or reading the row or creating the task failed.
EnqueueFails(p) ==
    /\ api[p].pc = "admitted"
    /\ IF phase = "accepting" THEN Fault ELSE UNCHANGED faults
    /\ SetApi(p, "failed")
    /\ UNCHANGED <<catalog, runLock, thread, interrupt, desktopVars>>

\* fail_admission undoes the admission if nothing has claimed the job.
FailAdmission(p) == LET r == Latest(p) IN
    /\ api[p].pc = "failed"
    /\ IF jobStatus[r] = "queued"
       THEN /\ jobStatus' = [jobStatus EXCEPT ![r] = "error"]
            /\ projectStatus' = [projectStatus EXCEPT ![p] = api[p].previous]
       ELSE UNCHANGED <<jobStatus, projectStatus>>
    /\ Release(p)
    /\ api' = [api EXCEPT ![p] = IdleApi]
    /\ UNCHANGED <<admitted, thread, interrupt, faults, desktopVars>>

\* The rollback itself failed: the job stays queued with nobody to run it.
AdmissionLost(p) ==
    /\ api[p].pc = "failed"
    /\ Fault
    /\ Release(p)
    /\ api' = [api EXCEPT ![p] = IdleApi]
    /\ UNCHANGED <<catalog, thread, interrupt, desktopVars>>

ApiStep(p) ==
    \/ (ApiLeave(p) \/ ApiReturn(p)) /\ UNCHANGED desktopVars
    \/ \E w \in Worker : Enqueue(p, w)
    \/ phase # "accepting" /\ EnqueueFails(p)
    \/ FailAdmission(p)

-----------------------------------------------------------------------------
(* Supervision: LocalRuntime._run_job                                      *)

SetSup(w, pc) == sup' = [sup EXCEPT ![w] = [pc |-> pc, run |-> sup[w].run]]

Supervise(w) ==
    /\ sup[w].pc = "spawned"
    /\ phase = "accepting"
    /\ Deliver(w, sup[w].run)
    /\ SetSup(w, "watching")
    /\ UNCHANGED <<faults, phase, pass, stops, crashes>>

\* wait_for(shield(task)) timed out: the inner task is cancelled once.
Timeout(w) ==
    /\ sup[w].pc = "watching"
    /\ thread[w].pc # "idle"
    /\ SetThread(w, Cancelled(thread[w]))
    /\ SetSup(w, "draining")
    /\ UNCHANGED <<catalog, runLock, api, interrupt, faults, phase, pass, stops, crashes>>

\* The inner task returned or raised by itself.
SupervisorEnds(w) ==
    /\ sup[w].pc = "watching"
    /\ thread[w].pc = "idle"
    /\ sup' = [sup EXCEPT ![w] = IdleSup]
    /\ UNCHANGED <<runnerVars, phase, pass, stops, crashes>>

\* gather returned: the thread was drained, or only its abandoned second
\* recording is left.
TaskEnded(w) == thread[w].pc = "idle" \/ thread[w].fallback

\* Mutant: a run accepted too late to start is left to the next start.
InterruptsOnlyDrained(w) ==
    /\ sup[w].pc = "draining" /\ TaskEnded(w)
    /\ \/ /\ InterruptRead(w, sup[w].run)
          /\ SetSup(w, "interrupting")
       \/ /\ jobStatus[sup[w].run] \notin ActiveStatuses
          /\ sup' = [sup EXCEPT ![w] = IdleSup]
          /\ UNCHANGED runnerVars
    /\ UNCHANGED <<phase, pass, stops, crashes>>

\* The drained run, or one accepted too late to start, is interrupted.
SupervisorInterrupts(w) ==
    /\ \/ sup[w].pc = "draining" /\ TaskEnded(w)
       \/ sup[w].pc = "spawned" /\ phase # "accepting"
    /\ \/ /\ InterruptRead(w, sup[w].run)
          /\ SetSup(w, "interrupting")
       \/ /\ jobStatus[sup[w].run] \notin ActiveStatuses
          /\ sup' = [sup EXCEPT ![w] = IdleSup]
          /\ UNCHANGED runnerVars
    /\ UNCHANGED <<phase, pass, stops, crashes>>

InterruptReturns(w) ==
    /\ sup[w].pc = "interrupting"
    /\ interrupt[w].pc = "idle"
    /\ sup' = [sup EXCEPT ![w] = IdleSup]
    /\ UNCHANGED <<runnerVars, phase, pass, stops, crashes>>

SupervisorStep(w) ==
    Supervise(w) \/ SupervisorEnds(w) \/ SupervisorInterrupts(w) \/ InterruptReturns(w)

-----------------------------------------------------------------------------
(* Interruption and recovery                                               *)

\* set_job_status with expected_status: one conditional transaction.
InterruptMark(i) == LET r == interrupt[i].run IN
    /\ interrupt[i].pc = "locked"
    /\ IF jobStatus[r] \in ActiveStatuses
       THEN /\ jobStatus' = [jobStatus EXCEPT ![r] = "interrupted"]
            /\ InterruptGoto(i, "marked")
            /\ UNCHANGED runLock
       ELSE /\ SetInterrupt(i, IdleInterrupt)
            /\ Release(ProjectOf(r))
            /\ UNCHANGED jobStatus
    /\ UNCHANGED <<projectStatus, admitted, api, thread, faults>>

InterruptStep(i) ==
    /\ InterruptLock(i) \/ InterruptBusy(i) \/ InterruptMark(i) \/ InterruptProject(i)
    /\ UNCHANGED desktopVars

\* recover lists the jobs once.  While the engine runs it skips rows younger than
\* two minutes: an admission that is still in progress is always that young.
ActiveRuns == {r \in Run : jobStatus[r] \in ActiveStatuses}
InAdmission(r) ==
    /\ api[ProjectOf(r)].pc \in {"admitted", "enqueued", "failed"}
    /\ IsLatest(r)

RecoverPass ==
    /\ phase = "accepting"
    /\ pass = {}
    /\ interrupt[Recoverer].pc = "idle"
    /\ pass' = {r \in ActiveRuns : ~InAdmission(r)}
    /\ pass' # {}
    /\ UNCHANGED <<runnerVars, phase, sup, stops, crashes>>

\* A listed job is left alone if a supervisor owns it or it has ended since.
RecoverJob(r) ==
    /\ r \in pass
    /\ interrupt[Recoverer].pc = "idle"
    /\ pass' = pass \ {r}
    /\ IF r \in ActiveRuns \ Submitted THEN InterruptRead(Recoverer, r) ELSE UNCHANGED runnerVars
    /\ UNCHANGED <<phase, sup, stops, crashes>>

-----------------------------------------------------------------------------
(* The life of the process                                                 *)

Launch ==
    /\ phase = "down"
    /\ phase' = "starting"
    /\ pass' = ActiveRuns
    /\ UNCHANGED <<runnerVars, sup, stops, crashes>>

\* recover(startup=True) has been over every active job.
Open ==
    /\ phase = "starting"
    /\ pass = {}
    /\ interrupt[Recoverer].pc = "idle"
    /\ phase' = "accepting"
    /\ UNCHANGED <<runnerVars, sup, pass, stops, crashes>>

\* LocalRuntime.stop: refuse new work and cancel every active task, in one go.
BeginStop ==
    /\ phase = "accepting"
    /\ stops < MaxStops
    /\ phase' = "stopping"
    /\ stops' = stops + 1
    /\ LET active == {w \in Worker : sup[w].pc = "watching" /\ thread[w].pc # "idle"} IN
       /\ thread' = [w \in Worker |-> IF w \in active THEN Cancelled(thread[w]) ELSE thread[w]]
       /\ sup' = [w \in Worker |-> IF w \in active
                                   THEN [pc |-> "draining", run |-> sup[w].run] ELSE sup[w]]
    /\ UNCHANGED <<catalog, runLock, api, interrupt, faults, pass, crashes>>

\* Mutant: the supervisors are cancelled but not awaited.
ReleaseWithoutWaiting ==
    /\ phase = "stopping"
    /\ pass = {}
    /\ interrupt[Recoverer].pc = "idle"
    /\ phase' = "released"
    /\ UNCHANGED <<runnerVars, sup, pass, stops, crashes>>

\* Every supervisor and the maintenance task are awaited, then the workspace
\* lock is released.
ReleaseWorkspace ==
    /\ phase = "stopping"
    /\ Idle
    /\ pass = {}
    /\ interrupt[Recoverer].pc = "idle"
    /\ phase' = "released"
    /\ UNCHANGED <<runnerVars, sup, pass, stops, crashes>>

\* The interpreter joins the remaining threads; an HTTP request may be cut off.
Exit ==
    /\ phase = "released"
    /\ \A w \in Worker : thread[w].pc = "idle"
    /\ Die(Worker, Interrupter, Project)
    /\ phase' = "down"
    /\ UNCHANGED <<catalog, faults, sup, pass, stops, crashes>>

Crash ==
    /\ phase # "down"
    /\ crashes < MaxCrashes
    /\ crashes' = crashes + 1
    /\ Die(Worker, Interrupter, Project)
    /\ phase' = "down"
    /\ sup' = [w \in Worker |-> IdleSup]
    /\ pass' = {}
    /\ UNCHANGED <<catalog, faults, stops>>

-----------------------------------------------------------------------------
\* Requests are served once startup recovery is over.
Request(p) ==
    /\ phase \notin {"down", "starting"}
    /\ ApiEnter(p) \/ RequestPause(p)
    /\ UNCHANGED desktopVars

Execution(w) == (ThreadStep(w) \/ ThreadFault(w) \/ MonitorPause(w)) /\ UNCHANGED desktopVars

Interruption(i) == InterruptStep(i) \/ (InterruptFaults(i) /\ UNCHANGED desktopVars)

Next ==
    \/ \E p \in Project :
          Request(p) \/ ApiStep(p) \/ AdmitJob(p) \/ EnqueueFails(p) \/ AdmissionLost(p)
    \/ \E w \in Worker : SupervisorStep(w) \/ Timeout(w) \/ Execution(w)
    \/ \E i \in Interrupter : Interruption(i)
    \/ RecoverPass \/ \E r \in Run : RecoverJob(r)
    \/ Launch \/ Open \/ BeginStop \/ ReleaseWorkspace \/ Exit \/ Crash

Spec == Init /\ [][Next]_vars

\* Scheduled work goes on.  Lock waiters poll, so they are served if the lock is
\* free again and again; an operation reaches a progress boundary or fails.
Fairness ==
    /\ \A p \in Project : WF_vars(ApiStep(p))
    /\ \A w \in Worker :
          /\ WF_vars(SupervisorStep(w))
          /\ SF_vars(ThreadStep(w) /\ UNCHANGED desktopVars)
    /\ \A i \in Interrupter : WF_vars(InterruptStep(i))
    /\ WF_vars(RecoverPass)
    /\ WF_vars(\E r \in Run : RecoverJob(r))
    /\ WF_vars(Launch) /\ WF_vars(Open) /\ WF_vars(ReleaseWorkspace) /\ WF_vars(Exit)

FairSpec == Spec /\ Fairness

-----------------------------------------------------------------------------
\* A run that finished but has not yet published its result is still the latest
\* run of its project, so its result cannot hide a newer run (execute publishes
\* after the lock has exited).
CompletionIsLatest ==
    \A w \in Worker : thread[w].pc = "publishProject" => IsLatest(thread[w].run)

\* What the rows say of a run that works, or is about to publish, is so.
RowsTellTheTruth == WorkingRunIsRunning /\ WorkingProjectIsBusy /\ CompletionIsLatest

\* With nothing in flight the two rows agree: a project shown as running has an
\* active job, so it can be paused or recovered, never an ended one.
QuietProjectsAreSettled ==
    (/\ Idle
     /\ \A w \in Worker : thread[w].pc = "idle"
     /\ \A i \in Interrupter : interrupt[i].pc = "idle"
     /\ \A p \in Project : api[p].pc = "idle")
    => \A p \in Project : projectStatus[p] \in RUNNING_PROJECT_STATUSES
                             => jobStatus[Latest(p)] \in ActiveStatuses

\* Once the workspace lock is released no run can still do domain work or
\* publish a result; only the recording of a failure can remain.
ReleasedMeansNoWork ==
    phase \in {"released", "down"} =>
        \A w \in Worker : /\ thread[w].pc \notin {"dispatched", "starting", "claiming",
                                                  "claimed", "working", "publishProject",
                                                  "publishJob"}
                          /\ sup[w].pc = "none"

\* docs/design/multi-task-execution.md:28: "Await every active writer and
\* supervisor before stopping telemetry and releasing the workspace lock."
ReleasedMeansNoWriter ==
    phase = "released" => \A w \in Worker : thread[w].pc = "idle"

\* The interruption of an orphan gives up when an HTTP writer holds the lock at
\* that moment, so it succeeds once such requests stop colliding with it.
RequestsCease == <>[](\A p \in Project : api[p].pc = "idle")

\* A project with a run in progress, or asked to pause, becomes free again.
BusyEnds ==
    RequestsCease => \A p \in Project : projectStatus[p] \in RUNNING_PROJECT_STATUSES
                                          ~> projectStatus[p] \notin RUNNING_PROJECT_STATUSES

\* Every admitted run reaches an end, be it by recovery.
RunsEnd ==
    RequestsCease => \A r \in Run : jobStatus[r] \in ActiveStatuses
                                      ~> jobStatus[r] \in TerminalStatuses

\* An orderly shutdown gets to the point where the workspace lock is released.
StopCompletes == phase = "stopping" ~> phase # "stopping"

\* Runs, the projects they keep busy and the engine itself come to an end.
EverythingSettles == BusyEnds /\ RunsEnd /\ StopCompletes

=============================================================================
