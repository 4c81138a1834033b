------------------------------ MODULE WebWorkers ------------------------------
(***************************************************************************)
(* The Web platform: API processes admit runs into PostgreSQL and put them *)
(* on a Redis queue; each worker process executes one run at a time and    *)
(* also runs a recovery loop over the jobs of all workers.  The run lock   *)
(* is a PostgreSQL session lock, dropped when the process that holds it    *)
(* dies.  Catalog updates are separate transactions here, also where       *)
(* Desktop uses a single one.                                              *)
(*                                                                         *)
(* Worker w has the slot thread[w] and the recovery loop interrupt[w].     *)
(***************************************************************************)
EXTENDS WorkflowRunner

CONSTANT MaxCrashes   \* bound: deaths of a worker or API process

ASSUME WebAssumption ==
    /\ MaxCrashes \in Nat
    /\ Interrupter = Worker

VARIABLES
    redis,    \* Arq's view of each run: "absent", "queued", "in_progress"
    crashes

webVars == <<redis, crashes>>
vars == <<runnerVars, webVars>>

TypeOK ==
    /\ RunnerTypeOK
    /\ redis \in [Run -> {"absent", "queued", "in_progress"}]
    /\ crashes \in 0..MaxCrashes

Init ==
    /\ RunnerInit
    /\ redis = [r \in Run |-> "absent"]
    /\ crashes = 0

-----------------------------------------------------------------------------
(* Admission (start_job with PostgresRepository and the Redis queue).      *)

\* admit_job inserts the row and then sets the project, without looking again.
CreateJob(p) ==
    /\ api[p].pc = "entered"
    /\ api[p].previous \notin RUNNING_PROJECT_STATUSES
    /\ admitted[p] < MaxRuns
    /\ admitted' = [admitted EXCEPT ![p] = @ + 1]
    /\ jobStatus' = [jobStatus EXCEPT ![<<p, admitted[p] + 1>>] = "queued"]
    /\ SetApi(p, "created")
    /\ UNCHANGED <<projectStatus, runLock, thread, interrupt, faults, webVars>>

MarkBusy(p) ==
    /\ api[p].pc = "created"
    /\ projectStatus' = [projectStatus EXCEPT ![p] = "busy"]
    /\ SetApi(p, "admitted")
    /\ UNCHANGED <<admitted, jobStatus, runLock, thread, interrupt, faults, webVars>>

Enqueue(p) ==
    /\ api[p].pc = "admitted"
    /\ redis' = [redis EXCEPT ![Latest(p)] = "queued"]
    /\ SetApi(p, "enqueued")
    /\ UNCHANGED <<catalog, runLock, thread, interrupt, faults, crashes>>

\* The call fails; Redis may have taken the run all the same.
EnqueueFails(p) ==
    /\ api[p].pc = "admitted"
    /\ Fault
    /\ \/ redis' = [redis EXCEPT ![Latest(p)] = "queued"]
       \/ UNCHANGED redis
    /\ SetApi(p, "failed")
    /\ UNCHANGED <<catalog, runLock, thread, interrupt, crashes>>

\* fail_admission, one transaction per row.
UndoJob(p) ==
    /\ api[p].pc = "failed"
    /\ jobStatus' = [jobStatus EXCEPT ![Latest(p)] = "error"]
    /\ SetApi(p, "undoing")
    /\ UNCHANGED <<projectStatus, admitted, runLock, thread, interrupt, faults, webVars>>

UndoProject(p) ==
    /\ api[p].pc = "undoing"
    /\ projectStatus' = [projectStatus EXCEPT ![p] = api[p].previous]
    /\ Release(p)
    /\ api' = [api EXCEPT ![p] = IdleApi]
    /\ UNCHANGED <<admitted, jobStatus, thread, interrupt, faults, webVars>>

\* A catalog call of the admission or of its rollback fails.
AdmissionFaults(p) ==
    /\ api[p].pc \in {"created", "failed", "undoing"}
    /\ Fault
    /\ Release(p)
    /\ api' = [api EXCEPT ![p] = IdleApi]
    /\ UNCHANGED <<catalog, thread, interrupt, webVars>>

ApiStep(p) ==
    \/ (ApiLeave(p) \/ ApiReturn(p)) /\ UNCHANGED webVars
    \/ MarkBusy(p) \/ Enqueue(p) \/ UndoJob(p) \/ UndoProject(p)

-----------------------------------------------------------------------------
(* The Redis queue and the worker processes                                *)

Take(w, r) ==
    /\ redis[r] = "queued"
    /\ Deliver(w, r)
    /\ redis' = [redis EXCEPT ![r] = "in_progress"]
    /\ UNCHANGED <<faults, crashes>>

\* The queue hands out a run it has handed out before.
Redeliver(w, r) ==
    /\ redis[r] = "in_progress"
    /\ Fault
    /\ Deliver(w, r)
    /\ UNCHANGED webVars

\* Arq closes the run when its task ends; after a death its key expires.
Forget(r) ==
    /\ redis[r] = "in_progress"
    /\ \A w \in Worker : thread[w].run # r
    /\ redis' = [redis EXCEPT ![r] = "absent"]
    /\ UNCHANGED <<runnerVars, crashes>>

\* Redis restarts without its queue.
LoseQueue ==
    /\ Fault
    /\ redis' = [r \in Run |-> "absent"]
    /\ UNCHANGED <<catalog, runLock, api, thread, interrupt, crashes>>

\* Arq's job timeout, or SIGTERM to the worker, cancels the task.
CancelTask(w) ==
    /\ thread[w].pc # "idle"
    /\ thread[w].stop # "cancelled"
    /\ ~thread[w].fallback
    /\ SetThread(w, Cancelled(thread[w]))
    /\ UNCHANGED <<catalog, runLock, api, interrupt, faults, webVars>>

\* A death is one of the faults, and there are at most MaxCrashes of them.
WorkerDies(w) ==
    /\ crashes < MaxCrashes
    /\ crashes' = crashes + 1
    /\ Fault
    /\ Die({w}, {w}, {})
    /\ UNCHANGED <<catalog, redis>>

ApiDies(p) ==
    /\ crashes < MaxCrashes
    /\ crashes' = crashes + 1
    /\ Fault
    /\ Die({}, {}, {p})
    /\ UNCHANGED <<catalog, redis>>

-----------------------------------------------------------------------------
(* The recovery loop: recover_jobs                                         *)

\* Rows without an update for two minutes; an admission in progress is younger.
Inspect(i, r) ==
    /\ ~(api[ProjectOf(r)].pc # "idle" /\ IsLatest(r))
    /\ InterruptRead(i, r)
    /\ UNCHANGED webVars

\* Mutant: a queued run is never looked up in Redis.
ConfirmRunning(i) == LET r == interrupt[i].run IN
    /\ interrupt[i].pc = "locked"
    /\ IF jobStatus[r] = "running"
       THEN /\ InterruptGoto(i, "confirmed")
            /\ UNCHANGED runLock
       ELSE /\ SetInterrupt(i, IdleInterrupt)
            /\ Release(ProjectOf(r))
    /\ UNCHANGED <<catalog, api, thread, faults, webVars>>

\* Under the lock the row is read again, and a queued run looked up in Redis.
Confirm(i) == LET r == interrupt[i].run IN
    /\ interrupt[i].pc = "locked"
    /\ IF jobStatus[r] = "running" \/ (jobStatus[r] = "queued" /\ redis[r] = "absent")
       THEN /\ InterruptGoto(i, "confirmed")
            /\ UNCHANGED runLock
       ELSE /\ SetInterrupt(i, IdleInterrupt)
            /\ Release(ProjectOf(r))
    /\ UNCHANGED <<catalog, api, thread, faults, webVars>>

\* dal.set_job_status has no expected status.
Overwrite(i) ==
    /\ interrupt[i].pc = "confirmed"
    /\ jobStatus' = [jobStatus EXCEPT ![interrupt[i].run] = "interrupted"]
    /\ InterruptGoto(i, "marked")
    /\ UNCHANGED <<projectStatus, admitted, runLock, api, thread, faults, webVars>>

RecoveryStep(i) ==
    \/ Confirm(i) \/ Overwrite(i)
    \/ (InterruptLock(i) \/ InterruptBusy(i) \/ InterruptProject(i)) /\ UNCHANGED webVars

-----------------------------------------------------------------------------
Next ==
    \/ \E p \in Project :
          \/ (ApiEnter(p) \/ RequestPause(p)) /\ UNCHANGED webVars
          \/ CreateJob(p)
          \/ ApiStep(p)
          \/ EnqueueFails(p)
          \/ AdmissionFaults(p)
          \/ ApiDies(p)
    \/ \E w \in Worker :
          \/ \E r \in Run : Take(w, r) \/ Redeliver(w, r)
          \/ (ThreadStep(w) \/ ThreadFault(w) \/ MonitorPause(w)) /\ UNCHANGED webVars
          \/ CancelTask(w)
          \/ WorkerDies(w)
    \/ \E r \in Run : Forget(r)
    \/ LoseQueue
    \/ \E i \in Interrupter :
          \/ \E r \in Run : Inspect(i, r)
          \/ RecoveryStep(i)
          \/ InterruptFaults(i) /\ UNCHANGED webVars

Spec == Init /\ [][Next]_vars

\* Processes go on; waiters for a session lock are served if it is free again and
\* again; every recovery loop gets to every row it lists.
Fairness ==
    /\ \A p \in Project : WF_vars(ApiStep(p))
    /\ \A w \in Worker :
          /\ WF_vars(\E r \in Run : Take(w, r))
          /\ SF_vars(ThreadStep(w) /\ UNCHANGED webVars)
    /\ \A r \in Run : WF_vars(Forget(r))
    /\ \A i \in Interrupter :
          /\ WF_vars(RecoveryStep(i))
          /\ \A r \in Run : SF_vars(Inspect(i, r))

FairSpec == Spec /\ Fairness

-----------------------------------------------------------------------------
\* docs/web.md:318: "Recovery first tries the matching session lock to confirm no
\* live worker still holds it; a healthy long-running job is not marked lost".
InterruptedRunsHaveNoWorker ==
    [][\A r \in Run :
          /\ jobStatus[r] # "interrupted"
          /\ jobStatus'[r] = "interrupted"
          => \A w \in Worker : thread[w].run # r]_vars

\* Work in progress is never declared lost: recovery interrupts no run whose
\* worker is between its claim and the end of its operation.
WorkIsNeverDeclaredLost ==
    \A w \in Worker, i \in Interrupter :
        /\ thread[w].pc \in DomainPcs
        /\ interrupt[i].pc \in {"confirmed", "marked"}
        => interrupt[i].run # thread[w].run

\* Recovery meets no requests that collide with every one of its attempts.
RequestsCease == <>[](\A p \in Project : api[p].pc = "idle")

\* A run whose worker, queue entry or API process is lost still reaches an end:
\* queued and running rows never stay behind for good.
RunsEnd ==
    RequestsCease => \A r \in Run : jobStatus[r] \in ActiveStatuses
                                      ~> jobStatus[r] \in TerminalStatuses

=============================================================================
