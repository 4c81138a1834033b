-------------------------------- MODULE Exports --------------------------------
(***************************************************************************)
(* The exports of one project: admission, the task that renders and        *)
(* publishes, interruption and recovery, the bounded download history, the *)
(* leases of Desktop downloads, and the removal of the project.  Both      *)
(* platforms share execute; what differs is guarded by Desktop or Web.     *)
(*                                                                         *)
(* The export lock of an export and the history lock of the project are    *)
(* the storage's; each catalog call is one transaction.                    *)
(***************************************************************************)
EXTENDS Naturals, FiniteSets

CONSTANTS
    Export,             \* identifiers
    EXPORT_LIMIT,       \* completed exports kept
    MaxLeases,          \* bound: concurrent downloads of one export
    MaxExportFaults,    \* bound: failing calls, and deaths of a process
    MaxExportStops      \* bound: orderly Desktop shutdowns

ASSUME ExportAssumption ==
    /\ EXPORT_LIMIT \in Nat \ {0}
    /\ {MaxLeases, MaxExportFaults, MaxExportStops} \subseteq Nat

VARIABLES
    exportPlatform,   \* "desktop" or "web", for good
    exportRow,        \* status of the export row; "none" before and after it exists
    exportJob,        \* status of its job row
    exportFile,       \* is the rendered file there?
    exportDone,       \* completed_at, 0 for a row that has none
    exportClock,      \* the time of the last completion
    exportProject,    \* "listed", "marked" for deletion, "emptying" or "emptied" its directory, "gone"
    exportApi,        \* the admitting request: "idle", "admitted", "failed", "undoing", "ended"
    exportOwner,      \* who has the job: "none", "queue", "consumer"
    exportTask,       \* the task adapter: execute, then _record_failure
    exportInterrupt,  \* _interrupt, or one row of recover_jobs
    exportLock,       \* "free", "task", "interrupt"
    exportHistory,    \* the history lock and the sweep of its holder
    exportLease,      \* open downloads (Desktop)
    exportClosing,    \* downloads closed last and not swept yet
    exportRemoval,    \* remove_project: "idle", "first" or "retry"
    exportPhase,      \* Desktop: "accepting", "stopping", "down", "starting"
    exportFaults, exportStops

exportTimes == <<exportDone, exportClock>>
exportRows == <<exportRow, exportJob, exportTimes>>
exportWork == <<exportApi, exportOwner, exportTask, exportInterrupt, exportLock>>
exportReaders == <<exportLease, exportClosing>>
exportWorld == <<exportPlatform, exportPhase, exportStops>>
exportVars == <<exportRows, exportFile, exportProject, exportWork, exportHistory, exportReaders,
                exportRemoval, exportFaults, exportWorld>>

Desktop == exportPlatform = "desktop"
Web == exportPlatform = "web"

IdleTask == [pc |-> "idle", cancelled |-> FALSE]
FreeHistory == [by |-> "free", todo |-> {}, removed |-> {}]
Sweepers == {"publish", "close"}
TaskPcs == {"idle", "waiting", "claiming", "starting", "rendering", "publishing", "sweeping",
            "published", "failing", "failed", "recording", "recorded"}

ActiveRow == {"pending", "running"}
ActiveJob == {"queued", "running"}
ExportActive(e) == exportRow[e] \in ActiveRow \/ exportJob[e] \in ActiveJob

ExportTypeOK ==
    /\ exportPlatform \in {"desktop", "web"}
    /\ exportRow \in [Export -> {"none", "pending", "running", "done", "error", "deleting"}]
    /\ exportJob \in [Export -> {"none", "queued", "running", "done", "error"}]
    /\ exportFile \in [Export -> BOOLEAN]
    /\ exportClock \in Nat /\ exportDone \in [Export -> 0..exportClock]
    /\ exportProject \in {"listed", "marked", "emptying", "emptied", "gone"}
    /\ exportApi \in [Export -> {"idle", "admitted", "failed", "undoing", "ended"}]
    /\ exportOwner \in [Export -> {"none", "queue", "consumer"}]
    /\ exportTask \in [Export -> [pc : TaskPcs, cancelled : BOOLEAN]]
    /\ exportInterrupt \in [Export -> {"idle", "locking", "locked", "marked"}]
    /\ exportLock \in [Export -> {"free", "task", "interrupt"}]
    /\ exportHistory \in [by : {"free", "removal"} \cup Sweepers,
                          todo : SUBSET Export, removed : SUBSET Export]
    /\ exportLease \in [Export -> 0..MaxLeases]
    /\ exportClosing \in [Export -> BOOLEAN]
    /\ exportRemoval \in {"idle", "first", "retry"}
    /\ exportPhase \in {"accepting", "stopping", "down", "starting"}
    /\ exportFaults \in 0..MaxExportFaults
    /\ exportStops \in 0..MaxExportStops

ExportInit ==
    /\ exportPlatform \in {"desktop", "web"}
    /\ exportRow = [e \in Export |-> "none"]
    /\ exportJob = [e \in Export |-> "none"]
    /\ exportFile = [e \in Export |-> FALSE]
    /\ exportDone = [e \in Export |-> 0] /\ exportClock = 0
    /\ exportProject = "listed"
    /\ exportApi = [e \in Export |-> "idle"]
    /\ exportOwner = [e \in Export |-> "none"]
    /\ exportTask = [e \in Export |-> IdleTask]
    /\ exportInterrupt = [e \in Export |-> "idle"]
    /\ exportLock = [e \in Export |-> "free"]
    /\ exportHistory = FreeHistory
    /\ exportLease = [e \in Export |-> 0]
    /\ exportClosing = [e \in Export |-> FALSE]
    /\ exportRemoval = "idle"
    /\ exportPhase = "accepting"
    /\ exportFaults = 0 /\ exportStops = 0

ExportFault ==
    /\ exportFaults < MaxExportFaults
    /\ exportFaults' = exportFaults + 1

Serving == exportPhase \notin {"down", "starting"}
HistoryFree == exportHistory.by = "free"
Removing == Desktop /\ exportRemoval = "first"   \* _removing_projects

\* set_export_status: Desktop never takes back a completed or expired row, Web
\* overwrites what it finds.  A row that is gone stays gone.
StatusSet(e, status) ==
    IF exportRow[e] = "none" \/ (Desktop /\ exportRow[e] \in {"done", "deleting"})
    THEN exportRow ELSE [exportRow EXCEPT ![e] = status]
JobSet(e, status) == IF exportJob[e] = "none" THEN exportJob ELSE [exportJob EXCEPT ![e] = status]

-----------------------------------------------------------------------------
(* Admission: enqueue_export                                               *)

SetExportApi(e, pc) == exportApi' = [exportApi EXCEPT ![e] = pc]

\* Export and job row commit together.  Desktop opens the store in the project's directory
\* before; a removal that has stopped half way may have left it.
AdmitExport(e) ==
    /\ Serving
    /\ exportApi[e] = "idle"
    /\ exportRow[e] = "none"
    /\ exportProject # "gone"
    /\ Desktop => exportProject # "emptied" /\ ~Removing
    /\ Web => exportHistory.by # "removal"
    /\ exportRow' = [exportRow EXCEPT ![e] = "pending"]
    /\ exportJob' = [exportJob EXCEPT ![e] = "queued"]
    /\ SetExportApi(e, "admitted")
    /\ UNCHANGED <<exportTimes, exportFile, exportProject, exportOwner, exportTask, exportInterrupt,
                   exportLock, exportHistory, exportReaders, exportRemoval, exportFaults, exportWorld>>

EnqueueExport(e) ==
    /\ exportApi[e] = "admitted"
    /\ Desktop => exportPhase = "accepting"
    /\ exportOwner' = [exportOwner EXCEPT ![e] = IF exportJob[e] = "queued" THEN "queue" ELSE @]
    /\ SetExportApi(e, "ended")
    /\ UNCHANGED <<exportRows, exportFile, exportProject, exportTask, exportInterrupt, exportLock,
                   exportHistory, exportReaders, exportRemoval, exportFaults, exportWorld>>

\* The engine is stopping, the queue is full, or Redis fails, maybe after it has
\* taken the job.
EnqueueExportFails(e) ==
    /\ exportApi[e] = "admitted"
    /\ IF Desktop /\ exportPhase # "accepting" THEN UNCHANGED exportFaults ELSE ExportFault
    /\ \/ UNCHANGED exportOwner
       \/ Web /\ exportOwner' = [exportOwner EXCEPT ![e] = "queue"]
    /\ SetExportApi(e, "failed")
    /\ UNCHANGED <<exportRows, exportFile, exportProject, exportTask, exportInterrupt, exportLock,
                   exportHistory, exportReaders, exportRemoval, exportWorld>>

\* fail_export_admission: one conditional transaction on Desktop, two
\* unconditional ones on Web.
FailExportAdmission(e) ==
    /\ exportApi[e] = "failed"
    /\ IF Desktop
       THEN /\ IF exportJob[e] = "queued" /\ exportRow[e] = "pending"
               THEN /\ exportJob' = [exportJob EXCEPT ![e] = "error"]
                    /\ exportRow' = [exportRow EXCEPT ![e] = "error"]
               ELSE UNCHANGED <<exportJob, exportRow>>
            /\ SetExportApi(e, "ended")
       ELSE /\ exportJob' = JobSet(e, "error")
            /\ SetExportApi(e, "undoing")
            /\ UNCHANGED exportRow
    /\ UNCHANGED <<exportTimes, exportFile, exportProject, exportOwner, exportTask, exportInterrupt,
                   exportLock, exportHistory, exportReaders, exportRemoval, exportFaults, exportWorld>>

UndoExport(e) ==
    /\ exportApi[e] = "undoing"
    /\ exportRow' = StatusSet(e, "error")
    /\ SetExportApi(e, "ended")
    /\ UNCHANGED <<exportJob, exportTimes, exportFile, exportProject, exportOwner, exportTask,
                   exportInterrupt, exportLock, exportHistory, exportReaders, exportRemoval,
                   exportFaults, exportWorld>>

ExportRequestStep(e) == EnqueueExport(e) \/ FailExportAdmission(e) \/ UndoExport(e)

-----------------------------------------------------------------------------
(* The task: execute under the export lock, then _record_failure           *)

Task(e, pc) == exportTask' = [exportTask EXCEPT ![e].pc = pc]
DropLock(e) == exportLock' = [exportLock EXCEPT ![e] = "free"]

\* A consumer takes the job from the queue.
ConsumeExport(e) ==
    /\ exportOwner[e] = "queue"
    /\ exportTask[e].pc = "idle"
    /\ Desktop => exportPhase = "accepting"
    /\ exportOwner' = [exportOwner EXCEPT ![e] = "consumer"]
    /\ exportTask' = [exportTask EXCEPT ![e] = [pc |-> "waiting", cancelled |-> FALSE]]
    /\ UNCHANGED <<exportRows, exportFile, exportProject, exportApi, exportInterrupt, exportLock,
                   exportHistory, exportReaders, exportRemoval, exportFaults, exportWorld>>

\* Only a job that is still queued is executed.
LockExport(e) ==
    /\ exportTask[e].pc = "waiting"
    /\ exportLock[e] = "free"
    /\ IF exportJob[e] = "queued"
       THEN /\ exportLock' = [exportLock EXCEPT ![e] = "task"]
            /\ Task(e, "claiming")
       ELSE /\ Task(e, "idle")
            /\ UNCHANGED exportLock
    /\ UNCHANGED <<exportRows, exportFile, exportProject, exportApi, exportOwner, exportInterrupt,
                   exportHistory, exportReaders, exportRemoval, exportFaults, exportWorld>>

\* The writes of execute and _record_failure that touch nothing but the two rows.
WriteJob(e, from, status, to) ==
    /\ exportTask[e].pc = from
    /\ exportJob' = JobSet(e, status)
    /\ Task(e, to)
    /\ UNCHANGED <<exportRow, exportLock>>

WriteExport(e, from, status, to) ==
    /\ exportTask[e].pc = from
    /\ exportRow' = StatusSet(e, status)
    /\ Task(e, to)
    /\ UNCHANGED <<exportJob, exportLock>>

\* After an error the lock is left; a cancelled task records nothing more.
AfterError(e) == IF exportTask[e].cancelled THEN "idle" ELSE "recording"

\* Mutant: the error path of execute forgets the export row, and so does the other.
RecordJobOnly(e) ==
    /\ \/ WriteJob(e, "claiming", "running", "starting")
       \/ WriteExport(e, "starting", "running", "rendering")
       \/ WriteJob(e, "failing", "error", "failed")
       \/ /\ exportTask[e].pc \in {"failed", "published"}
          /\ exportJob' = IF exportTask[e].pc = "failed" THEN exportJob ELSE JobSet(e, "done")
          /\ Task(e, "idle")
          /\ DropLock(e)
          /\ UNCHANGED exportRow
    /\ UNCHANGED <<exportTimes, exportFile, exportProject, exportApi, exportOwner, exportInterrupt,
                   exportHistory, exportReaders, exportRemoval, exportFaults, exportWorld>>

RecordExport(e) ==
    /\ \/ WriteJob(e, "claiming", "running", "starting")
       \/ WriteExport(e, "starting", "running", "rendering")
       \/ WriteJob(e, "failing", "error", "failed")
       \/ /\ exportTask[e].pc = "failed"
          /\ exportRow' = StatusSet(e, "error")
          /\ Task(e, AfterError(e))
          /\ DropLock(e)
          /\ UNCHANGED exportJob
       \/ /\ exportTask[e].pc = "published"
          /\ exportJob' = JobSet(e, "done")
          /\ Task(e, "idle")
          /\ DropLock(e)
          /\ UNCHANGED exportRow
       \/ WriteExport(e, "recording", "error", "recorded")
       \/ WriteJob(e, "recorded", "error", "idle")
    /\ UNCHANGED <<exportTimes, exportFile, exportProject, exportApi, exportOwner, exportInterrupt,
                   exportHistory, exportReaders, exportRemoval, exportFaults, exportWorld>>

\* render_export writes its own directory.  It needs the source to the end, which goes
\* with the project's directory, at any point of its removal.
RenderExport(e) ==
    /\ exportTask[e].pc = "rendering"
    /\ exportProject \in {"listed", "marked", "emptying"}
    /\ exportFile' = [exportFile EXCEPT ![e] = TRUE]
    /\ Task(e, "publishing")
    /\ UNCHANGED <<exportRows, exportProject, exportApi, exportOwner, exportInterrupt, exportLock,
                   exportHistory, exportReaders, exportRemoval, exportFaults, exportWorld>>

\* A call of the task raises: inside the try it goes to the handler, outside of it
\* or in the handler the lock is left at once.
ExportTaskFails(e) ==
    /\ IF exportTask[e].pc = "rendering" THEN UNCHANGED exportFaults ELSE ExportFault
    /\ CASE exportTask[e].pc \in {"rendering", "publishing", "published"} ->
               Task(e, "failing") /\ UNCHANGED exportLock
         [] exportTask[e].pc \in {"claiming", "starting", "failing", "failed"} ->
               Task(e, AfterError(e)) /\ DropLock(e)
         [] exportTask[e].pc \in {"recording", "recorded"} ->
               Task(e, "idle") /\ UNCHANGED exportLock
         [] OTHER -> FALSE
    /\ UNCHANGED <<exportRows, exportFile, exportProject, exportApi, exportOwner, exportInterrupt,
                   exportHistory, exportReaders, exportRemoval, exportWorld>>

-----------------------------------------------------------------------------
(* Publication and the bounded history                                     *)

Newer(e, done, row) == {x \in Export : row[x] = "done" /\ done[x] > done[e]}

\* The completed exports beyond the newest EXPORT_LIMIT.
Expired(done, row) ==
    {e \in Export : row[e] = "done" /\ Cardinality(Newer(e, done, row)) >= EXPORT_LIMIT}

\* Desktop: completion and the tombstones of what it expires commit together; the
\* files are swept afterwards, under the same history lock.
PublishDesktop(e) ==
    /\ Desktop
    /\ exportTask[e].pc = "publishing"
    /\ HistoryFree
    /\ exportFile[e] /\ exportRow[e] \notin {"none", "deleting"}
    /\ exportClock' = exportClock + 1
    /\ LET done == [exportDone EXCEPT ![e] = exportClock + 1]
           row == [exportRow EXCEPT ![e] = "done"]
           old == Expired(done, row)
           next == [x \in Export |-> IF x \in old THEN "deleting" ELSE row[x]] IN
       /\ exportRow' = next
       /\ exportDone' = [x \in Export |-> IF x \in old THEN 0 ELSE done[x]]
       /\ exportHistory' = [by |-> "publish", removed |-> {},
                            todo |-> {x \in Export : next[x] = "deleting"}]
    /\ Task(e, "sweeping")
    /\ UNCHANGED <<exportJob, exportFile, exportProject, exportApi, exportOwner, exportInterrupt,
                   exportLock, exportReaders, exportRemoval, exportFaults, exportWorld>>

\* Web: one transaction that also unlinks expired files; a file that cannot be
\* unlinked keeps its row for the next publication, and a failed commit keeps the
\* rows of files that are gone.
PublishWeb(e) ==
    /\ Web
    /\ exportTask[e].pc = "publishing"
    /\ HistoryFree
    /\ exportFile[e] /\ exportRow[e] # "none"
    /\ LET done == [exportDone EXCEPT ![e] = exportClock + 1]
           row == [exportRow EXCEPT ![e] = "done"]
           old == Expired(done, row) IN
       \E unlinked \in SUBSET old, committed \in BOOLEAN :
          /\ IF unlinked = old /\ committed THEN UNCHANGED exportFaults ELSE ExportFault
          /\ exportFile' = [x \in Export |-> exportFile[x] /\ x \notin unlinked]
          /\ IF committed
             THEN /\ exportRow' = [x \in Export |-> IF x \in unlinked THEN "none" ELSE row[x]]
                  /\ exportDone' = [x \in Export |-> IF x \in unlinked THEN 0 ELSE done[x]]
                  /\ exportClock' = exportClock + 1
                  /\ Task(e, "published")
             ELSE /\ UNCHANGED <<exportRow, exportTimes>>
                  /\ Task(e, "failing")
    /\ UNCHANGED <<exportJob, exportProject, exportApi, exportOwner, exportInterrupt, exportLock,
                   exportHistory, exportReaders, exportRemoval, exportWorld>>

\* Mutant: leases are not looked at.
SweepLeased(e) ==
    /\ exportHistory.by \in Sweepers
    /\ exportHistory.removed = {}
    /\ e \in exportHistory.todo
    /\ exportHistory' = [exportHistory EXCEPT !.todo = @ \ {e}, !.removed = {e}]
    /\ exportFile' = [exportFile EXCEPT ![e] = FALSE]
    /\ UNCHANGED <<exportRows, exportProject, exportWork, exportReaders, exportRemoval,
                   exportFaults, exportWorld>>

\* _cleanup_exports looks at each tombstone once: a leased one is left, then the
\* file goes, then the row in a transaction of its own.
SweepFile(e) ==
    /\ exportHistory.by \in Sweepers
    /\ exportHistory.removed = {}
    /\ e \in exportHistory.todo
    /\ IF exportLease[e] > 0
       THEN /\ exportHistory' = [exportHistory EXCEPT !.todo = @ \ {e}]
            /\ UNCHANGED exportFile
       ELSE /\ exportHistory' = [exportHistory EXCEPT !.todo = @ \ {e}, !.removed = {e}]
            /\ exportFile' = [exportFile EXCEPT ![e] = FALSE]
    /\ UNCHANGED <<exportRows, exportProject, exportWork, exportReaders, exportRemoval,
                   exportFaults, exportWorld>>

SweepRow(e) ==
    /\ e \in exportHistory.removed
    /\ exportRow' = [exportRow EXCEPT ![e] = "none"]
    /\ exportHistory' = [exportHistory EXCEPT !.removed = {}]
    /\ UNCHANGED <<exportJob, exportTimes, exportFile, exportProject, exportWork, exportReaders,
                   exportRemoval, exportFaults, exportWorld>>

\* The holder of the history lock goes on where its sweep ends.
SweepLeaves(pc) ==
    /\ exportHistory' = FreeHistory
    /\ exportTask' = [x \in Export |->
          IF exportTask[x].pc = "sweeping" /\ exportHistory.by = "publish"
          THEN [exportTask[x] EXCEPT !.pc = pc]
          ELSE exportTask[x]]
    /\ UNCHANGED <<exportRows, exportFile, exportProject, exportApi, exportOwner, exportInterrupt,
                   exportLock, exportReaders, exportRemoval, exportWorld>>

SweepEnds ==
    /\ exportHistory.by \in Sweepers
    /\ exportHistory.todo = {} /\ exportHistory.removed = {}
    /\ SweepLeaves("published")
    /\ UNCHANGED exportFaults

\* A file that cannot be removed is skipped; a failing transaction ends the sweep.
SweepFails ==
    /\ ExportFault
    /\ \/ \E e \in exportHistory.todo :
             /\ exportHistory' = [exportHistory EXCEPT !.todo = @ \ {e}]
             /\ UNCHANGED <<exportRows, exportFile, exportProject, exportWork, exportReaders,
                            exportRemoval, exportWorld>>
       \/ exportHistory.removed # {} /\ SweepLeaves("failing")

-----------------------------------------------------------------------------
(* Desktop downloads                                                       *)

\* open_export, under the history lock from the check to the lease.
OpenExport(e) ==
    /\ Desktop /\ Serving /\ HistoryFree /\ ~Removing
    /\ exportProject # "gone"
    /\ exportRow[e] = "done" /\ exportFile[e]
    /\ exportLease[e] < MaxLeases
    /\ exportLease' = [exportLease EXCEPT ![e] = @ + 1]
    /\ UNCHANGED <<exportRows, exportFile, exportProject, exportWork, exportHistory, exportClosing,
                   exportRemoval, exportFaults, exportWorld>>

\* The last lease of an export makes its owner sweep.
CloseExport(e) ==
    /\ exportLease[e] > 0
    /\ exportLease' = [exportLease EXCEPT ![e] = @ - 1]
    /\ exportClosing' = [exportClosing EXCEPT ![e] = @ \/ exportLease[e] = 1]
    /\ UNCHANGED <<exportRows, exportFile, exportProject, exportWork, exportHistory, exportRemoval,
                   exportFaults, exportWorld>>

ReclaimExports(e) ==
    /\ exportClosing[e]
    /\ HistoryFree
    /\ exportClosing' = [exportClosing EXCEPT ![e] = FALSE]
    /\ exportHistory' = [by |-> "close", removed |-> {},
                         todo |-> {x \in Export : exportRow[x] = "deleting"}]
    /\ UNCHANGED <<exportRows, exportFile, exportProject, exportWork, exportLease, exportRemoval,
                   exportFaults, exportWorld>>

-----------------------------------------------------------------------------
(* Cancellation, interruption and recovery                                 *)

\* The hour is over, or the worker is told to stop.  The render goes on under its
\* shield; a recording is abandoned and a thread that has not started never does.
CancelledTask(t) == [pc |-> IF t.pc = "waiting" THEN "idle" ELSE t.pc, cancelled |-> TRUE]

CancelExport(e) ==
    /\ exportTask[e].pc # "idle" /\ ~exportTask[e].cancelled
    /\ \/ exportTask' = [exportTask EXCEPT ![e] = CancelledTask(@)]
       \/ exportTask' = [exportTask EXCEPT ![e].cancelled = TRUE]
    /\ UNCHANGED <<exportRows, exportFile, exportProject, exportApi, exportOwner, exportInterrupt,
                   exportLock, exportHistory, exportReaders, exportRemoval, exportFaults, exportWorld>>

ExportTaskEnded(e) ==
    \/ exportTask[e].pc = "idle"
    \/ exportTask[e].cancelled /\ exportTask[e].pc \in {"recording", "recorded"}

SetExportInterrupt(e, pc) == exportInterrupt' = [exportInterrupt EXCEPT ![e] = pc]

\* Every interruption starts by looking whether the job is still active.
InterruptExport(e) ==
    /\ exportInterrupt[e] = "idle"
    /\ SetExportInterrupt(e, IF exportJob[e] \in ActiveJob THEN "locking" ELSE "idle")
    /\ UNCHANGED <<exportRows, exportFile, exportProject, exportApi, exportLock, exportHistory,
                   exportReaders, exportRemoval, exportFaults, exportWorld>>

\* Desktop's consumer interrupts a cancelled job, and one taken too late to start.
ConsumerInterrupts(e) ==
    /\ Desktop
    /\ \/ /\ exportOwner[e] = "consumer"
          /\ exportTask[e].cancelled /\ ExportTaskEnded(e)
          /\ exportTask' = [exportTask EXCEPT ![e].cancelled = FALSE]
       \/ /\ exportOwner[e] = "queue"
          /\ exportPhase = "stopping"
          /\ UNCHANGED exportTask
    /\ exportOwner' = [exportOwner EXCEPT ![e] = "consumer"]
    /\ InterruptExport(e)

ConsumerReturns(e) ==
    /\ exportOwner[e] = "consumer"
    /\ exportTask[e].pc = "idle"
    /\ Desktop => ~exportTask[e].cancelled /\ exportInterrupt[e] = "idle"
    /\ exportOwner' = [exportOwner EXCEPT ![e] = "none"]
    /\ exportTask' = [exportTask EXCEPT ![e] = IdleTask]
    /\ UNCHANGED <<exportRows, exportFile, exportProject, exportApi, exportInterrupt, exportLock,
                   exportHistory, exportReaders, exportRemoval, exportFaults, exportWorld>>

\* The recovery passes: Desktop's leaves out what it has submitted; neither looks at
\* a row younger than two minutes, as an admission in progress always is.
RecoverExport(e) ==
    /\ exportJob[e] \in ActiveJob
    /\ exportApi[e] \in {"idle", "ended"}
    /\ Desktop => exportOwner[e] = "none" /\ exportPhase \in {"accepting", "starting"}
    /\ InterruptExport(e)
    /\ UNCHANGED <<exportOwner, exportTask>>

LeaveInterrupt(e) == SetExportInterrupt(e, "idle") /\ DropLock(e)

\* The lock is not waited for.  Web leaves a queued job to a queue that has it.
InterruptExportStep(e) ==
    /\ \/ /\ exportInterrupt[e] = "locking"
          /\ IF exportLock[e] = "free"
             THEN /\ exportLock' = [exportLock EXCEPT ![e] = "interrupt"]
                  /\ SetExportInterrupt(e, "locked")
             ELSE SetExportInterrupt(e, "idle") /\ UNCHANGED exportLock
          /\ UNCHANGED <<exportRow, exportJob>>
       \/ /\ exportInterrupt[e] = "locked"
          /\ IF \/ exportJob[e] \notin ActiveJob
                \/ Web /\ exportJob[e] = "queued" /\ exportOwner[e] # "none"
             THEN LeaveInterrupt(e) /\ UNCHANGED exportJob
             ELSE /\ exportJob' = [exportJob EXCEPT ![e] = "error"]
                  /\ SetExportInterrupt(e, "marked")
                  /\ UNCHANGED exportLock
          /\ UNCHANGED exportRow
       \/ /\ exportInterrupt[e] = "marked"
          /\ exportRow' = StatusSet(e, "error")
          /\ LeaveInterrupt(e)
          /\ UNCHANGED exportJob
    /\ UNCHANGED <<exportTimes, exportFile, exportProject, exportApi, exportOwner, exportTask,
                   exportHistory, exportReaders, exportRemoval, exportFaults, exportWorld>>

InterruptExportFails(e) ==
    /\ exportInterrupt[e] \in {"locked", "marked"}
    /\ exportPhase # "starting"
    /\ ExportFault
    /\ LeaveInterrupt(e)
    /\ UNCHANGED <<exportRows, exportFile, exportProject, exportApi, exportOwner, exportTask,
                   exportHistory, exportReaders, exportRemoval, exportWorld>>

-----------------------------------------------------------------------------
(* Removal of the project                                                  *)

NoExportActive == \A e \in Export : ~ExportActive(e)
NoDownloads == \A e \in Export : exportLease[e] = 0

\* Desktop marks the project under the history lock; Web keeps the lock to the end, marks
\* nothing, and starts again with what an earlier removal has left.
BeginRemoval ==
    /\ Serving /\ HistoryFree
    /\ exportRemoval = "idle"
    /\ exportProject = "listed" \/ (Web /\ exportProject \in {"emptying", "emptied"})
    /\ NoExportActive
    /\ Desktop => NoDownloads
    /\ exportRemoval' = "first"
    /\ IF Desktop
       THEN exportProject' = "marked" /\ UNCHANGED exportHistory
       ELSE exportHistory' = [FreeHistory EXCEPT !.by = "removal"] /\ UNCHANGED exportProject
    /\ UNCHANGED <<exportRows, exportFile, exportWork, exportReaders, exportFaults, exportWorld>>

\* A marked project is removed again after a look at the rows only.
RetryRemoval ==
    /\ Desktop /\ Serving
    /\ exportRemoval = "idle"
    /\ exportProject \in {"marked", "emptying"}
    /\ NoExportActive
    /\ exportRemoval' = "retry"
    /\ UNCHANGED <<exportRows, exportFile, exportProject, exportWork, exportHistory, exportReaders,
                   exportFaults, exportWorld>>

\* rmtree takes one file after the other, in no order, and the directory when it is empty.
\* It may stop in between (RemovalFails, EngineDies): the files it took are gone, and
\* their rows are still there.
RemoveFile(e) ==
    /\ exportRemoval # "idle"
    /\ exportFile[e]
    /\ exportFile' = [exportFile EXCEPT ![e] = FALSE]
    /\ exportProject' = "emptying"
    /\ UNCHANGED <<exportRows, exportWork, exportHistory, exportReaders, exportRemoval,
                   exportFaults, exportWorld>>

RemoveDirectory ==
    /\ exportRemoval # "idle"
    /\ exportProject # "emptied"
    /\ \A e \in Export : ~exportFile[e]
    /\ exportProject' = "emptied"
    /\ UNCHANGED <<exportRows, exportFile, exportWork, exportHistory, exportReaders, exportRemoval,
                   exportFaults, exportWorld>>

RemoveFiles == RemoveDirectory \/ \E e \in Export : RemoveFile(e)

EndRemoval ==
    /\ exportRemoval' = "idle"
    /\ exportHistory' = IF Web THEN FreeHistory ELSE exportHistory

\* Desktop looks at the rows again; the rows of exports and jobs go with the project's.
RemoveProjectRow ==
    /\ exportRemoval # "idle"
    /\ exportProject = "emptied"
    /\ IF Web \/ NoExportActive
       THEN /\ exportRow' = [e \in Export |-> "none"]
            /\ exportJob' = [e \in Export |-> "none"]
            /\ exportDone' = [e \in Export |-> 0] /\ UNCHANGED exportClock
            /\ exportProject' = "gone"
       ELSE UNCHANGED <<exportRows, exportProject>>
    /\ EndRemoval
    /\ UNCHANGED <<exportFile, exportWork, exportReaders, exportFaults, exportWorld>>

\* A file in use, at any point of rmtree, or a failing transaction: what is done stays done.
RemovalFails ==
    /\ exportRemoval # "idle"
    /\ ExportFault
    /\ EndRemoval
    /\ UNCHANGED <<exportRows, exportFile, exportProject, exportWork, exportReaders, exportWorld>>

\* Desktop: the directory is gone already; rows and leases are looked at in one
\* transaction with the deletion.
ForgetProject ==
    /\ Desktop /\ Serving
    /\ exportRemoval = "idle"
    /\ exportProject = "emptied"
    /\ NoExportActive /\ NoDownloads
    /\ exportRow' = [e \in Export |-> "none"]
    /\ exportJob' = [e \in Export |-> "none"]
    /\ exportDone' = [e \in Export |-> 0] /\ UNCHANGED exportClock
    /\ exportProject' = "gone"
    /\ UNCHANGED <<exportFile, exportWork, exportHistory, exportReaders, exportRemoval,
                   exportFaults, exportWorld>>

ProjectRemovalStep == RemoveFiles \/ RemoveProjectRow

-----------------------------------------------------------------------------
(* The life of the engine and of the Web processes                         *)

Phase(from, to) == exportPhase = from /\ exportPhase' = to

\* stop cancels every supervisor; what is still queued is interrupted.
BeginExportStop ==
    /\ Desktop
    /\ exportStops < MaxExportStops
    /\ Phase("accepting", "stopping")
    /\ exportStops' = exportStops + 1
    /\ exportTask' = [e \in Export |-> IF exportTask[e].pc = "idle" THEN exportTask[e]
                                       ELSE [exportTask[e] EXCEPT !.cancelled = TRUE]]
    /\ UNCHANGED <<exportRows, exportFile, exportProject, exportApi, exportOwner, exportInterrupt,
                   exportLock, exportHistory, exportReaders, exportRemoval, exportFaults,
                   exportPlatform>>

\* The server has answered its requests before, and the engine waits for its tasks.
ExportsStopped ==
    /\ Phase("stopping", "down")
    /\ \A e \in Export : /\ exportOwner[e] = "none" /\ exportInterrupt[e] = "idle"
                          /\ exportTask[e].pc = "idle"
                          /\ exportApi[e] \in {"idle", "ended"}
                          /\ exportLease[e] = 0 /\ ~exportClosing[e]
    /\ exportRemoval = "idle"
    /\ HistoryFree
    /\ UNCHANGED <<exportRows, exportFile, exportProject, exportWork, exportHistory, exportReaders,
                   exportRemoval, exportFaults, exportPlatform, exportStops>>

LaunchExports ==
    /\ Phase("down", "starting")
    /\ UNCHANGED <<exportRows, exportFile, exportProject, exportWork, exportHistory, exportReaders,
                   exportRemoval, exportFaults, exportPlatform, exportStops>>

\* recover(startup=True) comes first.
OpenExports ==
    /\ Phase("starting", "accepting")
    /\ \A e \in Export : exportJob[e] \notin ActiveJob /\ exportInterrupt[e] = "idle"
    /\ UNCHANGED <<exportRows, exportFile, exportProject, exportWork, exportHistory, exportReaders,
                   exportRemoval, exportFaults, exportPlatform, exportStops>>

EngineDies ==
    /\ Desktop /\ ExportFault
    /\ exportPhase # "down" /\ exportPhase' = "down"
    /\ exportApi' = [e \in Export |-> IF exportApi[e] = "idle" THEN "idle" ELSE "ended"]
    /\ exportOwner' = [e \in Export |-> "none"]
    /\ exportTask' = [e \in Export |-> IdleTask]
    /\ exportInterrupt' = [e \in Export |-> "idle"]
    /\ exportLock' = [e \in Export |-> "free"]
    /\ exportHistory' = FreeHistory
    /\ exportLease' = [e \in Export |-> 0]
    /\ exportClosing' = [e \in Export |-> FALSE]
    /\ exportRemoval' = "idle"
    /\ UNCHANGED <<exportRows, exportFile, exportProject, exportPlatform, exportStops>>

\* A Web worker dies: its sessions drop its locks, and the job is not tried again.
WorkerDies(e) ==
    /\ Web /\ ExportFault
    /\ exportOwner[e] = "consumer"
    /\ exportOwner' = [exportOwner EXCEPT ![e] = "none"]
    /\ exportTask' = [exportTask EXCEPT ![e] = IdleTask]
    /\ IF exportLock[e] = "task" THEN DropLock(e) ELSE UNCHANGED exportLock
    /\ UNCHANGED <<exportRows, exportFile, exportProject, exportApi, exportInterrupt, exportHistory,
                   exportReaders, exportRemoval, exportPlatform, exportPhase, exportStops>>

ApiDies(e) ==
    /\ Web /\ ExportFault
    /\ exportApi[e] \in {"admitted", "failed", "undoing"}
    /\ SetExportApi(e, "ended")
    /\ UNCHANGED <<exportRows, exportFile, exportProject, exportOwner, exportTask, exportInterrupt,
                   exportLock, exportHistory, exportReaders, exportRemoval, exportPlatform,
                   exportPhase, exportStops>>

-----------------------------------------------------------------------------

ExportTaskStep(e) ==
    LockExport(e) \/ RecordExport(e) \/ RenderExport(e) \/ PublishDesktop(e) \/ PublishWeb(e)

ExportSweep == (\E e \in Export : SweepFile(e) \/ SweepRow(e)) \/ SweepEnds

ExportNext ==
    \/ \E e \in Export :
          \/ AdmitExport(e) \/ ExportRequestStep(e) \/ EnqueueExportFails(e)
          \/ ConsumeExport(e) \/ ExportTaskStep(e) \/ ExportTaskFails(e) \/ CancelExport(e)
          \/ OpenExport(e) \/ CloseExport(e) \/ ReclaimExports(e)
          \/ ConsumerInterrupts(e) \/ ConsumerReturns(e) \/ RecoverExport(e)
          \/ InterruptExportStep(e) \/ InterruptExportFails(e)
          \/ WorkerDies(e) \/ ApiDies(e)
    \/ ExportSweep \/ SweepFails
    \/ BeginRemoval \/ RetryRemoval \/ ProjectRemovalStep \/ RemovalFails \/ ForgetProject
    \/ BeginExportStop \/ ExportsStopped \/ LaunchExports \/ OpenExports \/ EngineDies

ExportSpec == ExportInit /\ [][ExportNext]_exportVars

\* What goes on by itself: requests, consumers, threads and the recovery loops; not
\* admissions, downloads, removals, cancellations or failures.  A lock that is
\* polled is taken in the end: recoveries and downloads hold it for an instant.
ExportFairness ==
    /\ \A e \in Export :
          /\ WF_exportVars(ExportRequestStep(e) \/ EnqueueExportFails(e))
          /\ WF_exportVars(ConsumeExport(e) \/ ConsumerInterrupts(e) \/ ConsumerReturns(e))
          /\ WF_exportVars(ExportTaskStep(e))
          /\ SF_exportVars(LockExport(e) \/ PublishDesktop(e) \/ PublishWeb(e))
          /\ WF_exportVars(RecoverExport(e))
          /\ WF_exportVars(InterruptExportStep(e))
    /\ WF_exportVars(ExportSweep)
    /\ WF_exportVars(ProjectRemovalStep)

ExportFairSpec == ExportSpec /\ ExportFairness

-----------------------------------------------------------------------------
(* Properties                                                              *)

NoExportTrouble == exportFaults = 0
AtRest(e) ==
    /\ exportApi[e] = "ended" /\ exportOwner[e] = "none"
    /\ exportTask[e].pc = "idle" /\ exportInterrupt[e] = "idle"

\* An export whose request and task are over, with nothing left to recover, shows the
\* same outcome in its row and in its job: the error path, the cancellation and
\* the interruption each write both.
JobsAndExportsAgree ==
    NoExportTrouble => \A e \in Export : AtRest(e) =>
        \/ exportJob[e] \in ActiveJob /\ exportRow[e] \in ActiveRow
        \/ exportJob[e] = "error" /\ exportRow[e] = "error"
        \/ exportJob[e] = "done" /\ exportRow[e] \in {"done", "deleting", "none"}
        \/ exportProject = "gone"

\* What the download list offers can be downloaded: expiry takes the row away, or
\* marks it, before or together with the file, whoever sweeps, fails or dies.  Only a
\* removal of the project that has begun to take files leaves rows without theirs; as
\* long as it has not, a marked project keeps them all, and on Desktop, which marks it
\* first, every listed project does.
PublishedFilesExist ==
    (Desktop \/ exportFaults = 0) /\ exportProject \in {"listed", "marked"} =>
        \A e \in Export : exportRow[e] = "done" => exportFile[e]

\* However publications, failures and crashes follow one another, at most
\* EXPORT_LIMIT exports stay published.
HistoryIsBounded ==
    Desktop \/ exportFaults = 0 =>
        Cardinality({e \in Export : exportRow[e] = "done"}) <= EXPORT_LIMIT

\* A task that renders or publishes is never declared lost under its feet: its job
\* and row stay running until it ends them itself.
ExportWorkIsNotDeclaredLost ==
    \A e \in Export : exportTask[e].pc \in {"rendering", "publishing"} =>
        exportInterrupt[e] \in {"idle", "locking"} /\ (Web \/ exportJob[e] # "error")

\* A published Desktop export is only ever expired or removed: no late failure,
\* recovery or undone admission takes it back.
PublishedStaysPublished ==
    [][\A e \in Export : Desktop /\ exportRow[e] = "done" =>
          exportRow'[e] \in {"done", "deleting", "none"}]_exportVars

\* A file somebody is downloading is not expired, and not removed with its project
\* by a removal that starts from a listed project.  A removal that is tried again
\* looks at the rows only, and does take the file (remove_project).
DownloadsKeepTheirFile ==
    [][\A e \in Export : exportLease[e] > 0 /\ exportFile[e] /\ ~exportFile'[e] =>
          exportRemoval = "retry"]_exportVars

\* The exports of a project, their jobs and their files tell one story, through every
\* failure, cancellation, recovery, expiry and removal.
ExportsAreConsistent ==
    /\ JobsAndExportsAgree
    /\ PublishedFilesExist
    /\ HistoryIsBounded
    /\ ExportWorkIsNotDeclaredLost

\* What has been published, and what is being downloaded, goes only where its user can
\* expect it to.
PublicationsLast == PublishedStaysPublished /\ DownloadsKeepTheirFile

\* Every admitted export comes to an end, through the stops of the engine, the hour's
\* limit and lost admissions, when nothing fails or dies.
ExportsEnd ==
    [](NoExportTrouble) =>
        \A e \in Export : (exportJob[e] \in ActiveJob) ~> (exportJob[e] \notin ActiveJob)

=============================================================================
