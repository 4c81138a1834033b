----------------------------- MODULE CatalogProofs -----------------------------
(***************************************************************************)
(* Theorems of the shared catalog: the exports of a project, for any       *)
(* number of them, of downloads, faults and shutdowns, and the import of   *)
(* old workspaces, for any number of workspaces, rows, crashes and losses. *)
(* Exports and CatalogMigration share no variable; each theorem is about   *)
(* the behaviours of one.                                                  *)
(***************************************************************************)
EXTENDS Exports, CatalogMigration, FiniteSetTheorems, TLAPS

-----------------------------------------------------------------------------
(* The exports of a project                                                *)

\* The steps of Exports in groups that change the same things.
RequestActs(e) == AdmitExport(e) \/ EnqueueExport(e) \/ EnqueueExportFails(e)
                  \/ FailExportAdmission(e) \/ UndoExport(e)
TaskActs(e) == ConsumeExport(e) \/ LockExport(e) \/ RecordExport(e) \/ RenderExport(e)
               \/ ExportTaskFails(e) \/ CancelExport(e)
PublishActs(e) == PublishDesktop(e) \/ PublishWeb(e)
ReaderActs(e) == OpenExport(e) \/ CloseExport(e) \/ ReclaimExports(e)
SweepActs == (\E e \in Export : SweepFile(e) \/ SweepRow(e)) \/ SweepEnds \/ SweepFails
InterruptActs(e) == ConsumerInterrupts(e) \/ ConsumerReturns(e) \/ RecoverExport(e)
                    \/ InterruptExportStep(e) \/ InterruptExportFails(e)
DeathActs(e) == WorkerDies(e) \/ ApiDies(e)
RemovalActs == BeginRemoval \/ RetryRemoval \/ RemoveFiles \/ RemoveProjectRow
               \/ RemovalFails \/ ForgetProject
EngineActs == BeginExportStop \/ ExportsStopped \/ LaunchExports \/ OpenExports \/ EngineDies

LEMMA ExportActs ==
    ASSUME [ExportNext]_exportVars
    PROVE  \/ \E e \in Export : RequestActs(e) \/ TaskActs(e) \/ PublishActs(e) \/ ReaderActs(e)
                                \/ InterruptActs(e) \/ DeathActs(e)
           \/ SweepActs \/ RemovalActs \/ EngineActs \/ UNCHANGED exportVars
BY DEF ExportNext, ExportRequestStep, ExportTaskStep, ExportSweep, ProjectRemovalStep, RequestActs,
       TaskActs, PublishActs, ReaderActs, SweepActs, InterruptActs, DeathActs, RemovalActs, EngineActs

TypesOfRows ==
    /\ exportPlatform \in {"desktop", "web"}
    /\ exportRow \in [Export -> {"none", "pending", "running", "done", "error", "deleting"}]
    /\ exportJob \in [Export -> {"none", "queued", "running", "done", "error"}]
TypesOfTimes ==
    /\ exportClock \in Nat /\ exportDone \in [Export -> 0..exportClock]
TypesOfFiles ==
    /\ exportFile \in [Export -> BOOLEAN]
    /\ exportProject \in {"listed", "marked", "emptying", "emptied", "gone"}
TypesOfRequests ==
    /\ exportApi \in [Export -> {"idle", "admitted", "failed", "undoing", "ended"}]
    /\ exportOwner \in [Export -> {"none", "queue", "consumer"}]
TypesOfTasks == exportTask \in [Export -> [pc : TaskPcs, cancelled : BOOLEAN]]
TypesOfInterrupts ==
    /\ exportInterrupt \in [Export -> {"idle", "locking", "locked", "marked"}]
    /\ exportLock \in [Export -> {"free", "task", "interrupt"}]
TypesOfHistory ==
    exportHistory \in [by : {"free", "removal"} \cup Sweepers,
                       todo : SUBSET Export, removed : SUBSET Export]
TypesOfReaders ==
    /\ exportLease \in [Export -> 0..MaxLeases]
    /\ exportClosing \in [Export -> BOOLEAN]
    /\ exportRemoval \in {"idle", "first", "retry"}
TypesOfBounds ==
    /\ exportPhase \in {"accepting", "stopping", "down", "starting"}
    /\ exportFaults \in 0..MaxExportFaults
    /\ exportStops \in 0..MaxExportStops

LEMMA TypesOfExports ==
    ExportTypeOK <=>
        /\ TypesOfRows /\ TypesOfTimes /\ TypesOfFiles /\ TypesOfRequests /\ TypesOfTasks
        /\ TypesOfInterrupts /\ TypesOfHistory /\ TypesOfReaders /\ TypesOfBounds
BY DEF ExportTypeOK, TypesOfRows, TypesOfTimes, TypesOfFiles, TypesOfRequests, TypesOfTasks,
       TypesOfInterrupts, TypesOfHistory, TypesOfReaders, TypesOfBounds
LEMMA TypesRowsKept ==
    ASSUME TypesOfRows, [ExportNext]_exportVars
    PROVE  TypesOfRows'
<1> USE ExportAssumption DEF TypesOfRows, Desktop, Web, ExportFault, exportVars, exportRows,
    exportTimes, exportWork, exportReaders, exportWorld
<1>1. ASSUME NEW e \in Export, RequestActs(e) PROVE TypesOfRows'
  BY <1>1 DEF RequestActs, AdmitExport, EnqueueExport, EnqueueExportFails, FailExportAdmission,
      UndoExport, SetExportApi, StatusSet, JobSet
<1>2. ASSUME NEW e \in Export, TaskActs(e) PROVE TypesOfRows'
  BY <1>2 DEF TaskActs, ConsumeExport, LockExport, RecordExport, RenderExport, ExportTaskFails,
      CancelExport, Task, DropLock, WriteJob, WriteExport, AfterError, CancelledTask, StatusSet,
      JobSet, TaskPcs
<1>3. ASSUME NEW e \in Export, PublishActs(e) PROVE TypesOfRows'
  BY <1>3 DEF PublishActs, PublishDesktop, PublishWeb, Expired, HistoryFree, Task, TaskPcs
<1>4. ASSUME NEW e \in Export, ReaderActs(e) PROVE TypesOfRows'
  BY <1>4 DEF ReaderActs, OpenExport, CloseExport, ReclaimExports, HistoryFree, Removing
<1>5. ASSUME NEW e \in Export, InterruptActs(e) PROVE TypesOfRows'
  BY <1>5 DEF InterruptActs, ConsumerInterrupts, ConsumerReturns, RecoverExport,
      InterruptExportStep, InterruptExportFails, InterruptExport, SetExportInterrupt,
      LeaveInterrupt, DropLock, StatusSet, ExportTaskEnded, IdleTask, ActiveJob
<1>6. ASSUME NEW e \in Export, DeathActs(e) PROVE TypesOfRows'
  BY <1>6 DEF DeathActs, WorkerDies, ApiDies, SetExportApi, IdleTask, DropLock
<1>7. CASE SweepActs
  BY <1>7 DEF SweepActs, SweepFile, SweepRow, SweepEnds, SweepFails, SweepLeaves, FreeHistory,
      Sweepers, TaskPcs
<1>8. CASE RemovalActs
  BY <1>8 DEF RemovalActs, BeginRemoval, RetryRemoval, RemoveFiles, RemoveFile, RemoveDirectory,
      RemoveProjectRow, RemovalFails, ForgetProject, EndRemoval, FreeHistory, NoExportActive,
      NoDownloads, HistoryFree
<1>9. CASE EngineActs
  BY <1>9 DEF EngineActs, BeginExportStop, ExportsStopped, LaunchExports, OpenExports,
      EngineDies, Phase, FreeHistory, IdleTask, HistoryFree
<1>10. CASE UNCHANGED exportVars
  BY <1>10
<1> QED BY <1>1, <1>2, <1>3, <1>4, <1>5, <1>6, <1>7, <1>8, <1>9, <1>10, ExportActs

LEMMA TypesTimesKept ==
    ASSUME TypesOfTimes, [ExportNext]_exportVars
    PROVE  TypesOfTimes'
<1> USE ExportAssumption DEF TypesOfTimes, Desktop, Web, ExportFault, exportVars, exportRows,
    exportTimes, exportWork, exportReaders, exportWorld
<1>1. ASSUME NEW e \in Export, RequestActs(e) PROVE TypesOfTimes'
  BY <1>1 DEF RequestActs, AdmitExport, EnqueueExport, EnqueueExportFails, FailExportAdmission,
      UndoExport, SetExportApi, StatusSet, JobSet
<1>2. ASSUME NEW e \in Export, TaskActs(e) PROVE TypesOfTimes'
  BY <1>2 DEF TaskActs, ConsumeExport, LockExport, RecordExport, RenderExport, ExportTaskFails,
      CancelExport, Task, DropLock, WriteJob, WriteExport, AfterError, CancelledTask, StatusSet,
      JobSet, TaskPcs
<1>3. ASSUME NEW e \in Export, PublishActs(e) PROVE TypesOfTimes'
  BY <1>3 DEF PublishActs, PublishDesktop, PublishWeb, Expired, HistoryFree, Task, TaskPcs
<1>4. ASSUME NEW e \in Export, ReaderActs(e) PROVE TypesOfTimes'
  BY <1>4 DEF ReaderActs, OpenExport, CloseExport, ReclaimExports, HistoryFree, Removing
<1>5. ASSUME NEW e \in Export, InterruptActs(e) PROVE TypesOfTimes'
  BY <1>5 DEF InterruptActs, ConsumerInterrupts, ConsumerReturns, RecoverExport,
      InterruptExportStep, InterruptExportFails, InterruptExport, SetExportInterrupt,
      LeaveInterrupt, DropLock, StatusSet, ExportTaskEnded, IdleTask, ActiveJob
<1>6. ASSUME NEW e \in Export, DeathActs(e) PROVE TypesOfTimes'
  BY <1>6 DEF DeathActs, WorkerDies, ApiDies, SetExportApi, IdleTask, DropLock
<1>7. CASE SweepActs
  BY <1>7 DEF SweepActs, SweepFile, SweepRow, SweepEnds, SweepFails, SweepLeaves, FreeHistory,
      Sweepers, TaskPcs
<1>8. CASE RemovalActs
  BY <1>8 DEF RemovalActs, BeginRemoval, RetryRemoval, RemoveFiles, RemoveFile, RemoveDirectory,
      RemoveProjectRow, RemovalFails, ForgetProject, EndRemoval, FreeHistory, NoExportActive,
      NoDownloads, HistoryFree
<1>9. CASE EngineActs
  BY <1>9 DEF EngineActs, BeginExportStop, ExportsStopped, LaunchExports, OpenExports,
      EngineDies, Phase, FreeHistory, IdleTask, HistoryFree
<1>10. CASE UNCHANGED exportVars
  BY <1>10
<1> QED BY <1>1, <1>2, <1>3, <1>4, <1>5, <1>6, <1>7, <1>8, <1>9, <1>10, ExportActs

LEMMA TypesFilesKept ==
    ASSUME TypesOfFiles, [ExportNext]_exportVars
    PROVE  TypesOfFiles'
<1> USE ExportAssumption DEF TypesOfFiles, Desktop, Web, ExportFault, exportVars, exportRows,
    exportTimes, exportWork, exportReaders, exportWorld
<1>1. ASSUME NEW e \in Export, RequestActs(e) PROVE TypesOfFiles'
  BY <1>1 DEF RequestActs, AdmitExport, EnqueueExport, EnqueueExportFails, FailExportAdmission,
      UndoExport, SetExportApi, StatusSet, JobSet
<1>2. ASSUME NEW e \in Export, TaskActs(e) PROVE TypesOfFiles'
  BY <1>2 DEF TaskActs, ConsumeExport, LockExport, RecordExport, RenderExport, ExportTaskFails,
      CancelExport, Task, DropLock, WriteJob, WriteExport, AfterError, CancelledTask, StatusSet,
      JobSet, TaskPcs
<1>3. ASSUME NEW e \in Export, PublishActs(e) PROVE TypesOfFiles'
  BY <1>3 DEF PublishActs, PublishDesktop, PublishWeb, Expired, HistoryFree, Task, TaskPcs
<1>4. ASSUME NEW e \in Export, ReaderActs(e) PROVE TypesOfFiles'
  BY <1>4 DEF ReaderActs, OpenExport, CloseExport, ReclaimExports, HistoryFree, Removing
<1>5. ASSUME NEW e \in Export, InterruptActs(e) PROVE TypesOfFiles'
  BY <1>5 DEF InterruptActs, ConsumerInterrupts, ConsumerReturns, RecoverExport,
      InterruptExportStep, InterruptExportFails, InterruptExport, SetExportInterrupt,
      LeaveInterrupt, DropLock, StatusSet, ExportTaskEnded, IdleTask, ActiveJob
<1>6. ASSUME NEW e \in Export, DeathActs(e) PROVE TypesOfFiles'
  BY <1>6 DEF DeathActs, WorkerDies, ApiDies, SetExportApi, IdleTask, DropLock
<1>7. CASE SweepActs
  BY <1>7 DEF SweepActs, SweepFile, SweepRow, SweepEnds, SweepFails, SweepLeaves, FreeHistory,
      Sweepers, TaskPcs
<1>8. CASE RemovalActs
  BY <1>8 DEF RemovalActs, BeginRemoval, RetryRemoval, RemoveFiles, RemoveFile, RemoveDirectory,
      RemoveProjectRow, RemovalFails, ForgetProject, EndRemoval, FreeHistory, NoExportActive,
      NoDownloads, HistoryFree
<1>9. CASE EngineActs
  BY <1>9 DEF EngineActs, BeginExportStop, ExportsStopped, LaunchExports, OpenExports,
      EngineDies, Phase, FreeHistory, IdleTask, HistoryFree
<1>10. CASE UNCHANGED exportVars
  BY <1>10
<1> QED BY <1>1, <1>2, <1>3, <1>4, <1>5, <1>6, <1>7, <1>8, <1>9, <1>10, ExportActs

LEMMA TypesRequestsKept ==
    ASSUME TypesOfRequests, [ExportNext]_exportVars
    PROVE  TypesOfRequests'
<1> USE ExportAssumption DEF TypesOfRequests, Desktop, Web, ExportFault, exportVars, exportRows,
    exportTimes, exportWork, exportReaders, exportWorld
<1>1. ASSUME NEW e \in Export, RequestActs(e) PROVE TypesOfRequests'
  BY <1>1 DEF RequestActs, AdmitExport, EnqueueExport, EnqueueExportFails, FailExportAdmission,
      UndoExport, SetExportApi, StatusSet, JobSet
<1>2. ASSUME NEW e \in Export, TaskActs(e) PROVE TypesOfRequests'
  BY <1>2 DEF TaskActs, ConsumeExport, LockExport, RecordExport, RenderExport, ExportTaskFails,
      CancelExport, Task, DropLock, WriteJob, WriteExport, AfterError, CancelledTask, StatusSet,
      JobSet, TaskPcs
<1>3. ASSUME NEW e \in Export, PublishActs(e) PROVE TypesOfRequests'
  BY <1>3 DEF PublishActs, PublishDesktop, PublishWeb, Expired, HistoryFree, Task, TaskPcs
<1>4. ASSUME NEW e \in Export, ReaderActs(e) PROVE TypesOfRequests'
  BY <1>4 DEF ReaderActs, OpenExport, CloseExport, ReclaimExports, HistoryFree, Removing
<1>5. ASSUME NEW e \in Export, InterruptActs(e) PROVE TypesOfRequests'
  BY <1>5 DEF InterruptActs, ConsumerInterrupts, ConsumerReturns, RecoverExport,
      InterruptExportStep, InterruptExportFails, InterruptExport, SetExportInterrupt,
      LeaveInterrupt, DropLock, StatusSet, ExportTaskEnded, IdleTask, ActiveJob
<1>6. ASSUME NEW e \in Export, DeathActs(e) PROVE TypesOfRequests'
  BY <1>6 DEF DeathActs, WorkerDies, ApiDies, SetExportApi, IdleTask, DropLock
<1>7. CASE SweepActs
  BY <1>7 DEF SweepActs, SweepFile, SweepRow, SweepEnds, SweepFails, SweepLeaves, FreeHistory,
      Sweepers, TaskPcs
<1>8. CASE RemovalActs
  BY <1>8 DEF RemovalActs, BeginRemoval, RetryRemoval, RemoveFiles, RemoveFile, RemoveDirectory,
      RemoveProjectRow, RemovalFails, ForgetProject, EndRemoval, FreeHistory, NoExportActive,
      NoDownloads, HistoryFree
<1>9. CASE EngineActs
  BY <1>9 DEF EngineActs, BeginExportStop, ExportsStopped, LaunchExports, OpenExports,
      EngineDies, Phase, FreeHistory, IdleTask, HistoryFree
<1>10. CASE UNCHANGED exportVars
  BY <1>10
<1> QED BY <1>1, <1>2, <1>3, <1>4, <1>5, <1>6, <1>7, <1>8, <1>9, <1>10, ExportActs

LEMMA TypesTasksKept ==
    ASSUME TypesOfTasks, [ExportNext]_exportVars
    PROVE  TypesOfTasks'
<1> USE ExportAssumption DEF TypesOfTasks, Desktop, Web, ExportFault, exportVars, exportRows,
    exportTimes, exportWork, exportReaders, exportWorld
<1>1. ASSUME NEW e \in Export, RequestActs(e) PROVE TypesOfTasks'
  BY <1>1 DEF RequestActs, AdmitExport, EnqueueExport, EnqueueExportFails, FailExportAdmission,
      UndoExport, SetExportApi, StatusSet, JobSet
<1>2. ASSUME NEW e \in Export, TaskActs(e) PROVE TypesOfTasks'
  <2>1. CASE ConsumeExport(e)
    BY <2>1 DEF ConsumeExport, TaskPcs
  <2>2. CASE LockExport(e)
    BY <2>2 DEF LockExport, Task, TaskPcs
  <2>3. CASE RecordExport(e)
    BY <2>3 DEF RecordExport, WriteJob, WriteExport, AfterError, Task, TaskPcs
  <2>4. CASE RenderExport(e)
    BY <2>4 DEF RenderExport, Task, TaskPcs
  <2>5. CASE ExportTaskFails(e)
    BY <2>5 DEF ExportTaskFails, Task, AfterError, TaskPcs
  <2>6. CASE CancelExport(e)
    <3>1. CancelledTask(exportTask[e]) \in [pc : TaskPcs, cancelled : BOOLEAN]
      BY DEF CancelledTask, TaskPcs
    <3>2. QED BY <2>6, <3>1 DEF CancelExport
  <2> QED BY <1>2, <2>1, <2>2, <2>3, <2>4, <2>5, <2>6 DEF TaskActs
<1>3. ASSUME NEW e \in Export, PublishActs(e) PROVE TypesOfTasks'
  BY <1>3 DEF PublishActs, PublishDesktop, PublishWeb, Expired, HistoryFree, Task, TaskPcs
<1>4. ASSUME NEW e \in Export, ReaderActs(e) PROVE TypesOfTasks'
  BY <1>4 DEF ReaderActs, OpenExport, CloseExport, ReclaimExports, HistoryFree, Removing
<1>5. ASSUME NEW e \in Export, InterruptActs(e) PROVE TypesOfTasks'
  <2>1. CASE ConsumerInterrupts(e)
    BY <2>1 DEF ConsumerInterrupts, TaskPcs
  <2>2. CASE ConsumerReturns(e)
    BY <2>2 DEF ConsumerReturns, IdleTask, TaskPcs
  <2>3. CASE RecoverExport(e)
    BY <2>3 DEF RecoverExport, TaskPcs
  <2>4. CASE InterruptExportStep(e)
    BY <2>4 DEF InterruptExportStep, TaskPcs
  <2>5. CASE InterruptExportFails(e)
    BY <2>5 DEF InterruptExportFails, TaskPcs
  <2> QED BY <1>5, <2>1, <2>2, <2>3, <2>4, <2>5 DEF InterruptActs
<1>6. ASSUME NEW e \in Export, DeathActs(e) PROVE TypesOfTasks'
  <2>1. CASE WorkerDies(e)
    BY <2>1 DEF WorkerDies, IdleTask, TaskPcs
  <2>2. CASE ApiDies(e)
    BY <2>2 DEF ApiDies, TaskPcs
  <2> QED BY <1>6, <2>1, <2>2 DEF DeathActs
<1>7. CASE SweepActs
  <2>1. ASSUME NEW e \in Export, SweepFile(e) PROVE TypesOfTasks'
    BY <2>1 DEF SweepFile, TaskPcs
  <2>2. ASSUME NEW e \in Export, SweepRow(e) PROVE TypesOfTasks'
    BY <2>2 DEF SweepRow, TaskPcs
  <2>3. CASE SweepEnds
    BY <2>3 DEF SweepEnds, SweepLeaves, TaskPcs
  <2>4. CASE SweepFails
    BY <2>4 DEF SweepFails, SweepLeaves, TaskPcs
  <2> QED BY <1>7, <2>1, <2>2, <2>3, <2>4 DEF SweepActs
<1>8. CASE RemovalActs
  BY <1>8 DEF RemovalActs, BeginRemoval, RetryRemoval, RemoveFiles, RemoveFile, RemoveDirectory,
      RemoveProjectRow, RemovalFails, ForgetProject, EndRemoval, FreeHistory, NoExportActive,
      NoDownloads, HistoryFree
<1>9. CASE EngineActs
  <2>1. CASE BeginExportStop
    BY <2>1 DEF BeginExportStop, Phase, TaskPcs
  <2>2. CASE ExportsStopped
    BY <2>2 DEF ExportsStopped, Phase, TaskPcs
  <2>3. CASE LaunchExports
    BY <2>3 DEF LaunchExports, Phase, TaskPcs
  <2>4. CASE OpenExports
    BY <2>4 DEF OpenExports, Phase, TaskPcs
  <2>5. CASE EngineDies
    BY <2>5 DEF EngineDies, IdleTask, TaskPcs
  <2> QED BY <1>9, <2>1, <2>2, <2>3, <2>4, <2>5 DEF EngineActs
<1>10. CASE UNCHANGED exportVars
  BY <1>10
<1> QED BY <1>1, <1>2, <1>3, <1>4, <1>5, <1>6, <1>7, <1>8, <1>9, <1>10, ExportActs

LEMMA TypesInterruptsKept ==
    ASSUME TypesOfInterrupts, [ExportNext]_exportVars
    PROVE  TypesOfInterrupts'
<1> USE ExportAssumption DEF TypesOfInterrupts, Desktop, Web, ExportFault, exportVars,
    exportRows, exportTimes, exportWork, exportReaders, exportWorld
<1>1. ASSUME NEW e \in Export, RequestActs(e) PROVE TypesOfInterrupts'
  BY <1>1 DEF RequestActs, AdmitExport, EnqueueExport, EnqueueExportFails, FailExportAdmission,
      UndoExport, SetExportApi, StatusSet, JobSet
<1>2. ASSUME NEW e \in Export, TaskActs(e) PROVE TypesOfInterrupts'
  BY <1>2 DEF TaskActs, ConsumeExport, LockExport, RecordExport, RenderExport, ExportTaskFails,
      CancelExport, Task, DropLock, WriteJob, WriteExport, AfterError, CancelledTask, StatusSet,
      JobSet, TaskPcs
<1>3. ASSUME NEW e \in Export, PublishActs(e) PROVE TypesOfInterrupts'
  BY <1>3 DEF PublishActs, PublishDesktop, PublishWeb, Expired, HistoryFree, Task, TaskPcs
<1>4. ASSUME NEW e \in Export, ReaderActs(e) PROVE TypesOfInterrupts'
  BY <1>4 DEF ReaderActs, OpenExport, CloseExport, ReclaimExports, HistoryFree, Removing
<1>5. ASSUME NEW e \in Export, InterruptActs(e) PROVE TypesOfInterrupts'
  BY <1>5 DEF InterruptActs, ConsumerInterrupts, ConsumerReturns, RecoverExport,
      InterruptExportStep, InterruptExportFails, InterruptExport, SetExportInterrupt,
      LeaveInterrupt, DropLock, StatusSet, ExportTaskEnded, IdleTask, ActiveJob
<1>6. ASSUME NEW e \in Export, DeathActs(e) PROVE TypesOfInterrupts'
  BY <1>6 DEF DeathActs, WorkerDies, ApiDies, SetExportApi, IdleTask, DropLock
<1>7. CASE SweepActs
  BY <1>7 DEF SweepActs, SweepFile, SweepRow, SweepEnds, SweepFails, SweepLeaves, FreeHistory,
      Sweepers, TaskPcs
<1>8. CASE RemovalActs
  BY <1>8 DEF RemovalActs, BeginRemoval, RetryRemoval, RemoveFiles, RemoveFile, RemoveDirectory,
      RemoveProjectRow, RemovalFails, ForgetProject, EndRemoval, FreeHistory, NoExportActive,
      NoDownloads, HistoryFree
<1>9. CASE EngineActs
  BY <1>9 DEF EngineActs, BeginExportStop, ExportsStopped, LaunchExports, OpenExports,
      EngineDies, Phase, FreeHistory, IdleTask, HistoryFree
<1>10. CASE UNCHANGED exportVars
  BY <1>10
<1> QED BY <1>1, <1>2, <1>3, <1>4, <1>5, <1>6, <1>7, <1>8, <1>9, <1>10, ExportActs

LEMMA TypesHistoryKept ==
    ASSUME TypesOfHistory, [ExportNext]_exportVars
    PROVE  TypesOfHistory'
<1> USE ExportAssumption DEF TypesOfHistory, Desktop, Web, ExportFault, exportVars, exportRows,
    exportTimes, exportWork, exportReaders, exportWorld
<1>1. ASSUME NEW e \in Export, RequestActs(e) PROVE TypesOfHistory'
  BY <1>1 DEF RequestActs, AdmitExport, EnqueueExport, EnqueueExportFails, FailExportAdmission,
      UndoExport, SetExportApi, StatusSet, JobSet
<1>2. ASSUME NEW e \in Export, TaskActs(e) PROVE TypesOfHistory'
  BY <1>2 DEF TaskActs, ConsumeExport, LockExport, RecordExport, RenderExport, ExportTaskFails,
      CancelExport, Task, DropLock, WriteJob, WriteExport, AfterError, CancelledTask, StatusSet,
      JobSet, TaskPcs
<1>3. ASSUME NEW e \in Export, PublishActs(e) PROVE TypesOfHistory'
  <2>1. CASE PublishDesktop(e)
    BY <2>1 DEF PublishDesktop, Task, Sweepers
  <2>2. CASE PublishWeb(e)
    BY <2>2 DEF PublishWeb, Task, Sweepers
  <2> QED BY <1>3, <2>1, <2>2 DEF PublishActs
<1>4. ASSUME NEW e \in Export, ReaderActs(e) PROVE TypesOfHistory'
  <2>1. CASE OpenExport(e)
    BY <2>1 DEF OpenExport, Sweepers
  <2>2. CASE CloseExport(e)
    BY <2>2 DEF CloseExport, Sweepers
  <2>3. CASE ReclaimExports(e)
    BY <2>3 DEF ReclaimExports, Sweepers
  <2> QED BY <1>4, <2>1, <2>2, <2>3 DEF ReaderActs
<1>5. ASSUME NEW e \in Export, InterruptActs(e) PROVE TypesOfHistory'
  BY <1>5 DEF InterruptActs, ConsumerInterrupts, ConsumerReturns, RecoverExport,
      InterruptExportStep, InterruptExportFails, InterruptExport, SetExportInterrupt,
      LeaveInterrupt, DropLock, StatusSet, ExportTaskEnded, IdleTask, ActiveJob
<1>6. ASSUME NEW e \in Export, DeathActs(e) PROVE TypesOfHistory'
  BY <1>6 DEF DeathActs, WorkerDies, ApiDies, SetExportApi, IdleTask, DropLock
<1>7. CASE SweepActs
  <2>1. ASSUME NEW e \in Export, SweepFile(e) PROVE TypesOfHistory'
    <3>1. exportHistory.todo \ {e} \in SUBSET Export /\ {e} \in SUBSET Export
      BY <2>1
    <3>2. QED BY <2>1, <3>1 DEF SweepFile
  <2>2. ASSUME NEW e \in Export, SweepRow(e) PROVE TypesOfHistory'
    BY <2>2 DEF SweepRow, Sweepers, FreeHistory
  <2>3. CASE SweepEnds
    BY <2>3 DEF SweepEnds, SweepLeaves, Sweepers, FreeHistory
  <2>4. CASE SweepFails
    BY <2>4 DEF SweepFails, SweepLeaves, Sweepers, FreeHistory
  <2> QED BY <1>7, <2>1, <2>2, <2>3, <2>4 DEF SweepActs
<1>8. CASE RemovalActs
  BY <1>8 DEF RemovalActs, BeginRemoval, RetryRemoval, RemoveFiles, RemoveFile, RemoveDirectory,
      RemoveProjectRow, RemovalFails, ForgetProject, EndRemoval, FreeHistory, NoExportActive,
      NoDownloads, HistoryFree
<1>9. CASE EngineActs
  BY <1>9 DEF EngineActs, BeginExportStop, ExportsStopped, LaunchExports, OpenExports,
      EngineDies, Phase, FreeHistory, IdleTask, HistoryFree
<1>10. CASE UNCHANGED exportVars
  BY <1>10
<1> QED BY <1>1, <1>2, <1>3, <1>4, <1>5, <1>6, <1>7, <1>8, <1>9, <1>10, ExportActs

LEMMA TypesReadersKept ==
    ASSUME TypesOfReaders, [ExportNext]_exportVars
    PROVE  TypesOfReaders'
<1> USE ExportAssumption DEF TypesOfReaders, Desktop, Web, ExportFault, exportVars, exportRows,
    exportTimes, exportWork, exportReaders, exportWorld
<1>1. ASSUME NEW e \in Export, RequestActs(e) PROVE TypesOfReaders'
  BY <1>1 DEF RequestActs, AdmitExport, EnqueueExport, EnqueueExportFails, FailExportAdmission,
      UndoExport, SetExportApi, StatusSet, JobSet
<1>2. ASSUME NEW e \in Export, TaskActs(e) PROVE TypesOfReaders'
  BY <1>2 DEF TaskActs, ConsumeExport, LockExport, RecordExport, RenderExport, ExportTaskFails,
      CancelExport, Task, DropLock, WriteJob, WriteExport, AfterError, CancelledTask, StatusSet,
      JobSet, TaskPcs
<1>3. ASSUME NEW e \in Export, PublishActs(e) PROVE TypesOfReaders'
  BY <1>3 DEF PublishActs, PublishDesktop, PublishWeb, Expired, HistoryFree, Task, TaskPcs
<1>4. ASSUME NEW e \in Export, ReaderActs(e) PROVE TypesOfReaders'
  <2>1. CASE OpenExport(e)
    BY <2>1 DEF OpenExport
  <2>2. CASE CloseExport(e)
    BY <2>2 DEF CloseExport
  <2>3. CASE ReclaimExports(e)
    BY <2>3 DEF ReclaimExports
  <2> QED BY <1>4, <2>1, <2>2, <2>3 DEF ReaderActs
<1>5. ASSUME NEW e \in Export, InterruptActs(e) PROVE TypesOfReaders'
  BY <1>5 DEF InterruptActs, ConsumerInterrupts, ConsumerReturns, RecoverExport,
      InterruptExportStep, InterruptExportFails, InterruptExport, SetExportInterrupt,
      LeaveInterrupt, DropLock, StatusSet, ExportTaskEnded, IdleTask, ActiveJob
<1>6. ASSUME NEW e \in Export, DeathActs(e) PROVE TypesOfReaders'
  BY <1>6 DEF DeathActs, WorkerDies, ApiDies, SetExportApi, IdleTask, DropLock
<1>7. CASE SweepActs
  BY <1>7 DEF SweepActs, SweepFile, SweepRow, SweepEnds, SweepFails, SweepLeaves, FreeHistory,
      Sweepers, TaskPcs
<1>8. CASE RemovalActs
  BY <1>8 DEF RemovalActs, BeginRemoval, RetryRemoval, RemoveFiles, RemoveFile, RemoveDirectory,
      RemoveProjectRow, RemovalFails, ForgetProject, EndRemoval, FreeHistory, NoExportActive,
      NoDownloads, HistoryFree
<1>9. CASE EngineActs
  <2>1. CASE BeginExportStop
    BY <2>1 DEF BeginExportStop, Phase
  <2>2. CASE ExportsStopped
    BY <2>2 DEF ExportsStopped, Phase
  <2>3. CASE LaunchExports
    BY <2>3 DEF LaunchExports, Phase
  <2>4. CASE OpenExports
    BY <2>4 DEF OpenExports, Phase
  <2>5. CASE EngineDies
    BY <2>5 DEF EngineDies, IdleTask
  <2> QED BY <1>9, <2>1, <2>2, <2>3, <2>4, <2>5 DEF EngineActs
<1>10. CASE UNCHANGED exportVars
  BY <1>10
<1> QED BY <1>1, <1>2, <1>3, <1>4, <1>5, <1>6, <1>7, <1>8, <1>9, <1>10, ExportActs

LEMMA TypesBoundsKept ==
    ASSUME TypesOfBounds, [ExportNext]_exportVars
    PROVE  TypesOfBounds'
<1> USE ExportAssumption DEF TypesOfBounds, Desktop, Web, ExportFault, exportVars, exportRows,
    exportTimes, exportWork, exportReaders, exportWorld
<1>1. ASSUME NEW e \in Export, RequestActs(e) PROVE TypesOfBounds'
  BY <1>1 DEF RequestActs, AdmitExport, EnqueueExport, EnqueueExportFails, FailExportAdmission,
      UndoExport, SetExportApi, StatusSet, JobSet
<1>2. ASSUME NEW e \in Export, TaskActs(e) PROVE TypesOfBounds'
  BY <1>2 DEF TaskActs, ConsumeExport, LockExport, RecordExport, RenderExport, ExportTaskFails,
      CancelExport, Task, DropLock, WriteJob, WriteExport, AfterError, CancelledTask, StatusSet,
      JobSet, TaskPcs
<1>3. ASSUME NEW e \in Export, PublishActs(e) PROVE TypesOfBounds'
  BY <1>3 DEF PublishActs, PublishDesktop, PublishWeb, Expired, HistoryFree, Task, TaskPcs
<1>4. ASSUME NEW e \in Export, ReaderActs(e) PROVE TypesOfBounds'
  BY <1>4 DEF ReaderActs, OpenExport, CloseExport, ReclaimExports, HistoryFree, Removing
<1>5. ASSUME NEW e \in Export, InterruptActs(e) PROVE TypesOfBounds'
  BY <1>5 DEF InterruptActs, ConsumerInterrupts, ConsumerReturns, RecoverExport,
      InterruptExportStep, InterruptExportFails, InterruptExport, SetExportInterrupt,
      LeaveInterrupt, DropLock, StatusSet, ExportTaskEnded, IdleTask, ActiveJob
<1>6. ASSUME NEW e \in Export, DeathActs(e) PROVE TypesOfBounds'
  BY <1>6 DEF DeathActs, WorkerDies, ApiDies, SetExportApi, IdleTask, DropLock
<1>7. CASE SweepActs
  <2>1. ASSUME NEW e \in Export, SweepFile(e) PROVE TypesOfBounds'
    BY <2>1 DEF SweepFile
  <2>2. ASSUME NEW e \in Export, SweepRow(e) PROVE TypesOfBounds'
    BY <2>2 DEF SweepRow
  <2>3. CASE SweepEnds
    BY <2>3 DEF SweepEnds, SweepLeaves
  <2>4. CASE SweepFails
    BY <2>4 DEF SweepFails, SweepLeaves
  <2> QED BY <1>7, <2>1, <2>2, <2>3, <2>4 DEF SweepActs
<1>8. CASE RemovalActs
  BY <1>8 DEF RemovalActs, BeginRemoval, RetryRemoval, RemoveFiles, RemoveFile, RemoveDirectory,
      RemoveProjectRow, RemovalFails, ForgetProject, EndRemoval, FreeHistory, NoExportActive,
      NoDownloads, HistoryFree
<1>9. CASE EngineActs
  BY <1>9 DEF EngineActs, BeginExportStop, ExportsStopped, LaunchExports, OpenExports,
      EngineDies, Phase, FreeHistory, IdleTask, HistoryFree
<1>10. CASE UNCHANGED exportVars
  BY <1>10
<1> QED BY <1>1, <1>2, <1>3, <1>4, <1>5, <1>6, <1>7, <1>8, <1>9, <1>10, ExportActs



\* Downloads are a matter of Desktop, and a removal starts when there are none.  It ends
\* with its project.
ReadersInv ==
    /\ Web => \A e \in Export : exportLease[e] = 0 /\ ~exportClosing[e]
    /\ Removing => NoDownloads
    /\ exportProject = "gone" => exportRemoval = "idle"

\* An export starts with its admission, and a task with its consumer.
BeginInv ==
    \A e \in Export :
        /\ exportApi[e] = "idle" => exportRow[e] = "none" /\ exportJob[e] = "none"
        /\ exportApi[e] \in {"idle", "admitted"} => exportOwner[e] = "none" /\ exportInterrupt[e] = "idle"
ConsumersInv ==
    \A e \in Export : exportOwner[e] # "consumer" => exportTask[e].pc = "idle"

\* What is swept has expired, and stays so.
HistoryInv ==
    /\ exportHistory.by \notin Sweepers => exportHistory.todo = {} /\ exportHistory.removed = {}
    /\ Web => exportHistory.by \notin Sweepers
    /\ \A e \in exportHistory.todo \cup exportHistory.removed :
          exportRow[e] \in {"deleting", "none"} /\ exportApi[e] # "idle"

\* The export lock is held by the one whose place in the code says so.
LockedPcs == {"claiming", "starting", "rendering", "publishing", "sweeping", "published", "failing",
              "failed"}
ExportLocksInv ==
    \A e \in Export :
        /\ exportLock[e] = "task" <=> exportTask[e].pc \in LockedPcs
        /\ exportLock[e] = "interrupt" <=> exportInterrupt[e] \in {"locked", "marked"}

\* Nobody else writes the job of an export that Desktop works on.
WorkInv ==
    Desktop => \A e \in Export :
        exportTask[e].pc \in {"starting", "rendering", "publishing"} =>
            exportJob[e] \in {"running", "none"}


LEMMA ReadersKept ==
    ASSUME TypesOfReaders, ReadersInv, [ExportNext]_exportVars
    PROVE  ReadersInv'
<1> USE ExportAssumption DEF TypesOfReaders, ReadersInv, Removing, NoDownloads, Desktop, Web,
    ExportFault, exportVars, exportRows, exportTimes, exportWork, exportReaders, exportWorld
<1>1. ASSUME NEW e \in Export, RequestActs(e) PROVE ReadersInv'
  BY <1>1 DEF RequestActs, AdmitExport, EnqueueExport, EnqueueExportFails, FailExportAdmission,
      UndoExport, SetExportApi, StatusSet, JobSet
<1>2. ASSUME NEW e \in Export, TaskActs(e) PROVE ReadersInv'
  BY <1>2 DEF TaskActs, ConsumeExport, LockExport, RecordExport, RenderExport, ExportTaskFails,
      CancelExport, Task, DropLock, WriteJob, WriteExport, AfterError, CancelledTask, StatusSet,
      JobSet, TaskPcs
<1>3. ASSUME NEW e \in Export, PublishActs(e) PROVE ReadersInv'
  BY <1>3 DEF PublishActs, PublishDesktop, PublishWeb, Expired, HistoryFree, Task, TaskPcs
<1>4. ASSUME NEW e \in Export, ReaderActs(e) PROVE ReadersInv'
  BY <1>4 DEF ReaderActs, OpenExport, CloseExport, ReclaimExports, HistoryFree, Removing
<1>5. ASSUME NEW e \in Export, InterruptActs(e) PROVE ReadersInv'
  BY <1>5 DEF InterruptActs, ConsumerInterrupts, ConsumerReturns, RecoverExport,
      InterruptExportStep, InterruptExportFails, InterruptExport, SetExportInterrupt,
      LeaveInterrupt, DropLock, StatusSet, ExportTaskEnded, IdleTask, ActiveJob
<1>6. ASSUME NEW e \in Export, DeathActs(e) PROVE ReadersInv'
  BY <1>6 DEF DeathActs, WorkerDies, ApiDies, SetExportApi, IdleTask, DropLock
<1>7. CASE SweepActs
  BY <1>7 DEF SweepActs, SweepFile, SweepRow, SweepEnds, SweepFails, SweepLeaves, FreeHistory,
      Sweepers, TaskPcs
<1>8. CASE RemovalActs
  BY <1>8 DEF RemovalActs, BeginRemoval, RetryRemoval, RemoveFiles, RemoveFile, RemoveDirectory,
      RemoveProjectRow, RemovalFails, ForgetProject, EndRemoval, FreeHistory, NoExportActive,
      NoDownloads, HistoryFree
<1>9. CASE EngineActs
  BY <1>9 DEF EngineActs, BeginExportStop, ExportsStopped, LaunchExports, OpenExports,
      EngineDies, Phase, FreeHistory, IdleTask, HistoryFree
<1>10. CASE UNCHANGED exportVars
  BY <1>10
<1> QED BY <1>1, <1>2, <1>3, <1>4, <1>5, <1>6, <1>7, <1>8, <1>9, <1>10, ExportActs

LEMMA BeginKept ==
    ASSUME TypesOfRows, TypesOfRequests, TypesOfInterrupts, BeginInv, [ExportNext]_exportVars
    PROVE  BeginInv'
<1> USE ExportAssumption DEF TypesOfRows, TypesOfRequests, TypesOfInterrupts, BeginInv, Desktop,
    Web, ExportFault, exportVars, exportRows, exportTimes, exportWork, exportReaders,
    exportWorld
<1>1. ASSUME NEW e \in Export, RequestActs(e) PROVE BeginInv'
  BY <1>1 DEF RequestActs, AdmitExport, EnqueueExport, EnqueueExportFails, FailExportAdmission,
      UndoExport, SetExportApi, StatusSet, JobSet
<1>2. ASSUME NEW e \in Export, TaskActs(e) PROVE BeginInv'
  <2>1. CASE ConsumeExport(e)
    BY <2>1 DEF ConsumeExport, JobSet, StatusSet
  <2>2. CASE LockExport(e)
    BY <2>2 DEF LockExport, Task, JobSet, StatusSet
  <2>3. CASE RecordExport(e)
    BY <2>3 DEF RecordExport, WriteJob, WriteExport, AfterError, Task, JobSet, StatusSet
  <2>4. CASE RenderExport(e)
    BY <2>4 DEF RenderExport, Task, JobSet, StatusSet
  <2>5. CASE ExportTaskFails(e)
    BY <2>5 DEF ExportTaskFails, Task, AfterError, JobSet, StatusSet
  <2>6. CASE CancelExport(e)
    BY <2>6 DEF CancelExport, CancelledTask, JobSet, StatusSet
  <2> QED BY <1>2, <2>1, <2>2, <2>3, <2>4, <2>5, <2>6 DEF TaskActs
<1>3. ASSUME NEW e \in Export, PublishActs(e) PROVE BeginInv'
  <2>1. CASE PublishDesktop(e)
    <3>1. \A x \in Export : exportRow'[x] = "none" => exportRow[x] = "none"
      BY <2>1 DEF PublishDesktop, Expired
    <3>2. UNCHANGED <<exportApi, exportJob, exportOwner, exportInterrupt>>
      BY <2>1 DEF PublishDesktop
    <3>3. \A x \in Export : exportRow[x] = "none" => exportRow'[x] = "none"
      BY <2>1 DEF PublishDesktop, Expired
    <3> QED BY <3>1, <3>2, <3>3
  <2>2. CASE PublishWeb(e)
    BY <2>2 DEF PublishWeb, Task
  <2> QED BY <1>3, <2>1, <2>2 DEF PublishActs
<1>4. ASSUME NEW e \in Export, ReaderActs(e) PROVE BeginInv'
  BY <1>4 DEF ReaderActs, OpenExport, CloseExport, ReclaimExports, HistoryFree, Removing
<1>5. ASSUME NEW e \in Export, InterruptActs(e) PROVE BeginInv'
  <2>1. CASE ConsumerInterrupts(e)
    BY <2>1 DEF ConsumerInterrupts, InterruptExport, SetExportInterrupt, LeaveInterrupt, JobSet,
       StatusSet, ActiveJob
  <2>2. CASE ConsumerReturns(e)
    BY <2>2 DEF ConsumerReturns, IdleTask, InterruptExport, SetExportInterrupt, LeaveInterrupt,
       JobSet, StatusSet, ActiveJob
  <2>3. CASE RecoverExport(e)
    BY <2>3 DEF RecoverExport, InterruptExport, SetExportInterrupt, LeaveInterrupt, JobSet,
       StatusSet, ActiveJob
  <2>4. CASE InterruptExportStep(e)
    BY <2>4 DEF InterruptExportStep, InterruptExport, SetExportInterrupt, LeaveInterrupt, JobSet,
       StatusSet, ActiveJob
  <2>5. CASE InterruptExportFails(e)
    BY <2>5 DEF InterruptExportFails, InterruptExport, SetExportInterrupt, LeaveInterrupt, JobSet,
       StatusSet, ActiveJob
  <2> QED BY <1>5, <2>1, <2>2, <2>3, <2>4, <2>5 DEF InterruptActs
<1>6. ASSUME NEW e \in Export, DeathActs(e) PROVE BeginInv'
  <2>1. CASE WorkerDies(e)
    BY <2>1 DEF WorkerDies, IdleTask, SetExportApi
  <2>2. CASE ApiDies(e)
    BY <2>2 DEF ApiDies, SetExportApi
  <2> QED BY <1>6, <2>1, <2>2 DEF DeathActs
<1>7. CASE SweepActs
  <2>1. ASSUME NEW e \in Export, SweepFile(e) PROVE BeginInv'
    BY <2>1 DEF SweepFile
  <2>2. ASSUME NEW e \in Export, SweepRow(e) PROVE BeginInv'
    BY <2>2 DEF SweepRow
  <2>3. CASE SweepEnds
    BY <2>3 DEF SweepEnds, SweepLeaves
  <2>4. CASE SweepFails
    BY <2>4 DEF SweepFails, SweepLeaves
  <2> QED BY <1>7, <2>1, <2>2, <2>3, <2>4 DEF SweepActs
<1>8. CASE RemovalActs
  BY <1>8 DEF RemovalActs, BeginRemoval, RetryRemoval, RemoveFiles, RemoveFile, RemoveDirectory,
      RemoveProjectRow, RemovalFails, ForgetProject, EndRemoval, FreeHistory, NoExportActive,
      NoDownloads, HistoryFree
<1>9. CASE EngineActs
  <2>1. CASE BeginExportStop
    BY <2>1 DEF BeginExportStop, Phase
  <2>2. CASE ExportsStopped
    BY <2>2 DEF ExportsStopped, Phase
  <2>3. CASE LaunchExports
    BY <2>3 DEF LaunchExports, Phase
  <2>4. CASE OpenExports
    BY <2>4 DEF OpenExports, Phase
  <2>5. CASE EngineDies
    BY <2>5 DEF EngineDies, IdleTask
  <2> QED BY <1>9, <2>1, <2>2, <2>3, <2>4, <2>5 DEF EngineActs
<1>10. CASE UNCHANGED exportVars
  BY <1>10
<1> QED BY <1>1, <1>2, <1>3, <1>4, <1>5, <1>6, <1>7, <1>8, <1>9, <1>10, ExportActs

LEMMA ConsumersKept ==
    ASSUME TypesOfRequests, TypesOfTasks, TypesOfInterrupts, BeginInv, ConsumersInv, [ExportNext]_exportVars
    PROVE  ConsumersInv'
<1> USE ExportAssumption DEF TypesOfRequests, TypesOfTasks, BeginInv, ConsumersInv, Desktop,
    Web, ExportFault, exportVars, exportRows, exportTimes, exportWork, exportReaders,
    exportWorld
<1>1. ASSUME NEW e \in Export, RequestActs(e) PROVE ConsumersInv'
  BY <1>1 DEF RequestActs, AdmitExport, EnqueueExport, EnqueueExportFails, FailExportAdmission,
      UndoExport, SetExportApi, StatusSet, JobSet
<1>2. ASSUME NEW e \in Export, TaskActs(e) PROVE ConsumersInv'
  <2>1. CASE ConsumeExport(e)
    BY <2>1 DEF ConsumeExport
  <2>2. CASE LockExport(e)
    BY <2>2 DEF LockExport, Task
  <2>3. CASE RecordExport(e)
    BY <2>3 DEF RecordExport, WriteJob, WriteExport, AfterError, Task
  <2>4. CASE RenderExport(e)
    BY <2>4 DEF RenderExport, Task
  <2>5. CASE ExportTaskFails(e)
    BY <2>5 DEF ExportTaskFails, Task, AfterError
  <2>6. CASE CancelExport(e)
    BY <2>6 DEF CancelExport, CancelledTask
  <2> QED BY <1>2, <2>1, <2>2, <2>3, <2>4, <2>5, <2>6 DEF TaskActs
<1>3. ASSUME NEW e \in Export, PublishActs(e) PROVE ConsumersInv'
  BY <1>3 DEF PublishActs, PublishDesktop, PublishWeb, Expired, HistoryFree, Task, TaskPcs
<1>4. ASSUME NEW e \in Export, ReaderActs(e) PROVE ConsumersInv'
  BY <1>4 DEF ReaderActs, OpenExport, CloseExport, ReclaimExports, HistoryFree, Removing
<1>5. ASSUME NEW e \in Export, InterruptActs(e) PROVE ConsumersInv'
  <2>1. CASE ConsumerInterrupts(e)
    BY <2>1 DEF ConsumerInterrupts, InterruptExport
  <2>2. CASE ConsumerReturns(e)
    BY <2>2 DEF ConsumerReturns, IdleTask, InterruptExport
  <2>3. CASE RecoverExport(e)
    BY <2>3 DEF RecoverExport, InterruptExport
  <2>4. CASE InterruptExportStep(e)
    BY <2>4 DEF InterruptExportStep, InterruptExport
  <2>5. CASE InterruptExportFails(e)
    BY <2>5 DEF InterruptExportFails, InterruptExport
  <2> QED BY <1>5, <2>1, <2>2, <2>3, <2>4, <2>5 DEF InterruptActs
<1>6. ASSUME NEW e \in Export, DeathActs(e) PROVE ConsumersInv'
  <2>1. CASE WorkerDies(e)
    BY <2>1 DEF WorkerDies, IdleTask, SetExportApi
  <2>2. CASE ApiDies(e)
    BY <2>2 DEF ApiDies, SetExportApi
  <2> QED BY <1>6, <2>1, <2>2 DEF DeathActs
<1>7. CASE SweepActs
  <2>1. ASSUME NEW e \in Export, SweepFile(e) PROVE ConsumersInv'
    BY <2>1 DEF SweepFile
  <2>2. ASSUME NEW e \in Export, SweepRow(e) PROVE ConsumersInv'
    BY <2>2 DEF SweepRow
  <2>3. CASE SweepEnds
    BY <2>3 DEF SweepEnds, SweepLeaves
  <2>4. CASE SweepFails
    BY <2>4 DEF SweepFails, SweepLeaves
  <2> QED BY <1>7, <2>1, <2>2, <2>3, <2>4 DEF SweepActs
<1>8. CASE RemovalActs
  BY <1>8 DEF RemovalActs, BeginRemoval, RetryRemoval, RemoveFiles, RemoveFile, RemoveDirectory,
      RemoveProjectRow, RemovalFails, ForgetProject, EndRemoval, FreeHistory, NoExportActive,
      NoDownloads, HistoryFree
<1>9. CASE EngineActs
  <2>1. CASE BeginExportStop
    BY <2>1 DEF BeginExportStop, Phase
  <2>2. CASE ExportsStopped
    BY <2>2 DEF ExportsStopped, Phase
  <2>3. CASE LaunchExports
    BY <2>3 DEF LaunchExports, Phase
  <2>4. CASE OpenExports
    BY <2>4 DEF OpenExports, Phase
  <2>5. CASE EngineDies
    BY <2>5 DEF EngineDies, IdleTask
  <2> QED BY <1>9, <2>1, <2>2, <2>3, <2>4, <2>5 DEF EngineActs
<1>10. CASE UNCHANGED exportVars
  BY <1>10
<1> QED BY <1>1, <1>2, <1>3, <1>4, <1>5, <1>6, <1>7, <1>8, <1>9, <1>10, ExportActs

LEMMA HistoryKept ==
    ASSUME TypesOfRows, TypesOfRequests, TypesOfHistory, ReadersInv, BeginInv, HistoryInv,
           [ExportNext]_exportVars
    PROVE  HistoryInv'
<1> USE ExportAssumption DEF TypesOfRows, TypesOfRequests, TypesOfHistory, ReadersInv, BeginInv,
    HistoryInv, Sweepers, Desktop, Web, ExportFault, exportVars, exportRows, exportTimes,
    exportWork, exportReaders, exportWorld
<1>1. ASSUME NEW e \in Export, RequestActs(e) PROVE HistoryInv'
  BY <1>1 DEF RequestActs, AdmitExport, EnqueueExport, EnqueueExportFails, FailExportAdmission,
      UndoExport, SetExportApi, StatusSet, JobSet
<1>2. ASSUME NEW e \in Export, TaskActs(e) PROVE HistoryInv'
  BY <1>2 DEF TaskActs, ConsumeExport, LockExport, RecordExport, RenderExport, ExportTaskFails,
      CancelExport, Task, DropLock, WriteJob, WriteExport, AfterError, CancelledTask, StatusSet,
      JobSet, TaskPcs
<1>3. ASSUME NEW e \in Export, PublishActs(e) PROVE HistoryInv'
  <2>1. CASE PublishDesktop(e)
    BY <2>1 DEF PublishDesktop, Task, Expired, HistoryFree
  <2>2. CASE PublishWeb(e)
    BY <2>2 DEF PublishWeb, Task, Expired, HistoryFree
  <2> QED BY <1>3, <2>1, <2>2 DEF PublishActs
<1>4. ASSUME NEW e \in Export, ReaderActs(e) PROVE HistoryInv'
  BY <1>4 DEF ReaderActs, OpenExport, CloseExport, ReclaimExports, HistoryFree, Removing
<1>5. ASSUME NEW e \in Export, InterruptActs(e) PROVE HistoryInv'
  BY <1>5 DEF InterruptActs, ConsumerInterrupts, ConsumerReturns, RecoverExport,
      InterruptExportStep, InterruptExportFails, InterruptExport, SetExportInterrupt,
      LeaveInterrupt, DropLock, StatusSet, ExportTaskEnded, IdleTask, ActiveJob
<1>6. ASSUME NEW e \in Export, DeathActs(e) PROVE HistoryInv'
  BY <1>6 DEF DeathActs, WorkerDies, ApiDies, SetExportApi, IdleTask, DropLock
<1>7. CASE SweepActs
  <2>1. ASSUME NEW e \in Export, SweepFile(e) PROVE HistoryInv'
    <3>1. CASE exportLease[e] > 0
      <4>1. exportHistory' = [exportHistory EXCEPT !.todo = @ \ {e}]
        BY <2>1, <3>1 DEF SweepFile
      <4> QED BY <2>1, <4>1 DEF SweepFile
    <3>2. CASE ~(exportLease[e] > 0)
      <4>1. exportHistory' = [exportHistory EXCEPT !.todo = @ \ {e}, !.removed = {e}]
        BY <2>1, <3>2 DEF SweepFile
      <4>2. UNCHANGED <<exportPlatform, exportRow, exportApi>> /\ exportHistory.by \in Sweepers
        BY <2>1 DEF SweepFile
      <4>3. e \in exportHistory.todo
        BY <2>1 DEF SweepFile
      <4> QED BY <4>1, <4>2, <4>3
    <3> QED BY <3>1, <3>2
  <2>2. ASSUME NEW e \in Export, SweepRow(e) PROVE HistoryInv'
    BY <2>2 DEF SweepRow, FreeHistory
  <2>3. CASE SweepEnds
    BY <2>3 DEF SweepEnds, SweepLeaves, FreeHistory
  <2>4. CASE SweepFails
    BY <2>4 DEF SweepFails, SweepLeaves, FreeHistory
  <2> QED BY <1>7, <2>1, <2>2, <2>3, <2>4 DEF SweepActs
<1>8. CASE RemovalActs
  BY <1>8 DEF RemovalActs, BeginRemoval, RetryRemoval, RemoveFiles, RemoveFile, RemoveDirectory,
      RemoveProjectRow, RemovalFails, ForgetProject, EndRemoval, FreeHistory, NoExportActive,
      NoDownloads, HistoryFree
<1>9. CASE EngineActs
  BY <1>9 DEF EngineActs, BeginExportStop, ExportsStopped, LaunchExports, OpenExports,
      EngineDies, Phase, FreeHistory, IdleTask, HistoryFree
<1>10. CASE UNCHANGED exportVars
  BY <1>10
<1> QED BY <1>1, <1>2, <1>3, <1>4, <1>5, <1>6, <1>7, <1>8, <1>9, <1>10, ExportActs

LEMMA ExportLocksKept ==
    ASSUME TypesOfTasks, TypesOfInterrupts, ExportLocksInv, [ExportNext]_exportVars
    PROVE  ExportLocksInv'
<1> USE ExportAssumption DEF TypesOfTasks, TypesOfInterrupts, ExportLocksInv, LockedPcs,
    Desktop, Web, ExportFault, exportVars, exportRows, exportTimes, exportWork, exportReaders,
    exportWorld
<1>1. ASSUME NEW e \in Export, RequestActs(e) PROVE ExportLocksInv'
  BY <1>1 DEF RequestActs, AdmitExport, EnqueueExport, EnqueueExportFails, FailExportAdmission,
      UndoExport, SetExportApi, StatusSet, JobSet
<1>2. ASSUME NEW e \in Export, TaskActs(e) PROVE ExportLocksInv'
  BY <1>2 DEF TaskActs, ConsumeExport, LockExport, RecordExport, RenderExport, ExportTaskFails,
      CancelExport, Task, DropLock, WriteJob, WriteExport, AfterError, CancelledTask, StatusSet,
      JobSet, TaskPcs
<1>3. ASSUME NEW e \in Export, PublishActs(e) PROVE ExportLocksInv'
  <2>1. CASE PublishDesktop(e)
    BY <2>1 DEF PublishDesktop, Task
  <2>2. CASE PublishWeb(e)
    BY <2>2 DEF PublishWeb, Task
  <2> QED BY <1>3, <2>1, <2>2 DEF PublishActs
<1>4. ASSUME NEW e \in Export, ReaderActs(e) PROVE ExportLocksInv'
  BY <1>4 DEF ReaderActs, OpenExport, CloseExport, ReclaimExports, HistoryFree, Removing
<1>5. ASSUME NEW e \in Export, InterruptActs(e) PROVE ExportLocksInv'
  BY <1>5 DEF InterruptActs, ConsumerInterrupts, ConsumerReturns, RecoverExport,
      InterruptExportStep, InterruptExportFails, InterruptExport, SetExportInterrupt,
      LeaveInterrupt, DropLock, StatusSet, ExportTaskEnded, IdleTask, ActiveJob
<1>6. ASSUME NEW e \in Export, DeathActs(e) PROVE ExportLocksInv'
  BY <1>6 DEF DeathActs, WorkerDies, ApiDies, SetExportApi, IdleTask, DropLock
<1>7. CASE SweepActs
  <2>1. ASSUME NEW e \in Export, SweepFile(e) PROVE ExportLocksInv'
    BY <2>1 DEF SweepFile
  <2>2. ASSUME NEW e \in Export, SweepRow(e) PROVE ExportLocksInv'
    BY <2>2 DEF SweepRow
  <2>3. CASE SweepEnds
    BY <2>3 DEF SweepEnds, SweepLeaves
  <2>4. CASE SweepFails
    BY <2>4 DEF SweepFails, SweepLeaves
  <2> QED BY <1>7, <2>1, <2>2, <2>3, <2>4 DEF SweepActs
<1>8. CASE RemovalActs
  BY <1>8 DEF RemovalActs, BeginRemoval, RetryRemoval, RemoveFiles, RemoveFile, RemoveDirectory,
      RemoveProjectRow, RemovalFails, ForgetProject, EndRemoval, FreeHistory, NoExportActive,
      NoDownloads, HistoryFree
<1>9. CASE EngineActs
  BY <1>9 DEF EngineActs, BeginExportStop, ExportsStopped, LaunchExports, OpenExports,
      EngineDies, Phase, FreeHistory, IdleTask, HistoryFree
<1>10. CASE UNCHANGED exportVars
  BY <1>10
<1> QED BY <1>1, <1>2, <1>3, <1>4, <1>5, <1>6, <1>7, <1>8, <1>9, <1>10, ExportActs

LEMMA WorkKept ==
    ASSUME TypesOfRows, TypesOfTasks, TypesOfInterrupts, BeginInv, ConsumersInv, ExportLocksInv,
           WorkInv, [ExportNext]_exportVars
    PROVE  WorkInv'
<1> USE ExportAssumption DEF TypesOfRows, TypesOfTasks, TypesOfInterrupts, ExportLocksInv,
    LockedPcs, WorkInv, Desktop, Web, ExportFault, exportVars, exportRows, exportTimes,
    exportWork, exportReaders, exportWorld
<1>1. ASSUME NEW e \in Export, RequestActs(e) PROVE WorkInv'
  <2>1. CASE AdmitExport(e)
    BY <2>1 DEF AdmitExport, SetExportApi, BeginInv, ConsumersInv
  <2>2. CASE EnqueueExport(e)
    BY <2>2 DEF EnqueueExport, SetExportApi
  <2>3. CASE EnqueueExportFails(e)
    BY <2>3 DEF EnqueueExportFails, SetExportApi
  <2>4. CASE FailExportAdmission(e)
    BY <2>4 DEF FailExportAdmission, SetExportApi, JobSet
  <2>5. CASE UndoExport(e)
    BY <2>5 DEF UndoExport, SetExportApi, StatusSet
  <2> QED BY <1>1, <2>1, <2>2, <2>3, <2>4, <2>5 DEF RequestActs
<1>2. ASSUME NEW e \in Export, TaskActs(e) PROVE WorkInv'
  BY <1>2 DEF TaskActs, ConsumeExport, LockExport, RecordExport, RenderExport, ExportTaskFails,
      CancelExport, Task, DropLock, WriteJob, WriteExport, AfterError, CancelledTask, StatusSet,
      JobSet, TaskPcs
<1>3. ASSUME NEW e \in Export, PublishActs(e) PROVE WorkInv'
  BY <1>3 DEF PublishActs, PublishDesktop, PublishWeb, Expired, HistoryFree, Task, TaskPcs
<1>4. ASSUME NEW e \in Export, ReaderActs(e) PROVE WorkInv'
  BY <1>4 DEF ReaderActs, OpenExport, CloseExport, ReclaimExports, HistoryFree, Removing
<1>5. ASSUME NEW e \in Export, InterruptActs(e) PROVE WorkInv'
  BY <1>5 DEF InterruptActs, ConsumerInterrupts, ConsumerReturns, RecoverExport,
      InterruptExportStep, InterruptExportFails, InterruptExport, SetExportInterrupt,
      LeaveInterrupt, DropLock, StatusSet, ExportTaskEnded, IdleTask, ActiveJob
<1>6. ASSUME NEW e \in Export, DeathActs(e) PROVE WorkInv'
  BY <1>6 DEF DeathActs, WorkerDies, ApiDies, SetExportApi, IdleTask, DropLock
<1>7. CASE SweepActs
  <2>1. ASSUME NEW e \in Export, SweepFile(e) PROVE WorkInv'
    BY <2>1 DEF SweepFile
  <2>2. ASSUME NEW e \in Export, SweepRow(e) PROVE WorkInv'
    BY <2>2 DEF SweepRow
  <2>3. CASE SweepEnds
    BY <2>3 DEF SweepEnds, SweepLeaves
  <2>4. CASE SweepFails
    BY <2>4 DEF SweepFails, SweepLeaves
  <2> QED BY <1>7, <2>1, <2>2, <2>3, <2>4 DEF SweepActs
<1>8. CASE RemovalActs
  BY <1>8 DEF RemovalActs, BeginRemoval, RetryRemoval, RemoveFiles, RemoveFile, RemoveDirectory,
      RemoveProjectRow, RemovalFails, ForgetProject, EndRemoval, FreeHistory, NoExportActive,
      NoDownloads, HistoryFree
<1>9. CASE EngineActs
  BY <1>9 DEF EngineActs, BeginExportStop, ExportsStopped, LaunchExports, OpenExports,
      EngineDies, Phase, FreeHistory, IdleTask, HistoryFree
<1>10. CASE UNCHANGED exportVars
  BY <1>10
<1> QED BY <1>1, <1>2, <1>3, <1>4, <1>5, <1>6, <1>7, <1>8, <1>9, <1>10, ExportActs



\* Numbers are well ordered.
LEMMA LeastNumber ==
    ASSUME NEW T \in SUBSET Nat, T # {}
    PROVE  \E m \in T : \A n \in T : m <= n
<1>1. PICK m \in T : \A n \in T : ~(<<n, m>> \in OpToRel(<, Nat))
  BY NatLessThanWellFounded, WFMin
<1>2. \A n \in T : ~(n < m)
  BY <1>1 DEF OpToRel
<1> QED BY <1>2

\* Of at most one more than the limit, those that have fewer than limit newer ones are at most
\* the limit: the oldest goes.
LEMMA KeepingTheNewest ==
    ASSUME NEW D, IsFiniteSet(D), NEW limit \in Nat, Cardinality(D) <= limit + 1,
           NEW at, \A x \in D : at[x] \in Nat,
           \A x, y \in D : at[x] = at[y] => x = y
    PROVE  /\ IsFiniteSet({x \in D : ~(Cardinality({y \in D : at[y] > at[x]}) >= limit)})
           /\ Cardinality({x \in D : ~(Cardinality({y \in D : at[y] > at[x]}) >= limit)}) <= limit
<1> DEFINE newer(x) == {y \in D : at[y] > at[x]}
           kept == {x \in D : ~(Cardinality(newer(x)) >= limit)}
<1>1. IsFiniteSet(kept) /\ Cardinality(kept) \in Nat /\ Cardinality(D) \in Nat
      /\ Cardinality(kept) <= Cardinality(D)
  BY FS_Subset, FS_CardinalityType
<1>2. CASE Cardinality(D) <= limit
  BY <1>1, <1>2
<1>3. CASE Cardinality(D) = limit + 1
  <2>1. D # {}
    BY <1>3, FS_EmptySet
  <2>2. PICK m \in {at[x] : x \in D} : \A n \in {at[x] : x \in D} : m <= n
    <3> DEFINE T == {at[x] : x \in D}
    <3>1. T \in SUBSET Nat /\ T # {}
      BY <2>1
    <3> HIDE DEF T
    <3>2. \E m \in T : \A n \in T : m <= n
      BY <3>1, LeastNumber
    <3> QED BY <3>2 DEF T
  <2>3. PICK o \in D : m = at[o]
    BY <2>2
  <2>4. newer(o) = D \ {o}
    <3>1. \A y \in D : y # o => at[y] > at[o]
      BY <2>2, <2>3
    <3> QED BY <3>1, <2>3
  <2>5. Cardinality(newer(o)) = limit
    <3>1. Cardinality(D \ {o}) = Cardinality(D) - 1
      BY FS_RemoveElement
    <3> QED BY <3>1, <2>4, <1>3
  <2>6. kept \subseteq D \ {o}
    <3>1. o \in kept => ~(Cardinality(newer(o)) >= limit)
      OBVIOUS
    <3>2. o \notin kept
      BY <3>1, <2>5
    <3> QED BY <3>2
  <2>7. IsFiniteSet(D \ {o}) /\ Cardinality(D \ {o}) = limit
    BY <2>4, <2>5, FS_RemoveElement
  <2> QED BY <1>1, <2>6, <2>7, FS_Subset
<1> QED BY <1>1, <1>2, <1>3


DoneRows == {e \in Export : exportRow[e] = "done"}

\* No two listed exports have been completed at one time, and there are finitely many.
BoundedInv ==
    /\ \A x, y \in DoneRows : exportDone[x] = exportDone[y] => x = y
    /\ Desktop \/ exportFaults = 0 =>
         IsFiniteSet(DoneRows) /\ Cardinality(DoneRows) <= EXPORT_LIMIT

\* The listed exports of the next state are listed already, as they are.
NothingCompletes ==
    /\ \A x \in Export : exportRow'[x] = "done" =>
          exportRow[x] = "done" /\ exportDone'[x] = exportDone[x]
    /\ exportPlatform' = exportPlatform /\ exportFaults' >= exportFaults

LEMMA OnlyPublicationsComplete ==
    ASSUME TypesOfRows, TypesOfBounds, [ExportNext]_exportVars
    PROVE  NothingCompletes \/ \E p \in Export : PublishActs(p)
<1> USE ExportAssumption DEF TypesOfRows, TypesOfBounds, Desktop, Web, ExportFault, exportVars,
    exportRows, exportTimes, exportWork, exportReaders, exportWorld,
    NothingCompletes
<1>1. ASSUME NEW e \in Export, RequestActs(e) PROVE NothingCompletes \/ \E p \in Export : PublishActs(p)
  BY <1>1 DEF RequestActs, AdmitExport, EnqueueExport, EnqueueExportFails, FailExportAdmission,
      UndoExport, SetExportApi, StatusSet, JobSet
<1>2. ASSUME NEW e \in Export, TaskActs(e) PROVE NothingCompletes \/ \E p \in Export : PublishActs(p)
  BY <1>2 DEF TaskActs, ConsumeExport, LockExport, RecordExport, RenderExport, ExportTaskFails,
      CancelExport, Task, DropLock, WriteJob, WriteExport, AfterError, CancelledTask, StatusSet,
      JobSet, TaskPcs
<1>3. ASSUME NEW e \in Export, PublishActs(e) PROVE NothingCompletes \/ \E p \in Export : PublishActs(p)
  BY <1>3 DEF PublishActs, PublishDesktop, PublishWeb, Expired, HistoryFree, Task, TaskPcs
<1>4. ASSUME NEW e \in Export, ReaderActs(e) PROVE NothingCompletes \/ \E p \in Export : PublishActs(p)
  BY <1>4 DEF ReaderActs, OpenExport, CloseExport, ReclaimExports, HistoryFree, Removing
<1>5. ASSUME NEW e \in Export, InterruptActs(e) PROVE NothingCompletes \/ \E p \in Export : PublishActs(p)
  BY <1>5 DEF InterruptActs, ConsumerInterrupts, ConsumerReturns, RecoverExport,
      InterruptExportStep, InterruptExportFails, InterruptExport, SetExportInterrupt,
      LeaveInterrupt, DropLock, StatusSet, ExportTaskEnded, IdleTask, ActiveJob
<1>6. ASSUME NEW e \in Export, DeathActs(e) PROVE NothingCompletes \/ \E p \in Export : PublishActs(p)
  BY <1>6 DEF DeathActs, WorkerDies, ApiDies, SetExportApi, IdleTask, DropLock
<1>7. CASE SweepActs
  <2>1. ASSUME NEW e \in Export, SweepFile(e) PROVE NothingCompletes \/ \E p \in Export : PublishActs(p)
    BY <2>1 DEF SweepFile
  <2>2. ASSUME NEW e \in Export, SweepRow(e) PROVE NothingCompletes \/ \E p \in Export : PublishActs(p)
    BY <2>2 DEF SweepRow
  <2>3. CASE SweepEnds
    BY <2>3 DEF SweepEnds, SweepLeaves
  <2>4. CASE SweepFails
    BY <2>4 DEF SweepFails, SweepLeaves
  <2> QED BY <1>7, <2>1, <2>2, <2>3, <2>4 DEF SweepActs
<1>8. CASE RemovalActs
  BY <1>8 DEF RemovalActs, BeginRemoval, RetryRemoval, RemoveFiles, RemoveFile, RemoveDirectory,
      RemoveProjectRow, RemovalFails, ForgetProject, EndRemoval, FreeHistory, NoExportActive,
      NoDownloads, HistoryFree
<1>9. CASE EngineActs
  BY <1>9 DEF EngineActs, BeginExportStop, ExportsStopped, LaunchExports, OpenExports,
      EngineDies, Phase, FreeHistory, IdleTask, HistoryFree
<1>10. CASE UNCHANGED exportVars
  BY <1>10
<1> QED BY <1>1, <1>2, <1>3, <1>4, <1>5, <1>6, <1>7, <1>8, <1>9, <1>10, ExportActs

LEMMA FilesKept ==
    ASSUME TypesOfRows, TypesOfFiles, TypesOfHistory, TypesOfBounds, ReadersInv, HistoryInv,
           PublishedFilesExist, [ExportNext]_exportVars
    PROVE  PublishedFilesExist'
<1> USE ExportAssumption DEF TypesOfRows, TypesOfFiles, TypesOfHistory, TypesOfBounds,
    ReadersInv, HistoryInv, PublishedFilesExist, Sweepers, Desktop, Web, ExportFault,
    exportVars, exportRows, exportTimes, exportWork, exportReaders, exportWorld
<1>1. ASSUME NEW e \in Export, RequestActs(e) PROVE PublishedFilesExist'
  BY <1>1 DEF RequestActs, AdmitExport, EnqueueExport, EnqueueExportFails, FailExportAdmission,
      UndoExport, SetExportApi, StatusSet, JobSet
<1>2. ASSUME NEW e \in Export, TaskActs(e) PROVE PublishedFilesExist'
  BY <1>2 DEF TaskActs, ConsumeExport, LockExport, RecordExport, RenderExport, ExportTaskFails,
      CancelExport, Task, DropLock, WriteJob, WriteExport, AfterError, CancelledTask, StatusSet,
      JobSet, TaskPcs
<1>3. ASSUME NEW e \in Export, PublishActs(e) PROVE PublishedFilesExist'
  <2>1. CASE PublishDesktop(e)
    BY <2>1 DEF PublishDesktop, Task, Expired
  <2>2. CASE PublishWeb(e)
    BY <2>2 DEF PublishWeb, Task, Expired
  <2> QED BY <1>3, <2>1, <2>2 DEF PublishActs
<1>4. ASSUME NEW e \in Export, ReaderActs(e) PROVE PublishedFilesExist'
  BY <1>4 DEF ReaderActs, OpenExport, CloseExport, ReclaimExports, HistoryFree, Removing
<1>5. ASSUME NEW e \in Export, InterruptActs(e) PROVE PublishedFilesExist'
  BY <1>5 DEF InterruptActs, ConsumerInterrupts, ConsumerReturns, RecoverExport,
      InterruptExportStep, InterruptExportFails, InterruptExport, SetExportInterrupt,
      LeaveInterrupt, DropLock, StatusSet, ExportTaskEnded, IdleTask, ActiveJob
<1>6. ASSUME NEW e \in Export, DeathActs(e) PROVE PublishedFilesExist'
  BY <1>6 DEF DeathActs, WorkerDies, ApiDies, SetExportApi, IdleTask, DropLock
<1>7. CASE SweepActs
  <2>1. ASSUME NEW e \in Export, SweepFile(e) PROVE PublishedFilesExist'
    BY <2>1 DEF SweepFile
  <2>2. ASSUME NEW e \in Export, SweepRow(e) PROVE PublishedFilesExist'
    BY <2>2 DEF SweepRow
  <2>3. CASE SweepEnds
    BY <2>3 DEF SweepEnds, SweepLeaves
  <2>4. CASE SweepFails
    BY <2>4 DEF SweepFails, SweepLeaves
  <2> QED BY <1>7, <2>1, <2>2, <2>3, <2>4 DEF SweepActs
<1>8. CASE RemovalActs
  BY <1>8 DEF RemovalActs, BeginRemoval, RetryRemoval, RemoveFiles, RemoveFile, RemoveDirectory,
      RemoveProjectRow, RemovalFails, ForgetProject, EndRemoval, FreeHistory, NoExportActive,
      NoDownloads, HistoryFree
<1>9. CASE EngineActs
  BY <1>9 DEF EngineActs, BeginExportStop, ExportsStopped, LaunchExports, OpenExports,
      EngineDies, Phase, FreeHistory, IdleTask, HistoryFree
<1>10. CASE UNCHANGED exportVars
  BY <1>10
<1> QED BY <1>1, <1>2, <1>3, <1>4, <1>5, <1>6, <1>7, <1>8, <1>9, <1>10, ExportActs

TimesWith(e) == [exportDone EXCEPT ![e] = exportClock + 1]
RowsWith(e) == [exportRow EXCEPT ![e] = "done"]

\* What a publication completes is the newest; beyond the limit the oldest goes.
LEMMA CompletionKeepsBound ==
    ASSUME TypesOfRows, TypesOfTimes, NEW e \in Export,
           \A x, y \in DoneRows : exportDone[x] = exportDone[y] => x = y
    PROVE  /\ \A x, y \in DoneRows \cup {e} : TimesWith(e)[x] = TimesWith(e)[y] => x = y
           /\ \A x \in Export : RowsWith(e)[x] = "done" <=> x \in DoneRows \cup {e}
           /\ IsFiniteSet(DoneRows) /\ Cardinality(DoneRows) <= EXPORT_LIMIT =>
                /\ IsFiniteSet((DoneRows \cup {e}) \ Expired(TimesWith(e), RowsWith(e)))
                /\ Cardinality((DoneRows \cup {e}) \ Expired(TimesWith(e), RowsWith(e))) <= EXPORT_LIMIT
<1> USE ExportAssumption
<1> DEFINE D == DoneRows \cup {e}
           at == TimesWith(e)
           row == RowsWith(e)
<1>1. \A x \in Export : row[x] = "done" <=> x \in D
  BY DEF TypesOfRows, DoneRows, RowsWith
<1>2. \A x \in D : at[x] \in Nat
  BY DEF TypesOfTimes, DoneRows, TimesWith
<1>3. \A x, y \in D : at[x] = at[y] => x = y
  BY DEF TypesOfTimes, DoneRows, TimesWith
<1>4. ASSUME IsFiniteSet(DoneRows), Cardinality(DoneRows) <= EXPORT_LIMIT
      PROVE  IsFiniteSet(D \ Expired(at, row)) /\ Cardinality(D \ Expired(at, row)) <= EXPORT_LIMIT
  <2>1. IsFiniteSet(D) /\ Cardinality(D) <= EXPORT_LIMIT + 1
    <3>1. Cardinality(DoneRows) \in Nat
      BY <1>4, FS_CardinalityType
    <3>2. IsFiniteSet(D) /\ Cardinality(D) \in {Cardinality(DoneRows), Cardinality(DoneRows) + 1}
      BY <1>4, FS_AddElement
    <3> QED BY <1>4, <3>1, <3>2
  <2>2. \A x \in Export : Newer(x, at, row) = {y \in D : at[y] > at[x]}
    BY <1>1 DEF Newer, DoneRows
  <2>3. D \ Expired(at, row) = {x \in D : ~(Cardinality({y \in D : at[y] > at[x]}) >= EXPORT_LIMIT)}
    <3>1. \A x \in D : x \in Export
                       /\ (x \in Expired(at, row) <=> Cardinality(Newer(x, at, row)) >= EXPORT_LIMIT)
      BY <1>1 DEF Expired, DoneRows
    <3> HIDE DEF D, at, row
    <3>2. \A x \in D : x \in Expired(at, row)
                       <=> Cardinality({y \in D : at[y] > at[x]}) >= EXPORT_LIMIT
      BY <3>1, <2>2
    <3> QED BY <3>2
  <2> HIDE DEF D, at, row
  <2>4. EXPORT_LIMIT \in Nat
    OBVIOUS
  <2> QED BY <1>2, <1>3, <2>1, <2>3, <2>4, KeepingTheNewest
<1> QED BY <1>1, <1>3, <1>4

LEMMA BoundedKept ==
    ASSUME TypesOfRows, TypesOfTimes, TypesOfBounds, BoundedInv, [ExportNext]_exportVars
    PROVE  BoundedInv'
<1> DEFINE Distinct == \A x, y \in DoneRows : exportDone[x] = exportDone[y] => x = y
           Bounded == IsFiniteSet(DoneRows) /\ Cardinality(DoneRows) <= EXPORT_LIMIT
<1>1. CASE ~ \E e \in Export : PublishActs(e)
  <2>1. /\ DoneRows' \subseteq DoneRows
        /\ \A x \in DoneRows' : exportDone'[x] = exportDone[x]
        /\ exportPlatform' = exportPlatform /\ exportFaults' >= exportFaults
    BY <1>1, OnlyPublicationsComplete DEF DoneRows, NothingCompletes
  <2>2. Distinct'
    BY <2>1 DEF BoundedInv
  <2>3. Desktop' \/ exportFaults' = 0 => Bounded
    BY <2>1 DEF BoundedInv, TypesOfBounds, Desktop
  <2>4. Bounded => Bounded'
    <3> SUFFICES ASSUME Bounded PROVE Bounded'
      OBVIOUS
    <3>1. IsFiniteSet(DoneRows') /\ Cardinality(DoneRows') <= Cardinality(DoneRows)
      BY <2>1, FS_Subset
    <3>2. Cardinality(DoneRows) \in Nat /\ Cardinality(DoneRows') \in Nat /\ EXPORT_LIMIT \in Nat
      BY <3>1, FS_CardinalityType, ExportAssumption
    <3> QED BY <3>1, <3>2
  <2> QED BY <2>2, <2>3, <2>4 DEF BoundedInv
<1>2. ASSUME NEW e \in Export, PublishDesktop(e) PROVE BoundedInv'
  <2> DEFINE at == TimesWith(e)
             row == RowsWith(e)
             old == Expired(at, row)
  <2>1. /\ exportRow' = [x \in Export |-> IF x \in old THEN "deleting" ELSE row[x]]
        /\ exportDone' = [x \in Export |-> IF x \in old THEN 0 ELSE at[x]]
        /\ Desktop
    BY <1>2 DEF PublishDesktop, TimesWith, RowsWith
  <2>2. /\ \A x, y \in DoneRows \cup {e} : at[x] = at[y] => x = y
        /\ \A x \in Export : row[x] = "done" <=> x \in DoneRows \cup {e}
        /\ Bounded => /\ IsFiniteSet((DoneRows \cup {e}) \ old)
                      /\ Cardinality((DoneRows \cup {e}) \ old) <= EXPORT_LIMIT
    BY CompletionKeepsBound DEF BoundedInv
  <2> HIDE DEF at, row, old
  <2>3. DoneRows' = (DoneRows \cup {e}) \ old
    BY <2>1, <2>2 DEF DoneRows
  <2>4. Distinct'
    BY <2>1, <2>2, <2>3 DEF DoneRows
  <2> QED BY <2>1, <2>2, <2>3, <2>4 DEF BoundedInv
<1>3. ASSUME NEW e \in Export, PublishWeb(e) PROVE BoundedInv'
  <2> DEFINE at == TimesWith(e)
             row == RowsWith(e)
             old == Expired(at, row)
  <2>1. PICK unlinked \in SUBSET old, committed \in BOOLEAN :
          /\ IF unlinked = old /\ committed THEN UNCHANGED exportFaults ELSE ExportFault
          /\ IF committed
             THEN /\ exportRow' = [x \in Export |-> IF x \in unlinked THEN "none" ELSE row[x]]
                  /\ exportDone' = [x \in Export |-> IF x \in unlinked THEN 0 ELSE at[x]]
             ELSE UNCHANGED <<exportRow, exportTimes>>
    BY <1>3 DEF PublishWeb, TimesWith, RowsWith
  <2>2. /\ \A x, y \in DoneRows \cup {e} : at[x] = at[y] => x = y
        /\ \A x \in Export : row[x] = "done" <=> x \in DoneRows \cup {e}
        /\ Bounded => /\ IsFiniteSet((DoneRows \cup {e}) \ old)
                      /\ Cardinality((DoneRows \cup {e}) \ old) <= EXPORT_LIMIT
    BY CompletionKeepsBound DEF BoundedInv
  <2>3. ~Desktop' /\ ~Desktop
    BY <1>3 DEF PublishWeb, exportWorld, Web, Desktop
  <2> HIDE DEF at, row, old
  <2>4. CASE committed
    <3>1. DoneRows' = (DoneRows \cup {e}) \ unlinked
      BY <2>1, <2>2, <2>4 DEF DoneRows
    <3>2. Distinct'
      BY <2>1, <2>2, <2>4, <3>1 DEF DoneRows
    <3>3. exportFaults' = 0 => unlinked = old /\ exportFaults = 0
      BY <2>1, <2>4 DEF ExportFault, TypesOfBounds
    <3> QED BY <2>2, <2>3, <3>1, <3>2, <3>3 DEF BoundedInv
  <2>5. CASE ~committed
    <3>1. DoneRows' = DoneRows /\ Distinct'
      BY <2>1, <2>5 DEF DoneRows, exportTimes, BoundedInv
    <3>2. exportFaults' # 0
      BY <2>1, <2>5 DEF ExportFault, TypesOfBounds
    <3> QED BY <2>3, <3>1, <3>2 DEF BoundedInv
  <2> QED BY <2>4, <2>5
<1> QED BY <1>1, <1>2, <1>3 DEF PublishActs



\* Nothing undoes a fault or the removal of the project.
OneWay ==
    /\ exportPlatform' = exportPlatform
    /\ exportFaults' >= exportFaults
    /\ exportProject = "gone" => exportProject' = "gone"

LEMMA OnlyForward ==
    ASSUME TypesOfBounds, ReadersInv, [ExportNext]_exportVars
    PROVE  OneWay
<1> USE ExportAssumption DEF TypesOfBounds, ReadersInv, OneWay, Desktop, Web, ExportFault,
    exportVars, exportRows, exportTimes, exportWork, exportReaders, exportWorld
<1>1. ASSUME NEW e \in Export, RequestActs(e) PROVE OneWay
  BY <1>1 DEF RequestActs, AdmitExport, EnqueueExport, EnqueueExportFails, FailExportAdmission,
      UndoExport, SetExportApi, StatusSet, JobSet
<1>2. ASSUME NEW e \in Export, TaskActs(e) PROVE OneWay
  BY <1>2 DEF TaskActs, ConsumeExport, LockExport, RecordExport, RenderExport, ExportTaskFails,
      CancelExport, Task, DropLock, WriteJob, WriteExport, AfterError, CancelledTask, StatusSet,
      JobSet, TaskPcs
<1>3. ASSUME NEW e \in Export, PublishActs(e) PROVE OneWay
  BY <1>3 DEF PublishActs, PublishDesktop, PublishWeb, Expired, HistoryFree, Task, TaskPcs
<1>4. ASSUME NEW e \in Export, ReaderActs(e) PROVE OneWay
  BY <1>4 DEF ReaderActs, OpenExport, CloseExport, ReclaimExports, HistoryFree, Removing
<1>5. ASSUME NEW e \in Export, InterruptActs(e) PROVE OneWay
  BY <1>5 DEF InterruptActs, ConsumerInterrupts, ConsumerReturns, RecoverExport,
      InterruptExportStep, InterruptExportFails, InterruptExport, SetExportInterrupt,
      LeaveInterrupt, DropLock, StatusSet, ExportTaskEnded, IdleTask, ActiveJob
<1>6. ASSUME NEW e \in Export, DeathActs(e) PROVE OneWay
  BY <1>6 DEF DeathActs, WorkerDies, ApiDies, SetExportApi, IdleTask, DropLock
<1>7. CASE SweepActs
  <2>1. ASSUME NEW e \in Export, SweepFile(e) PROVE OneWay
    BY <2>1 DEF SweepFile
  <2>2. ASSUME NEW e \in Export, SweepRow(e) PROVE OneWay
    BY <2>2 DEF SweepRow
  <2>3. CASE SweepEnds
    BY <2>3 DEF SweepEnds, SweepLeaves
  <2>4. CASE SweepFails
    BY <2>4 DEF SweepFails, SweepLeaves
  <2> QED BY <1>7, <2>1, <2>2, <2>3, <2>4 DEF SweepActs
<1>8. CASE RemovalActs
  BY <1>8 DEF RemovalActs, BeginRemoval, RetryRemoval, RemoveFiles, RemoveFile, RemoveDirectory,
      RemoveProjectRow, RemovalFails, ForgetProject, EndRemoval, FreeHistory, NoExportActive,
      NoDownloads, HistoryFree
<1>9. CASE EngineActs
  BY <1>9 DEF EngineActs, BeginExportStop, ExportsStopped, LaunchExports, OpenExports,
      EngineDies, Phase, FreeHistory, IdleTask, HistoryFree
<1>10. CASE UNCHANGED exportVars
  BY <1>10
<1> QED BY <1>1, <1>2, <1>3, <1>4, <1>5, <1>6, <1>7, <1>8, <1>9, <1>10, ExportActs

LEMMA FaultsAndRemovalsLast ==
    ASSUME TypesOfBounds, ReadersInv, [ExportNext]_exportVars, exportFaults' = 0, exportProject' # "gone"
    PROVE  exportFaults = 0 /\ exportProject # "gone" /\ exportPlatform' = exportPlatform
BY OnlyForward, ExportAssumption DEF TypesOfBounds, OneWay

\* While nothing fails, the job and the row of an export say at each place what its
\* request, its task or its interruption have written.
Shows(e, job, rows) == exportJob[e] = job /\ exportRow[e] \in rows
Queued(e) == Shows(e, "queued", {"pending"})
Completed == {"done", "deleting", "none"}
TaskShows(e) ==
    /\ exportTask[e].pc = "idle" /\ exportInterrupt[e] # "marked" =>
         Queued(e) \/ Shows(e, "error", {"error"}) \/ Shows(e, "done", Completed)
    /\ exportTask[e].pc \in {"waiting", "claiming"} => Queued(e)
    /\ exportTask[e].pc = "starting" => Shows(e, "running", {"pending"})
    /\ exportTask[e].pc \in {"rendering", "publishing", "failing"} => Shows(e, "running", {"running"})
    /\ exportTask[e].pc \in {"sweeping", "published"} => Shows(e, "running", Completed)
    /\ exportTask[e].pc = "failed" => Shows(e, "error", {"running"})
    /\ exportTask[e].pc \in {"recording", "recorded"} => Shows(e, "error", {"error"})
RequestShows(e) ==
    /\ exportApi[e] # "undoing"
    /\ exportApi[e] \in {"admitted", "failed"} =>
         Queued(e) /\ exportOwner[e] = "none" /\ exportInterrupt[e] = "idle"
    /\ exportApi[e] = "failed" => Desktop
    /\ exportOwner[e] = "queue" => Queued(e)
InterruptShows(e) ==
    /\ exportInterrupt[e] = "marked" =>
         /\ Shows(e, "error", {"pending"})
         /\ exportTask[e].pc = "idle" /\ exportOwner[e] # "queue"
    /\ Desktop /\ exportInterrupt[e] # "idle" =>
         exportTask[e].pc \in {"idle", "recording", "recorded"} /\ exportOwner[e] # "queue"
StageOf(e) ==
    /\ RequestShows(e)
    /\ InterruptShows(e)
    /\ exportApi[e] = "ended" => TaskShows(e)
StagesInv == exportFaults = 0 /\ exportProject # "gone" => \A e \in Export : StageOf(e)


Untouched(e) ==
    /\ exportRow'[e] = exportRow[e] /\ exportJob'[e] = exportJob[e]
    /\ exportApi'[e] = exportApi[e] /\ exportOwner'[e] = exportOwner[e]
    /\ exportTask'[e].pc = exportTask[e].pc /\ exportInterrupt'[e] = exportInterrupt[e]

LEMMA UntouchedStage ==
    ASSUME NEW e \in Export, StageOf(e), Untouched(e), exportPlatform' = exportPlatform
    PROVE  StageOf(e)'
BY DEF StageOf, RequestShows, InterruptShows, TaskShows, Shows, Queued, Completed, Untouched, Desktop

\* An expired export has been completed.
LEMMA CompletedStage ==
    ASSUME NEW e \in Export, StageOf(e), exportRow[e] \in Completed, exportRow'[e] \in Completed,
           exportApi[e] = "ended", exportJob'[e] = exportJob[e],
           exportApi'[e] = exportApi[e], exportOwner'[e] = exportOwner[e],
           exportTask'[e].pc = exportTask[e].pc, exportInterrupt'[e] = exportInterrupt[e],
           exportPlatform' = exportPlatform
    PROVE  StageOf(e)'
BY DEF StageOf, RequestShows, InterruptShows, TaskShows, Shows, Queued, Completed, Desktop

LEMMA StagesKept ==
    ASSUME TypesOfRows, TypesOfFiles, TypesOfRequests, TypesOfTasks, TypesOfInterrupts,
           TypesOfHistory, TypesOfBounds, ReadersInv, BeginInv, ConsumersInv, HistoryInv,
           ExportLocksInv, StagesInv, [ExportNext]_exportVars
    PROVE  StagesInv'
<1> SUFFICES ASSUME exportFaults' = 0, exportProject' # "gone", NEW x \in Export
             PROVE  StageOf(x)'
  BY DEF StagesInv
<1>1. exportFaults = 0 /\ exportProject # "gone" /\ exportPlatform' = exportPlatform
  BY FaultsAndRemovalsLast
<1>2. StageOf(x)
  BY <1>1 DEF StagesInv
<1>3. ASSUME NEW e \in Export, RequestActs(e) PROVE StageOf(x)'
  <2>1. CASE x # e
    <3>1. Untouched(x)
      BY <1>3, <2>1 DEF Untouched, RequestActs, AdmitExport, EnqueueExport, EnqueueExportFails,
          FailExportAdmission, UndoExport, SetExportApi, StatusSet, JobSet, Desktop, Web,
          ExportFault, exportRows, exportTimes, exportWork, exportReaders, exportWorld,
          TypesOfRows, TypesOfRequests, TypesOfTasks, TypesOfInterrupts
    <3> QED BY <1>1, <1>2, <3>1, UntouchedStage
  <2>2. CASE x = e /\ AdmitExport(e)
    BY <1>1, <1>2, <2>2 DEF AdmitExport, SetExportApi, BeginInv, Desktop, Web, ExportFault,
        exportRows, exportTimes, exportWork, exportReaders, exportWorld, StageOf, RequestShows,
        InterruptShows, TaskShows, Shows, Queued, Completed, TypesOfRows, TypesOfRequests,
        TypesOfTasks, TypesOfInterrupts
  <2>3. CASE x = e /\ EnqueueExport(e)
    BY <1>1, <1>2, <2>3 DEF EnqueueExport, SetExportApi, ConsumersInv, Desktop, Web,
        ExportFault, exportRows, exportTimes, exportWork, exportReaders, exportWorld, StageOf,
        RequestShows, InterruptShows, TaskShows, Shows, Queued, Completed, TypesOfRows,
        TypesOfRequests, TypesOfTasks, TypesOfInterrupts
  <2>4. CASE x = e /\ EnqueueExportFails(e)
    BY <1>1, <1>2, <2>4 DEF EnqueueExportFails, SetExportApi, Desktop, Web, ExportFault,
        exportRows, exportTimes, exportWork, exportReaders, exportWorld, StageOf, RequestShows,
        InterruptShows, TaskShows, Shows, Queued, Completed, TypesOfRows, TypesOfRequests,
        TypesOfTasks, TypesOfInterrupts
  <2>5. CASE x = e /\ FailExportAdmission(e)
    <3>1. exportApi[x] = "failed" /\ Queued(x) /\ Desktop
      BY <1>2, <2>5 DEF FailExportAdmission, StageOf, RequestShows
    <3>2. /\ exportJob' = [exportJob EXCEPT ![x] = "error"]
          /\ exportRow' = [exportRow EXCEPT ![x] = "error"]
          /\ exportApi' = [exportApi EXCEPT ![x] = "ended"]
          /\ UNCHANGED <<exportOwner, exportTask, exportInterrupt>>
      BY <3>1, <2>5 DEF FailExportAdmission, Queued, Shows, SetExportApi
    <3>3. exportOwner[x] = "none" /\ exportInterrupt[x] = "idle" /\ exportTask[x].pc = "idle"
      BY <1>2, <3>1 DEF StageOf, RequestShows, ConsumersInv
    <3> QED BY <1>1, <3>1, <3>2, <3>3 DEF StageOf, RequestShows, InterruptShows, TaskShows, Shows,
               Queued, Completed, TypesOfRows, TypesOfRequests
  <2>6. CASE x = e /\ UndoExport(e)
    BY <1>1, <1>2, <2>6 DEF UndoExport, SetExportApi, StatusSet, Desktop, Web, ExportFault,
        exportRows, exportTimes, exportWork, exportReaders, exportWorld, StageOf, RequestShows,
        InterruptShows, TaskShows, Shows, Queued, Completed, TypesOfRows, TypesOfRequests,
        TypesOfTasks, TypesOfInterrupts
  <2> QED BY <1>3, <2>1, <2>2, <2>3, <2>4, <2>5, <2>6 DEF RequestActs
<1>4. ASSUME NEW e \in Export, TaskActs(e) PROVE StageOf(x)'
  <2>1. CASE x # e
    <3>1. Untouched(x)
      BY <1>4, <2>1 DEF Untouched, TaskActs, ConsumeExport, LockExport, RecordExport,
          RenderExport, ExportTaskFails, CancelExport, Task, DropLock, WriteJob, WriteExport,
          AfterError, CancelledTask, StatusSet, JobSet, TaskPcs, Desktop, Web, ExportFault,
          exportRows, exportTimes, exportWork, exportReaders, exportWorld, TypesOfRows,
          TypesOfRequests, TypesOfTasks, TypesOfInterrupts
    <3> QED BY <1>1, <1>2, <3>1, UntouchedStage
  <2>2. CASE x = e /\ ConsumeExport(e)
    BY <1>1, <1>2, <2>2 DEF ConsumeExport, Desktop, Web, ExportFault, exportRows, exportTimes,
        exportWork, exportReaders, exportWorld, StageOf, RequestShows, InterruptShows,
        TaskShows, Shows, Queued, Completed, TypesOfRows, TypesOfRequests, TypesOfTasks,
        TypesOfInterrupts
  <2>3. CASE x = e /\ LockExport(e)
    BY <1>1, <1>2, <2>3 DEF LockExport, Task, ExportLocksInv, Desktop, Web, ExportFault,
        exportRows, exportTimes, exportWork, exportReaders, exportWorld, StageOf, RequestShows,
        InterruptShows, TaskShows, Shows, Queued, Completed, TypesOfRows, TypesOfRequests,
        TypesOfTasks, TypesOfInterrupts
  <2>4. CASE x = e /\ RecordExport(e)
    <3>1. /\ exportApi' = exportApi /\ exportOwner' = exportOwner
          /\ exportInterrupt' = exportInterrupt /\ exportApi[x] = "ended"
          /\ exportInterrupt[x] # "marked" /\ exportOwner[x] = "consumer"
      BY <1>2, <2>4 DEF RecordExport, WriteJob, WriteExport, StageOf, RequestShows, InterruptShows,
         TaskShows, Shows, Queued, Completed, TypesOfRequests, BeginInv, ConsumersInv
    <3>2. \/ exportTask'[x].pc = "starting" /\ exportTask[x].pc = "claiming"
             /\ Shows(x, "running", {"pending"})'
          \/ exportTask'[x].pc = "rendering" /\ exportTask[x].pc = "starting"
             /\ Shows(x, "running", {"running"})'
          \/ exportTask'[x].pc = "failed" /\ exportTask[x].pc = "failing"
             /\ Shows(x, "error", {"running"})'
          \/ exportTask'[x].pc \in {"idle", "recording"} /\ exportTask[x].pc = "failed"
             /\ Shows(x, "error", {"error"})'
          \/ exportTask'[x].pc = "idle" /\ exportTask[x].pc = "published"
             /\ Shows(x, "done", Completed)'
          \/ exportTask'[x].pc \in {"recorded", "idle"} /\ exportTask[x].pc \in {"recording", "recorded"}
             /\ Shows(x, "error", {"error"})'
      <4> USE <1>2, <3>1, <2>4 DEF TypesOfRows, TypesOfTasks, Task, JobSet, StatusSet, StageOf,
              RequestShows, InterruptShows, TaskShows, Shows, Queued, Completed
      <4>1. CASE WriteJob(e, "claiming", "running", "starting")
        BY <4>1 DEF WriteJob
      <4>2. CASE WriteExport(e, "starting", "running", "rendering")
        BY <4>2 DEF WriteExport
      <4>3. CASE WriteJob(e, "failing", "error", "failed")
        BY <4>3 DEF WriteJob
      <4>4. CASE /\ exportTask[e].pc = "failed"
                 /\ exportRow' = StatusSet(e, "error")
                 /\ Task(e, AfterError(e))
                 /\ DropLock(e)
                 /\ UNCHANGED exportJob
        BY <4>4 DEF AfterError
      <4>5. CASE /\ exportTask[e].pc = "published"
                 /\ exportJob' = JobSet(e, "done")
                 /\ Task(e, "idle")
                 /\ DropLock(e)
                 /\ UNCHANGED exportRow
        BY <4>5
      <4>6. CASE WriteExport(e, "recording", "error", "recorded")
        BY <4>6 DEF WriteExport
      <4>7. CASE WriteJob(e, "recorded", "error", "idle")
        BY <4>7 DEF WriteJob
      <4> QED BY <4>1, <4>2, <4>3, <4>4, <4>5, <4>6, <4>7 DEF RecordExport
    <3> QED BY <1>1, <1>2, <3>1, <3>2 DEF StageOf, RequestShows, InterruptShows, TaskShows, Shows,
               Queued, Completed, Desktop
  <2>5. CASE x = e /\ RenderExport(e)
    BY <1>1, <1>2, <2>5 DEF RenderExport, Task, Desktop, Web, ExportFault, exportRows,
        exportTimes, exportWork, exportReaders, exportWorld, StageOf, RequestShows,
        InterruptShows, TaskShows, Shows, Queued, Completed, TypesOfRows, TypesOfRequests,
        TypesOfTasks, TypesOfInterrupts
  <2>6. CASE x = e /\ ExportTaskFails(e)
    BY <1>1, <1>2, <2>6 DEF ExportTaskFails, Task, AfterError, Desktop, Web, ExportFault,
        exportRows, exportTimes, exportWork, exportReaders, exportWorld, StageOf, RequestShows,
        InterruptShows, TaskShows, Shows, Queued, Completed, TypesOfRows, TypesOfRequests,
        TypesOfTasks, TypesOfInterrupts
  <2>7. CASE x = e /\ CancelExport(e)
    BY <1>1, <1>2, <2>7 DEF CancelExport, CancelledTask, Desktop, Web, ExportFault, exportRows,
        exportTimes, exportWork, exportReaders, exportWorld, StageOf, RequestShows,
        InterruptShows, TaskShows, Shows, Queued, Completed, TypesOfRows, TypesOfRequests,
        TypesOfTasks, TypesOfInterrupts
  <2> QED BY <1>4, <2>1, <2>2, <2>3, <2>4, <2>5, <2>6, <2>7 DEF TaskActs
<1>5. ASSUME NEW e \in Export, InterruptActs(e) PROVE StageOf(x)'
  <2>1. CASE x # e
    <3>1. Untouched(x)
      BY <1>5, <2>1 DEF Untouched, InterruptActs, ConsumerInterrupts, ConsumerReturns,
          RecoverExport, InterruptExportStep, InterruptExportFails, InterruptExport,
          SetExportInterrupt, LeaveInterrupt, DropLock, StatusSet, ExportTaskEnded, IdleTask,
          ActiveJob, Desktop, Web, ExportFault, exportRows, exportTimes, exportWork,
          exportReaders, exportWorld, TypesOfRows, TypesOfRequests, TypesOfTasks,
          TypesOfInterrupts
    <3> QED BY <1>1, <1>2, <3>1, UntouchedStage
  <2>2. CASE x = e /\ ConsumerInterrupts(e)
    BY <1>1, <1>2, <2>2 DEF ConsumerInterrupts, InterruptExport, SetExportInterrupt, ActiveJob,
        ExportTaskEnded, ConsumersInv, Desktop, Web, ExportFault, exportRows, exportTimes,
        exportWork, exportReaders, exportWorld, StageOf, RequestShows, InterruptShows,
        TaskShows, Shows, Queued, Completed, TypesOfRows, TypesOfRequests, TypesOfTasks,
        TypesOfInterrupts
  <2>3. CASE x = e /\ ConsumerReturns(e)
    BY <1>1, <1>2, <2>3 DEF ConsumerReturns, IdleTask, Desktop, Web, ExportFault, exportRows,
        exportTimes, exportWork, exportReaders, exportWorld, StageOf, RequestShows,
        InterruptShows, TaskShows, Shows, Queued, Completed, TypesOfRows, TypesOfRequests,
        TypesOfTasks, TypesOfInterrupts
  <2>4. CASE x = e /\ RecoverExport(e)
    BY <1>1, <1>2, <2>4 DEF RecoverExport, InterruptExport, SetExportInterrupt, ActiveJob,
        ConsumersInv, Desktop, Web, ExportFault, exportRows, exportTimes, exportWork,
        exportReaders, exportWorld, StageOf, RequestShows, InterruptShows, TaskShows, Shows,
        Queued, Completed, TypesOfRows, TypesOfRequests, TypesOfTasks, TypesOfInterrupts
  <2>5. CASE x = e /\ InterruptExportStep(e)
    <3>1. /\ UNCHANGED <<exportApi, exportOwner, exportTask>>
          /\ exportApi[x] = "ended"
      BY <1>2, <2>5 DEF InterruptExportStep, StageOf, RequestShows, InterruptShows, TaskShows,
         Shows, Queued, Completed, BeginInv, TypesOfRequests
    <3>2. CASE exportInterrupt[x] = "locking"
      BY <1>1, <1>2, <2>5, <3>1, <3>2 DEF InterruptExportStep, SetExportInterrupt, TypesOfInterrupts,
         StageOf, RequestShows, InterruptShows, TaskShows, Shows, Queued, Completed, Desktop
    <3>3. CASE exportInterrupt[x] = "locked"
      <4>1. exportTask[x].pc \notin LockedPcs
        BY <3>3 DEF ExportLocksInv
      <4>2. exportTask[x].pc \in {"idle", "waiting", "recording", "recorded"}
        BY <4>1 DEF LockedPcs, TypesOfTasks, TaskPcs
      <4>3. CASE exportInterrupt'[x] = "idle" /\ UNCHANGED <<exportJob, exportRow>>
        BY <1>1, <1>2, <3>1, <3>3, <4>3 DEF StageOf, RequestShows, InterruptShows, TaskShows,
           Shows, Queued, Completed, Desktop
      <4>4. CASE /\ exportJob' = [exportJob EXCEPT ![x] = "error"]
                 /\ exportInterrupt'[x] = "marked" /\ UNCHANGED exportRow
                 /\ exportJob[x] \in ActiveJob
                 /\ ~(Web /\ exportJob[x] = "queued" /\ exportOwner[x] # "none")
        <5>1. exportTask[x].pc = "idle"
          BY <1>2, <3>1, <3>3, <4>2, <4>4 DEF StageOf, RequestShows, InterruptShows, TaskShows,
             Shows, Queued, Completed, ActiveJob, Web, Desktop, ConsumersInv, TypesOfRows
        <5>2. Queued(x) /\ exportOwner[x] # "queue"
          BY <1>2, <3>1, <3>3, <4>4, <5>1 DEF StageOf, RequestShows, InterruptShows, TaskShows,
             Shows, Queued, Completed, ActiveJob, Web, Desktop, TypesOfRows
        <5> QED BY <1>1, <1>2, <3>1, <3>3, <4>4, <5>1, <5>2 DEF StageOf, RequestShows,
                   InterruptShows, TaskShows, Shows, Queued, Completed, Desktop, TypesOfRows
      <4> QED BY <2>5, <3>3, <4>3, <4>4 DEF InterruptExportStep, LeaveInterrupt, SetExportInterrupt,
                 TypesOfInterrupts
    <3>4. CASE exportInterrupt[x] = "marked"
      BY <1>1, <1>2, <2>5, <3>1, <3>4 DEF InterruptExportStep, LeaveInterrupt, SetExportInterrupt,
         StatusSet, TypesOfInterrupts, TypesOfRows, StageOf, RequestShows, InterruptShows,
         TaskShows, Shows, Queued, Completed, Desktop
    <3> QED BY <2>5, <3>2, <3>3, <3>4 DEF InterruptExportStep
  <2>6. CASE x = e /\ InterruptExportFails(e)
    BY <1>1, <1>2, <2>6 DEF InterruptExportFails, Desktop, Web, ExportFault, exportRows,
        exportTimes, exportWork, exportReaders, exportWorld, StageOf, RequestShows,
        InterruptShows, TaskShows, Shows, Queued, Completed, TypesOfRows, TypesOfRequests,
        TypesOfTasks, TypesOfInterrupts
  <2> QED BY <1>5, <2>1, <2>2, <2>3, <2>4, <2>5, <2>6 DEF InterruptActs
<1>6. ASSUME NEW e \in Export, DeathActs(e) PROVE StageOf(x)'
  <2>1. CASE x # e
    <3>1. Untouched(x)
      BY <1>6, <2>1 DEF Untouched, DeathActs, WorkerDies, ApiDies, SetExportApi, IdleTask,
          DropLock, Desktop, Web, ExportFault, exportRows, exportTimes, exportWork,
          exportReaders, exportWorld, TypesOfRows, TypesOfRequests, TypesOfTasks,
          TypesOfInterrupts
    <3> QED BY <1>1, <1>2, <3>1, UntouchedStage
  <2>2. FALSE
    BY <1>1, <1>6 DEF DeathActs, WorkerDies, ApiDies, ExportFault
  <2> QED BY <2>2
<1>7. ASSUME NEW e \in Export, ReaderActs(e) PROVE StageOf(x)'
  <2>1. CASE x # e
    <3>1. Untouched(x)
      BY <1>7, <2>1 DEF Untouched, ReaderActs, OpenExport, CloseExport, ReclaimExports,
          HistoryFree, Removing, Desktop, Web, ExportFault, exportRows, exportTimes, exportWork,
          exportReaders, exportWorld, TypesOfRows, TypesOfRequests, TypesOfTasks,
          TypesOfInterrupts
    <3> QED BY <1>1, <1>2, <3>1, UntouchedStage
  <2>2. Untouched(x)
    BY <1>7 DEF Untouched, ReaderActs, OpenExport, CloseExport, ReclaimExports, HistoryFree,
        Removing, Desktop, Web, ExportFault, exportRows, exportTimes, exportWork, exportReaders,
        exportWorld
  <2> QED BY <1>1, <1>2, <2>2, UntouchedStage
<1>8. ASSUME NEW e \in Export, PublishActs(e) PROVE StageOf(x)'
  <2>1. /\ exportJob' = exportJob /\ exportApi' = exportApi /\ exportOwner' = exportOwner
        /\ exportInterrupt' = exportInterrupt
        /\ exportTask[e].pc = "publishing"
        /\ exportTask'[e].pc \in {"sweeping", "published"} /\ exportRow'[e] \in Completed
        /\ x # e => exportTask'[x].pc = exportTask[x].pc
    BY <1>1, <1>8 DEF PublishActs, PublishDesktop, PublishWeb, Task, TypesOfTasks, TypesOfRows, Completed,
           ExportFault, TypesOfBounds
  <2>2. x # e => \/ exportRow'[x] = exportRow[x]
                 \/ exportRow[x] = "done" /\ exportRow'[x] \in Completed
    BY <1>8 DEF PublishActs, PublishDesktop, PublishWeb, Expired, TypesOfRows, Completed
  <2>3. CASE x = e
    BY <1>1, <1>2, <2>1, <2>3 DEF StageOf, RequestShows, InterruptShows, TaskShows, Shows, Queued,
       Completed, Desktop, ExportLocksInv, LockedPcs, TypesOfInterrupts,
       BeginInv, ConsumersInv, TypesOfRequests
  <2>4. CASE x # e /\ exportRow'[x] = exportRow[x]
    BY <1>1, <1>2, <2>1, <2>4, UntouchedStage DEF Untouched
  <2>5. CASE x # e /\ exportRow[x] = "done" /\ exportRow'[x] \in Completed
    <3>1. exportApi[x] = "ended"
      BY <1>2, <2>5 DEF StageOf, RequestShows, InterruptShows, TaskShows, Shows, Queued, Completed,
         TypesOfRequests, BeginInv
    <3> QED BY <1>1, <1>2, <2>1, <2>5, <3>1, CompletedStage DEF Completed
  <2> QED BY <2>2, <2>3, <2>4, <2>5
<1>9. CASE SweepActs
  <2>1. ASSUME NEW e \in Export, SweepFile(e) PROVE StageOf(x)'
    <3>1. Untouched(x)
      BY <2>1 DEF SweepFile, Untouched, Desktop, Web, ExportFault, exportRows, exportTimes,
         exportWork, exportReaders, exportWorld
    <3> QED BY <1>1, <1>2, <3>1, UntouchedStage
  <2>2. ASSUME NEW e \in Export, SweepRow(e) PROVE StageOf(x)'
    <3>1. CASE x = e
      <4>1. exportRow[x] \in Completed /\ exportApi[x] # "idle" /\ exportRow'[x] = "none"
        BY <2>2, <3>1 DEF SweepRow, HistoryInv, Completed, TypesOfRows
      <4>2. exportApi[x] = "ended"
        BY <1>2, <4>1 DEF StageOf, RequestShows, InterruptShows, TaskShows, Shows, Queued,
           Completed, TypesOfRequests
      <4> QED BY <1>1, <1>2, <2>2, <4>1, <4>2, CompletedStage DEF SweepRow, exportWork, Completed
    <3>2. CASE x # e
      <4>1. Untouched(x)
        BY <2>2, <3>2 DEF SweepRow, Untouched, TypesOfRows, exportWork
      <4> QED BY <1>1, <1>2, <4>1, UntouchedStage
    <3> QED BY <3>1, <3>2
  <2>3. CASE SweepEnds
    <3>1. CASE exportTask[x].pc = "sweeping"
      <4>1. exportTask'[x].pc \in {"sweeping", "published"}
        BY <2>3, <3>1 DEF SweepEnds, SweepLeaves, TypesOfTasks
      <4> QED BY <1>1, <1>2, <2>3, <3>1, <4>1
              DEF SweepEnds, SweepLeaves, StageOf, RequestShows, InterruptShows, TaskShows, Shows,
                  Queued, Completed, Desktop, Web, ExportFault, exportRows, exportTimes,
                  exportWork, exportReaders, exportWorld
    <3>2. CASE exportTask[x].pc # "sweeping"
      <4>1. Untouched(x)
        BY <2>3, <3>2 DEF SweepEnds, SweepLeaves, Untouched, exportRows
      <4> QED BY <1>1, <1>2, <4>1, UntouchedStage
    <3> QED BY <3>1, <3>2
  <2>4. CASE SweepFails
    BY <1>1, <2>4 DEF SweepFails, ExportFault
  <2> QED BY <1>9, <2>1, <2>2, <2>3, <2>4 DEF SweepActs
<1>10. CASE RemovalActs
  <2>1. Untouched(x)
    BY <1>10 DEF Untouched, RemovalActs, BeginRemoval, RetryRemoval, RemoveFiles, RemoveFile,
           RemoveDirectory, RemoveProjectRow, RemovalFails, ForgetProject, exportRows, exportWork
  <2> QED BY <1>1, <1>2, <2>1, UntouchedStage
<1>11. CASE EngineActs
  <2>1. Untouched(x)
    BY <1>1, <1>11 DEF Untouched, EngineActs, BeginExportStop, ExportsStopped, LaunchExports, OpenExports,
           EngineDies, ExportFault, exportRows, exportWork, TypesOfTasks
  <2> QED BY <1>1, <1>2, <2>1, UntouchedStage
<1>12. CASE UNCHANGED exportVars
  <2>1. Untouched(x)
    BY <1>12 DEF Untouched, exportVars, exportRows, exportWork
  <2> QED BY <1>1, <1>2, <2>1, UntouchedStage
<1> QED BY <1>3, <1>4, <1>5, <1>6, <1>7, <1>8, <1>9, <1>10, <1>11, <1>12, ExportActs


ExportsInv ==
    /\ ExportTypeOK
    /\ ReadersInv /\ BeginInv /\ ConsumersInv /\ HistoryInv /\ ExportLocksInv /\ WorkInv
    /\ PublishedFilesExist /\ BoundedInv /\ StagesInv

LEMMA ExportsStart == ExportInit => ExportsInv
<1> SUFFICES ASSUME ExportInit PROVE ExportsInv
  OBVIOUS
<1> USE ExportAssumption
<1>1. ExportTypeOK
  BY DEF ExportInit, ExportTypeOK, IdleTask, FreeHistory, Sweepers, TaskPcs
<1>2. ReadersInv /\ BeginInv /\ ConsumersInv
  BY DEF ExportInit, ReadersInv, BeginInv, ConsumersInv, IdleTask, Removing
<1>3. HistoryInv /\ ExportLocksInv /\ WorkInv
  BY DEF ExportInit, HistoryInv, ExportLocksInv, LockedPcs, WorkInv, IdleTask, FreeHistory, Sweepers
<1>4. PublishedFilesExist
  BY DEF ExportInit, PublishedFilesExist
<1>5. BoundedInv
  <2>1. DoneRows = {}
    BY DEF ExportInit, DoneRows
  <2> QED BY <2>1, FS_EmptySet DEF BoundedInv
<1>6. StagesInv
  BY DEF ExportInit, StagesInv, StageOf, RequestShows, InterruptShows
<1> QED BY <1>1, <1>2, <1>3, <1>4, <1>5, <1>6 DEF ExportsInv

LEMMA ExportsGoOn == ExportsInv /\ [ExportNext]_exportVars => ExportsInv'
<1> SUFFICES ASSUME ExportsInv, [ExportNext]_exportVars PROVE ExportsInv'
  OBVIOUS
<1>1. /\ TypesOfRows /\ TypesOfTimes /\ TypesOfFiles /\ TypesOfRequests /\ TypesOfTasks
      /\ TypesOfInterrupts /\ TypesOfHistory /\ TypesOfReaders /\ TypesOfBounds
  BY TypesOfExports DEF ExportsInv
<1>2. ExportTypeOK'
  <2>1. /\ TypesOfRows' /\ TypesOfTimes' /\ TypesOfFiles' /\ TypesOfRequests' /\ TypesOfTasks'
        /\ TypesOfInterrupts' /\ TypesOfHistory' /\ TypesOfReaders' /\ TypesOfBounds'
    BY <1>1, TypesRowsKept, TypesTimesKept, TypesFilesKept, TypesRequestsKept, TypesTasksKept,
       TypesInterruptsKept, TypesHistoryKept, TypesReadersKept, TypesBoundsKept
  <2> QED BY <2>1 DEF ExportTypeOK, TypesOfRows, TypesOfTimes, TypesOfFiles, TypesOfRequests,
                TypesOfTasks, TypesOfInterrupts, TypesOfHistory, TypesOfReaders, TypesOfBounds
<1>3. ReadersInv' /\ BeginInv' /\ ConsumersInv' /\ HistoryInv' /\ ExportLocksInv' /\ WorkInv'
  BY <1>1, ReadersKept, BeginKept, ConsumersKept, HistoryKept, ExportLocksKept, WorkKept
     DEF ExportsInv
<1>4. PublishedFilesExist' /\ BoundedInv' /\ StagesInv'
  BY <1>1, FilesKept, BoundedKept, StagesKept DEF ExportsInv
<1> QED BY <1>2, <1>3, <1>4 DEF ExportsInv

LEMMA ExportsAlways == ExportSpec => []ExportsInv
BY ExportsStart, ExportsGoOn, PTL DEF ExportSpec

\* Every variable of the exports keeps its type.
THEOREM ExportsTyped == ExportSpec => []ExportTypeOK
<1>1. ExportsInv => ExportTypeOK
  BY DEF ExportsInv
<1> QED BY <1>1, ExportsAlways, PTL

\* An export's row, its job and its file tell one story: at rest they show the same outcome,
\* what is listed can be downloaded, the history stays within EXPORT_LIMIT, and a task at
\* work is not declared lost (execute, publish_export, _cleanup_exports, _interrupt).
THEOREM ExportsTellOneStory == ExportSpec => []ExportsAreConsistent
<1>1. ExportsInv => ExportsAreConsistent
  <2> SUFFICES ASSUME ExportsInv PROVE ExportsAreConsistent
    OBVIOUS
  <2>1. JobsAndExportsAgree
    <3> SUFFICES ASSUME exportFaults = 0, exportProject # "gone", NEW e \in Export, AtRest(e)
                 PROVE  \/ exportJob[e] \in ActiveJob /\ exportRow[e] \in ActiveRow
                        \/ exportJob[e] = "error" /\ exportRow[e] = "error"
                        \/ exportJob[e] = "done" /\ exportRow[e] \in {"done", "deleting", "none"}
      BY DEF JobsAndExportsAgree, NoExportTrouble
    <3>1. StageOf(e)
      BY DEF ExportsInv, StagesInv
    <3> QED BY <3>1 DEF StageOf, TaskShows, AtRest, Queued, Shows, Completed, ActiveJob, ActiveRow
  <2>2. HistoryIsBounded
    BY DEF ExportsInv, BoundedInv, DoneRows, HistoryIsBounded
  <2>3. ExportWorkIsNotDeclaredLost
    <3> SUFFICES ASSUME NEW e \in Export, exportTask[e].pc \in {"rendering", "publishing"}
                 PROVE  exportInterrupt[e] \in {"idle", "locking"} /\ (Web \/ exportJob[e] # "error")
      BY DEF ExportWorkIsNotDeclaredLost
    <3>1. exportInterrupt[e] \notin {"locked", "marked"}
      BY DEF ExportsInv, ExportLocksInv, LockedPcs
    <3>2. Desktop => exportJob[e] \in {"running", "none"}
      BY DEF ExportsInv, WorkInv
    <3> QED BY <3>1, <3>2 DEF ExportsInv, ExportTypeOK, Web, Desktop
  <2> QED BY <2>1, <2>2, <2>3 DEF ExportsInv, ExportsAreConsistent
<1> QED BY <1>1, ExportsAlways, PTL

\* What one step does to what has been published or is being downloaded.
StaysPublished ==
    \A e \in Export : Desktop /\ exportRow[e] = "done" =>
        exportRow'[e] \in {"done", "deleting", "none"}
KeepsDownloads ==
    \A e \in Export : exportLease[e] > 0 /\ exportFile[e] /\ ~exportFile'[e] =>
        exportRemoval = "retry"

LEMMA StepsStayPublished ==
    ASSUME TypesOfRows, [ExportNext]_exportVars
    PROVE  StaysPublished
<1> USE ExportAssumption DEF TypesOfRows, StaysPublished, Desktop, Web, ExportFault, exportVars,
    exportRows, exportTimes, exportWork, exportReaders, exportWorld
<1>1. ASSUME NEW e \in Export, RequestActs(e) PROVE StaysPublished
  BY <1>1 DEF RequestActs, AdmitExport, EnqueueExport, EnqueueExportFails, FailExportAdmission,
      UndoExport, SetExportApi, StatusSet, JobSet
<1>2. ASSUME NEW e \in Export, TaskActs(e) PROVE StaysPublished
  BY <1>2 DEF TaskActs, ConsumeExport, LockExport, RecordExport, RenderExport, ExportTaskFails,
      CancelExport, Task, DropLock, WriteJob, WriteExport, AfterError, CancelledTask, StatusSet,
      JobSet, TaskPcs
<1>3. ASSUME NEW e \in Export, PublishActs(e) PROVE StaysPublished
  BY <1>3 DEF PublishActs, PublishDesktop, PublishWeb, Expired, HistoryFree, Task, TaskPcs
<1>4. ASSUME NEW e \in Export, ReaderActs(e) PROVE StaysPublished
  BY <1>4 DEF ReaderActs, OpenExport, CloseExport, ReclaimExports, HistoryFree, Removing
<1>5. ASSUME NEW e \in Export, InterruptActs(e) PROVE StaysPublished
  BY <1>5 DEF InterruptActs, ConsumerInterrupts, ConsumerReturns, RecoverExport,
      InterruptExportStep, InterruptExportFails, InterruptExport, SetExportInterrupt,
      LeaveInterrupt, DropLock, StatusSet, ExportTaskEnded, IdleTask, ActiveJob
<1>6. ASSUME NEW e \in Export, DeathActs(e) PROVE StaysPublished
  BY <1>6 DEF DeathActs, WorkerDies, ApiDies, SetExportApi, IdleTask, DropLock
<1>7. CASE SweepActs
  BY <1>7 DEF SweepActs, SweepFile, SweepRow, SweepEnds, SweepFails, SweepLeaves, FreeHistory,
      Sweepers, TaskPcs
<1>8. CASE RemovalActs
  BY <1>8 DEF RemovalActs, BeginRemoval, RetryRemoval, RemoveFiles, RemoveFile, RemoveDirectory,
      RemoveProjectRow, RemovalFails, ForgetProject, EndRemoval, FreeHistory, NoExportActive,
      NoDownloads, HistoryFree
<1>9. CASE EngineActs
  BY <1>9 DEF EngineActs, BeginExportStop, ExportsStopped, LaunchExports, OpenExports,
      EngineDies, Phase, FreeHistory, IdleTask, HistoryFree
<1>10. CASE UNCHANGED exportVars
  BY <1>10
<1> QED BY <1>1, <1>2, <1>3, <1>4, <1>5, <1>6, <1>7, <1>8, <1>9, <1>10, ExportActs

LEMMA StepsKeepDownloads ==
    ASSUME TypesOfRows, TypesOfFiles, TypesOfReaders, ReadersInv, [ExportNext]_exportVars
    PROVE  KeepsDownloads
<1> USE ExportAssumption DEF TypesOfRows, TypesOfFiles, TypesOfReaders, ReadersInv, Removing, NoDownloads,
    KeepsDownloads, Desktop, Web, ExportFault, exportVars, exportRows, exportTimes, exportWork,
    exportReaders, exportWorld
<1>1. ASSUME NEW e \in Export, RequestActs(e) PROVE KeepsDownloads
  BY <1>1 DEF RequestActs, AdmitExport, EnqueueExport, EnqueueExportFails, FailExportAdmission,
      UndoExport, SetExportApi, StatusSet, JobSet
<1>2. ASSUME NEW e \in Export, TaskActs(e) PROVE KeepsDownloads
  BY <1>2 DEF TaskActs, ConsumeExport, LockExport, RecordExport, RenderExport, ExportTaskFails,
      CancelExport, Task, DropLock, WriteJob, WriteExport, AfterError, CancelledTask, StatusSet,
      JobSet, TaskPcs
<1>3. ASSUME NEW e \in Export, PublishActs(e) PROVE KeepsDownloads
  BY <1>3 DEF PublishActs, PublishDesktop, PublishWeb, Expired, HistoryFree, Task, TaskPcs
<1>4. ASSUME NEW e \in Export, ReaderActs(e) PROVE KeepsDownloads
  BY <1>4 DEF ReaderActs, OpenExport, CloseExport, ReclaimExports, HistoryFree, Removing
<1>5. ASSUME NEW e \in Export, InterruptActs(e) PROVE KeepsDownloads
  BY <1>5 DEF InterruptActs, ConsumerInterrupts, ConsumerReturns, RecoverExport,
      InterruptExportStep, InterruptExportFails, InterruptExport, SetExportInterrupt,
      LeaveInterrupt, DropLock, StatusSet, ExportTaskEnded, IdleTask, ActiveJob
<1>6. ASSUME NEW e \in Export, DeathActs(e) PROVE KeepsDownloads
  BY <1>6 DEF DeathActs, WorkerDies, ApiDies, SetExportApi, IdleTask, DropLock
<1>7. CASE SweepActs
  <2>1. ASSUME NEW e \in Export, SweepFile(e) PROVE KeepsDownloads
    BY <2>1 DEF SweepFile
  <2>2. ASSUME NEW e \in Export, SweepRow(e) PROVE KeepsDownloads
    BY <2>2 DEF SweepRow
  <2>3. CASE SweepEnds
    BY <2>3 DEF SweepEnds, SweepLeaves
  <2>4. CASE SweepFails
    BY <2>4 DEF SweepFails, SweepLeaves
  <2> QED BY <1>7, <2>1, <2>2, <2>3, <2>4 DEF SweepActs
<1>8. CASE RemovalActs
  <2>1. CASE RemoveFiles
    <3>1. exportRemoval = "retry" \/ \A x \in Export : exportLease[x] = 0
      BY <2>1 DEF RemoveFiles, RemoveFile, RemoveDirectory
    <3>2. exportRemoval' = exportRemoval
      BY <2>1 DEF RemoveFiles, RemoveFile, RemoveDirectory
    <3> QED BY <3>1, <3>2, <2>1 DEF RemoveFiles, RemoveFile, RemoveDirectory
  <2>2. CASE BeginRemoval \/ RetryRemoval
    BY <2>2 DEF BeginRemoval, RetryRemoval
  <2>3. CASE RemoveProjectRow
    BY <2>3 DEF RemoveProjectRow, EndRemoval
  <2>4. CASE RemovalFails
    BY <2>4 DEF RemovalFails, EndRemoval
  <2>5. CASE ForgetProject
    BY <2>5 DEF ForgetProject
  <2> QED BY <1>8, <2>1, <2>2, <2>3, <2>4, <2>5 DEF RemovalActs
<1>9. CASE EngineActs
  BY <1>9 DEF EngineActs, BeginExportStop, ExportsStopped, LaunchExports, OpenExports,
      EngineDies, Phase, FreeHistory, IdleTask, HistoryFree
<1>10. CASE UNCHANGED exportVars
  BY <1>10
<1> QED BY <1>1, <1>2, <1>3, <1>4, <1>5, <1>6, <1>7, <1>8, <1>9, <1>10, ExportActs

\* A published Desktop export is only expired or removed, and a file that is being downloaded
\* goes at most with a removal that is tried again (set_export_status, _cleanup_exports,
\* remove_project).
THEOREM PublicationsStay == ExportSpec => PublicationsLast
<1>1. ExportsInv /\ [ExportNext]_exportVars => [StaysPublished]_exportVars /\ [KeepsDownloads]_exportVars
  BY TypesOfExports, StepsStayPublished, StepsKeepDownloads DEF ExportsInv
<1>2. ExportSpec => [][StaysPublished]_exportVars /\ [][KeepsDownloads]_exportVars
  BY <1>1, ExportsAlways, PTL DEF ExportSpec
<1> QED BY <1>2 DEF PublicationsLast, PublishedStaysPublished, DownloadsKeepTheirFile,
                StaysPublished, KeepsDownloads

-----------------------------------------------------------------------------
(* The catalog is one record, and what a step does to it is one of seven   *)
(* things.                                                                 *)

OffsetPairs == [jobs : Nat, exports : Nat]
Records == UNION {[S -> OffsetPairs] : S \in SUBSET Old}
References == UNION {[S -> Nat] : S \in SUBSET Nat}
Catalogs == [present : BOOLEAN, projects : SUBSET MigProject, jobs : SUBSET Row,
             exports : SUBSET Row, refs : References, jobSeq : Nat, exportSeq : Nat,
             receipts : Records, settings : BOOLEAN]

TypesOfCatalog ==
    /\ migProject \in [Old -> MigProject]
    /\ catalog \in Catalogs
    /\ provenance \in Records
    /\ ~catalog.present => catalog = NoCatalog

TypesOfStarts ==
    /\ migStart \in [Workspace -> Pcs]
    /\ migrationLock \in Old \cup {NoWorkspace}
    /\ sentinel \in Old \cup {NoWorkspace}
    /\ \A w \in Workspace : migStart[w] \notin {"off", "starting", "open"} => w \in Old

TypesOfDocuments ==
    /\ settingsFile \in BOOLEAN
    /\ DOMAIN indexFile \subseteq MigProject
    /\ migCreated \in 0..MaxMigCreated
    /\ migFaults \in 0..MaxMigFaults
    /\ migLosses \in 0..MaxMigLosses

LEMMA RecordsAre ==
    ASSUME NEW f
    PROVE  f \in Records <=> f \in [DOMAIN f -> OffsetPairs] /\ DOMAIN f \subseteq Old
  BY DEF Records

LEMMA ReferencesAre ==
    ASSUME NEW f
    PROVE  f \in References <=> f \in [DOMAIN f -> Nat] /\ DOMAIN f \subseteq Nat
  BY DEF References

LEMMA OverOfRecords ==
    ASSUME NEW f \in Records, NEW g \in Records
    PROVE  /\ Over(f, g) \in Records
           /\ DOMAIN Over(f, g) = DOMAIN f \cup DOMAIN g
           /\ \A w \in DOMAIN f : Over(f, g)[w] = f[w]
           /\ \A w \in DOMAIN g \ DOMAIN f : Over(f, g)[w] = g[w]
<1>1. /\ f \in [DOMAIN f -> OffsetPairs] /\ DOMAIN f \subseteq Old
      /\ g \in [DOMAIN g -> OffsetPairs] /\ DOMAIN g \subseteq Old
  BY RecordsAre
<1>2. /\ Over(f, g) \in [DOMAIN f \cup DOMAIN g -> OffsetPairs]
      /\ DOMAIN f \cup DOMAIN g \subseteq Old
  BY <1>1 DEF Over
<1>3. Over(f, g) \in Records
  BY <1>2, RecordsAre
<1> QED BY <1>1, <1>2, <1>3 DEF Over

LEMMA JustOfRecords ==
    ASSUME NEW w \in Old, NEW o \in OffsetPairs
    PROVE  Just(w, o) \in Records /\ DOMAIN Just(w, o) = {w} /\ Just(w, o)[w] = o
<1>1. Just(w, o) \in [{w} -> OffsetPairs] /\ {w} \subseteq Old
  BY DEF Just
<1>2. Just(w, o) \in Records
  BY <1>1, RecordsAre
<1> QED BY <1>1, <1>2 DEF Just

\* A record that knows one more import.
Knowing(f, w, o, g) ==
    /\ g \in Records
    /\ DOMAIN g = DOMAIN f \cup {w}
    /\ g[w] = o
    /\ \A x \in DOMAIN f : g[x] = f[x]

LEMMA OneMoreRecord ==
    ASSUME NEW f \in Records, NEW w \in Old, w \notin DOMAIN f, NEW o \in OffsetPairs
    PROVE  Knowing(f, w, o, Over(f, Just(w, o)))
<1>1. Just(w, o) \in Records /\ DOMAIN Just(w, o) = {w} /\ Just(w, o)[w] = o
  BY JustOfRecords
<1>2. ASSUME NEW h \in Records, DOMAIN h = {w}, h[w] = o
      PROVE  Knowing(f, w, o, Over(f, h))
  <2>1. /\ Over(f, h) \in Records
        /\ DOMAIN Over(f, h) = DOMAIN f \cup {w}
        /\ \A x \in DOMAIN f : Over(f, h)[x] = f[x]
        /\ \A x \in DOMAIN h \ DOMAIN f : Over(f, h)[x] = h[x]
    BY <1>2, OverOfRecords
  <2>2. w \in DOMAIN h \ DOMAIN f
    BY <1>2
  <2> QED BY <1>2, <2>1, <2>2 DEF Knowing
<1> QED BY <1>1, <1>2

LEMMA LaterIs ==
    ASSUME NEW m \in Nat, NEW n \in Nat
    PROVE  Later(m, n) \in Nat /\ Later(m, n) >= m /\ Later(m, n) >= n
  BY DEF Later

LEMMA NoRecordsIs ==
    ASSUME NEW f \in Records
    PROVE  f = NoRecords <=> DOMAIN f = {}
<1>1. f \in [DOMAIN f -> OffsetPairs]
  BY RecordsAre
<1>2. DOMAIN f = {} => f = [w \in {} |-> NoOffsets]
  BY <1>1
<1> QED BY <1>2 DEF NoRecords

LEMMA EmptyCatalog == NoCatalog \in Catalogs /\ NoRecords \in Records
<1>1. NoRecords \in [{} -> OffsetPairs] /\ DOMAIN NoRecords = {}
  BY DEF NoRecords
<1>2. NoRecords \in Records
  BY <1>1, RecordsAre
<1>3. << >> \in References
  <2>1. << >> \in [{} -> Nat] /\ DOMAIN << >> = {}
    OBVIOUS
  <2> QED BY <2>1, ReferencesAre
<1> QED BY <1>2, <1>3 DEF NoCatalog, Catalogs


-----------------------------------------------------------------------------

MergeEffect(w, c) ==
    /\ c \in Catalogs /\ c.present
    /\ c.projects = catalog.projects \cup {migProject[w]}
    /\ c.jobs = catalog.jobs \cup RemappedJobs(w, High(catalog))
    /\ c.exports = catalog.exports \cup RemappedExports(w, High(catalog))
    /\ DOMAIN c.refs = DOMAIN catalog.refs \cup {o + catalog.jobSeq : o \in OldJobs}
    /\ \A id \in DOMAIN catalog.refs : c.refs[id] = catalog.refs[id]
    /\ \A o \in OldJobs : o + catalog.jobSeq \notin DOMAIN catalog.refs =>
          c.refs[o + catalog.jobSeq] = o + catalog.exportSeq
    /\ Knowing(catalog.receipts, w, High(catalog), c.receipts)
    /\ c.jobSeq >= catalog.jobSeq + JobHigh
    /\ c.exportSeq >= catalog.exportSeq + ExportHigh

BackfillEffect(w, c) ==
    /\ c \in Catalogs /\ c.present = catalog.present
    /\ c.projects = catalog.projects
    /\ c.jobs = catalog.jobs /\ c.exports = catalog.exports /\ c.refs = catalog.refs
    /\ Knowing(catalog.receipts, w, provenance[w], c.receipts)
    /\ c.jobSeq >= catalog.jobSeq /\ c.jobSeq >= provenance[w].jobs + JobHigh
    /\ c.exportSeq >= catalog.exportSeq /\ c.exportSeq >= provenance[w].exports + ExportHigh

AppRow(id, p) == [id |-> id, project |-> p, from |-> App, old |-> id]

AdmitEffect(p, c) ==
    /\ c \in Catalogs /\ c.present = catalog.present
    /\ c.projects = catalog.projects /\ c.receipts = catalog.receipts
    /\ c.jobs = catalog.jobs \cup {AppRow(catalog.jobSeq + 1, p)}
    /\ c.exports = catalog.exports \cup {AppRow(catalog.exportSeq + 1, p)}
    /\ DOMAIN c.refs = DOMAIN catalog.refs \cup {catalog.jobSeq + 1}
    /\ \A id \in DOMAIN catalog.refs : c.refs[id] = catalog.refs[id]
    /\ catalog.jobSeq + 1 \notin DOMAIN catalog.refs =>
          c.refs[catalog.jobSeq + 1] = catalog.exportSeq + 1
    /\ c.jobSeq = catalog.jobSeq + 1 /\ c.exportSeq = catalog.exportSeq + 1

ShrinkEffect(jobs, exports, c) ==
    /\ c \in Catalogs /\ c.present = catalog.present
    /\ c.projects \subseteq catalog.projects /\ c.receipts = catalog.receipts
    /\ c.jobs = catalog.jobs \ jobs /\ c.exports = catalog.exports \ exports
    /\ DOMAIN c.refs = {j.id : j \in catalog.jobs \ jobs}
    /\ \A id \in DOMAIN c.refs : c.refs[id] = catalog.refs[id]
    /\ c.jobSeq = catalog.jobSeq /\ c.exportSeq = catalog.exportSeq

\* h is f and, where it says nothing, g.
Joined(f, g, h) ==
    /\ h \in References
    /\ DOMAIN h = DOMAIN f \cup DOMAIN g
    /\ \A x \in DOMAIN f : h[x] = f[x]
    /\ \A x \in DOMAIN g \ DOMAIN f : h[x] = g[x]

LEMMA OverOfReferences ==
    ASSUME NEW f \in References, NEW g \in References
    PROVE  Joined(f, g, Over(f, g))
<1>1. /\ f \in [DOMAIN f -> Nat] /\ DOMAIN f \subseteq Nat
      /\ g \in [DOMAIN g -> Nat] /\ DOMAIN g \subseteq Nat
  BY ReferencesAre
<1>2. /\ Over(f, g) \in [DOMAIN f \cup DOMAIN g -> Nat]
      /\ DOMAIN f \cup DOMAIN g \subseteq Nat
  BY <1>1 DEF Over
<1>3. Over(f, g) \in References
  BY <1>2, ReferencesAre
<1> QED BY <1>1, <1>2, <1>3 DEF Over, Joined

LEMMA MergeIs ==
    ASSUME TypesOfCatalog, NEW w \in Old, w \notin DOMAIN catalog.receipts
    PROVE  MergeEffect(w, Merge(w))
<1> USE MigrationAssumption
<1>1. /\ catalog.jobSeq \in Nat /\ catalog.exportSeq \in Nat /\ High(catalog) \in OffsetPairs
      /\ High(catalog).jobs = catalog.jobSeq /\ High(catalog).exports = catalog.exportSeq
      /\ catalog.receipts \in Records /\ catalog.refs \in References
  BY DEF TypesOfCatalog, Catalogs, High, OffsetPairs
<1> DEFINE off == High(catalog)
           refs == RemappedRefs(w, off)
           more == Over(catalog.receipts, Just(w, off))
<1>2. /\ refs \in References /\ DOMAIN refs = {o + catalog.jobSeq : o \in OldJobs}
      /\ \A o \in OldJobs : refs[o + catalog.jobSeq] = o + catalog.exportSeq
  <2>1. /\ refs \in [{o + catalog.jobSeq : o \in OldJobs} -> Nat]
        /\ {o + catalog.jobSeq : o \in OldJobs} \subseteq Nat
        /\ \A o \in OldJobs : refs[o + catalog.jobSeq] = o + catalog.exportSeq
    BY <1>1 DEF RemappedRefs
  <2> QED BY <2>1, ReferencesAre
<1>3. RemappedJobs(w, off) \subseteq Row /\ RemappedExports(w, off) \subseteq Row
  BY <1>1 DEF RemappedJobs, RemappedExports, RemappedRow, Row, TypesOfCatalog
<1>4. Knowing(catalog.receipts, w, off, more)
  BY <1>1, OneMoreRecord
<1> DEFINE both == Over(catalog.refs, refs)
<1>5. Joined(catalog.refs, refs, both)
  BY <1>1, <1>2, OverOfReferences
<1>6. /\ Later(catalog.jobSeq, catalog.jobSeq + JobHigh) \in Nat
      /\ Later(catalog.jobSeq, catalog.jobSeq + JobHigh) >= catalog.jobSeq + JobHigh
      /\ Later(catalog.exportSeq, catalog.exportSeq + ExportHigh) \in Nat
      /\ Later(catalog.exportSeq, catalog.exportSeq + ExportHigh) >= catalog.exportSeq + ExportHigh
  BY <1>1 DEF Later
<1> DEFINE jobs == catalog.jobs \cup RemappedJobs(w, off)
           exports == catalog.exports \cup RemappedExports(w, off)
           projects == catalog.projects \cup {migProject[w]}
           merged == [catalog EXCEPT
              !.present = TRUE, !.projects = projects, !.jobs = jobs,
              !.exports = exports, !.refs = both, !.settings = TRUE, !.receipts = more]
<1>7. Merge(w) = ReserveIds(merged, off)
  BY DEF Merge
<1>8. jobs \in SUBSET Row /\ exports \in SUBSET Row /\ projects \in SUBSET MigProject
  BY <1>3 DEF TypesOfCatalog, Catalogs
<1>9. more \in Records /\ both \in References
  BY <1>4, <1>5 DEF Knowing, Joined
<1> HIDE DEF jobs, exports, projects, both, more, off, refs
<1>10. /\ merged \in Catalogs /\ merged.present
       /\ merged.projects = projects /\ merged.jobs = jobs /\ merged.exports = exports
       /\ merged.refs = both /\ merged.receipts = more
       /\ merged.jobSeq = catalog.jobSeq /\ merged.exportSeq = catalog.exportSeq
  <2>1. catalog \in Catalogs
    BY DEF TypesOfCatalog
  <2> QED BY <1>8, <1>9, <2>1 DEF Catalogs
<1> HIDE DEF merged
<1>11. /\ Merge(w) \in Catalogs /\ Merge(w).present
       /\ Merge(w).projects = projects /\ Merge(w).jobs = jobs /\ Merge(w).exports = exports
       /\ Merge(w).refs = both /\ Merge(w).receipts = more
       /\ Merge(w).jobSeq = Later(catalog.jobSeq, catalog.jobSeq + JobHigh)
       /\ Merge(w).exportSeq = Later(catalog.exportSeq, catalog.exportSeq + ExportHigh)
  <2>1. Merge(w) = [merged EXCEPT
          !.jobSeq = Later(catalog.jobSeq, catalog.jobSeq + JobHigh),
          !.exportSeq = Later(catalog.exportSeq, catalog.exportSeq + ExportHigh)]
    BY <1>1, <1>7, <1>10 DEF ReserveIds, off
  <2> QED BY <1>6, <1>10, <2>1 DEF Catalogs
<1> QED BY <1>1, <1>2, <1>4, <1>5, <1>6, <1>11 DEF MergeEffect, off, Joined, jobs, exports, projects

LEMMA BackfillIs ==
    ASSUME TypesOfCatalog, NEW w \in Old, w \notin DOMAIN catalog.receipts, w \in DOMAIN provenance
    PROVE  BackfillEffect(w, Backfill(w))
<1> USE MigrationAssumption
<1>1. /\ catalog.jobSeq \in Nat /\ catalog.exportSeq \in Nat /\ catalog.receipts \in Records
      /\ provenance[w] \in OffsetPairs
      /\ provenance[w].jobs \in Nat /\ provenance[w].exports \in Nat
  BY RecordsAre DEF TypesOfCatalog, Catalogs, OffsetPairs
<1>2. Knowing(catalog.receipts, w, provenance[w], Over(catalog.receipts, Just(w, provenance[w])))
  BY <1>1, OneMoreRecord
<1>3. /\ Later(catalog.jobSeq, provenance[w].jobs + JobHigh) \in Nat
      /\ Later(catalog.jobSeq, provenance[w].jobs + JobHigh) >= catalog.jobSeq
      /\ Later(catalog.jobSeq, provenance[w].jobs + JobHigh) >= provenance[w].jobs + JobHigh
      /\ Later(catalog.exportSeq, provenance[w].exports + ExportHigh) \in Nat
      /\ Later(catalog.exportSeq, provenance[w].exports + ExportHigh) >= catalog.exportSeq
      /\ Later(catalog.exportSeq, provenance[w].exports + ExportHigh)
            >= provenance[w].exports + ExportHigh
  BY <1>1 DEF Later
<1>4. Backfill(w) = [catalog EXCEPT
         !.receipts = Over(catalog.receipts, Just(w, provenance[w])),
         !.jobSeq = Later(catalog.jobSeq, provenance[w].jobs + JobHigh),
         !.exportSeq = Later(catalog.exportSeq, provenance[w].exports + ExportHigh)]
  BY DEF Backfill, ReserveIds, TypesOfCatalog, Catalogs
<1> QED BY <1>2, <1>3, <1>4 DEF BackfillEffect, Knowing, TypesOfCatalog, Catalogs


LEMMA AdmissionIs ==
    ASSUME TypesOfCatalog, NEW p \in MigProject, AppAdmits(p)
    PROVE  AdmitEffect(p, catalog')
<1>1. /\ catalog.jobSeq \in Nat /\ catalog.exportSeq \in Nat /\ catalog.refs \in References
      /\ catalog \in Catalogs
  BY DEF TypesOfCatalog, Catalogs
<1> DEFINE job == catalog.jobSeq + 1
           export == catalog.exportSeq + 1
           both == Over(catalog.refs, Just(job, export))
           jobs == catalog.jobs \cup {AppRow(job, p)}
           exports == catalog.exports \cup {AppRow(export, p)}
<1>2. catalog' = [catalog EXCEPT !.jobs = jobs, !.exports = exports, !.refs = both,
                     !.jobSeq = job, !.exportSeq = export]
  BY DEF AppAdmits, AppRow
<1>3. jobs \in SUBSET Row /\ exports \in SUBSET Row
  <2>1. AppRow(job, p) \in Row /\ AppRow(export, p) \in Row
    BY <1>1 DEF AppRow, Row
  <2> QED BY <1>1, <2>1 DEF Catalogs
<1>4. /\ Just(job, export) \in References /\ DOMAIN Just(job, export) = {job}
      /\ Just(job, export)[job] = export
  <2>1. Just(job, export) \in [{job} -> Nat] /\ {job} \subseteq Nat
    BY <1>1 DEF Just
  <2> QED BY <2>1, ReferencesAre DEF Just
<1>5. Joined(catalog.refs, Just(job, export), both)
  BY <1>1, <1>4, OverOfReferences
<1>6. job \in Nat /\ export \in Nat
  BY <1>1
<1> HIDE DEF jobs, exports, both
<1>7. /\ catalog' \in Catalogs /\ catalog'.present = catalog.present
      /\ catalog'.projects = catalog.projects /\ catalog'.receipts = catalog.receipts
      /\ catalog'.jobs = jobs /\ catalog'.exports = exports /\ catalog'.refs = both
      /\ catalog'.jobSeq = job /\ catalog'.exportSeq = export
  BY <1>1, <1>2, <1>3, <1>5, <1>6 DEF Catalogs, Joined
<1> QED BY <1>4, <1>5, <1>7 DEF AdmitEffect, Joined, jobs, exports

LEMMA RemovalIs ==
    ASSUME TypesOfCatalog, DOMAIN catalog.refs = {j.id : j \in catalog.jobs},
           NEW jobs \in SUBSET catalog.jobs, NEW exports \in SUBSET catalog.exports,
           NEW projects,
           catalog' = [Without(catalog, jobs, exports) EXCEPT !.projects = @ \ projects]
    PROVE  ShrinkEffect(jobs, exports, catalog')
<1>1. catalog \in Catalogs /\ catalog.refs \in References
  BY DEF TypesOfCatalog, Catalogs
<1> DEFINE kept == {j.id : j \in catalog.jobs \ jobs}
           refs == Restrict(catalog.refs, kept)
           less == Without(catalog, jobs, exports)
<1>2. refs \in References /\ DOMAIN refs = kept /\ \A id \in kept : refs[id] = catalog.refs[id]
  <2>1. kept \subseteq DOMAIN catalog.refs
    OBVIOUS
  <2>2. catalog.refs \in [DOMAIN catalog.refs -> Nat] /\ DOMAIN catalog.refs \subseteq Nat
    BY <1>1, ReferencesAre
  <2> HIDE DEF kept
  <2>3. /\ refs \in [kept -> Nat] /\ kept \subseteq Nat
        /\ \A id \in kept : refs[id] = catalog.refs[id]
    BY <2>1, <2>2 DEF Restrict
  <2> QED BY <2>3, ReferencesAre
<1>3. less = [catalog EXCEPT !.jobs = catalog.jobs \ jobs, !.exports = catalog.exports \ exports,
                             !.refs = refs]
  BY DEF Without
<1> HIDE DEF refs, less
<1>4. /\ less \in Catalogs /\ less.present = catalog.present
      /\ less.projects = catalog.projects /\ less.receipts = catalog.receipts
      /\ less.jobs = catalog.jobs \ jobs /\ less.exports = catalog.exports \ exports
      /\ less.refs = refs
      /\ less.jobSeq = catalog.jobSeq /\ less.exportSeq = catalog.exportSeq
  BY <1>1, <1>2, <1>3 DEF Catalogs
<1>5. /\ catalog' \in Catalogs /\ catalog'.present = less.present
      /\ catalog'.projects = less.projects \ projects /\ catalog'.receipts = less.receipts
      /\ catalog'.jobs = less.jobs /\ catalog'.exports = less.exports
      /\ catalog'.refs = less.refs
      /\ catalog'.jobSeq = less.jobSeq /\ catalog'.exportSeq = less.exportSeq
  BY <1>4 DEF Catalogs, less
<1> QED BY <1>2, <1>4, <1>5 DEF ShrinkEffect

-----------------------------------------------------------------------------

\* What is recorded of past imports, in either place.
Recorded == DOMAIN catalog.receipts \cup DOMAIN provenance

Settles ==
    /\ \/ catalog' = catalog
       \/ catalog' = [catalog EXCEPT !.present = TRUE] /\ (catalog.present \/ Recorded = {})
    /\ provenance' = provenance \/ provenance' = Over(catalog.receipts, provenance)
    /\ UNCHANGED <<migProject, migDeleted>>
Merges(w) ==
    /\ w \notin Recorded /\ (~catalog.present => Recorded = {})
    /\ catalog' = Merge(w)
    /\ UNCHANGED <<migProject, provenance, migDeleted>>
Backfills(w) ==
    /\ catalog.present
    /\ w \in DOMAIN provenance \ DOMAIN catalog.receipts
    /\ catalog' = Backfill(w)
    /\ UNCHANGED <<migProject, provenance, migDeleted>>
Admits(p) ==
    /\ AppAdmits(p) /\ p \in catalog.projects
    /\ UNCHANGED <<migProject, provenance, migDeleted>>
Removes ==
    /\ \E jobs \in SUBSET catalog.jobs, exports \in SUBSET catalog.exports :
          /\ jobs # {} \/ exports # {} \/ catalog.projects # {}
          /\ ShrinkEffect(jobs, exports, catalog')
          /\ migDeleted' = migDeleted \cup Origins("job", jobs) \cup Origins("export", exports)
    /\ UNCHANGED <<migProject, provenance>>
Loses ==
    /\ LoseFile
    /\ \/ /\ DOMAIN catalog.receipts \subseteq DOMAIN provenance
          /\ catalog' \in {NoCatalog, [catalog EXCEPT !.receipts = NoRecords]}
          /\ UNCHANGED provenance
       \/ /\ DOMAIN provenance \subseteq DOMAIN catalog.receipts
          /\ provenance' = NoRecords /\ UNCHANGED catalog
    /\ UNCHANGED <<migProject, migDeleted>>

CatalogStep ==
    \/ Settles \/ Removes \/ Loses
    \/ \E w \in Old : Merges(w) \/ Backfills(w)
    \/ \E p \in MigProject : Admits(p)

LEMMA NothingIsLost ==
    ASSUME TypesOfCatalog, NEW w, ~CatalogLost(w), ~catalog.present
    PROVE  Recorded = {}
<1>1. provenance = NoRecords /\ catalog.receipts = NoRecords
  BY DEF CatalogLost, TypesOfCatalog, NoCatalog
<1> QED BY <1>1 DEF Recorded, NoRecords

LEMMA CatalogSteps ==
    ASSUME TypesOfCatalog, TypesOfStarts, DOMAIN catalog.refs = {j.id : j \in catalog.jobs},
           \A w \in Workspace : migStart[w] = "verify" => w \in DOMAIN catalog.receipts,
           [MigNext]_migVars
    PROVE  CatalogStep
<1> USE MigrationAssumption DEF Unmoved, migFiles, migBounds, migVars
<1>1. ASSUME NEW w \in Workspace, StartApp(w) \/ MigrationFails(w) PROVE Settles
  BY <1>1 DEF StartApp, MigrationFails, Settles
<1>2. ASSUME NEW w \in Workspace, Adopt(w) PROVE Settles
  BY <1>2, NothingIsLost DEF Adopt, RefuseStart, OpenStores, Settles
<1>3. ASSUME NEW w \in Workspace, LockMigration(w) PROVE Settles
  BY <1>3 DEF LockMigration, RefuseStart, Settles
<1>4. ASSUME NEW w \in Workspace, Recheck(w) PROVE Settles
  BY <1>4, NothingIsLost DEF Recheck, RefuseStart, OpenStores, Settles
<1>5. ASSUME NEW w \in Workspace, WriteSentinel(w) \/ WriteSettings(w) \/ WriteIndex(w)
      PROVE  Settles
  BY <1>5 DEF WriteSentinel, WriteSettings, WriteIndex, Settles
<1>6. ASSUME NEW w \in Workspace, ImportDatabase(w)
      PROVE  Settles \/ (w \in Old /\ (Merges(w) \/ Backfills(w)))
  <2>1. w \in Old
    BY <1>6 DEF ImportDatabase, TypesOfStarts
  <2>6. UNCHANGED <<migProject, provenance, migDeleted>>
    BY <1>6 DEF ImportDatabase
  <2>2. CASE w \in DOMAIN catalog.receipts
    <3>1. catalog' = catalog
      BY <1>6, <2>2 DEF ImportDatabase
    <3>2. Settles
      BY <2>6, <3>1 DEF Settles
    <3> QED BY <3>2
  <2>3. CASE w \notin DOMAIN catalog.receipts /\ catalog.present /\ w \in DOMAIN provenance
    <3>1. catalog' = catalog \/ catalog' = Backfill(w)
      BY <1>6, <2>3 DEF ImportDatabase, RefuseStart
    <3>2. catalog' = catalog => Settles
      BY <2>6 DEF Settles
    <3>3. catalog' = Backfill(w) => Backfills(w)
      BY <2>3, <2>6 DEF Backfills
    <3> QED BY <2>1, <3>1, <3>2, <3>3
  <2>4. CASE w \notin DOMAIN catalog.receipts /\ ~(catalog.present /\ w \in DOMAIN provenance)
    <3>1. CASE MigConflicts(w) \/ CatalogLost(w)
      <4>1. catalog' = catalog
        BY <1>6, <2>4, <3>1 DEF ImportDatabase, RefuseStart
      <4>2. Settles
        BY <2>6, <4>1 DEF Settles
      <4> QED BY <4>2
    <3>2. CASE ~(MigConflicts(w) \/ CatalogLost(w))
      <4>1. ~catalog.present => Recorded = {}
        BY <3>2, NothingIsLost
      <4>2. w \notin Recorded
        BY <2>4, <4>1 DEF Recorded
      <4> QED BY <1>6, <2>1, <2>4, <3>2, <4>1, <4>2 DEF ImportDatabase, Merges
    <3> QED BY <3>1, <3>2
  <2> QED BY <2>2, <2>3, <2>4
<1>7. ASSUME NEW w \in Workspace, WriteProvenance(w) PROVE Settles
  BY <1>7 DEF WriteProvenance, Settles
<1>8. ASSUME NEW w \in Workspace, FinishMigration(w) PROVE Settles
  <2>1. catalog.present
    <3>1. w \in DOMAIN catalog.receipts
      BY <1>8 DEF FinishMigration
    <3> QED BY <3>1 DEF TypesOfCatalog, NoCatalog, NoRecords
  <2> QED BY <1>8, <2>1 DEF FinishMigration, RefuseStart, OpenStores, Settles
<1>9. ASSUME NEW p \in MigProject, AppAdmits(p) PROVE Admits(p)
  BY <1>9 DEF AppAdmits, Admits
<1>10. ASSUME NEW p \in MigProject, AppRemoves(p) PROVE Removes
  <2> DEFINE jobs == {j \in catalog.jobs : j.project = p}
             exports == {e \in catalog.exports : e.project = p}
  <2>1. /\ catalog' = [Without(catalog, jobs, exports) EXCEPT !.projects = @ \ {p}]
        /\ migDeleted' = migDeleted \cup Origins("job", jobs) \cup Origins("export", exports)
        /\ catalog.projects # {}
    BY <1>10 DEF AppRemoves
  <2>2. jobs \in SUBSET catalog.jobs /\ exports \in SUBSET catalog.exports
    OBVIOUS
  <2>3. UNCHANGED <<migProject, provenance>>
    BY <1>10 DEF AppRemoves
  <2> HIDE DEF jobs, exports
  <2>4. ShrinkEffect(jobs, exports, catalog')
    BY <2>1, <2>2, RemovalIs
  <2> QED BY <2>1, <2>2, <2>3, <2>4 DEF Removes
<1>11. ASSUME NEW e \in catalog.exports, AppExpires(e) PROVE Removes
  <2>1. /\ catalog' = Without(catalog, {}, {e})
        /\ migDeleted' = migDeleted \cup Origins("export", {e})
        /\ UNCHANGED <<migProject, provenance>>
    BY <1>11 DEF AppExpires
  <2>2. Origins("job", {}) = {}
    BY DEF Origins
  <2>3. ShrinkEffect({}, {e}, catalog')
    <3>1. Without(catalog, {}, {e}) = [Without(catalog, {}, {e}) EXCEPT !.projects = @ \ {}]
      <4>1. catalog \in Catalogs
        BY DEF TypesOfCatalog
      <4>2. \A X : X \ {} = X
        OBVIOUS
      <4> QED BY <4>1, <4>2 DEF Without, Catalogs
    <3> QED BY <2>1, <3>1, RemovalIs
  <2> QED BY <2>1, <2>2, <2>3 DEF Removes
<1>12. CASE LoseFile
  BY <1>12 DEF LoseFile, Loses, CatalogStep
<1>13. CASE UNCHANGED migVars
  BY <1>13 DEF Settles, CatalogStep
<1> QED BY <1>1, <1>2, <1>3, <1>4, <1>5, <1>6, <1>7, <1>8, <1>9, <1>10, <1>11, <1>12, <1>13
        DEF MigNext, MigrationStep, CatalogStep


-----------------------------------------------------------------------------

Offsets(w) == IF w \in DOMAIN catalog.receipts THEN catalog.receipts[w] ELSE provenance[w]

\* Two records of one import agree, and a profile without a record is empty.
RecordsInv ==
    /\ \A w \in DOMAIN catalog.receipts \cap DOMAIN provenance :
          catalog.receipts[w] = provenance[w]
    /\ Recorded = {} => /\ catalog.projects = {} /\ catalog.jobs = {} /\ catalog.exports = {}
                        /\ migDeleted = {}

\* No step takes a record back or changes it.
RecordsLast ==
    /\ Recorded \subseteq Recorded'
    /\ \A w \in Recorded : Offsets(w)' = Offsets(w)

LEMMA TypesOfCatalogKept ==
    ASSUME TypesOfCatalog, CatalogStep
    PROVE  TypesOfCatalog'
<1> USE DEF TypesOfCatalog
<1>1. CASE Settles
  <2>1. catalog' \in Catalogs
    BY <1>1 DEF Settles, Catalogs
  <2>2. provenance' \in Records
    <3>1. catalog.receipts \in Records
      BY DEF Catalogs
    <3> QED BY <1>1, <3>1, OverOfRecords DEF Settles
  <2>3. ~catalog'.present => catalog' = NoCatalog
    BY <1>1 DEF Settles, Catalogs
  <2> QED BY <1>1, <2>1, <2>2, <2>3 DEF Settles
<1>2. CASE Removes
  BY <1>2 DEF Removes, ShrinkEffect, NoCatalog
<1>3. CASE Loses
  <2>1. CASE catalog' = NoCatalog /\ provenance' = provenance
    BY <1>3, <2>1, EmptyCatalog DEF Loses
  <2>2. CASE catalog' = [catalog EXCEPT !.receipts = NoRecords] /\ provenance' = provenance
    <3>1. catalog' \in Catalogs
      BY <2>2, EmptyCatalog DEF Catalogs
    <3>2. catalog'.present = catalog.present
      BY <2>2 DEF Catalogs
    <3>3. catalog = NoCatalog => catalog' = NoCatalog
      <4>1. NoCatalog.receipts = NoRecords /\ DOMAIN NoCatalog =
              {"present", "projects", "jobs", "exports", "refs", "jobSeq", "exportSeq",
               "receipts", "settings"}
        BY DEF NoCatalog
      <4>2. ASSUME NEW c, c \in Catalogs, c.receipts = NoRecords
            PROVE  [c EXCEPT !.receipts = NoRecords] = c
        BY <4>2 DEF Catalogs
      <4> QED BY <2>2, <4>1, <4>2, EmptyCatalog
    <3> QED BY <1>3, <2>2, <3>1, <3>2, <3>3 DEF Loses
  <2>3. CASE catalog' = catalog /\ provenance' = NoRecords
    BY <1>3, <2>3, EmptyCatalog DEF Loses
  <2> QED BY <1>3, <2>1, <2>2, <2>3 DEF Loses
<1>4. ASSUME NEW w \in Old, Merges(w) PROVE TypesOfCatalog'
  BY <1>4, MergeIs DEF Merges, MergeEffect, Recorded
<1>5. ASSUME NEW w \in Old, Backfills(w) PROVE TypesOfCatalog'
  BY <1>5, BackfillIs DEF Backfills, BackfillEffect
<1>6. ASSUME NEW p \in MigProject, Admits(p) PROVE TypesOfCatalog'
  BY <1>6, AdmissionIs DEF Admits, AdmitEffect, NoCatalog
<1> QED BY <1>1, <1>2, <1>3, <1>4, <1>5, <1>6 DEF CatalogStep

LEMMA StepsKeepRecords ==
    ASSUME TypesOfCatalog, RecordsInv, CatalogStep
    PROVE  RecordsLast /\ RecordsInv'
<1> USE DEF RecordsLast, RecordsInv, Recorded, Offsets
<1>1. CASE Settles
  <2>1. /\ catalog'.receipts = catalog.receipts /\ catalog'.projects = catalog.projects
        /\ catalog'.jobs = catalog.jobs /\ catalog'.exports = catalog.exports
    BY <1>1 DEF Settles, TypesOfCatalog, Catalogs
  <2>2. /\ DOMAIN provenance \subseteq DOMAIN provenance'
        /\ DOMAIN provenance' \subseteq Recorded
        /\ \A w \in DOMAIN provenance \ DOMAIN catalog.receipts : provenance'[w] = provenance[w]
        /\ \A w \in DOMAIN catalog.receipts \cap DOMAIN provenance' :
              provenance'[w] = catalog.receipts[w]
    <3>1. catalog.receipts \in Records /\ provenance \in Records
      BY DEF TypesOfCatalog, Catalogs
    <3>2. CASE provenance' = provenance
      BY <3>2
    <3>3. CASE provenance' = Over(catalog.receipts, provenance)
      <4>1. /\ DOMAIN provenance' = DOMAIN catalog.receipts \cup DOMAIN provenance
            /\ \A w \in DOMAIN catalog.receipts : provenance'[w] = catalog.receipts[w]
            /\ \A w \in DOMAIN provenance \ DOMAIN catalog.receipts :
                  provenance'[w] = provenance[w]
        BY <3>1, <3>3, OverOfRecords
      <4> QED BY <4>1
    <3> QED BY <1>1, <3>2, <3>3 DEF Settles
  <2>3. migDeleted' = migDeleted
    BY <1>1 DEF Settles
  <2> QED BY <2>1, <2>2, <2>3
<1>2. CASE Removes
  <2>1. PICK jobs \in SUBSET catalog.jobs, exports \in SUBSET catalog.exports :
          /\ jobs # {} \/ exports # {} \/ catalog.projects # {}
          /\ ShrinkEffect(jobs, exports, catalog')
    BY <1>2 DEF Removes
  <2>2. provenance' = provenance /\ catalog'.receipts = catalog.receipts
    BY <1>2, <2>1 DEF Removes, ShrinkEffect
  <2>3. Recorded # {}
    BY <2>1
  <2> QED BY <2>2, <2>3
<1>3. CASE Loses
  <2>1. \/ /\ provenance' = provenance /\ DOMAIN catalog'.receipts = {}
           /\ DOMAIN catalog.receipts \subseteq DOMAIN provenance
           /\ Recorded = {} => catalog' = NoCatalog \/
                /\ catalog'.projects = catalog.projects /\ catalog'.jobs = catalog.jobs
                /\ catalog'.exports = catalog.exports
        \/ /\ catalog' = catalog /\ DOMAIN provenance' = {}
           /\ DOMAIN provenance \subseteq DOMAIN catalog.receipts
    BY <1>3 DEF Loses, TypesOfCatalog, Catalogs, NoCatalog, NoRecords
  <2>2. migDeleted' = migDeleted
    BY <1>3 DEF Loses
  <2> QED BY <2>1, <2>2 DEF NoCatalog
<1>4. ASSUME NEW w \in Old, Merges(w) PROVE RecordsLast /\ RecordsInv'
  <2>1. Knowing(catalog.receipts, w, High(catalog), catalog'.receipts)
    BY <1>4, MergeIs DEF Merges, MergeEffect
  <2> QED BY <1>4, <2>1 DEF Merges, Knowing
<1>5. ASSUME NEW w \in Old, Backfills(w) PROVE RecordsLast /\ RecordsInv'
  <2>1. Knowing(catalog.receipts, w, provenance[w], catalog'.receipts)
    BY <1>5, BackfillIs DEF Backfills, BackfillEffect
  <2> QED BY <1>5, <2>1 DEF Backfills, Knowing
<1>6. ASSUME NEW p \in MigProject, Admits(p) PROVE RecordsLast /\ RecordsInv'
  <2>1. catalog'.receipts = catalog.receipts /\ provenance' = provenance /\ Recorded # {}
    BY <1>6, AdmissionIs DEF Admits, AdmitEffect
  <2> QED BY <2>1
<1> QED BY <1>1, <1>2, <1>3, <1>4, <1>5, <1>6 DEF CatalogStep


-----------------------------------------------------------------------------

JobPlaced(j) ==
    \/ j.from = App /\ j.old = j.id
    \/ j.from \in Recorded /\ j.id = j.old + Offsets(j.from).jobs
ExportPlaced(e) ==
    \/ e.from = App /\ e.old = e.id
    \/ e.from \in Recorded /\ e.id = e.old + Offsets(e.from).exports

\* The rows have numbers that were given away, and an imported one is where its record
\* says.  The numbers of a source with a receipt have been given away.
RowsInv ==
    /\ \A j \in catalog.jobs :
          j.id <= catalog.jobSeq /\ JobPlaced(j)
    /\ \A e \in catalog.exports :
          e.id <= catalog.exportSeq /\ ExportPlaced(e)
    /\ \A w \in DOMAIN catalog.receipts :
          /\ catalog.receipts[w].jobs + JobHigh <= catalog.jobSeq
          /\ catalog.receipts[w].exports + ExportHigh <= catalog.exportSeq

\* What a step adds has a number of its own, and comes from nowhere the catalog knows.
NewRows(rows, seq, high, w, offset, old) ==
    \A r \in rows : r.id > seq /\ r.id <= high /\ r.from = w /\ r.id = r.old + offset /\ r.old \in old

LEMMA ImportedRows ==
    ASSUME TypesOfCatalog, NEW w \in Old
    PROVE  /\ NewRows(RemappedJobs(w, High(catalog)), catalog.jobSeq, catalog.jobSeq + JobHigh,
                      w, catalog.jobSeq, OldJobs)
           /\ NewRows(RemappedExports(w, High(catalog)), catalog.exportSeq,
                      catalog.exportSeq + ExportHigh, w, catalog.exportSeq, OldExports)
<1>1. catalog.jobSeq \in Nat /\ catalog.exportSeq \in Nat
  BY DEF TypesOfCatalog, Catalogs
<1> QED BY <1>1, MigrationAssumption
        DEF NewRows, RemappedJobs, RemappedExports, RemappedRow, High

LEMMA RowsKept ==
    ASSUME TypesOfCatalog, RecordsInv, RowsInv, RecordsLast, CatalogStep
    PROVE  RowsInv'
<1> USE MigrationAssumption
<1>1. /\ catalog.jobs \subseteq Row /\ catalog.exports \subseteq Row
      /\ catalog.jobSeq \in Nat /\ catalog.exportSeq \in Nat
      /\ catalog.receipts \in Records /\ provenance \in Records
      /\ App \notin Recorded
  <2>1. catalog.receipts \in Records /\ provenance \in Records
    BY DEF TypesOfCatalog, Catalogs
  <2>2. Recorded \subseteq Old
    BY <2>1, RecordsAre DEF Recorded
  <2> QED BY <2>1, <2>2 DEF TypesOfCatalog, Catalogs
<1>3. /\ \A j \in catalog.jobs : JobPlaced(j)'
      /\ \A e \in catalog.exports : ExportPlaced(e)'
  BY DEF RowsInv, RecordsLast, JobPlaced, ExportPlaced
<1>4. CASE Settles
  <2>1. /\ catalog'.receipts = catalog.receipts
        /\ catalog'.jobs = catalog.jobs /\ catalog'.exports = catalog.exports
        /\ catalog'.jobSeq = catalog.jobSeq /\ catalog'.exportSeq = catalog.exportSeq
    BY <1>4 DEF Settles, TypesOfCatalog, Catalogs
  <2> QED BY <1>3, <2>1 DEF RowsInv
<1>5. CASE Removes
  <2>1. /\ catalog'.receipts = catalog.receipts
        /\ catalog'.jobs \subseteq catalog.jobs /\ catalog'.exports \subseteq catalog.exports
        /\ catalog'.jobSeq = catalog.jobSeq /\ catalog'.exportSeq = catalog.exportSeq
    BY <1>5 DEF Removes, ShrinkEffect
  <2> QED BY <1>3, <2>1 DEF RowsInv
<1>6. CASE Loses
  <2>1. \/ catalog' = NoCatalog
        \/ /\ catalog'.receipts = NoRecords \/ catalog'.receipts = catalog.receipts
           /\ catalog'.jobs = catalog.jobs /\ catalog'.exports = catalog.exports
           /\ catalog'.jobSeq = catalog.jobSeq /\ catalog'.exportSeq = catalog.exportSeq
    BY <1>6 DEF Loses, TypesOfCatalog, Catalogs
  <2>2. DOMAIN NoRecords = {}
    BY DEF NoRecords
  <2>3. CASE catalog' = NoCatalog
    <3>1. catalog'.jobs = {} /\ catalog'.exports = {} /\ DOMAIN catalog'.receipts = {}
      BY <2>3, <2>2 DEF NoCatalog
    <3> QED BY <3>1 DEF RowsInv
  <2> QED BY <1>3, <2>1, <2>2, <2>3 DEF RowsInv
<1>7. ASSUME NEW w \in Old, Merges(w) PROVE RowsInv'
  <2>1. MergeEffect(w, catalog')
    BY <1>7, MergeIs DEF Merges, Recorded
  <2>2. /\ w \in DOMAIN catalog'.receipts /\ w \in Recorded'
        /\ Offsets(w)'.jobs = catalog.jobSeq /\ Offsets(w)'.exports = catalog.exportSeq
    BY <2>1 DEF MergeEffect, Knowing, Offsets, Recorded, High
  <2>3. catalog'.jobSeq \in Nat /\ catalog'.exportSeq \in Nat
    BY <2>1 DEF MergeEffect, Catalogs
  <2>4. \A j \in catalog'.jobs : j.id <= catalog'.jobSeq /\ JobPlaced(j)'
    <3>1. ASSUME NEW j \in RemappedJobs(w, High(catalog))
          PROVE  j.id <= catalog'.jobSeq /\ JobPlaced(j)'
      <4>1. j.id <= catalog.jobSeq + JobHigh /\ j.from = w /\ j.id = j.old + catalog.jobSeq
            /\ j.id \in Nat
        BY <3>1, <1>1, ImportedRows DEF NewRows, RemappedJobs, RemappedRow, High
      <4>2. JobPlaced(j)'
        BY <4>1, <2>2 DEF JobPlaced
      <4> QED BY <1>1, <2>1, <2>2, <2>3, <4>1, <4>2 DEF MergeEffect
    <3>2. ASSUME NEW j \in catalog.jobs PROVE j.id <= catalog'.jobSeq
      BY <1>1, <2>1, <2>3 DEF MergeEffect, RowsInv, Row
    <3> QED BY <1>3, <2>1, <3>1, <3>2 DEF MergeEffect
  <2>5. \A e \in catalog'.exports :
          e.id <= catalog'.exportSeq /\ ExportPlaced(e)'
    <3>1. ASSUME NEW e \in RemappedExports(w, High(catalog))
          PROVE  e.id <= catalog'.exportSeq /\ ExportPlaced(e)'
      <4>1. e.id <= catalog.exportSeq + ExportHigh /\ e.from = w
            /\ e.id = e.old + catalog.exportSeq /\ e.id \in Nat
        BY <3>1, <1>1, ImportedRows DEF NewRows, RemappedExports, RemappedRow, High
      <4>2. ExportPlaced(e)'
        BY <4>1, <2>2 DEF ExportPlaced
      <4> QED BY <1>1, <2>1, <2>2, <2>3, <4>1, <4>2 DEF MergeEffect
    <3>2. ASSUME NEW e \in catalog.exports PROVE e.id <= catalog'.exportSeq
      BY <1>1, <2>1, <2>3 DEF MergeEffect, RowsInv, Row
    <3> QED BY <1>3, <2>1, <3>1, <3>2 DEF MergeEffect
  <2>6. \A x \in DOMAIN catalog'.receipts :
          /\ catalog'.receipts[x].jobs + JobHigh <= catalog'.jobSeq
          /\ catalog'.receipts[x].exports + ExportHigh <= catalog'.exportSeq
    <3>1. ASSUME NEW x \in DOMAIN catalog.receipts
          PROVE  catalog.receipts[x].jobs \in Nat /\ catalog.receipts[x].exports \in Nat
      BY <1>1, RecordsAre DEF OffsetPairs
    <3> QED BY <1>1, <2>1, <2>3, <3>1 DEF MergeEffect, Knowing, RowsInv, High
  <2> QED BY <2>4, <2>5, <2>6 DEF RowsInv
<1>8. ASSUME NEW w \in Old, Backfills(w) PROVE RowsInv'
  <2>1. BackfillEffect(w, catalog')
    BY <1>8, BackfillIs DEF Backfills
  <2>2. catalog'.jobSeq \in Nat /\ catalog'.exportSeq \in Nat
    BY <2>1 DEF BackfillEffect, Catalogs
  <2>3. ASSUME NEW x \in DOMAIN catalog.receipts
        PROVE  catalog.receipts[x].jobs \in Nat /\ catalog.receipts[x].exports \in Nat
    BY <1>1, RecordsAre DEF OffsetPairs
  <2>4. \A x \in DOMAIN catalog'.receipts :
          /\ catalog'.receipts[x].jobs + JobHigh <= catalog'.jobSeq
          /\ catalog'.receipts[x].exports + ExportHigh <= catalog'.exportSeq
    BY <1>1, <2>1, <2>2, <2>3 DEF BackfillEffect, Knowing, RowsInv
  <2>5. /\ \A j \in catalog.jobs : j.id <= catalog'.jobSeq
        /\ \A e \in catalog.exports : e.id <= catalog'.exportSeq
    BY <1>1, <2>1, <2>2 DEF BackfillEffect, RowsInv, Row
  <2> QED BY <1>3, <2>1, <2>4, <2>5 DEF BackfillEffect, RowsInv
<1>9. ASSUME NEW p \in MigProject, Admits(p) PROVE RowsInv'
  <2>1. AdmitEffect(p, catalog')
    BY <1>9, AdmissionIs DEF Admits
  <2>2. ASSUME NEW x \in DOMAIN catalog.receipts
        PROVE  catalog.receipts[x].jobs \in Nat /\ catalog.receipts[x].exports \in Nat
    BY <1>1, RecordsAre DEF OffsetPairs
  <2>3. \A x \in DOMAIN catalog'.receipts :
          /\ catalog'.receipts[x].jobs + JobHigh <= catalog'.jobSeq
          /\ catalog'.receipts[x].exports + ExportHigh <= catalog'.exportSeq
    BY <1>1, <2>1, <2>2 DEF AdmitEffect, RowsInv
  <2>4. /\ \A j \in catalog'.jobs : j.id <= catalog'.jobSeq
        /\ \A e \in catalog'.exports : e.id <= catalog'.exportSeq
    BY <1>1, <2>1 DEF AdmitEffect, RowsInv, Row, AppRow
  <2>5. /\ \A j \in catalog'.jobs : JobPlaced(j)'
        /\ \A e \in catalog'.exports : ExportPlaced(e)'
    <3>1. \A id : JobPlaced(AppRow(id, p))' /\ ExportPlaced(AppRow(id, p))'
      BY DEF JobPlaced, ExportPlaced, AppRow
    <3> QED BY <1>3, <2>1, <3>1 DEF AdmitEffect
  <2> QED BY <2>3, <2>4, <2>5 DEF RowsInv
<1> QED BY <1>4, <1>5, <1>6, <1>7, <1>8, <1>9 DEF CatalogStep


\* The two tables have primary keys, and every job a reference.
KeysInv ==
    /\ \A r, s \in catalog.jobs : r.id = s.id => r = s
    /\ \A r, s \in catalog.exports : r.id = s.id => r = s
    /\ DOMAIN catalog.refs = {j.id : j \in catalog.jobs}

\* What a step adds to the tables.
Added(jobs, exports) ==
    /\ catalog'.jobs = catalog.jobs \cup jobs /\ catalog'.exports = catalog.exports \cup exports
    /\ \A r \in jobs : r.id \in Nat /\ r.id > catalog.jobSeq
    /\ \A r \in exports : r.id \in Nat /\ r.id > catalog.exportSeq
    /\ \A r, s \in jobs : r.id = s.id => r = s
    /\ \A r, s \in exports : r.id = s.id => r = s
    /\ DOMAIN catalog'.refs = DOMAIN catalog.refs \cup {r.id : r \in jobs}
    /\ \A id \in DOMAIN catalog.refs : catalog'.refs[id] = catalog.refs[id]

LEMMA MergeAdds ==
    ASSUME TypesOfCatalog, NEW w \in Old, Merges(w)
    PROVE  Added(RemappedJobs(w, High(catalog)), RemappedExports(w, High(catalog)))
<1> DEFINE jobs == RemappedJobs(w, High(catalog))
           exports == RemappedExports(w, High(catalog))
<1>1. MergeEffect(w, catalog')
  BY MergeIs DEF Merges, Recorded
<1>2. catalog.jobSeq \in Nat /\ catalog.exportSeq \in Nat
  BY DEF TypesOfCatalog, Catalogs
<1>3. /\ \A r \in jobs : r.id \in Nat /\ r.id > catalog.jobSeq
      /\ \A r \in exports : r.id \in Nat /\ r.id > catalog.exportSeq
  BY <1>2, MigrationAssumption DEF RemappedJobs, RemappedExports, RemappedRow, High
<1>4. /\ \A r, s \in jobs : r.id = s.id => r = s
      /\ \A r, s \in exports : r.id = s.id => r = s
  BY <1>2, MigrationAssumption DEF RemappedJobs, RemappedExports, RemappedRow, High
<1>5. {r.id : r \in jobs} = {o + catalog.jobSeq : o \in OldJobs}
  <2>1. \A o : RemappedRow(w, o, catalog.jobSeq).id = o + catalog.jobSeq
    BY DEF RemappedRow
  <2>2. jobs = {RemappedRow(w, o, catalog.jobSeq) : o \in OldJobs}
    BY DEF RemappedJobs, High
  <2> QED BY <2>1, <2>2
<1> QED BY <1>1, <1>3, <1>4, <1>5 DEF MergeEffect, Added

LEMMA AdmissionAdds ==
    ASSUME TypesOfCatalog, NEW p \in MigProject, Admits(p)
    PROVE  Added({AppRow(catalog.jobSeq + 1, p)}, {AppRow(catalog.exportSeq + 1, p)})
<1>1. AdmitEffect(p, catalog')
  BY AdmissionIs DEF Admits
<1>2. catalog.jobSeq \in Nat /\ catalog.exportSeq \in Nat
  BY DEF TypesOfCatalog, Catalogs
<1>3. {r.id : r \in {AppRow(catalog.jobSeq + 1, p)}} = {catalog.jobSeq + 1}
  BY DEF AppRow
<1>4. /\ AppRow(catalog.jobSeq + 1, p).id = catalog.jobSeq + 1
      /\ AppRow(catalog.exportSeq + 1, p).id = catalog.exportSeq + 1
  BY DEF AppRow
<1> QED BY <1>1, <1>2, <1>3, <1>4 DEF AdmitEffect, Added

\* The other steps add no row.
NothingAdded ==
    /\ catalog'.jobs \subseteq catalog.jobs /\ catalog'.exports \subseteq catalog.exports
    /\ DOMAIN catalog'.refs = {j.id : j \in catalog'.jobs}
    /\ \A id \in DOMAIN catalog'.refs : catalog'.refs[id] = catalog.refs[id]
    /\ catalog' = NoCatalog \/ /\ catalog'.jobSeq >= catalog.jobSeq
                               /\ catalog'.exportSeq >= catalog.exportSeq

LEMMA OthersAddNothing ==
    ASSUME TypesOfCatalog, KeysInv, CatalogStep
    PROVE  \/ NothingAdded
           \/ \E w \in Old : Merges(w)
           \/ \E p \in MigProject : Admits(p)
<1>1. CASE Settles
  BY <1>1 DEF Settles, TypesOfCatalog, Catalogs, KeysInv, NothingAdded
<1>2. CASE Removes
  BY <1>2 DEF Removes, ShrinkEffect, TypesOfCatalog, Catalogs, NothingAdded
<1>3. CASE Loses
  <2>1. CASE catalog' = NoCatalog
    <3>1. /\ catalog'.jobs = {} /\ catalog'.exports = {} /\ DOMAIN catalog'.refs = {}
      BY <2>1 DEF NoCatalog
    <3> QED BY <2>1, <3>1 DEF NothingAdded
  <2>2. CASE catalog' = catalog \/ catalog' = [catalog EXCEPT !.receipts = NoRecords]
    BY <2>2 DEF TypesOfCatalog, Catalogs, KeysInv, NothingAdded
  <2> QED BY <1>3, <2>1, <2>2 DEF Loses
<1>4. ASSUME NEW w \in Old, Backfills(w) PROVE NothingAdded
  BY <1>4, BackfillIs DEF Backfills, BackfillEffect, KeysInv, NothingAdded
<1> QED BY <1>1, <1>2, <1>3, <1>4 DEF CatalogStep

LEMMA KeysKept ==
    ASSUME TypesOfCatalog, RowsInv, KeysInv, CatalogStep
    PROVE  KeysInv'
<1>1. catalog.jobs \subseteq Row /\ catalog.exports \subseteq Row
      /\ catalog.jobSeq \in Nat /\ catalog.exportSeq \in Nat
  BY DEF TypesOfCatalog, Catalogs
<1>2. CASE NothingAdded
  BY <1>2 DEF NothingAdded, KeysInv
<1>3. ASSUME NEW jobs, NEW exports, Added(jobs, exports) PROVE KeysInv'
  <2>1. /\ \A r \in catalog.jobs : r.id \in Nat /\ r.id <= catalog.jobSeq
        /\ \A r \in catalog.exports : r.id \in Nat /\ r.id <= catalog.exportSeq
    BY <1>1 DEF RowsInv, Row
  <2>2. \A r, s \in catalog'.jobs : r.id = s.id => r = s
    BY <1>1, <1>3, <2>1 DEF Added, KeysInv
  <2>3. \A r, s \in catalog'.exports : r.id = s.id => r = s
    BY <1>1, <1>3, <2>1 DEF Added, KeysInv
  <2>4. DOMAIN catalog'.refs = {j.id : j \in catalog'.jobs}
    BY <1>3 DEF Added, KeysInv
  <2> QED BY <2>2, <2>3, <2>4 DEF KeysInv
<1> QED BY <1>2, <1>3, OthersAddNothing, MergeAdds, AdmissionAdds

-----------------------------------------------------------------------------

\* What has been deleted came from an application, under a number given away, or from
\* an import on record; and it is not there.
DeletedInv ==
    /\ \A f, o : <<"job", f, o>> \in migDeleted =>
          f \in Recorded \/ (f = App /\ o \in Nat /\ (catalog.present => o <= catalog.jobSeq))
    /\ \A f, o : <<"export", f, o>> \in migDeleted =>
          f \in Recorded \/ (f = App /\ o \in Nat /\ (catalog.present => o <= catalog.exportSeq))
    /\ \A j \in catalog.jobs : <<"job", j.from, j.old>> \notin migDeleted
    /\ \A e \in catalog.exports : <<"export", e.from, e.old>> \notin migDeleted

LEMMA DeletedKept ==
    ASSUME TypesOfCatalog, RecordsInv, RowsInv, KeysInv, RecordsLast, DeletedInv, CatalogStep
    PROVE  DeletedInv'
<1> USE MigrationAssumption
<1>1. /\ catalog.jobs \subseteq Row /\ catalog.exports \subseteq Row
      /\ catalog.jobSeq \in Nat /\ catalog.exportSeq \in Nat
      /\ App \notin Recorded
  <2>1. catalog.receipts \in Records /\ provenance \in Records
    BY DEF TypesOfCatalog, Catalogs
  <2>2. Recorded \subseteq Old
    BY <2>1, RecordsAre DEF Recorded
  <2> QED BY <2>1, <2>2 DEF TypesOfCatalog, Catalogs
<1>2. \A w \in Recorded : Offsets(w).jobs \in Nat /\ Offsets(w).exports \in Nat
  <2>1. catalog.receipts \in Records /\ provenance \in Records
    BY DEF TypesOfCatalog, Catalogs
  <2>2. /\ \A w \in DOMAIN catalog.receipts : catalog.receipts[w] \in OffsetPairs
        /\ \A w \in DOMAIN provenance : provenance[w] \in OffsetPairs
    BY <2>1, RecordsAre
  <2> QED BY <2>2 DEF Recorded, Offsets, OffsetPairs
<1>3. CASE Removes
  <2>1. PICK jobs \in SUBSET catalog.jobs, exports \in SUBSET catalog.exports :
          /\ ShrinkEffect(jobs, exports, catalog')
          /\ migDeleted' = migDeleted \cup Origins("job", jobs) \cup Origins("export", exports)
    BY <1>3 DEF Removes
  <2>2. /\ catalog'.jobs = catalog.jobs \ jobs /\ catalog'.exports = catalog.exports \ exports
        /\ catalog'.jobSeq = catalog.jobSeq /\ catalog'.exportSeq = catalog.exportSeq
        /\ catalog'.present = catalog.present
    BY <2>1 DEF ShrinkEffect
  <2>3. \A f, o : <<"job", f, o>> \in migDeleted' =>
          <<"job", f, o>> \in migDeleted \/ \E j \in jobs : j.from = f /\ j.old = o
    BY <2>1 DEF Origins
  <2>4. \A f, o : <<"export", f, o>> \in migDeleted' =>
          <<"export", f, o>> \in migDeleted \/ \E e \in exports : e.from = f /\ e.old = o
    BY <2>1 DEF Origins
  <2>5. \A j, k \in catalog.jobs : j.from = k.from /\ j.old = k.old => j = k
    BY <1>1, <1>2 DEF RowsInv, JobPlaced, KeysInv, Row
  <2>6. \A j, k \in catalog.exports : j.from = k.from /\ j.old = k.old => j = k
    BY <1>1, <1>2 DEF RowsInv, ExportPlaced, KeysInv, Row
  <2>7. \A j \in catalog'.jobs : <<"job", j.from, j.old>> \notin migDeleted'
    <3> SUFFICES ASSUME NEW j \in catalog'.jobs, <<"job", j.from, j.old>> \in migDeleted'
                 PROVE  FALSE
      OBVIOUS
    <3>1. j \in catalog.jobs /\ j \notin jobs
      BY <2>2
    <3>2. <<"job", j.from, j.old>> \notin migDeleted
      BY <3>1 DEF DeletedInv
    <3>3. PICK r \in jobs : r.from = j.from /\ r.old = j.old
      BY <2>3, <3>2
    <3> QED BY <2>5, <3>1, <3>3
  <2>8. \A e \in catalog'.exports : <<"export", e.from, e.old>> \notin migDeleted'
    <3> SUFFICES ASSUME NEW e \in catalog'.exports, <<"export", e.from, e.old>> \in migDeleted'
                 PROVE  FALSE
      OBVIOUS
    <3>1. e \in catalog.exports /\ e \notin exports
      BY <2>2
    <3>2. <<"export", e.from, e.old>> \notin migDeleted
      BY <3>1 DEF DeletedInv
    <3>3. PICK r \in exports : r.from = e.from /\ r.old = e.old
      BY <2>4, <3>2
    <3> QED BY <2>6, <3>1, <3>3
  <2>9. ASSUME NEW f, NEW o, <<"job", f, o>> \in migDeleted'
        PROVE  f \in Recorded' \/ (f = App /\ o \in Nat /\ (catalog'.present => o <= catalog'.jobSeq))
    <3>1. CASE <<"job", f, o>> \in migDeleted
      BY <2>2, <3>1 DEF DeletedInv, RecordsLast
    <3>2. ASSUME NEW j \in jobs, j.from = f, j.old = o
          PROVE  f \in Recorded' \/ (f = App /\ o \in Nat /\ (catalog'.present => o <= catalog'.jobSeq))
      BY <1>1, <2>2, <3>2 DEF RowsInv, JobPlaced, RecordsLast, Row
    <3> QED BY <2>3, <2>9, <3>1, <3>2
  <2>10. ASSUME NEW f, NEW o, <<"export", f, o>> \in migDeleted'
        PROVE  f \in Recorded' \/ (f = App /\ o \in Nat /\ (catalog'.present => o <= catalog'.exportSeq))
    <3>1. CASE <<"export", f, o>> \in migDeleted
      BY <2>2, <3>1 DEF DeletedInv, RecordsLast
    <3>2. ASSUME NEW e \in exports, e.from = f, e.old = o
          PROVE  f \in Recorded' \/ (f = App /\ o \in Nat /\ (catalog'.present => o <= catalog'.exportSeq))
      BY <1>1, <2>2, <3>2 DEF RowsInv, ExportPlaced, RecordsLast, Row
    <3> QED BY <2>4, <2>10, <3>1, <3>2
  <2> QED BY <2>7, <2>8, <2>9, <2>10 DEF DeletedInv
<1>4. ASSUME ~Removes PROVE migDeleted' = migDeleted
  BY <1>4 DEF CatalogStep, Settles, Loses, Merges, Backfills, Admits
<1>5. catalog'.present => catalog.present \/ migDeleted = {}
  <2>1. CASE Settles
    BY <2>1 DEF Settles, RecordsInv
  <2>2. CASE Removes \/ \E p \in MigProject : Admits(p)
    BY <2>2, AdmissionIs DEF Removes, ShrinkEffect, Admits, AdmitEffect
  <2>3. CASE Loses
    BY <2>3 DEF Loses, NoCatalog, TypesOfCatalog, Catalogs
  <2>4. ASSUME NEW w \in Old, Merges(w) \/ Backfills(w) PROVE catalog.present \/ migDeleted = {}
    BY <2>4 DEF Merges, Backfills, RecordsInv
  <2> QED BY <2>1, <2>2, <2>3, <2>4 DEF CatalogStep
<1>6. CASE NothingAdded /\ migDeleted' = migDeleted
  <2>1. CASE catalog' = NoCatalog
    <3>1. catalog'.jobs = {} /\ catalog'.exports = {} /\ ~catalog'.present
      BY <2>1 DEF NoCatalog
    <3> QED BY <1>6, <3>1 DEF DeletedInv, RecordsLast
  <2>2. CASE catalog'.jobSeq >= catalog.jobSeq /\ catalog'.exportSeq >= catalog.exportSeq
    <3>1. catalog'.jobSeq \in Nat /\ catalog'.exportSeq \in Nat
      BY TypesOfCatalogKept DEF TypesOfCatalog, Catalogs
    <3>2. \A f, o : <<"job", f, o>> \in migDeleted =>
            f \in Recorded' \/ (f = App /\ o \in Nat /\ (catalog'.present => o <= catalog'.jobSeq))
      BY <1>1, <1>5, <1>6, <2>2, <3>1 DEF DeletedInv, RecordsLast
    <3>3. \A f, o : <<"export", f, o>> \in migDeleted =>
            f \in Recorded' \/ (f = App /\ o \in Nat /\ (catalog'.present => o <= catalog'.exportSeq))
      BY <1>1, <1>5, <1>6, <2>2, <3>1 DEF DeletedInv, RecordsLast
    <3> QED BY <1>6, <3>2, <3>3 DEF NothingAdded, DeletedInv
  <2> QED BY <1>6, <2>1, <2>2 DEF NothingAdded
<1>7. ASSUME NEW jobs, NEW exports, Added(jobs, exports), migDeleted' = migDeleted,
             \A r \in jobs : r.from \in Old \ Recorded \/ (r.from = App /\ r.old = r.id),
             \A r \in exports : r.from \in Old \ Recorded \/ (r.from = App /\ r.old = r.id),
             catalog.present \/ migDeleted = {},
             catalog'.jobSeq >= catalog.jobSeq, catalog'.exportSeq >= catalog.exportSeq
      PROVE  DeletedInv'
  <2>1. catalog'.jobSeq \in Nat /\ catalog'.exportSeq \in Nat
    BY TypesOfCatalogKept DEF TypesOfCatalog, Catalogs
  <2>2. \A f, o : <<"job", f, o>> \in migDeleted =>
          f \in Recorded' \/ (f = App /\ o \in Nat /\ (catalog'.present => o <= catalog'.jobSeq))
    BY <1>1, <1>7, <2>1 DEF DeletedInv, RecordsLast
  <2>3. \A f, o : <<"export", f, o>> \in migDeleted =>
          f \in Recorded'
            \/ (f = App /\ o \in Nat /\ (catalog'.present => o <= catalog'.exportSeq))
    BY <1>1, <1>7, <2>1 DEF DeletedInv, RecordsLast
  <2>4. ASSUME NEW r \in jobs PROVE <<"job", r.from, r.old>> \notin migDeleted
    BY <1>1, <1>7 DEF DeletedInv, Added
  <2>5. ASSUME NEW r \in exports PROVE <<"export", r.from, r.old>> \notin migDeleted
    BY <1>1, <1>7 DEF DeletedInv, Added
  <2> QED BY <1>7, <2>2, <2>3, <2>4, <2>5 DEF DeletedInv, Added
<1>8. ASSUME NEW w \in Old, Merges(w) PROVE DeletedInv'
  <2>1. Added(RemappedJobs(w, High(catalog)), RemappedExports(w, High(catalog)))
    BY <1>8, MergeAdds
  <2>2. /\ \A r \in RemappedJobs(w, High(catalog)) : r.from = w
        /\ \A r \in RemappedExports(w, High(catalog)) : r.from = w
    BY DEF RemappedJobs, RemappedExports, RemappedRow
  <2>3. MergeEffect(w, catalog')
    BY <1>8, MergeIs DEF Merges, Recorded
  <2>4. catalog'.jobSeq >= catalog.jobSeq /\ catalog'.exportSeq >= catalog.exportSeq
    BY <1>1, <2>3 DEF MergeEffect, Catalogs
  <2>5. w \notin Recorded /\ migDeleted' = migDeleted /\ (catalog.present \/ migDeleted = {})
    BY <1>8 DEF Merges, RecordsInv
  <2> QED BY <1>7, <2>1, <2>2, <2>4, <2>5
<1>9. ASSUME NEW p \in MigProject, Admits(p) PROVE DeletedInv'
  <2>1. Added({AppRow(catalog.jobSeq + 1, p)}, {AppRow(catalog.exportSeq + 1, p)})
    BY <1>9, AdmissionAdds
  <2>2. AdmitEffect(p, catalog')
    BY <1>9, AdmissionIs DEF Admits
  <2>3. /\ catalog'.jobSeq >= catalog.jobSeq /\ catalog'.exportSeq >= catalog.exportSeq
        /\ migDeleted' = migDeleted
    BY <1>1, <1>9, <2>2 DEF AdmitEffect, Admits
  <2>4. catalog.present
    BY <1>9 DEF Admits, TypesOfCatalog, NoCatalog
  <2>5. /\ \A r \in {AppRow(catalog.jobSeq + 1, p)} : r.from = App /\ r.old = r.id
        /\ \A r \in {AppRow(catalog.exportSeq + 1, p)} : r.from = App /\ r.old = r.id
    BY DEF AppRow
  <2> QED BY <1>7, <2>1, <2>3, <2>4, <2>5
<1> QED BY <1>3, <1>4, <1>6, <1>8, <1>9, OthersAddNothing


-----------------------------------------------------------------------------

\* What the code's users may rely on to find the export of a job: see JobsKeepTheirExport.
Sure(j) == j.from \in Legacy => j.old \in OldExports

\* No job refers to a number that has not been given away.
RefsInv ==
    /\ \A j \in catalog.jobs : Sure(j) => catalog.refs[j.id] <= catalog.exportSeq
    /\ JobsKeepTheirExport

LEMMA RefsKept ==
    ASSUME TypesOfCatalog, RowsInv, KeysInv, RefsInv, CatalogStep
    PROVE  RefsInv'
<1> USE MigrationAssumption
<1>1. /\ catalog.jobs \subseteq Row /\ catalog.exports \subseteq Row
      /\ catalog.jobSeq \in Nat /\ catalog.exportSeq \in Nat /\ catalog.refs \in References
  BY DEF TypesOfCatalog, Catalogs
<1>2. \A j \in catalog.jobs :
        j.id \in DOMAIN catalog.refs /\ catalog.refs[j.id] \in Nat /\ j.id <= catalog.jobSeq
  BY <1>1, ReferencesAre DEF KeysInv, RowsInv
<1>3. catalog'.jobSeq \in Nat /\ catalog'.exportSeq \in Nat
  BY TypesOfCatalogKept DEF TypesOfCatalog, Catalogs
<1>4. CASE NothingAdded
  <2>1. CASE catalog' = NoCatalog
    <3>1. catalog'.jobs = {}
      BY <2>1 DEF NoCatalog
    <3> QED BY <3>1 DEF RefsInv, JobsKeepTheirExport
  <2>2. CASE catalog'.exportSeq >= catalog.exportSeq
    <3>1. ASSUME NEW j \in catalog'.jobs
          PROVE  j \in catalog.jobs /\ catalog'.refs[j.id] = catalog.refs[j.id]
      BY <1>4 DEF NothingAdded
    <3>2. ASSUME NEW j \in catalog'.jobs, Sure(j) PROVE catalog'.refs[j.id] <= catalog'.exportSeq
      <4>1. /\ j \in catalog.jobs /\ catalog'.refs[j.id] = catalog.refs[j.id]
            /\ catalog.refs[j.id] <= catalog.exportSeq
        BY <3>1, <3>2 DEF RefsInv
      <4> QED BY <1>1, <1>2, <1>3, <2>2, <4>1
    <3>3. JobsKeepTheirExport'
      BY <1>4, <3>1 DEF NothingAdded, RefsInv, JobsKeepTheirExport
    <3> QED BY <3>2, <3>3 DEF RefsInv, Sure
  <2> QED BY <1>4, <2>1, <2>2 DEF NothingAdded
<1>5. ASSUME NEW jobs, NEW exports, Added(jobs, exports), catalog'.exportSeq >= catalog.exportSeq,
             \A j \in jobs : /\ catalog'.refs[j.id] > catalog.exportSeq
                             /\ catalog'.refs[j.id] <= catalog'.exportSeq,
             \A j \in jobs, e \in exports : e.from = j.from /\ e.project = j.project
      PROVE  RefsInv'
  <2>1. \A j \in catalog.jobs : catalog'.refs[j.id] = catalog.refs[j.id]
    BY <1>2, <1>5 DEF Added
  <2>2. ASSUME NEW j \in catalog'.jobs, Sure(j) PROVE catalog'.refs[j.id] <= catalog'.exportSeq
    <3>1. CASE j \in catalog.jobs
      BY <1>1, <1>2, <1>3, <1>5, <2>1, <2>2, <3>1 DEF RefsInv
    <3> QED BY <1>5, <3>1 DEF Added
  <2>3. ASSUME NEW j \in catalog'.jobs, NEW e \in catalog'.exports,
               catalog'.refs[j.id] = e.id, Sure(j)
        PROVE  e.from = j.from /\ e.project = j.project
    <3>1. CASE j \in catalog.jobs /\ e \in catalog.exports
      BY <2>1, <2>3, <3>1 DEF RefsInv, JobsKeepTheirExport, Sure
    <3>2. CASE j \in catalog.jobs /\ e \in exports
      <4>1. catalog.refs[j.id] <= catalog.exportSeq /\ catalog.refs[j.id] \in Nat
        BY <1>2, <2>3, <3>2 DEF RefsInv
      <4>2. e.id > catalog.exportSeq /\ e.id \in Nat
        BY <1>5, <3>2 DEF Added
      <4> QED BY <1>1, <2>1, <2>3, <3>2, <4>1, <4>2
    <3>3. CASE j \in jobs /\ e \in catalog.exports
      <4>1. catalog'.refs[j.id] > catalog.exportSeq
        BY <1>5, <3>3
      <4>2. e.id <= catalog.exportSeq /\ e.id \in Nat
        BY <1>1, <3>3 DEF RowsInv, Row
      <4> QED BY <1>1, <2>3, <4>1, <4>2
    <3>4. CASE j \in jobs /\ e \in exports
      BY <1>5, <3>4
    <3> QED BY <1>5, <3>1, <3>2, <3>3, <3>4 DEF Added
  <2> QED BY <2>2, <2>3 DEF RefsInv, JobsKeepTheirExport, Sure
<1>6. ASSUME NEW w \in Old, Merges(w) PROVE RefsInv'
  <2>1. Added(RemappedJobs(w, High(catalog)), RemappedExports(w, High(catalog)))
    BY <1>6, MergeAdds
  <2>2. MergeEffect(w, catalog')
    BY <1>6, MergeIs DEF Merges, Recorded
  <2>3. \A j \in RemappedJobs(w, High(catalog)), e \in RemappedExports(w, High(catalog)) :
          e.from = j.from /\ e.project = j.project
    BY DEF RemappedJobs, RemappedExports, RemappedRow
  <2>4. ASSUME NEW o \in OldJobs
        PROVE  /\ catalog'.refs[o + catalog.jobSeq] = o + catalog.exportSeq
               /\ o \in Nat /\ o > 0 /\ o <= ExportHigh
    <3>1. o + catalog.jobSeq \notin DOMAIN catalog.refs
      BY <1>1, <1>2 DEF KeysInv
    <3> QED BY <2>2, <3>1 DEF MergeEffect
  <2>5. \A j \in RemappedJobs(w, High(catalog)) :
          /\ catalog'.refs[j.id] > catalog.exportSeq
          /\ catalog'.refs[j.id] <= catalog'.exportSeq
    <3>1. ASSUME NEW j \in RemappedJobs(w, High(catalog))
          PROVE  \E o \in OldJobs : j.id = o + catalog.jobSeq
      BY DEF RemappedJobs, RemappedRow, High
    <3>2. catalog'.exportSeq >= catalog.exportSeq + ExportHigh
      BY <2>2 DEF MergeEffect
    <3> QED BY <1>1, <1>3, <2>4, <3>1, <3>2
  <2>6. catalog'.exportSeq >= catalog.exportSeq
    BY <1>1, <1>3, <2>2 DEF MergeEffect
  <2> QED BY <1>5, <2>1, <2>3, <2>5, <2>6
<1>7. ASSUME NEW p \in MigProject, Admits(p) PROVE RefsInv'
  <2>1. Added({AppRow(catalog.jobSeq + 1, p)}, {AppRow(catalog.exportSeq + 1, p)})
    BY <1>7, AdmissionAdds
  <2>2. AdmitEffect(p, catalog')
    BY <1>7, AdmissionIs DEF Admits
  <2>3. \A j \in {AppRow(catalog.jobSeq + 1, p)}, e \in {AppRow(catalog.exportSeq + 1, p)} :
          e.from = j.from /\ e.project = j.project
    BY DEF AppRow
  <2>4. catalog.jobSeq + 1 \notin DOMAIN catalog.refs
    BY <1>1, <1>2 DEF KeysInv
  <2>5. \A j \in {AppRow(catalog.jobSeq + 1, p)} :
          /\ catalog'.refs[j.id] > catalog.exportSeq
          /\ catalog'.refs[j.id] <= catalog'.exportSeq
    BY <1>1, <2>2, <2>4 DEF AdmitEffect, AppRow
  <2>6. catalog'.exportSeq >= catalog.exportSeq
    BY <1>1, <2>2 DEF AdmitEffect
  <2> QED BY <1>5, <2>1, <2>3, <2>5, <2>6
<1> QED BY <1>4, <1>6, <1>7, OthersAddNothing

\* ReservedNumbersAreTheSources, of one step.
NumbersStayReserved ==
    \A w \in DOMAIN catalog.receipts :
        /\ \A j \in catalog'.jobs \ catalog.jobs : j.id - catalog.receipts[w].jobs > JobHigh
        /\ \A e \in catalog'.exports \ catalog.exports :
              e.id - catalog.receipts[w].exports > ExportHigh

LEMMA StepsKeepReservations ==
    ASSUME TypesOfCatalog, RowsInv, KeysInv, CatalogStep
    PROVE  NumbersStayReserved
<1> USE MigrationAssumption
<1>1. catalog.jobSeq \in Nat /\ catalog.exportSeq \in Nat /\ catalog.receipts \in Records
  BY DEF TypesOfCatalog, Catalogs
<1>2. \A w \in DOMAIN catalog.receipts :
        catalog.receipts[w].jobs \in Nat /\ catalog.receipts[w].exports \in Nat
  BY <1>1, RecordsAre DEF OffsetPairs
<1>3. CASE NothingAdded
  BY <1>3 DEF NothingAdded, NumbersStayReserved
<1>4. ASSUME NEW jobs, NEW exports, Added(jobs, exports) PROVE NumbersStayReserved
  <2>1. ASSUME NEW w \in DOMAIN catalog.receipts, NEW j \in catalog'.jobs \ catalog.jobs
        PROVE  j.id - catalog.receipts[w].jobs > JobHigh
    <3>1. j.id \in Nat /\ j.id > catalog.jobSeq
      BY <1>4 DEF Added
    <3>2. catalog.receipts[w].jobs + JobHigh <= catalog.jobSeq /\ catalog.receipts[w].jobs \in Nat
      BY <1>2 DEF RowsInv
    <3> QED BY <1>1, <3>1, <3>2
  <2>2. ASSUME NEW w \in DOMAIN catalog.receipts, NEW e \in catalog'.exports \ catalog.exports
        PROVE  e.id - catalog.receipts[w].exports > ExportHigh
    <3>1. e.id \in Nat /\ e.id > catalog.exportSeq
      BY <1>4 DEF Added
    <3>2. /\ catalog.receipts[w].exports + ExportHigh <= catalog.exportSeq
          /\ catalog.receipts[w].exports \in Nat
      BY <1>2 DEF RowsInv
    <3> QED BY <1>1, <3>1, <3>2
  <2> QED BY <2>1, <2>2 DEF NumbersStayReserved
<1> QED BY <1>3, <1>4, OthersAddNothing, MergeAdds, AdmissionAdds

-----------------------------------------------------------------------------
(* The start of an application: who holds the lock, and what is done where *)

Holding == {"locked", "marking", "database", "settings", "index", "provenance", "verify"}
Writing == {"database", "settings", "index", "provenance", "verify"}

LockInv == \A w \in Workspace : migStart[w] \in Holding <=> migrationLock = w

MarkInv ==
    \A w \in Workspace :
        /\ migStart[w] = "marking" => sentinel \in {NoWorkspace, w}
        /\ migStart[w] \in Writing => sentinel = w

ProgressInv ==
    \A w \in Workspace :
        /\ migStart[w] \in {"settings", "index", "provenance", "verify"} =>
              w \in DOMAIN catalog.receipts
        /\ migStart[w] \in {"provenance", "verify"} => migProject[w] \in DOMAIN indexFile
        /\ migStart[w] = "verify" => w \in DOMAIN provenance

Taken(w) ==
    w \in DOMAIN provenance /\ migProject[w] \in DOMAIN indexFile /\ settingsFile

AdoptedInv ==
    migLosses = 0 => \A w \in DOMAIN catalog.receipts : sentinel # w => Taken(w)

OpenInv ==
    migLosses = 0 =>
        \A w \in Old : migStart[w] = "open" => w \in DOMAIN catalog.receipts /\ Taken(w)

\* Nothing that has been written is taken back, but by an accident.
FilesGrow ==
    /\ DOMAIN catalog.receipts \subseteq DOMAIN catalog'.receipts
    /\ DOMAIN provenance \subseteq DOMAIN provenance'
    /\ settingsFile => settingsFile'
    /\ DOMAIN indexFile \subseteq DOMAIN indexFile'
    /\ migProject' = migProject
    /\ migLosses' = migLosses

LEMMA TypesOfStartsKept ==
    ASSUME TypesOfStarts, [MigNext]_migVars
    PROVE  TypesOfStarts'
<1> USE MigrationAssumption DEF TypesOfStarts, Pcs, Unmoved, migFiles, migBounds, migVars
<1>1. ASSUME NEW w \in Workspace, StartApp(w) PROVE TypesOfStarts'
  BY <1>1 DEF StartApp, GoOn
<1>2. ASSUME NEW w \in Workspace, Adopt(w) PROVE TypesOfStarts'
  BY <1>2 DEF Adopt, RefuseStart, OpenStores, GoOn, Release
<1>3. ASSUME NEW w \in Workspace, LockMigration(w) PROVE TypesOfStarts'
  BY <1>3 DEF LockMigration, RefuseStart, GoOn, Release
<1>4. ASSUME NEW w \in Workspace, Recheck(w) PROVE TypesOfStarts'
  BY <1>4 DEF Recheck, RefuseStart, OpenStores, GoOn, Release
<1>5. ASSUME NEW w \in Workspace, WriteSentinel(w) PROVE TypesOfStarts'
  BY <1>5 DEF WriteSentinel, GoOn
<1>6. ASSUME NEW w \in Workspace, ImportDatabase(w) PROVE TypesOfStarts'
  BY <1>6 DEF ImportDatabase, RefuseStart, GoOn, Release
<1>7. ASSUME NEW w \in Workspace, WriteSettings(w) PROVE TypesOfStarts'
  BY <1>7 DEF WriteSettings, GoOn
<1>8. ASSUME NEW w \in Workspace, WriteIndex(w) PROVE TypesOfStarts'
  BY <1>8 DEF WriteIndex, GoOn
<1>9. ASSUME NEW w \in Workspace, WriteProvenance(w) PROVE TypesOfStarts'
  BY <1>9 DEF WriteProvenance, GoOn
<1>10. ASSUME NEW w \in Workspace, FinishMigration(w) PROVE TypesOfStarts'
  BY <1>10 DEF FinishMigration, RefuseStart, OpenStores, GoOn, Release
<1>11. ASSUME NEW w \in Workspace, MigrationFails(w) PROVE TypesOfStarts'
  BY <1>11 DEF MigrationFails, GoOn, Release
<1>12. ASSUME NEW p \in MigProject, AppAdmits(p) \/ AppRemoves(p) PROVE TypesOfStarts'
  BY <1>12 DEF AppAdmits, AppRemoves
<1>13. ASSUME NEW e \in catalog.exports, AppExpires(e) PROVE TypesOfStarts'
  BY <1>13 DEF AppExpires
<1>14. CASE LoseFile
  BY <1>14 DEF LoseFile
<1>15. CASE UNCHANGED migVars
  BY <1>15
<1> QED BY <1>1, <1>2, <1>3, <1>4, <1>5, <1>6, <1>7, <1>8, <1>9,
           <1>10, <1>11, <1>12, <1>13, <1>14, <1>15 DEF MigNext, MigrationStep

LEMMA TypesOfDocumentsKept ==
    ASSUME TypesOfDocuments, TypesOfStarts, migProject \in [Old -> MigProject],
           catalog.settings \in BOOLEAN,
           [MigNext]_migVars
    PROVE  TypesOfDocuments'
<1> USE MigrationAssumption DEF TypesOfDocuments, TypesOfStarts, Unmoved, migFiles, migBounds, migVars
<1>1. ASSUME NEW w \in Workspace, StartApp(w) PROVE TypesOfDocuments'
  BY <1>1 DEF StartApp, GoOn
<1>2. ASSUME NEW w \in Workspace, Adopt(w) PROVE TypesOfDocuments'
  BY <1>2 DEF Adopt, RefuseStart, OpenStores, GoOn, Release
<1>3. ASSUME NEW w \in Workspace, LockMigration(w) PROVE TypesOfDocuments'
  BY <1>3 DEF LockMigration, RefuseStart, GoOn, Release
<1>4. ASSUME NEW w \in Workspace, Recheck(w) PROVE TypesOfDocuments'
  BY <1>4 DEF Recheck, RefuseStart, OpenStores, GoOn, Release
<1>5. ASSUME NEW w \in Workspace, WriteSentinel(w) PROVE TypesOfDocuments'
  BY <1>5 DEF WriteSentinel, GoOn
<1>6. ASSUME NEW w \in Workspace, ImportDatabase(w) PROVE TypesOfDocuments'
  BY <1>6 DEF ImportDatabase, RefuseStart, GoOn, Release
<1>7. ASSUME NEW w \in Workspace, WriteSettings(w) PROVE TypesOfDocuments'
  BY <1>7 DEF WriteSettings, GoOn
<1>8. ASSUME NEW w \in Workspace, WriteIndex(w) PROVE TypesOfDocuments'
  BY <1>8 DEF WriteIndex, GoOn, Over, Just
<1>9. ASSUME NEW w \in Workspace, WriteProvenance(w) PROVE TypesOfDocuments'
  BY <1>9 DEF WriteProvenance, GoOn
<1>10. ASSUME NEW w \in Workspace, FinishMigration(w) PROVE TypesOfDocuments'
  BY <1>10 DEF FinishMigration, RefuseStart, OpenStores, GoOn, Release
<1>11. ASSUME NEW w \in Workspace, MigrationFails(w) PROVE TypesOfDocuments'
  BY <1>11 DEF MigrationFails, GoOn, Release
<1>12. ASSUME NEW p \in MigProject, AppAdmits(p) \/ AppRemoves(p) PROVE TypesOfDocuments'
  BY <1>12 DEF AppAdmits, AppRemoves
<1>13. ASSUME NEW e \in catalog.exports, AppExpires(e) PROVE TypesOfDocuments'
  BY <1>13 DEF AppExpires
<1>14. CASE LoseFile
  BY <1>14 DEF LoseFile
<1>15. CASE UNCHANGED migVars
  BY <1>15
<1> QED BY <1>1, <1>2, <1>3, <1>4, <1>5, <1>6, <1>7, <1>8, <1>9,
           <1>10, <1>11, <1>12, <1>13, <1>14, <1>15 DEF MigNext, MigrationStep

\* Documents are only added to.
DocumentsGrow ==
    /\ settingsFile => settingsFile'
    /\ DOMAIN indexFile \subseteq DOMAIN indexFile'
    /\ LoseFile \/ migLosses' = migLosses

LEMMA DocumentsDoGrow ==
    ASSUME [MigNext]_migVars
    PROVE  DocumentsGrow
<1> USE MigrationAssumption DEF DocumentsGrow, Unmoved, migFiles, migBounds, migVars
<1>1. ASSUME NEW w \in Workspace, StartApp(w) PROVE DocumentsGrow
  BY <1>1 DEF StartApp, GoOn
<1>2. ASSUME NEW w \in Workspace, Adopt(w) PROVE DocumentsGrow
  BY <1>2 DEF Adopt, RefuseStart, OpenStores, GoOn, Release
<1>3. ASSUME NEW w \in Workspace, LockMigration(w) PROVE DocumentsGrow
  BY <1>3 DEF LockMigration, RefuseStart, GoOn, Release
<1>4. ASSUME NEW w \in Workspace, Recheck(w) PROVE DocumentsGrow
  BY <1>4 DEF Recheck, RefuseStart, OpenStores, GoOn, Release
<1>5. ASSUME NEW w \in Workspace, WriteSentinel(w) PROVE DocumentsGrow
  BY <1>5 DEF WriteSentinel, GoOn
<1>6. ASSUME NEW w \in Workspace, ImportDatabase(w) PROVE DocumentsGrow
  BY <1>6 DEF ImportDatabase, RefuseStart, GoOn, Release
<1>7. ASSUME NEW w \in Workspace, WriteSettings(w) PROVE DocumentsGrow
  BY <1>7 DEF WriteSettings, GoOn
<1>8. ASSUME NEW w \in Workspace, WriteIndex(w) PROVE DocumentsGrow
  BY <1>8 DEF WriteIndex, GoOn, Over, Just
<1>9. ASSUME NEW w \in Workspace, WriteProvenance(w) PROVE DocumentsGrow
  BY <1>9 DEF WriteProvenance, GoOn
<1>10. ASSUME NEW w \in Workspace, FinishMigration(w) PROVE DocumentsGrow
  BY <1>10 DEF FinishMigration, RefuseStart, OpenStores, GoOn, Release
<1>11. ASSUME NEW w \in Workspace, MigrationFails(w) PROVE DocumentsGrow
  BY <1>11 DEF MigrationFails, GoOn, Release
<1>12. ASSUME NEW p \in MigProject, AppAdmits(p) \/ AppRemoves(p) PROVE DocumentsGrow
  BY <1>12 DEF AppAdmits, AppRemoves
<1>13. ASSUME NEW e \in catalog.exports, AppExpires(e) PROVE DocumentsGrow
  BY <1>13 DEF AppExpires
<1>14. CASE LoseFile
  BY <1>14 DEF LoseFile
<1>15. CASE UNCHANGED migVars
  BY <1>15
<1> QED BY <1>1, <1>2, <1>3, <1>4, <1>5, <1>6, <1>7, <1>8, <1>9,
           <1>10, <1>11, <1>12, <1>13, <1>14, <1>15 DEF MigNext, MigrationStep

LEMMA FilesDoGrow ==
    ASSUME TypesOfCatalog, CatalogStep, ~LoseFile, [MigNext]_migVars
    PROVE  FilesGrow
<1>1. /\ DOMAIN catalog.receipts \subseteq DOMAIN catalog'.receipts
      /\ DOMAIN provenance \subseteq DOMAIN provenance'
      /\ migProject' = migProject
  <2>1. CASE Settles
    <3>1. catalog.receipts \in Records /\ provenance \in Records
      BY DEF TypesOfCatalog, Catalogs
    <3>2. catalog'.receipts = catalog.receipts
      BY <2>1 DEF Settles, TypesOfCatalog, Catalogs
    <3>3. DOMAIN provenance \subseteq DOMAIN provenance'
      BY <2>1, <3>1, OverOfRecords DEF Settles
    <3> QED BY <2>1, <3>2, <3>3 DEF Settles
  <2>2. CASE Removes
    BY <2>2 DEF Removes, ShrinkEffect
  <2>3. ASSUME NEW w \in Old, Merges(w) \/ Backfills(w)
        PROVE  /\ DOMAIN catalog.receipts \subseteq DOMAIN catalog'.receipts
               /\ DOMAIN provenance \subseteq DOMAIN provenance'
               /\ migProject' = migProject
    BY <2>3, MergeIs, BackfillIs
       DEF Merges, Backfills, MergeEffect, BackfillEffect, Knowing, Recorded
  <2>4. ASSUME NEW p \in MigProject, Admits(p)
        PROVE  /\ DOMAIN catalog.receipts \subseteq DOMAIN catalog'.receipts
               /\ DOMAIN provenance \subseteq DOMAIN provenance'
               /\ migProject' = migProject
    BY <2>4, AdmissionIs DEF Admits, AdmitEffect
  <2> QED BY <2>1, <2>2, <2>3, <2>4 DEF CatalogStep, Loses
<1>2. /\ settingsFile => settingsFile'
      /\ DOMAIN indexFile \subseteq DOMAIN indexFile'
      /\ migLosses' = migLosses
  BY DocumentsDoGrow DEF DocumentsGrow
<1> QED BY <1>1, <1>2 DEF FilesGrow

LEMMA LockKept ==
    ASSUME TypesOfStarts, LockInv, [MigNext]_migVars
    PROVE  LockInv'
<1> USE MigrationAssumption DEF TypesOfStarts, LockInv, Holding, Unmoved, migFiles, migBounds, migVars
<1>1. ASSUME NEW w \in Workspace, StartApp(w) PROVE LockInv'
  BY <1>1 DEF StartApp, GoOn
<1>2. ASSUME NEW w \in Workspace, Adopt(w) PROVE LockInv'
  BY <1>2 DEF Adopt, RefuseStart, OpenStores, GoOn, Release
<1>3. ASSUME NEW w \in Workspace, LockMigration(w) PROVE LockInv'
  BY <1>3 DEF LockMigration, RefuseStart, GoOn, Release
<1>4. ASSUME NEW w \in Workspace, Recheck(w) PROVE LockInv'
  BY <1>4 DEF Recheck, RefuseStart, OpenStores, GoOn, Release
<1>5. ASSUME NEW w \in Workspace, WriteSentinel(w) PROVE LockInv'
  BY <1>5 DEF WriteSentinel, GoOn
<1>6. ASSUME NEW w \in Workspace, ImportDatabase(w) PROVE LockInv'
  BY <1>6 DEF ImportDatabase, RefuseStart, GoOn, Release
<1>7. ASSUME NEW w \in Workspace, WriteSettings(w) PROVE LockInv'
  BY <1>7 DEF WriteSettings, GoOn
<1>8. ASSUME NEW w \in Workspace, WriteIndex(w) PROVE LockInv'
  BY <1>8 DEF WriteIndex, GoOn
<1>9. ASSUME NEW w \in Workspace, WriteProvenance(w) PROVE LockInv'
  BY <1>9 DEF WriteProvenance, GoOn
<1>10. ASSUME NEW w \in Workspace, FinishMigration(w) PROVE LockInv'
  BY <1>10 DEF FinishMigration, RefuseStart, OpenStores, GoOn, Release
<1>11. ASSUME NEW w \in Workspace, MigrationFails(w) PROVE LockInv'
  BY <1>11 DEF MigrationFails, GoOn, Release
<1>12. ASSUME NEW p \in MigProject, AppAdmits(p) \/ AppRemoves(p) PROVE LockInv'
  BY <1>12 DEF AppAdmits, AppRemoves
<1>13. ASSUME NEW e \in catalog.exports, AppExpires(e) PROVE LockInv'
  BY <1>13 DEF AppExpires
<1>14. CASE LoseFile
  BY <1>14 DEF LoseFile
<1>15. CASE UNCHANGED migVars
  BY <1>15
<1> QED BY <1>1, <1>2, <1>3, <1>4, <1>5, <1>6, <1>7, <1>8, <1>9,
           <1>10, <1>11, <1>12, <1>13, <1>14, <1>15 DEF MigNext, MigrationStep

LEMMA MarkKept ==
    ASSUME TypesOfStarts, LockInv, MarkInv, [MigNext]_migVars
    PROVE  MarkInv'
<1> USE MigrationAssumption DEF TypesOfStarts, LockInv, MarkInv, Holding, Writing, Unmoved,
        migFiles, migBounds, migVars
<1>1. ASSUME NEW w \in Workspace, StartApp(w) PROVE MarkInv'
  BY <1>1 DEF StartApp, GoOn
<1>2. ASSUME NEW w \in Workspace, Adopt(w) PROVE MarkInv'
  BY <1>2 DEF Adopt, RefuseStart, OpenStores, GoOn, Release
<1>3. ASSUME NEW w \in Workspace, LockMigration(w) PROVE MarkInv'
  BY <1>3 DEF LockMigration, RefuseStart, GoOn, Release
<1>4. ASSUME NEW w \in Workspace, Recheck(w) PROVE MarkInv'
  BY <1>4 DEF Recheck, RefuseStart, OpenStores, GoOn, Release, BlockedByPending
<1>5. ASSUME NEW w \in Workspace, WriteSentinel(w) PROVE MarkInv'
  BY <1>5 DEF WriteSentinel, GoOn
<1>6. ASSUME NEW w \in Workspace, ImportDatabase(w) PROVE MarkInv'
  BY <1>6 DEF ImportDatabase, RefuseStart, GoOn, Release
<1>7. ASSUME NEW w \in Workspace, WriteSettings(w) PROVE MarkInv'
  BY <1>7 DEF WriteSettings, GoOn
<1>8. ASSUME NEW w \in Workspace, WriteIndex(w) PROVE MarkInv'
  BY <1>8 DEF WriteIndex, GoOn
<1>9. ASSUME NEW w \in Workspace, WriteProvenance(w) PROVE MarkInv'
  BY <1>9 DEF WriteProvenance, GoOn
<1>10. ASSUME NEW w \in Workspace, FinishMigration(w) PROVE MarkInv'
  BY <1>10 DEF FinishMigration, RefuseStart, OpenStores, GoOn, Release
<1>11. ASSUME NEW w \in Workspace, MigrationFails(w) PROVE MarkInv'
  BY <1>11 DEF MigrationFails, GoOn, Release
<1>12. ASSUME NEW p \in MigProject, AppAdmits(p) \/ AppRemoves(p) PROVE MarkInv'
  BY <1>12 DEF AppAdmits, AppRemoves
<1>13. ASSUME NEW e \in catalog.exports, AppExpires(e) PROVE MarkInv'
  BY <1>13 DEF AppExpires
<1>14. CASE LoseFile
  BY <1>14 DEF LoseFile
<1>15. CASE UNCHANGED migVars
  BY <1>15
<1> QED BY <1>1, <1>2, <1>3, <1>4, <1>5, <1>6, <1>7, <1>8, <1>9,
           <1>10, <1>11, <1>12, <1>13, <1>14, <1>15 DEF MigNext, MigrationStep

LEMMA ReceiptsGrow ==
    ASSUME TypesOfCatalog, TypesOfStarts, NEW w \in Workspace, ImportDatabase(w)
    PROVE  /\ DOMAIN catalog'.receipts \subseteq DOMAIN catalog.receipts \cup {w}
           /\ migStart'[w] = "settings" => w \in DOMAIN catalog'.receipts
           /\ migStart'[w] \in {"off", "settings"}
<1>1. w \in Old
  BY DEF ImportDatabase, TypesOfStarts
<1>2. CASE catalog' = catalog
  BY <1>1, <1>2, MergeIs, BackfillIs
     DEF ImportDatabase, TypesOfStarts, GoOn, RefuseStart, MergeEffect, BackfillEffect, Knowing
<1>3. CASE catalog' = Merge(w) /\ w \notin DOMAIN catalog.receipts
  <2>1. Knowing(catalog.receipts, w, High(catalog), catalog'.receipts)
    BY <1>1, <1>3, MergeIs DEF MergeEffect
  <2>2. migStart'[w] \in {"off", "settings"}
    BY <1>1 DEF ImportDatabase, TypesOfStarts, GoOn, RefuseStart
  <2> QED BY <2>1, <2>2 DEF Knowing
<1>4. CASE catalog' = Backfill(w) /\ w \notin DOMAIN catalog.receipts /\ w \in DOMAIN provenance
  <2>1. Knowing(catalog.receipts, w, provenance[w], catalog'.receipts)
    BY <1>1, <1>4, BackfillIs DEF BackfillEffect
  <2>2. migStart'[w] \in {"off", "settings"}
    BY <1>1 DEF ImportDatabase, TypesOfStarts, GoOn, RefuseStart
  <2> QED BY <2>1, <2>2 DEF Knowing
<1> QED BY <1>2, <1>3, <1>4 DEF ImportDatabase, RefuseStart

\* Only the import of a workspace gives it a receipt.
NoNewReceipts == DOMAIN catalog'.receipts \subseteq DOMAIN catalog.receipts
ReceiptsAreImports ==
    NoNewReceipts \/ \E x \in Workspace :
        /\ migStart[x] = "database"
        /\ DOMAIN catalog'.receipts \subseteq DOMAIN catalog.receipts \cup {x}
        /\ UNCHANGED <<settingsFile, indexFile, provenance, sentinel, migLosses>>
        /\ \A y \in Workspace : migStart'[y] = "open" => migStart[y] = "open"

LEMMA ReceiptsAreFromImports ==
    ASSUME TypesOfCatalog, TypesOfStarts, KeysInv, [MigNext]_migVars
    PROVE  ReceiptsAreImports
<1> USE MigrationAssumption DEF NoNewReceipts, ReceiptsAreImports, Unmoved, migFiles, migBounds, migVars
<1>1. ASSUME NEW w \in Workspace, StartApp(w) PROVE ReceiptsAreImports
  BY <1>1 DEF StartApp, GoOn
<1>2. ASSUME NEW w \in Workspace, Adopt(w) PROVE ReceiptsAreImports
  BY <1>2 DEF Adopt, RefuseStart, OpenStores, GoOn, Release, TypesOfCatalog, Catalogs
<1>3. ASSUME NEW w \in Workspace, LockMigration(w) PROVE ReceiptsAreImports
  BY <1>3 DEF LockMigration, RefuseStart, GoOn, Release
<1>4. ASSUME NEW w \in Workspace, Recheck(w) PROVE ReceiptsAreImports
  BY <1>4 DEF Recheck, RefuseStart, OpenStores, GoOn, Release, TypesOfCatalog, Catalogs
<1>5. ASSUME NEW w \in Workspace, WriteSentinel(w) PROVE ReceiptsAreImports
  BY <1>5 DEF WriteSentinel, GoOn
<1>6. ASSUME NEW w \in Workspace, ImportDatabase(w) PROVE ReceiptsAreImports
  BY <1>6, ReceiptsGrow DEF ImportDatabase, RefuseStart, GoOn, Release, TypesOfStarts
<1>7. ASSUME NEW w \in Workspace, WriteSettings(w) PROVE ReceiptsAreImports
  BY <1>7 DEF WriteSettings, GoOn
<1>8. ASSUME NEW w \in Workspace, WriteIndex(w) PROVE ReceiptsAreImports
  BY <1>8 DEF WriteIndex, GoOn
<1>9. ASSUME NEW w \in Workspace, WriteProvenance(w) PROVE ReceiptsAreImports
  BY <1>9 DEF WriteProvenance, GoOn
<1>10. ASSUME NEW w \in Workspace, FinishMigration(w) PROVE ReceiptsAreImports
  BY <1>10 DEF FinishMigration, RefuseStart, OpenStores, GoOn, Release, TypesOfCatalog, Catalogs
<1>11. ASSUME NEW w \in Workspace, MigrationFails(w) PROVE ReceiptsAreImports
  BY <1>11 DEF MigrationFails, GoOn, Release
<1>12. ASSUME NEW p \in MigProject, AppAdmits(p) \/ AppRemoves(p) PROVE ReceiptsAreImports
  BY <1>12 DEF AppAdmits, AppRemoves, Without, TypesOfCatalog, Catalogs
<1>13. ASSUME NEW e \in catalog.exports, AppExpires(e) PROVE ReceiptsAreImports
  BY <1>13 DEF AppExpires, Without, TypesOfCatalog, Catalogs
<1>14. CASE LoseFile
  BY <1>14 DEF LoseFile, TypesOfCatalog, Catalogs, NoRecords, NoCatalog
<1>15. CASE UNCHANGED migVars
  BY <1>15
<1> QED BY <1>1, <1>2, <1>3, <1>4, <1>5, <1>6, <1>7, <1>8, <1>9,
           <1>10, <1>11, <1>12, <1>13, <1>14, <1>15 DEF MigNext, MigrationStep

LEMMA ProgressKept ==
    ASSUME TypesOfCatalog, TypesOfStarts, LockInv, ProgressInv, CatalogStep, [MigNext]_migVars
    PROVE  ProgressInv'
<1> USE MigrationAssumption DEF TypesOfStarts, LockInv, ProgressInv, Holding, Unmoved, migFiles,
        migBounds, migVars
<1>0. CASE LoseFile
  BY <1>0 DEF LoseFile
<1>0a. SUFFICES ASSUME FilesGrow PROVE ProgressInv'
  BY <1>0, FilesDoGrow
<1>0b. FilesGrow
  BY <1>0a
<1>0c. ASSUME NEW w \in Workspace, WriteProvenance(w)
       PROVE  DOMAIN catalog.receipts \subseteq DOMAIN provenance'
  <2>1. catalog.receipts \in Records /\ provenance \in Records
    BY DEF TypesOfCatalog, Catalogs
  <2>2. DOMAIN Over(catalog.receipts, provenance) = DOMAIN catalog.receipts \cup DOMAIN provenance
    BY <2>1, OverOfRecords
  <2> QED BY <1>0c, <2>2 DEF WriteProvenance
<1>1. ASSUME NEW w \in Workspace, StartApp(w) PROVE ProgressInv'
  BY <1>1, <1>0b DEF StartApp, GoOn, FilesGrow
<1>2. ASSUME NEW w \in Workspace, Adopt(w) PROVE ProgressInv'
  BY <1>2, <1>0b DEF Adopt, RefuseStart, OpenStores, GoOn, Release, FilesGrow
<1>3. ASSUME NEW w \in Workspace, LockMigration(w) PROVE ProgressInv'
  BY <1>3, <1>0b DEF LockMigration, RefuseStart, GoOn, Release, FilesGrow
<1>4. ASSUME NEW w \in Workspace, Recheck(w) PROVE ProgressInv'
  BY <1>4, <1>0b DEF Recheck, RefuseStart, OpenStores, GoOn, Release, FilesGrow
<1>5. ASSUME NEW w \in Workspace, WriteSentinel(w) PROVE ProgressInv'
  BY <1>5, <1>0b DEF WriteSentinel, GoOn, FilesGrow
<1>6. ASSUME NEW w \in Workspace, ImportDatabase(w) PROVE ProgressInv'
  BY <1>6, <1>0b, ReceiptsGrow DEF ImportDatabase, RefuseStart, GoOn, Release, FilesGrow
<1>7. ASSUME NEW w \in Workspace, WriteSettings(w) PROVE ProgressInv'
  BY <1>7, <1>0b DEF WriteSettings, GoOn, FilesGrow
<1>8. ASSUME NEW w \in Workspace, WriteIndex(w) PROVE ProgressInv'
  BY <1>8, <1>0b DEF WriteIndex, GoOn, FilesGrow, Over, Just
<1>9. ASSUME NEW w \in Workspace, WriteProvenance(w) PROVE ProgressInv'
  BY <1>9, <1>0b, <1>0c DEF WriteProvenance, GoOn, FilesGrow
<1>10. ASSUME NEW w \in Workspace, FinishMigration(w) PROVE ProgressInv'
  BY <1>10, <1>0b DEF FinishMigration, RefuseStart, OpenStores, GoOn, Release, FilesGrow
<1>11. ASSUME NEW w \in Workspace, MigrationFails(w) PROVE ProgressInv'
  BY <1>11, <1>0b DEF MigrationFails, GoOn, Release, FilesGrow
<1>12. ASSUME NEW p \in MigProject, AppAdmits(p) \/ AppRemoves(p) PROVE ProgressInv'
  BY <1>12, <1>0b DEF AppAdmits, AppRemoves, FilesGrow
<1>13. ASSUME NEW e \in catalog.exports, AppExpires(e) PROVE ProgressInv'
  BY <1>13, <1>0b DEF AppExpires, FilesGrow
<1>14. CASE LoseFile
  BY <1>14 DEF LoseFile
<1>15. CASE UNCHANGED migVars
  BY <1>15
<1> QED BY <1>1, <1>2, <1>3, <1>4, <1>5, <1>6, <1>7, <1>8, <1>9,
           <1>10, <1>11, <1>12, <1>13, <1>14, <1>15 DEF MigNext, MigrationStep

\* The sentinel is written before an import and removed after it, never in between.
SentinelIsMoved ==
    \/ sentinel' = sentinel \/ \E w \in Workspace : WriteSentinel(w)
    \/ \E w \in Workspace : FinishMigration(w) /\ sentinel' = NoWorkspace
                             /\ migStart[w] = "verify" /\ settingsFile

LEMMA SentinelMoves ==
    ASSUME [MigNext]_migVars
    PROVE  SentinelIsMoved
<1> USE MigrationAssumption DEF SentinelIsMoved, Unmoved, migFiles, migBounds, migVars
<1>1. ASSUME NEW w \in Workspace, StartApp(w) PROVE SentinelIsMoved
  BY <1>1 DEF StartApp, GoOn
<1>2. ASSUME NEW w \in Workspace, Adopt(w) PROVE SentinelIsMoved
  BY <1>2 DEF Adopt, RefuseStart, OpenStores, GoOn, Release
<1>3. ASSUME NEW w \in Workspace, LockMigration(w) PROVE SentinelIsMoved
  BY <1>3 DEF LockMigration, RefuseStart, GoOn, Release
<1>4. ASSUME NEW w \in Workspace, Recheck(w) PROVE SentinelIsMoved
  BY <1>4 DEF Recheck, RefuseStart, OpenStores, GoOn, Release
<1>5. ASSUME NEW w \in Workspace, WriteSentinel(w) PROVE SentinelIsMoved
  BY <1>5 DEF WriteSentinel, GoOn
<1>6. ASSUME NEW w \in Workspace, ImportDatabase(w) PROVE SentinelIsMoved
  BY <1>6 DEF ImportDatabase, RefuseStart, GoOn, Release
<1>7. ASSUME NEW w \in Workspace, WriteSettings(w) PROVE SentinelIsMoved
  BY <1>7 DEF WriteSettings, GoOn
<1>8. ASSUME NEW w \in Workspace, WriteIndex(w) PROVE SentinelIsMoved
  BY <1>8 DEF WriteIndex, GoOn
<1>9. ASSUME NEW w \in Workspace, WriteProvenance(w) PROVE SentinelIsMoved
  BY <1>9 DEF WriteProvenance, GoOn
<1>10. ASSUME NEW w \in Workspace, FinishMigration(w) PROVE SentinelIsMoved
  BY <1>10 DEF FinishMigration, RefuseStart, OpenStores, GoOn, Release
<1>11. ASSUME NEW w \in Workspace, MigrationFails(w) PROVE SentinelIsMoved
  BY <1>11 DEF MigrationFails, GoOn, Release
<1>12. ASSUME NEW p \in MigProject, AppAdmits(p) \/ AppRemoves(p) PROVE SentinelIsMoved
  BY <1>12 DEF AppAdmits, AppRemoves
<1>13. ASSUME NEW e \in catalog.exports, AppExpires(e) PROVE SentinelIsMoved
  BY <1>13 DEF AppExpires
<1>14. CASE LoseFile
  BY <1>14 DEF LoseFile
<1>15. CASE UNCHANGED migVars
  BY <1>15
<1> QED BY <1>1, <1>2, <1>3, <1>4, <1>5, <1>6, <1>7, <1>8, <1>9,
           <1>10, <1>11, <1>12, <1>13, <1>14, <1>15 DEF MigNext, MigrationStep

LEMMA AdoptedKept ==
    ASSUME TypesOfCatalog, TypesOfStarts, TypesOfDocuments, LockInv, MarkInv, ProgressInv, AdoptedInv,
           KeysInv, CatalogStep, [MigNext]_migVars
    PROVE  AdoptedInv'
<1> USE MigrationAssumption
<1>1. CASE LoseFile
  BY <1>1 DEF LoseFile, AdoptedInv, TypesOfDocuments
<1>2. CASE ~LoseFile /\ ~NoNewReceipts
  <2>1. PICK x \in Workspace :
          /\ migStart[x] = "database"
          /\ DOMAIN catalog'.receipts \subseteq DOMAIN catalog.receipts \cup {x}
          /\ UNCHANGED <<settingsFile, indexFile, provenance, sentinel, migLosses>>
    BY <1>2, ReceiptsAreFromImports DEF ReceiptsAreImports
  <2>2. sentinel = x /\ migProject' = migProject
    BY <1>2, <2>1, FilesDoGrow DEF MarkInv, Writing, FilesGrow
  <2> QED BY <2>1, <2>2 DEF AdoptedInv, Taken
<1>3. CASE ~LoseFile /\ NoNewReceipts
  <2>1. FilesGrow
    BY <1>3, FilesDoGrow
  <2>2. \A w : Taken(w) => Taken(w)'
    BY <2>1 DEF Taken, FilesGrow
  <2>3. SentinelIsMoved
    BY SentinelMoves
  <2>4. CASE sentinel' = sentinel
    BY <1>3, <2>1, <2>2, <2>4 DEF AdoptedInv, FilesGrow, NoNewReceipts
  <2>5. ASSUME NEW w \in Workspace, WriteSentinel(w) PROVE AdoptedInv'
    <3>1. sentinel \in {NoWorkspace, w} /\ sentinel' = w
      BY <2>5 DEF WriteSentinel, MarkInv
    <3>2. DOMAIN catalog.receipts \subseteq Old
      BY RecordsAre DEF TypesOfCatalog, Catalogs
    <3>3. \A x \in DOMAIN catalog'.receipts : sentinel' # x => x \in DOMAIN catalog.receipts /\ sentinel # x
      BY <1>3, <3>1, <3>2 DEF NoNewReceipts
    <3> QED BY <2>1, <2>2, <3>3 DEF AdoptedInv, FilesGrow
  <2>6. ASSUME NEW w \in Workspace, FinishMigration(w), sentinel' = NoWorkspace,
               migStart[w] = "verify", settingsFile
        PROVE  AdoptedInv'
    <3>1. sentinel = w /\ Taken(w)
      BY <2>6 DEF MarkInv, Writing, ProgressInv, Taken
    <3>2. \A x \in DOMAIN catalog.receipts : migLosses = 0 => Taken(x)
      BY <3>1 DEF AdoptedInv
    <3> QED BY <1>3, <2>1, <2>2, <3>2 DEF AdoptedInv, FilesGrow, NoNewReceipts
  <2> QED BY <2>3, <2>4, <2>5, <2>6 DEF SentinelIsMoved
<1> QED BY <1>1, <1>2, <1>3

\* An application opens a workspace whose import is settled.
OpensAdopted ==
    \A w \in Old : migStart'[w] = "open" =>
        \/ migStart[w] = "open"
        \/ sentinel = NoWorkspace /\ w \in DOMAIN catalog.receipts
        \/ migStart[w] = "verify" /\ settingsFile

LEMMA AppsOpenAdopted ==
    ASSUME TypesOfStarts, [MigNext]_migVars
    PROVE  OpensAdopted
<1> USE MigrationAssumption DEF OpensAdopted, TypesOfStarts, Unmoved, migFiles, migBounds, migVars
<1>1. ASSUME NEW w \in Workspace, StartApp(w) PROVE OpensAdopted
  BY <1>1 DEF StartApp, GoOn
<1>2. ASSUME NEW w \in Workspace, Adopt(w) PROVE OpensAdopted
  BY <1>2 DEF Adopt, RefuseStart, OpenStores, GoOn, Release, Complete
<1>3. ASSUME NEW w \in Workspace, LockMigration(w) PROVE OpensAdopted
  BY <1>3 DEF LockMigration, RefuseStart, GoOn, Release
<1>4. ASSUME NEW w \in Workspace, Recheck(w) PROVE OpensAdopted
  BY <1>4 DEF Recheck, RefuseStart, OpenStores, GoOn, Release, Complete
<1>5. ASSUME NEW w \in Workspace, WriteSentinel(w) PROVE OpensAdopted
  BY <1>5 DEF WriteSentinel, GoOn
<1>6. ASSUME NEW w \in Workspace, ImportDatabase(w) PROVE OpensAdopted
  BY <1>6 DEF ImportDatabase, RefuseStart, GoOn, Release
<1>7. ASSUME NEW w \in Workspace, WriteSettings(w) PROVE OpensAdopted
  BY <1>7 DEF WriteSettings, GoOn
<1>8. ASSUME NEW w \in Workspace, WriteIndex(w) PROVE OpensAdopted
  BY <1>8 DEF WriteIndex, GoOn
<1>9. ASSUME NEW w \in Workspace, WriteProvenance(w) PROVE OpensAdopted
  BY <1>9 DEF WriteProvenance, GoOn
<1>10. ASSUME NEW w \in Workspace, FinishMigration(w) PROVE OpensAdopted
  BY <1>10 DEF FinishMigration, RefuseStart, OpenStores, GoOn, Release
<1>11. ASSUME NEW w \in Workspace, MigrationFails(w) PROVE OpensAdopted
  BY <1>11 DEF MigrationFails, GoOn, Release
<1>12. ASSUME NEW p \in MigProject, AppAdmits(p) \/ AppRemoves(p) PROVE OpensAdopted
  BY <1>12 DEF AppAdmits, AppRemoves
<1>13. ASSUME NEW e \in catalog.exports, AppExpires(e) PROVE OpensAdopted
  BY <1>13 DEF AppExpires
<1>14. CASE LoseFile
  BY <1>14 DEF LoseFile
<1>15. CASE UNCHANGED migVars
  BY <1>15
<1> QED BY <1>1, <1>2, <1>3, <1>4, <1>5, <1>6, <1>7, <1>8, <1>9,
           <1>10, <1>11, <1>12, <1>13, <1>14, <1>15 DEF MigNext, MigrationStep

LEMMA OpenKept ==
    ASSUME TypesOfCatalog, TypesOfStarts, TypesOfDocuments, ProgressInv, AdoptedInv, OpenInv, CatalogStep,
           [MigNext]_migVars
    PROVE  OpenInv'
<1> USE MigrationAssumption
<1>1. CASE LoseFile
  BY <1>1 DEF LoseFile, OpenInv, TypesOfDocuments
<1>2. CASE ~LoseFile
  <2>1. FilesGrow
    BY <1>2, FilesDoGrow
  <2>2. \A w : Taken(w) => Taken(w)'
    BY <2>1 DEF Taken, FilesGrow
  <2>3. ASSUME migLosses = 0, NEW w \in Old, migStart'[w] = "open"
        PROVE  w \in DOMAIN catalog.receipts /\ Taken(w)
    <3>1. CASE migStart[w] = "open"
      BY <2>3, <3>1 DEF OpenInv
    <3>2. CASE sentinel = NoWorkspace /\ w \in DOMAIN catalog.receipts
      BY <2>3, <3>2 DEF AdoptedInv
    <3>3. CASE migStart[w] = "verify" /\ settingsFile
      BY <2>3, <3>3 DEF ProgressInv, Taken
    <3> QED BY <2>3, <3>1, <3>2, <3>3, AppsOpenAdopted DEF OpensAdopted
  <2> QED BY <2>1, <2>2, <2>3 DEF OpenInv, FilesGrow
<1> QED BY <1>1, <1>2


-----------------------------------------------------------------------------

MigInv ==
    /\ TypesOfCatalog /\ TypesOfStarts /\ TypesOfDocuments
    /\ RecordsInv /\ RowsInv /\ KeysInv /\ DeletedInv /\ RefsInv
    /\ LockInv /\ MarkInv /\ ProgressInv /\ AdoptedInv /\ OpenInv

LEMMA MigrationStarts == MigInit => MigInv
<1> SUFFICES ASSUME MigInit PROVE MigInv
  OBVIOUS
<1> USE MigrationAssumption
<1>1. TypesOfStarts /\ LockInv /\ MarkInv /\ ProgressInv
  BY DEF MigInit, TypesOfStarts, Pcs, LockInv, MarkInv, ProgressInv, Holding, Writing
<1>2. /\ migProject \in [Old -> MigProject] /\ migDeleted = {}
      /\ migCreated = 0 /\ migFaults = 0 /\ migLosses = 0
      /\ MaxMigCreated \in Nat /\ MaxMigFaults \in Nat /\ MaxMigLosses \in Nat
  BY DEF MigInit
<1>3. CASE catalog = NoCatalog /\ settingsFile = FALSE /\ provenance = NoRecords
           /\ indexFile = [p \in {} |-> NoWorkspace]
  <2>1. TypesOfCatalog
    BY <1>2, <1>3, EmptyCatalog DEF TypesOfCatalog
  <2>2. TypesOfDocuments
    <3>1. DOMAIN indexFile = {}
      BY <1>3
    <3>2. settingsFile \in BOOLEAN
      BY <1>3
    <3> QED BY <1>2, <3>1, <3>2 DEF TypesOfDocuments
  <2>3. /\ catalog.jobs = {} /\ catalog.exports = {} /\ catalog.projects = {}
        /\ DOMAIN catalog.receipts = {} /\ DOMAIN provenance = {} /\ DOMAIN catalog.refs = {}
        /\ migDeleted = {}
    BY <1>2, <1>3 DEF NoCatalog, NoRecords
  <2>4. RecordsInv /\ RowsInv /\ DeletedInv
    BY <2>3 DEF RecordsInv, RowsInv, DeletedInv, Recorded
  <2>5. KeysInv /\ RefsInv /\ AdoptedInv
    BY <2>3 DEF KeysInv, RefsInv, JobsKeepTheirExport, AdoptedInv
  <2>6. OpenInv
    BY DEF OpenInv, MigInit
  <2> QED BY <1>1, <2>1, <2>2, <2>4, <2>5, <2>6 DEF MigInv
<1>4. ASSUME NEW w \in Legacy, NEW jobHigh \in 0..JobHigh, NEW exportHigh \in 0..ExportHigh,
             OldJobs \subseteq 1..jobHigh, OldExports \subseteq 1..exportHigh,
             catalog = [NoCatalog EXCEPT
                !.present = TRUE, !.projects = {migProject[w]}, !.settings = TRUE,
                !.jobs = RemappedJobs(w, NoOffsets), !.exports = RemappedExports(w, NoOffsets),
                !.refs = RemappedRefs(w, NoOffsets), !.jobSeq = jobHigh,
                !.exportSeq = exportHigh],
             settingsFile = TRUE, indexFile = Just(migProject[w], w),
             provenance = Just(w, NoOffsets)
      PROVE  MigInv
  <2> DEFINE jobs == RemappedJobs(w, NoOffsets)
             exports == RemappedExports(w, NoOffsets)
             refs == RemappedRefs(w, NoOffsets)
  <2>1. /\ \A j \in jobs : /\ j.id \in OldJobs /\ j.old = j.id /\ j.from = w
                           /\ j.project = migProject[w]
        /\ \A e \in exports : /\ e.id \in OldExports /\ e.old = e.id /\ e.from = w
                              /\ e.project = migProject[w]
        /\ jobs \subseteq Row /\ exports \subseteq Row
        /\ \A r, s \in jobs : r.id = s.id => r = s
        /\ \A r, s \in exports : r.id = s.id => r = s
    BY <1>2, <1>4 DEF RemappedJobs, RemappedExports, RemappedRow, NoOffsets, Row
  <2>2. /\ refs \in References
        /\ DOMAIN refs = OldJobs
        /\ \A o \in OldJobs : refs[o] = o
    <3>1. {j + NoOffsets.jobs : j \in OldJobs} = OldJobs
      BY <1>4 DEF NoOffsets
    <3>2. refs \in [OldJobs -> Nat] /\ OldJobs \subseteq Nat /\ \A o \in OldJobs : refs[o] = o
      BY <1>4, <3>1 DEF RemappedRefs, NoOffsets
    <3> QED BY <3>2, ReferencesAre
  <2>3. {j.id : j \in jobs} = OldJobs
    <3>1. \A o \in OldJobs : RemappedRow(w, o, 0).id = o
      BY <1>4 DEF RemappedRow
    <3>2. jobs = {RemappedRow(w, o, 0) : o \in OldJobs}
      BY DEF RemappedJobs, NoOffsets
    <3> QED BY <3>1, <3>2
  <2>4. migProject[w] \in MigProject /\ w \in Old
    BY <1>2, <1>4
  <2> HIDE DEF jobs, exports, refs
  <2>5. /\ catalog \in Catalogs /\ catalog.present
        /\ catalog.projects = {migProject[w]} /\ catalog.jobs = jobs /\ catalog.exports = exports
        /\ catalog.refs = refs /\ catalog.receipts = NoRecords
        /\ catalog.jobSeq = jobHigh /\ catalog.exportSeq = exportHigh
    <3>1. NoCatalog \in Catalogs /\ NoCatalog.receipts = NoRecords
      BY EmptyCatalog DEF NoCatalog
    <3>2. catalog = [NoCatalog EXCEPT
                !.present = TRUE, !.projects = {migProject[w]}, !.settings = TRUE,
                !.jobs = jobs, !.exports = exports,
                !.refs = refs, !.jobSeq = jobHigh,
                !.exportSeq = exportHigh]
      BY <1>4 DEF jobs, exports, refs
    <3> HIDE DEF NoCatalog
    <3>3. jobHigh \in Nat /\ exportHigh \in Nat
      OBVIOUS
    <3>4. jobs \in SUBSET Row /\ exports \in SUBSET Row /\ {migProject[w]} \in SUBSET MigProject
      BY <2>1, <2>4
    <3> QED BY <2>2, <3>1, <3>2, <3>3, <3>4 DEF Catalogs
  <2>6. /\ provenance \in Records /\ DOMAIN provenance = {w} /\ provenance[w] = NoOffsets
        /\ DOMAIN catalog.receipts = {}
    BY <1>4, <2>4, <2>5, JustOfRecords DEF NoOffsets, OffsetPairs, NoRecords
  <2>7. TypesOfCatalog
    BY <1>2, <2>5, <2>6 DEF TypesOfCatalog
  <2>8. TypesOfDocuments
    BY <1>2, <1>4, <2>4 DEF TypesOfDocuments, Just
  <2>9. RecordsInv
    BY <2>6 DEF RecordsInv, Recorded
  <2>10. RowsInv
    <3>1. Recorded = {w} /\ Offsets(w) = NoOffsets
      BY <2>6 DEF Recorded, Offsets
    <3>2. \A j \in jobs : j.id <= jobHigh /\ j.id = j.old + 0
      BY <1>4, <2>1
    <3>3. \A e \in exports : e.id <= exportHigh /\ e.id = e.old + 0
      BY <1>4, <2>1
    <3> QED BY <2>1, <2>5, <2>6, <3>1, <3>2, <3>3 DEF RowsInv, JobPlaced, ExportPlaced, NoOffsets
  <2>11. KeysInv
    BY <2>1, <2>2, <2>3, <2>5 DEF KeysInv
  <2>12. DeletedInv
    BY DEF DeletedInv, MigInit
  <2>13. RefsInv
    <3>1. \A j \in jobs : catalog.refs[j.id] = j.id /\ j.old = j.id /\ j.from = w
      BY <2>1, <2>2, <2>5
    <3>2. \A j \in catalog.jobs : Sure(j) => catalog.refs[j.id] <= catalog.exportSeq
      BY <1>4, <2>5, <3>1 DEF Sure
    <3>3. JobsKeepTheirExport
      BY <2>1, <2>5 DEF JobsKeepTheirExport
    <3> QED BY <3>2, <3>3 DEF RefsInv
  <2>14. AdoptedInv /\ OpenInv
    BY <2>6 DEF AdoptedInv, OpenInv, MigInit
  <2> QED BY <1>1, <2>7, <2>8, <2>9, <2>10, <2>11, <2>12, <2>13, <2>14 DEF MigInv
<1> QED BY <1>3, <1>4 DEF MigInit

LEMMA MigrationGoesOn ==
    ASSUME MigInv, [MigNext]_migVars
    PROVE  MigInv' /\ [NumbersStayReserved]_migVars
<1> USE DEF MigInv
<1>1. CatalogStep
  BY CatalogSteps DEF KeysInv, ProgressInv
<1>2. TypesOfCatalog' /\ TypesOfStarts'
  BY <1>1, TypesOfCatalogKept, TypesOfStartsKept
<1>3. TypesOfDocuments'
  BY TypesOfDocumentsKept DEF TypesOfCatalog, Catalogs
<1>4. RecordsInv' /\ RecordsLast
  BY <1>1, StepsKeepRecords
<1>5. RowsInv' /\ KeysInv' /\ DeletedInv' /\ RefsInv'
  BY <1>1, <1>4, RowsKept, KeysKept, DeletedKept, RefsKept
<1>6. LockInv' /\ MarkInv' /\ ProgressInv'
  BY <1>1, LockKept, MarkKept, ProgressKept
<1>7. AdoptedInv' /\ OpenInv'
  BY <1>1, AdoptedKept, OpenKept
<1>8. NumbersStayReserved
  BY <1>1, StepsKeepReservations
<1> QED BY <1>2, <1>3, <1>4, <1>5, <1>6, <1>7, <1>8

LEMMA MigrationAlways == MigSpec => []MigInv
<1>1. MigInit => MigInv
  BY MigrationStarts
<1>2. MigInv /\ [MigNext]_migVars => MigInv'
  BY MigrationGoesOn
<1> QED BY <1>1, <1>2, PTL DEF MigSpec

\* The state of the catalog, of the documents and of the starting applications (types,
\* and the primary keys of the two tables).
THEOREM MigrationTyped == MigSpec => []MigTypeOK
<1>1. MigInv => MigTypeOK
  <2> SUFFICES ASSUME MigInv PROVE MigTypeOK
    OBVIOUS
  <2>1. DOMAIN catalog.receipts \subseteq Old /\ DOMAIN provenance \subseteq Old
    BY RecordsAre DEF MigInv, TypesOfCatalog, Catalogs
  <2>2. \A rows \in {catalog.jobs, catalog.exports} : \A r, s \in rows : r.id = s.id => r = s
    BY DEF MigInv, KeysInv
  <2> QED BY <2>1, <2>2
          DEF MigTypeOK, MigInv, TypesOfCatalog, Catalogs, TypesOfStarts, TypesOfDocuments, KeysInv
<1> QED BY <1>1, MigrationAlways, PTL

\* No crash, retry or loss brings back what was deleted, mixes up the numbers of two
\* imports, gives a job another project's export, or opens a workspace before its
\* import is settled (adopt, migrate, Materializer.database).
THEOREM ImportsStaySound == MigSpec => []ImportsAreSound
<1>1. MigInv => ImportsAreSound
  <2> SUFFICES ASSUME MigInv PROVE ImportsAreSound
    OBVIOUS
  <2>1. App \notin Old
    BY MigrationAssumption
  <2>2. NothingIsResurrected
    BY DEF MigInv, DeletedInv, NothingIsResurrected, Origins
  <2>3. ReceiptsLocateTheRows
    <3>1. ASSUME NEW w \in DOMAIN catalog.receipts
          PROVE  w # App /\ w \in Recorded /\ Offsets(w) = catalog.receipts[w]
      BY <2>1, RecordsAre DEF MigInv, TypesOfCatalog, Catalogs, Recorded, Offsets
    <3> QED BY <3>1 DEF MigInv, RowsInv, JobPlaced, ExportPlaced, ReceiptsLocateTheRows
  <2>4. JobsKeepTheirExport
    BY DEF MigInv, RefsInv
  <2>5. OpenIsAdopted
    BY DEF MigInv, OpenInv, Taken, RecordsInv, OpenIsAdopted
  <2>6. SettledImportsAreRecorded
    <3>1. NoWorkspace \notin DOMAIN catalog.receipts
      BY MigrationAssumption, RecordsAre DEF MigInv, TypesOfCatalog, Catalogs
    <3> QED BY <3>1 DEF MigInv, AdoptedInv, Taken, RecordsInv, SettledImportsAreRecorded
  <2> QED BY <2>2, <2>3, <2>4, <2>5, <2>6 DEF ImportsAreSound
<1> QED BY <1>1, MigrationAlways, PTL

\* A number an import has reserved is given to nothing else (Materializer.database,
\* _reserve_ids).
THEOREM ReservationsHold == MigSpec => ReservedNumbersAreTheSources
<1>1. MigInv /\ [MigNext]_migVars => [NumbersStayReserved]_migVars
  BY MigrationGoesOn
<1>2. MigSpec => [][NumbersStayReserved]_migVars
  BY <1>1, MigrationAlways, PTL DEF MigSpec
<1> QED BY <1>2 DEF ReservedNumbersAreTheSources, NumbersStayReserved

=============================================================================
