# Wenyi in TLA+

Wenyi translates books with language models. A Python core does the domain work
(prepare, translate, review), a backend package runs it as jobs, and two
platforms host the backend: **Desktop** (a native host with one engine process,
SQLite catalog, asyncio tasks and threads) and **Web** (API processes, PostgreSQL,
a Redis queue and worker processes). This directory models the parts in which
ownership, order and failure decide what survives: who may work on a project, how
the work is billed, what a resumed translation or review goes on with, what a
publication may overwrite, and what the Desktop application may replace or remove.

Contents: 1 inventory, 2 modules and code, 3 runs, 4 fairness, 5 proofs,
6 disagreements and observations, 7 what the models leave out, 8 plan.

## 1. Inventory

| component | state | operations | hard behaviour | what makes it correct |
|---|---|---|---|---|
| Workflow execution: `wenyi_backend/execution/runner.py`, `job_service.py`, `project_service.py` | project and job rows, the project's run lock, a stop signal | `start_job`, `execute`, `record_terminal_status`, `run`, pause | lock waiters, publication after the lock, cancellation that drains a thread, unshielded second recording | one writer per project, only the latest run works, an ended run never restarts, rows agree |
| Desktop runtime: `local_runtime.py` | accepting flag, `_submitted`, supervisors, inner tasks, the workspace lock | `enqueue`, `_run_job`, `_interrupt`, `recover`, `start`, `stop` | timeout against completion, shutdown against late supervisors, crash between transactions | every run ends, the workspace lock outlives every writer, no busy project without a run |
| Desktop catalog: `local_backend.py`, `catalog_recovery.py`, `paths.py`, `source_upload.py` | SQLite rows of projects, jobs, exports; project directories | create, upload, import, remove, repair | several requests for one project, a crash between file and row, a drive that goes away, a lost catalog | originals survive, a row has its source, what was removed stays removed |
| Desktop storage migration: `migration/` | shared catalog, receipts, provenance, sentinel | adopt at the start of an application, merge, backfill | death between database and documents, several applications | nothing is resurrected, numbers are not reused, no application opens before its import |
| Desktop host: `apps/desktop/src` (`updates.rs`, `instance.rs`, `profile.rs`, `native_export.rs`, `native_drop.rs`) | the engine process, saves, leases of workspace and profile, the phase of an update | start, monitor, quit, install, launch, save, drop | threads of the host, other instances, other programs in the same folder | an update finds nobody at work, a save replaces what was confirmed |
| Web platform: `wenyi_api/` | PostgreSQL rows, session locks, Redis queue | `admit_job` and `fail_admission` in separate transactions, delivery, `recover_jobs` | at-least-once delivery, lost queue, worker and API deaths, two recovery loops | as for the execution; live work is never declared lost |
| Usage accounting: `runtime_usage.py`, `llm/usage.py`, `storage/run_store.py`, `storage/sqlite.py`, `storage_pg.py` | recorded calls and checkpoint in memory; ledgers and journal in the store | record, flush (prepare, commit, publish), recover | several coordinators, crash between journal and checkpoint, a rolled-back publication, a lost COMMIT reply | every call is billed exactly once; a Review never exceeds its book |
| Exports: `exporting.py`, `routers/export.py`, `export_retention.py` | export rows, files, export locks, leases | create, render, publish, open, sweep, recover, remove the project | cleanup against reuse, crash around a rename, cancelled consumers | rows, jobs and files tell one story; a listed export has its file |
| File run storage: `storage/run_store.py`, `storage/precision_archive.py` | manifest, marker, chapters, contexts, journal, glossary versions | initialize, stage, publish, capture | death between two files, sources of one title in one directory | a prepared book is all of its source; every glossary version reads as captured |
| SQLite run storage: `storage/sqlite.py` | connections per thread, writer mutex, reader count | transactions, reads, `close`, `close_all` | close against use, a transaction that waits | no use after close, none left open |
| Translation: `pipeline/translate`, `pipeline/prepare` | chapters, receipts, drafts, publications | batches, drafts and synthesis, extraction, resume | interruption between receipt and text, other settings on resumption | resumed work loses, repeats and overwrites nothing |
| Review and autofix: `pipeline/review`, `pipeline/autofix` | review directories, rounds, caches, index of a publication | session, scan, fix, decide, plan, publish, resume | interruption between checkpoint and result, edits between invocations | verdicts are supported; a correction replaces the text it was made for |
| Provider requests: `llm/limits.py`, `retrying.py`, `router.py` | permits, minute window, budget, routes | acquire, call, retry, fail over, stop | retries against budget and quota, stop during a wait | permits are neither lost nor invented, budgets hold |
| Storage locks: `storage/locks.py`, `native/wenyi-locks` | lock files, per-process tables | acquire, release, reentry | threads and processes on the same file | exclusion across both |
| Live statistics, CLI, user interfaces, documents, glossary and agents | see `PROJECT.json` | | | |

Components call one another directly, except at these places. The runtime and the
runner share the catalog and the run lock; the runner's thread is reached by its
supervisor only through a stop signal. Web's API and workers meet only in
PostgreSQL and Redis. The model clients and the coordinators of one invocation
meet only in the store, under `state_lock`. One invocation after another meets
what the last one left on disk. The native host meets its engine over HTTP and in
leases of the operating system.

All rows but the last two are modelled, wholly or in part; `PROJECT.json` gives
the status of each component and the hazards with the line at which each bites.

## 2. Modules and code

```
RunOwnership  <-implements-  WorkflowRunner  <-extends-  DesktopRuntime, WebWorkers
UsageBook     <-implements-  UsageLedger

ProjectStorage  =  UsageLedger + GlossaryArchive + RunInitialization + ProjectLibrary + ReviewAutofix
MCServices      =  Exports + CatalogMigration + ProviderRequests + TranslationBatches
                 + ReviewSessions + SqliteConnections + DesktopUpdates + NativeFiles + InstanceAdmission
```

**RunOwnership** is the promise of the workflow machinery, whatever the platform:
a run is `absent`, `waiting`, `working` or `closed`; it starts at most once, only
as the latest run of its project and only while no run of that project works; no
run is admitted during work. The mapping (`RunState` in `WorkflowRunner`) reads it
off the threads and rows: a run works while a thread of its project is inside the
operation (`Works`), waits while its row is active, and is closed afterwards.

**WorkflowRunner** is what both platforms share: the rows (`projectStatus`,
`admitted`, `jobStatus`), the run lock of each project (`runLock`, which names
its holder), the request inside `project_write` (`api[p]`), one synchronous
execution per slot (`thread[w]`) and the process that declares runs dead
(`interrupt[i]`). A run is `<<project, n>>`, the project's n-th workflow job.

| code | actions |
|---|---|
| `project_write` | `ApiEnter`, `ApiLeave`, `ApiReturn` |
| `request_pause` | `RequestPause` |
| `tasks.py`, first lines of `runner.run` and `execute` | `Deliver`, `Begin`, `StartupSucceeds`, `StartupFails` |
| `with storage.lock()` in `execute`, identity and status checks, `set_job_status("running")` | `Claim`, `ClaimRefused`, `MarkRunning` |
| the operation with its watcher of `is_paused` | `MonitorPause`, `Finish`, `Halt` |
| publication after the lock | `PublishProject`, `PublishJob` |
| `record_terminal_status`, and its second call in `run` | `TerminalRead`, `TerminalLock`, `TerminalProject`, `TerminalJob`, `Unwind` |
| an exception at each of these calls | `ExecuteFaults`, `RecordFaults`, `RecordTryFaults`, `StartupFails` |
| asyncio cancellation | `Cancelled` |
| `_interrupt` and `recover_jobs`, common part | `InterruptRead`, `InterruptLock`, `InterruptBusy`, `InterruptProject`, `InterruptFaults` |
| the death of processes | `Die` |

Every step between two reads or writes of shared state is an action of its own,
so every interleaving of threads, requests and recoveries at those points is
explored. What an execution writes under the lock is not modelled beyond its
end: it finishes, pauses, runs out of budget or fails.

**DesktopRuntime** adds the engine process: `phase`, the supervisor of each slot
(`sup`), the recovery pass (`pass`). Admission is one SQLite transaction
(`AdmitJob`), `enqueue` registers the run and creates the supervisor in one
synchronous block (`Enqueue`); `_run_job` is `Supervise`, `Timeout`,
`SupervisorEnds`, `SupervisorInterrupts`, `InterruptReturns`; `_interrupt` is
`InterruptStep`, with its job and project transactions apart; `recover` is
`RecoverPass` and `RecoverJob`; the process is `Launch`, `Open`, `BeginStop`,
`ReleaseWorkspace`, `Exit`, `Crash`.

**WebWorkers** adds the Redis queue (`redis`) and processes that die one by one.
Admission and its rollback are two transactions each (`CreateJob`, `MarkBusy`,
`UndoJob`, `UndoProject`), `EnqueueFails` may leave the run in Redis all the same,
`Take`, `Redeliver`, `Forget` and `LoseQueue` are the queue's behaviour (an
external service, modelled from its use), `CancelTask` a worker's timeout or
SIGTERM, and `Inspect`, `Confirm`, `Overwrite` the recovery loop.

**UsageBook** is the promise of usage accounting: a set of calls is billed at
once, to the book and to at most one Review, and never again.

**UsageLedger** is how the code keeps it. A ledger gives for each call how often
it was billed: `llm/usage.py` merges and subtracts sums slot by slot, so a call
is one unit in each of its slots and a double or lost charge shows as a count
other than one. `working` is the store as the holder of the state lock sees it,
`durable` what a crash or rollback leaves; over files both move together, in a
database `durable` moves at COMMIT. The state lock and the coordinator's lock are
held by the thread whose program counter is between acquisition and release.

| code | actions |
|---|---|
| `UsageTracker.record` | `Record` |
| `recover_usage` when the run opens, under the run lock | `OpenRun`, then the steps below with phase `open` |
| `flush`: `self._lock`, `state_lock()` | `BeginFlush`, `TakeStateLock` |
| `recover_usage`: check every entry, write the book, then the Review, unlink | `CheckJournal`, `WriteLedger`, `UnlinkJournal`, `NoPendingJournal` |
| increment, early return, `prepare_usage_commit` | `NothingToBill`, `Prepare` |
| leaving the first `with`, `self._checkpoint = current` | `CommitJournal`, `AdvanceCheckpoint` |
| second transaction with `log_event` | the recovery steps with phase `publish`, `FinishFlush` |
| failures, lost replies, the end of a process | `StorageFails`, `CommitReplyLost`, `EndRun` |

The tests race several coordinators over one store
(`packages/core/tests/test_runtime_usage.py`), and so does the model; an
invocation holds the run lock, so one is open at a time.

The other components, each a module:

| module | code | state | actions |
|---|---|---|---|
| **Exports** | `exporting.py`, the export half of `local_runtime.py`, `export_retention.py`, `remove_project`, Web's `routers/export.py` and workers | row, job and file of each export; its lock, task, owner (request, queue, consumer, worker); leases; the removal of the project | `AdmitExport`, `EnqueueExport`, `FailExportAdmission`, `UndoExport`; `ConsumeExport`, `LockExport`, `RecordExport`, `RenderExport`, `PublishDesktop`, `PublishWeb`, `ExportTaskFails`, `CancelExport`; `ConsumerInterrupts`, `RecoverExport`, `InterruptExportStep`; `SweepFile`, `SweepRow`, `SweepEnds`; `OpenExport`, `CloseExport`; `BeginRemoval`, `RetryRemoval`, `RemoveFile`, `RemoveDirectory`, `RemoveProjectRow`; stops, launches and deaths |
| **CatalogMigration** | `migration/` of the Desktop backend | shared catalog with its receipts, settings and index documents, provenance, the sentinel; where each application stands | `StartApp`, `Adopt`, `LockMigration`, `Recheck`, `WriteSentinel`, `ImportDatabase`, `WriteSettings`, `WriteIndex`, `WriteProvenance`, `FinishMigration`, `MigrationFails`; what an open application does to the catalog (`AppAdmits`, `AppRemoves`, `AppExpires`) and lost files (`LoseFile`) |
| **ProviderRequests** | `llm/limits.py`, `retrying.py`, `router.py` | permits, starts of the last minute, budgets, each call's attempt | `BeginCall`, `BeginRoute`, `CheckStop`, `TakePermit`, `Reply`, `EndBackoff`, `StopRequests`, `Tick` |
| **TranslationBatches** | `pipeline/translate` with its checkpoints | texts and status of chapters, receipts, drafts, publications, glossary; the invocation | `StartBook`, `OpenChapter`, `SkipBatch`, `PlanBatch`, `TranslateBatch`, `SaveBatch`, the drafts and synthesis (`PrecisionStep`, `DraftFails`), `AlignBatch`, `ExtractTerms`, `LogExtraction`, `ExtractChapter`, `CloseChapter`, `EndBook`, `InvocationFails`, `EditSegment` |
| **ReviewSessions** | `pipeline/review` | review directories with checkpoint, caches and result; the invocation | `SkipReview`, `ResumeReview`, `CreateReview`, `StartReview`, `ScanBlock`, `FinishScan`, `Decide`, `ProposePatch`, `FailPatch`, `FinishFix`, `ReachLimit`, `WriteCompleted`, `ReturnReview`, `FailReview`, `DieReviewing`, `ChangeEdition` |
| **ReviewAutofix** | `pipeline/autofix`, `edit_segment` | formal texts and alignments, review directories with the index of their publication, the invocation | `ResumeIndex`, `ResumeSummary`, `OpenSession`, `CompleteReview`, `FixPassage`, `SavePlan`, `ApplyChapter`, `AlignPassage`, `WriteRows`, `CloseIndex`, `FinishSummary`, `StopAutofix`, `EditPassage` |
| **GlossaryArchive** | `storage/precision_archive.py` | versions as full or delta records, the head | `StoreVersion`, `MoveHead`, `DieCapturing` |
| **RunInitialization** | `run_store.py` initialization under `pipeline/prepare/preparation.py` | what the directory holds and of which source, the marker, the preparation | `StartPreparation`, `ParseBook`, `BeginInitialization`, `DiscardRemains`, `MarkSource`, the stages, `SaveAnalysis`, `CommitManifest`, `FinishInitialization`, `JournalCalls`, `PublishCalls`, `PreparationFails`, `DiePreparing` |
| **SqliteConnections** | `storage/sqlite.py` | open and cached connections, mutex, reader count, closing flag, each thread's operation | `BeginRead`, `BeginTransaction`, `BeginClose`, `OpenConnection`, `RegisterConnection`, `CacheConnection`, `QueryEnds`, `EndRead`, `EnterTransaction`, `WriteState`, `NestedRead`, `EndTransaction`, `LeaveMutex`, `BeginDrain`, `CloseConnections` |
| **ProjectLibrary** | `local_backend.py`, `catalog_recovery.py`, `paths.py`, `source_upload.py` | what each root holds of a project, the catalog's row, the requests under way | creation, upload, import and removal step by step, `Parse`, `CrashEngine`, `MoveDrive`, `LoseCatalog`, `RepairCatalog` |
| **DesktopUpdates** | `apps/desktop/src`: `updates.rs`, the host's start, monitor and quit; `updates.py` of the engine | the engine processes, the child, gates and closing flags, saves, update phase, installation, quit | checks and downloads, `StartEngine`, `EngineRegisters`, `Monitor`, `ReserveSave`, `RequestQuit` and `QuitStep`, `BeginInstall` and `InstallStep`, the BabelDOC plugin's hold on the gate (`PluginOpensGate`) |
| **NativeFiles** | `native_export.rs`, `native_drop.rs`, `publish.rs` | names and files of a folder, each save, grants, the upload | `SaveStep` from `PlanSave` to `PublishSave`, `UploadStep`, `DropFile`, `TakeGrant`, `ReleaseGrant`, `CloseNative`, and what other programs do |
| **InstanceAdmission** | `instance.rs`, `profile.rs`, `migration/ownership.py` | locks and leases of workspace and profile, discovery records, hosts, engines, what became of each launch, an upgrade | `Launch`, `EnterWorkspace`, `Bind`, `Forward`, `EnterProfile`, `StartHostEngine`, `Ready`, `WakeRunning`, `TakeLease`, `TakeExclusive`, `FindQuiet`, `EndUpgrade`, quits and crashes |

`MCServices` and `ProjectStorage` (whose finite instance is `MCStorage`) compose
components that share no state with each other, at the granularity they are
modelled at: a behaviour is of the component that `component` names in its initial
state, the others keep theirs. Such a run explores the sum of the state spaces, and nothing is claimed about the
components at work together. The one place where two of them meet in the code,
the usage of an invocation and its run lock, is inside `UsageLedger`.

The operators whose comment begins with *Mutant* are plausible errors in one
definition each (a dropped lock, a missing check, a swapped order). No
specification uses them: they show that each property can fail.

## 3. Runs

| run | instance | distinct states | what it shows |
|---|---|---|---|
| `desktop_safety` | 1 project, 2 runs, 2 slots, 1 fault, 1 stop, 1 crash | 1.45 M | lock, rows and execution agree through timeout, pause, shutdown, failure and crash; an ended run stays ended |
| `desktop_liveness` | 1 project, 3 runs, 1 slot, 1 stop | 56 K | every run ends, no project stays busy, a shutdown completes; the runtime implements `RunOwnership` |
| `desktop_crash` (violation) | 1 run, 1 crash | | disagreement 1 |
| `desktop_workspace_lock` (violation) | 1 run, 1 stop | | disagreement 2 |
| `web_safety` | 1 project, 2 runs, 2 workers, 1 fault | 2.0 M | one writer, for the latest run, never declared lost, through redelivery, a lost queue and failing calls |
| `web_liveness` | 1 run, 2 workers, 2 faults, one of which may be a death | 206 K | every admitted run reaches an end; the Web platform implements `RunOwnership` |
| `web_recovery_race` (violation) | 1 run, 2 workers | | disagreement 3 |
| `usage_sql` | 2 coordinators, 1 Review, 3 calls, 1 fault or lost reply, 1 death | 465 K | checkpoints are durable, totals never shrink, a flush that returns has published |
| `storage` | usage over files (2 coordinators with 3 threads, 2 calls, 1 fault, 1 death), archive (2 glossaries, 5 captures), initialization (2 sources, 3 failures), library (1 project, 2 threads, 1 fault, 1 crash), autofix (2 passages, 2 reviews, 1 edit, 1 failure) | 1.3 M | what is kept on disk stays true: see below |
| `usage_lost_reply` (violation) | 2 calls, 1 lost reply | | disagreement 4 |
| `services` | one instance of each of the nine components of `MCServices`, with failures, crashes and concurrent users | 1.3 M | the safety of each: see below |
| `services_progress` | seven of them, with smaller bounds and fairness | 62 K | starts succeed in the end, and what has been begun ends |

A run of several components checks, for each, the properties of that component;
`CASE` on `component` chooses them. The properties that are put together:

| property | parts |
|---|---|
| `CatalogIsSound` | `ExportsAreConsistent` (job, row, file and bounded history of exports), `ImportsAreSound` (nothing removed comes back, receipts locate the rows, a job keeps its export, no application opens before its import, imports are recorded) |
| `TranslationIsSound` | `LimitsHold` (permits, rate, token budget, stop), `ResumptionIsExact` (no batch is paid twice, plans are reproducible, the context and a finished book are complete) |
| `ReviewsAreSound` | `ReviewsGoOn`, `VerdictsAreSupported` |
| `HostIsSafe` | `UpdatesAreSafe`, `UpgradesAreAlone`, `LaunchesReachTheOwner`, `PublishedFilesAreComplete`, `UploadsAreWhole` |
| `StorageIsSound` | `ArchiveIsSound`, `SourcesStayApart`, `LibraryIsSound`, `IndexTellsTheTruth` |
| `EverythingSettles` | `BusyEnds`, `RunsEnd`, `StopCompletes` |
| `WorkEnds` | `ExportsEnd`, `CallsEnd`, `InvocationsEnd`, `ReviewsEnd`, `OperationsEnd`, `UpdatesEnd` |

Why the bounds are enough to reach the interesting cases:

- *One project.* Run locks, rows and recovery are per project, and nothing but
  the slots is shared between projects. The theorems hold for any number.
- *Two runs* are a superseded run and its successor: late recordings,
  redeliveries and publications of the first meet the second. `MaxRuns` bounds
  admissions; `desktop_liveness` has three.
- *Two slots or workers*: a slot stands for a task the engine creates, and it
  creates as many as there are runs. They race for one lock with the request and
  the recovery pass or loops.
- *One fault, one stop, one crash* each may come at every program point; the
  first fault already reaches every recording path, the second recording
  included. What two faults do is said in section 7.
- *Three calls* can be split over two coordinators and two successive flushes of
  one, so that a retry, a foreign journal and an unflushed call meet. One death
  gives two invocations: what the first left is recovered by the second.
- *Two of everything else* (exports, old workspaces with two jobs each, drafts, paragraphs, reviews,
  hosts of one workspace, saves): one that is interrupted and one that meets what
  is left. A third thread of the SQLite storage is the one that closes it, a third
  host is of another workspace, and `EXPORT_LIMIT = 1` makes every second
  publication an expiry. `MaxOperations`, `MaxRequests`, `MaxCaptures`,
  `MaxEngines` and `MaxReleases` are large enough for a second round of each
  protocol, the `Max...Failures`, `Max...Faults`, `Max...Edits` and
  `Max...Crashes` for one accident at any point of it.

Symmetry is used over slots, workers, calls and threads and, in `services`, for
the exchange of all twins at once, in runs without liveness properties; no action
or safety property names a single one of them. Deadlock is checked except in
`storage`, `services` and `services_progress`, whose components may really come
to rest: an application that is closed, a directory nobody prepares again.

## 4. Fairness

*Desktop.* Weak fairness of the request's further steps, of each supervisor, of
the interruption, of the recovery pass and of start and exit of the process: they
are coroutines of a loop that runs, and none waits for a condition that comes and
goes. Strong fairness of the steps of a thread: a thread that waits for the run
lock polls it (`storage/locks.py`), or queues for it in PostgreSQL, so it gets the
lock if it is free again and again; and an operation ends, since every model call
has a timeout (`llm/configuration.py:21`) and a finite number of retries. Nothing
is fair about requests, pauses, timeouts, faults, stops and crashes.

`RunsEnd` and `BusyEnds` are stated under `RequestsCease`: `_interrupt` and
`recover_jobs` give up when the lock is taken at that moment, so a client that
calls `project_write` at exactly every such moment could starve them for ever.

*Web.* The same for the API and the recovery loop; taking a run from the queue is
weakly fair for each worker, and each loop gets again and again to every row it
could list (strong fairness of `Inspect`).

*Usage* has no liveness property and no fairness: whether a flush is retried is up
to its callers.

*Services.* Requests, consumers, render threads and recovery loops of exports run
(weak fairness), a lock that is polled is taken in the end (strong fairness of
`LockExport` and of publication). An application that was refused is started
again. Each call's thread runs and time passes. An invocation of the translation
or the review goes on. Strong fairness of each thread of the SQLite storage: the
mutex is handed over by the operating system. The host's threads for starting,
quitting and installing run, and its engine registers and answers. Nothing is
fair about users, other instances, failures and deaths. `SvcFairness` states each
for the behaviours of its component.

## 5. Proofs

`tlapm` checks every theorem, for every value of the constants that satisfies the
named assumption of its module: bounds are naturals, identities differ, each thread
has a client, the functions among the constants have their domains. Four say more.
`ArchiveAssumption`: a glossary names no term twice. `MigrationAssumption`: old jobs
refer to numbers their source has given out, since `remapped` refuses others.
`RequestAssumption`: a request uses at most what was reserved for it.
`LibraryAssumption`: the word for "no project" is no project. `PROJECT.json` lists
the theorems with what each says. All safety and action properties of the passing
runs are stated by a theorem, of the component and, in `services` and `storage`, of
the composition; two of them need a hypothesis (`~LostReplies`, `NothingFailed`),
which the run has in its constants.

*Workflow* (`WorkflowRunnerProofs`, `DesktopRuntimeProofs`, `WebWorkersProofs`).

1. `TypeCorrect`. Beside the types it says that a busy process is busy with a
   run, without which "the project of its run" has no meaning.
2. `LocksCorrect`: `LockMatchesHolder /\ OnlyLatestRunWorks` is inductive over
   the types. One lemma per kind of lock step (`ThreadMoves`, `ThreadAcquires`,
   `ThreadReleases` and their counterparts for requests and interruptions) serves
   both platforms; `AdmissionFindsNoWork` says that an admission, which holds the
   lock, meets no thread in the locked region, so the run that works stays the
   latest. This is where `OnlyLatestRunWorks` needs `LockMatchesHolder`: alone it
   is not inductive. `WorkIsExclusive` and, on Web, `WorkSurvivesRecovery` and
   `LatestWorks` follow, since two holders of one lock are the same process.
3. *Desktop's rows.* `OwnInv` relates the supervisor of a slot, its thread and the
   phase of the process (`SlotsMatch`, `PhasesMatch`, `Known`); `ReleaseIsClean` is
   a consequence. `RowsInv` adds what the job and project rows say at each place an
   execution, an interruption or an admission can stand (`JobsMatch`, `MarksMatch`,
   `ProjectsMatch`): a run that works is `running` in its row because every writer
   of the row holds the run lock or has seen the row active under it. `RowsAreTrue`
   and the action property `EndsAreKept` follow.
4. *No project is left busy.* `QuietUntilFailure`: until a call fails or the
   process dies, `QuietProjectsAreSettled` holds. A busy project's latest job is
   active, or an interruption has marked it and has still to free the project
   (`BusyIsActive`); an execution writes the project before its job (`EndsAgree`),
   so where it writes the job the project is no longer busy for it; an admission
   that is undone gives back a status at which the project is free
   (`AdmissionsAgree`); recovery is over before the workspace is released
   (`RecoveryEnds`). The hypothesis is where the property ends: disagreement 1, and
   two faults in one recording (section 7).
5. *Refinement.* `RunsAreOwnedOnce` on both platforms: `RunState` reads off the
   rows and threads what `RunOwnership` knows of a run; each step of the platform
   is an admission, a start, an end, a withdrawal or a stutter. `RowsInv` on
   Desktop, and on Web its counterpart (`RowsInOrder`, `WorkShows`, `RowsKnown`),
   exclude the rest: a start of a run that has already ended, an admission during
   work, a second start of a run that is delivered twice.

*What is kept for a project* (`RunStorageProofs`).

1. *Usage.* `TypeCorrect`, then `LocksCorrect`: at most one thread is inside the
   state lock, at most one inside each coordinator.
2. `LedgerCorrect`: `LedgerInv` strengthens the properties by `WellFormed` (of the
   store on disk and of the one in the transaction), `ClientsInv` (a call belongs
   to one client, and no checkpoint covers what was not recorded) and `Stage`,
   what a flush has established where it stands: while it writes, the ledgers it
   has written equal the journal; between journal and checkpoint, the increment is
   in the effective totals. "Effective" totals are those on disk with a pending
   journal applied (`Effective`); recovery leaves them unchanged
   (`PublishKeepsAccounts`, `UnlinkKeepsAccounts`), which is why it may be
   repeated. `CheckpointsAreDurable`, `JournalsApply`, `ReviewsWithinBook`,
   `TotalsOnlyGrow` and `FlushesPublish` follow.
3. `OnceCorrect`: what no checkpoint and no journal in flight covers is in no
   ledger, so that the next increment is billed for the first time. It assumes
   `~LostReplies`; the assumption is needed, as disagreement 4 shows. `BillsOnce`
   follows, and `ImplementsBook`: `CommitJournal` (in a database) or `Prepare`
   (over files) are the only steps that do not stutter.
4. *Initialization.* `BooksStayApart` and `BillsStay`: at most one preparation owns
   the directory (`OneOwner`), and what is there at each stage is of the source the
   marker names and has been cleared of anything else (`StageReached`).
5. *Corrections.* `ReviewedTextIsReplaced` and `IndexIsTrue`: the invariant is
   about every review on disk. Of each row of its index, `RowIsTrue` says that
   `before` is the text the review has read, that a passage whose row has failed was
   changed by somebody else, and that an untouched row still stands before the text
   of the review or already before the target; `Settled` says what remains of that
   once the index is closed, when edits are allowed again. `InvocationIsTrue` relates
   the rows in memory to those on disk: an invocation that is interrupted between
   the chapter and the index finds on resumption that the text is already the
   target. `ApplyStep` proves both invariant and action property for the one step
   that replaces text.
6. *Glossary versions.* `VersionsAreBuilt`: every version is complete, or a change
   of a version that is there, one edge nearer, and applying it to its parent gives
   its own terms. That the change a capture records gives back the captured terms
   (`ChangesApply`) is a fact about sequences without repetition. What a version
   reads as is a recursive function over the chain of its parents; instead of an
   induction, `BuiltVersionsReplay` takes among the versions that read wrongly one of
   least depth (`LeastDepth`): its parent reads rightly, hence so does it.
7. *The library.* `LibraryInv` is said of each project by itself (`SafeFor`), and
   steps for other projects and requests leave it alone (`UntouchedIsSafe`). For a
   project that was not imported beside another request (`raced`): a request that
   creates or imports it is alone with it until its row is there; while its copy
   stands in the staging directory there is an original on the drive or outside
   (`StagedFrom`); a project listed on a drive has no copy in the library that
   repair could find instead (`RootIsAlone`); the source of the row is at home, or
   in a staged copy that is about to move (`SourceIsKept`); only one upload is under
   way; and the sentinel of an accepted removal stays where a repair would find the
   project (`SentinelStays`). `LibraryIsSound` follows, `RestoredIsThere` being what
   a repair of a lost catalog can conclude from the folders.
8. *Composition.* A step of `ProjectStorage` is a step of one component and leaves
   the others alone (`OwnPartMoves`), so a behaviour is one of each
   (`EveryPartKeepsItsSpecification`) and the theorems hold of it: `StorageTyped`,
   `StorageSound`, `PartsLoseNothing`, `PartsBillOnce`.

*Exports and imports* (`CatalogProofs`).

1. `PublicationsStay`: a file goes only while nobody downloads, but by a retried
   removal. `ExportLocksInv` says who holds the lock of an export, `ReadersInv` that
   a removal finds no download, `HistoryInv` that what is swept has expired.
2. `ExportsTellOneStory`. `StagesInv` says for each place of a request, task or
   interruption what job and row have come to, as long as nothing has failed, which
   is what the property is about. That an export which is done has its file is claimed until a
   removal has begun to take files: `rmtree` may stop half way, and no row says so.
   The bound on the history (`BoundedInv`) rests on
   `KeepingTheNewest`: of finitely many exports with different times of completion,
   those among the newest `EXPORT_LIMIT` are at most as many; that a largest number
   exists in a finite set is proved from well-foundedness.
3. `ImportsStaySound` and `ReservationsHold`. The steps fall into classes by what
   they do to the catalog (`CatalogStep`): a merge, an admission, a removal. What is
   on record stays there with its offsets (`RecordsLast`); an imported row is where
   its record says and below the sequence (`RowsInv`); what was deleted came from a
   record or under a number given away (`DeletedInv`), so nothing brings it back;
   references lie below the sequence (`RefsInv`), so no new export takes one over.
   `LockInv`, `MarkInv`, `ProgressInv` and `AdoptedInv` follow one application
   through its start: whose sentinel it is, and what has been written by then.

*Translation* (`TranslationProofs`).

1. `LimitsAlwaysHold`. `PermitsInv`: a permit is held exactly by a request in
   flight; `TokensInv` balances what was reserved, given back and billed; `WindowInv`:
   the window holds the last starts and those before it are a minute old, so the
   rate is that of the window; `StopInv`: after a stop a call starts one request at
   most.
2. `ResumedExactly` and `TextIsKept`. `BookInv` relates the invocation to what is on
   disk: the copy is the chapter but for the batch about to be saved (`CopyInv`),
   batches do not overlap and have text when they are done (`BatchesInv`), terms are
   extracted of texts that are there and of all of them in the end (`TermsInv`,
   `CoverInv`, `StatusInv`), an answer is kept for a plan that was asked for
   (`ReceiptsInv`, `ResultsInv`, `PublicationsInv`), and a plan with the same
   settings at the same place is the same plan (`PlansInv`, `SettingsInv`,
   `OrderInv`, `DeterminedInv`), which is why nothing is paid twice.

*Desktop host, connections and reviews* (`HostProofs`).

1. Saves and uploads: at most one save is being published (`OneSaver`), what it
   has seen of its target is still true of the target (`StillValid`), a closing
   application has none (`ending` implies a free mutex), and the versions an upload
   reads ascend (`UploadInv`). The finite sets of grants and sources are bounded by
   cardinality lemmas (`AddingKeepsBound`).
2. Instances: `UpgradeInv` (an exclusive profile has no leases but the host's own
   and no unconfirmed engine), `LaunchInv` (each promise of a launch is kept
   by the host of its workspace: it showed its window, told its user that it could
   not, will do one of the two when it is up, or is gone).
3. Updates: `UpdatesInv` has a part per resource: the flags are set exactly while
   an installation or a quit owns them, never both (`FlagsInv`); saves are shut
   with nobody inside (`SavesInv`); the engine's gate is closed by an installation
   or left closed in a session that tells its user to quit (`GateInv`); an engine
   that runs is the host's child (`EngineInv`); an exclusive lease excludes other
   instances (`LeaseInv`); the bytes are of the release (`ReleaseInv`).
   `UpdatesSafe` follows. Each part is proved by itself over all actions.
4. Connections: the mutex has one holder (`MutexInv`), the number of readers is the
   cardinality of the set of threads that read (`ReadersInv`), a cached connection
   is the one its thread has opened (`CachesInv`), an open one is registered, being
   registered, or in the hands of its thread (`OwnersInv`, `OpenedInv`). That a
   close which has waited for the readers finds nobody (`DrainedIsQuiet`) is what
   the count is for. `ConnectionsCorrect` follows.
5. Reviews: `RevInv` says of every directory that it is sound by itself
   (`IsSound`: its blocks, checkpoint, rounds and result agree), of the unfinished
   ones that one is of an edition (`SessionInv`), and of the invocation that it is
   where the checkpoint of its directory is, but while it fixes (`InStep`).
   `ReviewsGoOnSoundly` and `ReviewVerdictsSupported` follow; for a clean verdict
   the rounds counted as confirmations are shown to be different ones, of which
   there are as many as the configuration asks for.

*Services* (`ServicesProofs`). A behaviour of `MCServices` is one of each of its nine
components (`EveryComponentKeepsItsSpecification`), so that each property of the run
holds for any constants: `ComponentsTyped`, `CatalogSound`, `TranslationSound`,
`ReviewsSound`, `HostSafe`, `ConnectionsSound`, `StepsLoseNothing`.

*Only model-checked.* All liveness, since fairness and ENABLED are out of the
prover's reach: `EverythingSettles`, `RunsEnd`, `StartsSucceed`, `WorkEnds`. The
theorem about quiet projects needs its hypothesis, and that hypothesis is also the
bound of its run. The four runs that expect a violation show what is false.

## 6. Disagreements and observations

Four runs show what a doc or comment denies:

1. **A crash inside `_interrupt` strands a project** (`desktop_crash`). The job is
   marked interrupted in one transaction and the project freed in the next
   (`local_runtime.py:366`, `:384`). A death between them leaves a busy project
   whose job has ended; `recover` lists active jobs only, and starting, pausing
   and resuming refuse the project, although `docs/desktop.md:106` promises that
   work resumes after reopening.
2. **The workspace lock does not outlive every writer** (`desktop_workspace_lock`).
   `runner.run` awaits the second recording of a failure without a shield
   (`runner.py:219`). A shutdown cancels the await, `stop` returns and releases
   the lock while the thread still writes, against
   `docs/design/multi-task-execution.md:28`.
3. **A finished run can be declared lost on Web** (`web_recovery_race`).
   `execute` publishes after its lock has exited (`runner.py:156`), `recover_jobs`
   takes the free lock as proof that the worker is gone (`recovery.py:53`), and a
   run that has done its work is marked interrupted and its project paused.
4. **A lost COMMIT reply bills twice** (`usage_lost_reply`). The journal is durable
   and the checkpoint has not moved; the flush in the pipeline's `finally` recovers
   the journal and bills the same increment again, against the docstring of
   `flush` (`runtime_usage.py:34`) and `docs/pipeline.md:478`. Only a database
   whose reply can fail separately from its commit is affected: PostgreSQL.

Reading the code for the models also showed the following. Properties are stated
so that they hold beside these, and say where they stop.

- *Runs.* On Web a first delivery that fails before its claim records `error`
  without the lock over the row of the run a second delivery has claimed.
- *Exports.* A failure between the two writes of `_interrupt` leaves an export
  active. `docs/desktop.md:677` says a failed cleanup is retried on restart, but
  nothing calls it at Desktop's start. Web's recovery and `fail_export_admission`
  can overwrite a published export with `error`; its publication unlinks files
  inside the transaction; a cleanup that fails after publication marks the job
  `error` while the export stays `done`. A removal that is tried again looks
  neither at leases nor at locks (`local_backend.py:797`, against its comment and
  `docs/desktop.md:293`). A removal whose `rmtree` stops half way, at a file in use
  or with the process, leaves exports that are done without their files
  (`local_backend.py:864`, `adapters.py:105`): on Desktop the project is marked and
  the removal will be tried again, on Web the project is listed as before.
- *Launches.* A launch that comes while the host starts is told to wait; when the
  host is ready it takes the request off before it restores the window
  (`main.rs:256`), so if that fails the user gets an error and no second attempt.
- *Reviews.* A crash after the checkpoint of the last round and before the result
  repeats the round and counts a cached scan twice (`config.py:64`). A usage flush
  that fails after `write_completed` overwrites a completed result
  (`review_workflow.py:370`, `:401`). After the book went from A to B and back, the
  older review of A is resumed. A review may end clean although an earlier fix
  failed (`session.py:209` against the docstring at `:130`). An interrupted
  publication whose passage went away and came back by hand counts as its own.
- *Updates.* Installing while the BabelDOC plugin holds the gate ends with "Quit
  and reopen": `prepare` is refused and so is the cancellation (`updates.py:75`,
  `updates.rs:467`). A report of the monitor may reach a session that has already
  recovered.
- *Migration and library.* A failed mark of a row after its sentinel leaves the
  sentinel in a live project, and importing a folder with a sentinel keeps it. A
  partial `rmtree` may take the sentinel first, and a drive that is away has none
  written: the project is listed again after a lost catalog. Two concurrent imports
  of one folder can lose the original, against the docstring of `_adopt_directory`
  (the properties exclude it as `raced`), and so can a retried removal while the
  drive moves. `projects.py` unlinks the source on any exception, a commit without
  a reply included. The chosen roots live in the catalog that may be lost. Jobs are
  accepted on rows marked as deleted. A legacy job whose export had been retired
  before an import without a receipt may point at a number that was given away
  since: "a surviving reference cannot point into a different project's history"
  (`layers.py:492`) compares with the exports of its source only, and
  `JobsKeepTheirExport` says nothing of such a job.
- *Initialization.* The usage of another source is discarded by design; a crash
  between manifest and end leaves a marker that is harmless.
- *SQLite.* Taking the state lock inside a read snapshot would deadlock with
  `close_all`; no caller does.
- *Saves.* A file that is exchanged after the last look is replaced, as the comment
  in `publish.rs` says.
- *BabelDOC plugin* (not modelled). A failed save in `disable` leaves it disabled
  with phase `ready`, so that `enable` does nothing; one in `enable` after an
  earlier task leaves the phase `stopping`.

## 7. What the models leave out

*Workflow.* Status messages, telemetry and progress rows. What an execution writes
under the lock beyond its end. The age test of recovery ("no update for two
minutes") is modelled as "not in admission": an admission in progress is younger,
any other active row may be old. Web's recovery loop handles the rows in one pass
that the first raising row ends; the model gives each row its own attempt. Two
faults, or one and a cancellation, inside `record_terminal_status` or `_interrupt`
leave the project busy with an ended job; `QuietProjectsAreSettled` and `BusyEnds`
are therefore checked without faults. On Web the late `PublishProject` of a run
that recovery has already closed can overwrite the status of a newer run, a
consequence of disagreement 3, so `RowsTellTheTruth` and `EndsAreFinal` are claimed
for Desktop only. A death between Web's two admission transactions, or its two
rollback transactions, leaves rows that disagree; `RunsEnd` is claimed of the job.

*Usage.* The sums themselves (tokens, prices, slots): a call is a unit. Upgrading
an old ledger schema. An asynchronous exception (`KeyboardInterrupt`) between the
end of the state transaction and the assignment of the checkpoint, which over
files has the effect of disagreement 4. The budget check that reads the totals.

*Storage.* A lock is an atomic resource that its holder's death frees, which
`storage/locks.py`, `native/wenyi-locks` and PostgreSQL's session locks are to
provide. A write of a file is atomic, as `atomic_write.py` arranges by renaming.

*Translation and review.* What a model answers beyond its outcome, terminology
batches (`prepare_batch`), titles, annotations, screening and arbitration within a
decision. Time in `ProviderRequests` is ticks, and all connections are in one
quota group.

The manifest of a copied project names the same original as the one it was copied
from, so `ProjectLibrary` keeps one `expects` for all copies of a project.

*Desktop.* The BabelDOC plugin's own tasks, verification of packages, rendering.
The history of live statistics (`ProgressHub`). The host keeps two flags for its
end, one of the saves and one of the engine; `NativeFiles` has one for both,
which a quit and an update set one right after the other (`main.rs:510`,
`updates.rs:646`).

*Exports and library.* One removal of a project is under way at a time in
`Exports`, whose `rmtree` takes export files: that it may take the source or a
lock file first shows only as a render that fails, which may happen anyway. The
removal of the whole tree with the sentinel is `ProjectLibrary`'s. That module
does not have the marker `initializing.json` which a repair of the catalog reads
(`catalog_recovery.py:197`); `RunInitialization` has the marker of the file store.

Not modelled for good: user interfaces, CLI, document readers and writers, prompts.

## 8. Plan

Every safety property of the runs that expect none to fail is proved. What is left
is model: one of `storage/locks.py` with the native table, which implements the
atomic lock the other modules use, and one of the BabelDOC plugin's tasks; both need
a run of their own component in `MCServices`. The liveness properties stay with TLC.
