---------------------------- MODULE CatalogMigration ----------------------------
(***************************************************************************)
(* The import of old Desktop workspaces into the shared catalog of the     *)
(* user profile: adopt and migrate at the start of an application, the     *)
(* merge with its receipt in one SQLite transaction, the documents derived *)
(* from it, and what a running application does to the catalog meanwhile.  *)
(*                                                                         *)
(* A row carries, next to its number, where it comes from (a ghost the     *)
(* properties speak about).  Every old workspace holds the same numbers:   *)
(* that is the collision the remapping is for.                             *)
(***************************************************************************)
EXTENDS Naturals, FiniteSets, FiniteSetsExt, Functions

CONSTANTS
    Workspace,          \* places the application is started from
    Old,                \* those with a catalog of the old layout
    Legacy,             \* those a version without receipts may have imported
    MigProject,         \* identities of projects
    MigProjects,        \* the ways projects may be spread over the old workspaces
    NoWorkspace,
    OldJobs,            \* numbers of the job rows of an old catalog, each of the export
                        \* with that number
    OldExports,         \* numbers of its export rows
    JobHigh, ExportHigh,  \* the last numbers its sequences gave away
    MaxMigCreated,      \* bound: exports admitted by applications
    MaxMigFaults,       \* bound: crashes and failing steps
    MaxMigLosses        \* bound: shared files lost while nothing runs

App == "app"        \* where the rows of running applications come from

ASSUME MigrationAssumption ==
    /\ Legacy \subseteq Old /\ Old \subseteq Workspace
    /\ MigProjects \subseteq [Old -> MigProject]
    /\ NoWorkspace \notin Workspace /\ App \notin Workspace
    /\ OldJobs \subseteq 1..JobHigh
    /\ OldJobs \cup OldExports \subseteq 1..ExportHigh   \* remapped refuses others
    /\ {JobHigh, ExportHigh, MaxMigCreated, MaxMigFaults, MaxMigLosses} \subseteq Nat

VARIABLES
    migProject,   \* the project of each old workspace, for good
    catalog,      \* the shared SQLite catalog; one transaction is one assignment
    settingsFile, \* is the settings document there?
    indexFile,    \* project -> workspace: the index of directories
    provenance,   \* source -> offsets: the record of imports
    sentinel,     \* source of the unfinished import
    migrationLock,
    migStart,     \* where the start of each workspace's application is
    migDeleted,   \* origins of deleted rows (ghost)
    migCreated, migFaults, migLosses

migFiles == <<settingsFile, indexFile, provenance, sentinel>>
migBounds == <<migCreated, migFaults, migLosses>>
migVars == <<migProject, catalog, migFiles, migrationLock, migStart, migDeleted, migBounds>>

Pcs == {"off", "starting", "migrate", "locked", "marking", "database", "settings",
        "index", "provenance", "verify", "open"}
Row == [id : Nat, project : MigProject, from : Workspace \cup {App}, old : Nat]
NoOffsets == [jobs |-> 0, exports |-> 0]
NoRecords == [w \in {} |-> NoOffsets]

NoCatalog == [present |-> FALSE, projects |-> {}, jobs |-> {}, exports |-> {}, refs |-> << >>,
              jobSeq |-> 0, exportSeq |-> 0, receipts |-> NoRecords, settings |-> FALSE]

MigTypeOK ==
    /\ migProject \in [Old -> MigProject]
    /\ catalog.projects \subseteq MigProject
    /\ catalog.jobs \subseteq Row /\ catalog.exports \subseteq Row
    /\ DOMAIN catalog.refs = {j.id : j \in catalog.jobs}
    /\ DOMAIN catalog.receipts \subseteq Old /\ DOMAIN provenance \subseteq Old
    /\ settingsFile \in BOOLEAN
    /\ DOMAIN indexFile \subseteq MigProject
    /\ sentinel \in Old \cup {NoWorkspace}
    /\ migrationLock \in Old \cup {NoWorkspace}
    /\ migStart \in [Workspace -> Pcs]
    /\ migCreated \in 0..MaxMigCreated
    /\ migFaults \in 0..MaxMigFaults
    /\ migLosses \in 0..MaxMigLosses
    /\ \A rows \in {catalog.jobs, catalog.exports} :
          \A r, s \in rows : r.id = s.id => r = s   \* primary keys

\* f and, where it says nothing, g
Over(f, g) == [x \in DOMAIN f \cup DOMAIN g |-> IF x \in DOMAIN f THEN f[x] ELSE g[x]]
Just(x, y) == [z \in {x} |-> y]
Later(m, n) == IF m > n THEN m ELSE n

High(c) == [jobs |-> c.jobSeq, exports |-> c.exportSeq]

\* The rows of an old workspace, remapped: a job keeps its reference to its export.
RemappedRow(w, old, offset) ==
    [id |-> old + offset, project |-> migProject[w], from |-> w, old |-> old]
RemappedJobs(w, offsets) == {RemappedRow(w, j, offsets.jobs) : j \in OldJobs}
RemappedExports(w, offsets) == {RemappedRow(w, e, offsets.exports) : e \in OldExports}
RemappedRefs(w, offsets) ==
    [id \in {j + offsets.jobs : j \in OldJobs} |-> id - offsets.jobs + offsets.exports]

\* Mutant: numbers given away and deleted before the import are not reserved.
ReserveLiveIds(c, offsets) ==
    [c EXCEPT !.jobSeq = Max({0} \cup {j.id : j \in c.jobs}),
              !.exportSeq = Max({0} \cup {e.id : e \in c.exports})]

ReserveIds(c, offsets) ==
    [c EXCEPT !.jobSeq = Later(@, offsets.jobs + JobHigh),
              !.exportSeq = Later(@, offsets.exports + ExportHigh)]

MigConflicts(w) ==
    \/ migProject[w] \in catalog.projects
    \/ migProject[w] \in DOMAIN indexFile /\ indexFile[migProject[w]] # w

Merge(w) == LET offsets == High(catalog) IN
    ReserveIds([catalog EXCEPT
        !.present = TRUE,
        !.projects = @ \cup {migProject[w]},
        !.jobs = @ \cup RemappedJobs(w, offsets),
        !.exports = @ \cup RemappedExports(w, offsets),
        !.refs = Over(@, RemappedRefs(w, offsets)),
        !.settings = TRUE,
        !.receipts = Over(@, Just(w, offsets))], offsets)

\* A row that is recorded as imported and not there is not imported again.
CanBackfill(w) ==
    /\ migProject[w] \in catalog.projects
    /\ RemappedJobs(w, provenance[w]) \subseteq catalog.jobs
    /\ RemappedExports(w, provenance[w]) \subseteq catalog.exports

Backfill(w) ==
    ReserveIds([catalog EXCEPT !.receipts = Over(@, Just(w, provenance[w]))], provenance[w])

\* A fresh profile, or one that a version without receipts has filled from w: it kept the
\* numbers of the rows, and maybe not those that were retired.
MigInit ==
    /\ migProject \in MigProjects
    /\ \/ /\ catalog = NoCatalog
          /\ settingsFile = FALSE
          /\ indexFile = [p \in {} |-> NoWorkspace]
          /\ provenance = NoRecords
       \/ \E w \in Legacy, jobHigh \in 0..JobHigh, exportHigh \in 0..ExportHigh :
          /\ OldJobs \subseteq 1..jobHigh /\ OldExports \subseteq 1..exportHigh
          /\ catalog = [NoCatalog EXCEPT
                !.present = TRUE, !.projects = {migProject[w]}, !.settings = TRUE,
                !.jobs = RemappedJobs(w, NoOffsets), !.exports = RemappedExports(w, NoOffsets),
                !.refs = RemappedRefs(w, NoOffsets), !.jobSeq = jobHigh,
                !.exportSeq = exportHigh]
          /\ settingsFile = TRUE
          /\ indexFile = Just(migProject[w], w)
          /\ provenance = Just(w, NoOffsets)
    /\ sentinel = NoWorkspace
    /\ migrationLock = NoWorkspace
    /\ migStart = [w \in Workspace |-> "off"]
    /\ migDeleted = {}
    /\ migCreated = 0 /\ migFaults = 0 /\ migLosses = 0

-----------------------------------------------------------------------------
(* The start of an application                                             *)

GoOn(w, pc) == migStart' = [migStart EXCEPT ![w] = pc]
Release(w) == migrationLock' = IF migrationLock = w THEN NoWorkspace ELSE migrationLock
Unmoved == UNCHANGED <<migProject, migDeleted, migBounds>>

\* Startup is refused, or opens the stores, which create what is missing.
RefuseStart(w) == GoOn(w, "off") /\ Release(w) /\ UNCHANGED catalog
OpenStores(w) == GoOn(w, "open") /\ Release(w) /\ catalog' = [catalog EXCEPT !.present = TRUE]

\* Mutant: a workspace is refused for an import of its own.
BlockedByAnything(w) == sentinel # NoWorkspace

\* check_pending
BlockedByPending(w) == sentinel \notin {NoWorkspace, w}

\* complete raises
CatalogLost(w) ==
    \/ ~catalog.present /\ provenance # NoRecords
    \/ /\ catalog.present /\ w \notin Old
       /\ DOMAIN catalog.receipts = {} /\ provenance # NoRecords

Complete(w) ==
    /\ catalog.present
    /\ w \in DOMAIN catalog.receipts \cap DOMAIN provenance
    /\ sentinel = NoWorkspace
    /\ provenance[w] = catalog.receipts[w]

StartApp(w) ==
    /\ migStart[w] = "off"
    /\ GoOn(w, "starting")
    /\ Unmoved /\ UNCHANGED <<catalog, migFiles, migrationLock>>

Adopt(w) ==
    /\ migStart[w] = "starting"
    /\ IF BlockedByPending(w) \/ CatalogLost(w) THEN RefuseStart(w)
       ELSE IF Complete(w) \/ w \notin Old THEN OpenStores(w)
       ELSE GoOn(w, "migrate") /\ UNCHANGED <<catalog, migrationLock>>
    /\ Unmoved /\ UNCHANGED migFiles

\* migration_lock is not waited for.
LockMigration(w) ==
    /\ migStart[w] = "migrate"
    /\ IF migrationLock = NoWorkspace
       THEN GoOn(w, "locked") /\ migrationLock' = w /\ UNCHANGED catalog
       ELSE RefuseStart(w)
    /\ Unmoved /\ UNCHANGED migFiles

\* What adopt has seen may have changed before the lock was taken.
Recheck(w) ==
    /\ migStart[w] = "locked"
    /\ IF BlockedByPending(w) \/ CatalogLost(w) THEN RefuseStart(w)
       ELSE IF Complete(w) THEN OpenStores(w)
       ELSE GoOn(w, "marking") /\ UNCHANGED <<catalog, migrationLock>>
    /\ Unmoved /\ UNCHANGED migFiles

WriteSentinel(w) ==
    /\ migStart[w] = "marking"
    /\ sentinel' = w
    /\ GoOn(w, "database")
    /\ Unmoved /\ UNCHANGED <<catalog, settingsFile, indexFile, provenance, migrationLock>>

\* Materializer.database: merge or backfill commits with its receipt, or nothing does.
ImportDatabase(w) ==
    /\ migStart[w] = "database"
    /\ IF w \in DOMAIN catalog.receipts THEN
            GoOn(w, "settings") /\ UNCHANGED <<catalog, migrationLock>>
       ELSE IF catalog.present /\ w \in DOMAIN provenance THEN
            IF CanBackfill(w)
            THEN catalog' = Backfill(w) /\ GoOn(w, "settings") /\ UNCHANGED migrationLock
            ELSE RefuseStart(w)
       ELSE IF MigConflicts(w) \/ CatalogLost(w) THEN RefuseStart(w)
       ELSE catalog' = Merge(w) /\ GoOn(w, "settings") /\ UNCHANGED migrationLock
    /\ Unmoved /\ UNCHANGED migFiles

\* The documents are derived again on every retry; settings in use win.
WriteSettings(w) ==
    /\ migStart[w] = "settings"
    /\ settingsFile' = (settingsFile \/ catalog.settings)
    /\ GoOn(w, "index")
    /\ Unmoved /\ UNCHANGED <<catalog, indexFile, provenance, sentinel, migrationLock>>

WriteIndex(w) ==
    /\ migStart[w] = "index"
    /\ indexFile' = Over(indexFile, Just(migProject[w], w))
    /\ GoOn(w, "provenance")
    /\ Unmoved /\ UNCHANGED <<catalog, settingsFile, provenance, sentinel, migrationLock>>

\* Receipts replace stale records and never erase others.
WriteProvenance(w) ==
    /\ migStart[w] = "provenance"
    /\ provenance' = Over(catalog.receipts, provenance)
    /\ GoOn(w, "verify")
    /\ Unmoved /\ UNCHANGED <<catalog, settingsFile, indexFile, sentinel, migrationLock>>

FinishMigration(w) ==
    /\ migStart[w] = "verify"
    /\ IF w \in DOMAIN catalog.receipts /\ settingsFile
       THEN OpenStores(w) /\ sentinel' = NoWorkspace
       ELSE RefuseStart(w) /\ UNCHANGED sentinel
    /\ Unmoved /\ UNCHANGED <<settingsFile, indexFile, provenance>>

MigrationStep(w) ==
    \/ Adopt(w) \/ LockMigration(w) \/ Recheck(w) \/ WriteSentinel(w) \/ ImportDatabase(w)
    \/ WriteSettings(w) \/ WriteIndex(w) \/ WriteProvenance(w) \/ FinishMigration(w)

\* The process dies, or a call of the import raises; an application also just ends.
MigrationFails(w) ==
    /\ migStart[w] # "off"
    /\ IF migStart[w] = "open" THEN UNCHANGED migFaults
       ELSE migFaults < MaxMigFaults /\ migFaults' = migFaults + 1
    /\ GoOn(w, "off") /\ Release(w)
    /\ UNCHANGED <<migProject, catalog, migFiles, migDeleted, migCreated, migLosses>>

-----------------------------------------------------------------------------
(* Applications that run on the shared catalog, and accidents              *)

SomeoneOpen == \E w \in Workspace : migStart[w] = "open"

\* admit_export: an export and its job, with numbers of their own.
AppAdmits(p) ==
    /\ SomeoneOpen
    /\ p \in catalog.projects
    /\ migCreated < MaxMigCreated
    /\ migCreated' = migCreated + 1
    /\ LET job == catalog.jobSeq + 1
           export == catalog.exportSeq + 1
           row(id) == [id |-> id, project |-> p, from |-> App, old |-> id] IN
       catalog' = [catalog EXCEPT
           !.jobs = @ \cup {row(job)}, !.exports = @ \cup {row(export)},
           !.refs = Over(@, Just(job, export)), !.jobSeq = job, !.exportSeq = export]
    /\ UNCHANGED <<migProject, migFiles, migrationLock, migStart, migDeleted, migFaults, migLosses>>

Origins(kind, rows) == {<<kind, r.from, r.old>> : r \in rows}
Without(c, jobs, exports) ==
    [c EXCEPT !.jobs = @ \ jobs, !.exports = @ \ exports,
              !.refs = Restrict(@, {j.id : j \in c.jobs \ jobs})]

\* An expired export goes, its job stays.
AppExpires(e) ==
    /\ SomeoneOpen
    /\ e \in catalog.exports
    /\ catalog' = Without(catalog, {}, {e})
    /\ migDeleted' = migDeleted \cup Origins("export", {e})
    /\ UNCHANGED <<migProject, migFiles, migrationLock, migStart, migBounds>>

\* A removed project takes its jobs and exports with it.
AppRemoves(p) ==
    /\ SomeoneOpen
    /\ p \in catalog.projects
    /\ LET jobs == {j \in catalog.jobs : j.project = p}
           exports == {e \in catalog.exports : e.project = p} IN
       /\ catalog' = [Without(catalog, jobs, exports) EXCEPT !.projects = @ \ {p}]
       /\ migDeleted' = migDeleted \cup Origins("job", jobs) \cup Origins("export", exports)
    /\ UNCHANGED <<migProject, migFiles, migrationLock, migStart, migBounds>>

\* One of the two witnesses of an import may be lost, not the only one.
LoseFile ==
    /\ migLosses < MaxMigLosses
    /\ migLosses' = migLosses + 1
    /\ \A w \in Workspace : migStart[w] = "off"
    /\ \/ /\ DOMAIN catalog.receipts \subseteq DOMAIN provenance
          /\ catalog' \in {NoCatalog, [catalog EXCEPT !.receipts = NoRecords]}
          /\ UNCHANGED provenance
       \/ /\ DOMAIN provenance \subseteq DOMAIN catalog.receipts
          /\ provenance' = NoRecords /\ UNCHANGED catalog
    /\ UNCHANGED <<migProject, settingsFile, indexFile, sentinel, migrationLock, migStart,
                   migDeleted, migCreated, migFaults>>

MigNext ==
    \/ \E w \in Workspace : StartApp(w) \/ MigrationStep(w) \/ MigrationFails(w)
    \/ \E p \in MigProject : AppAdmits(p) \/ AppRemoves(p)
    \/ \E e \in catalog.exports : AppExpires(e)
    \/ LoseFile

MigSpec == MigInit /\ [][MigNext]_migVars

\* The user starts an application again until it opens.
MigFairness == \A w \in Workspace : WF_migVars(StartApp(w) \/ MigrationStep(w))
MigFairSpec == MigSpec /\ MigFairness

-----------------------------------------------------------------------------
(* Properties                                                              *)

\* What the user has deleted from the shared catalog does not come back from the old
\* workspace it was imported from, after whatever crash, retry or lost file.
NothingIsResurrected ==
    (Origins("job", catalog.jobs) \cup Origins("export", catalog.exports)) \cap migDeleted = {}

\* The numbers a recorded import has reserved, those retired in the old workspace
\* included, are given to nothing else: a new export never takes over an old path.
ReservedNumbersAreTheSources ==
    [][\A w \in DOMAIN catalog.receipts :
          /\ \A j \in catalog'.jobs \ catalog.jobs : j.id - catalog.receipts[w].jobs > JobHigh
          /\ \A e \in catalog'.exports \ catalog.exports :
                e.id - catalog.receipts[w].exports > ExportHigh]_migVars

\* The receipt says where the rows of its source are, also when it has been
\* restored from the provenance.
ReceiptsLocateTheRows ==
    \A w \in DOMAIN catalog.receipts :
        /\ \A j \in catalog.jobs : j.from = w => j.id = j.old + catalog.receipts[w].jobs
        /\ \A e \in catalog.exports : e.from = w => e.id = e.old + catalog.receipts[w].exports

\* A job still finds its own export, or none: never an export of somebody else.  Not
\* said of a job whose export had been retired before a version without receipts
\* imported it: the number may have been given away before the receipt was written.
JobsKeepTheirExport ==
    \A j \in catalog.jobs, e \in catalog.exports :
        catalog.refs[j.id] = e.id /\ (j.from \in Legacy => j.old \in OldExports) =>
            e.from = j.from /\ e.project = j.project

\* No application runs on a workspace of the old layout before its rows, its
\* receipt, its index entry and its provenance are there.
OpenIsAdopted ==
    migLosses = 0 => \A w \in Old : migStart[w] = "open" =>
        /\ w \in DOMAIN catalog.receipts
        /\ w \in DOMAIN provenance /\ provenance[w] = catalog.receipts[w]
        /\ migProject[w] \in DOMAIN indexFile
        /\ settingsFile

\* An import that is not pending is recorded in both places.
SettledImportsAreRecorded ==
    sentinel = NoWorkspace /\ migLosses = 0 =>
        \A w \in DOMAIN catalog.receipts :
            w \in DOMAIN provenance /\ provenance[w] = catalog.receipts[w]

\* The shared catalog after any imports, restarts and losses: what it has of an old
\* workspace can be found, belongs together, is recorded and is not taken twice.
ImportsAreSound ==
    /\ NothingIsResurrected
    /\ ReceiptsLocateTheRows
    /\ JobsKeepTheirExport
    /\ OpenIsAdopted
    /\ SettledImportsAreRecorded

\* With distinct projects, receipts from the beginning and nothing lost, an application
\* that is started again after each failure opens in the end, whatever else is
\* being imported.
StartsSucceed ==
    IsInjective(migProject) /\ provenance = NoRecords /\ [](migLosses = 0) =>
        \A w \in Workspace : (migStart[w] # "off") ~> (migStart[w] = "open")

=============================================================================
