----------------------------- MODULE MCServices -----------------------------
(***************************************************************************)
(* Finite instances of the components that share no state with each other  *)
(* at the granularity they are modelled at.  A behaviour is one of the     *)
(* component it is chosen for in the beginning: the others keep their      *)
(* initial states, so a run explores the sum of the state spaces, not      *)
(* their product.                                                          *)
(***************************************************************************)
EXTENDS Exports, CatalogMigration, ProviderRequests, TranslationBatches, ReviewSessions,
        SqliteConnections, DesktopUpdates, NativeFiles, InstanceAdmission

CONSTANTS
    a, b,             \* exports
    w0, w1, w2,       \* workspaces
    p1, p2,           \* projects
    k1, k2,           \* provider calls
    c1, c2,           \* connections
    T1, T2,           \* drafts
    g1, g2,           \* paragraphs
    r0, r1,           \* wordings
    i, j,             \* issues
    t1, t2, t3,       \* threads
    s1, s2, s3,       \* native saves
    n1, n2,           \* paths
    u1,               \* files of the user
    h1, h2, h3,       \* desktop hosts
    e1,               \* engines without a host
    o1, o2,           \* ports
    Component         \* the components a run is about

VARIABLE component

svcVars == <<exportVars, migVars, requestVars, bookVars, revVars, sqlVars, updVars,
             nativeVars, instVars, component>>

\* Two old workspaces with the same project, or with two.
ProjectsOfWorkspaces == {w1 :> p1 @@ w2 :> p1, w1 :> p1 @@ w2 :> p2}
OneNumber == {1}
TwoNumbers == {1, 2}

RoutesInOrder == <<c1, c2>>
OnePermitEach == c1 :> 1 @@ c2 :> 1
ActualTokens == {1}

TwoThenOne == <<2, 1>>
InvocationSettings ==
    {[mode |-> "standard", size |-> 2, only |-> 0], [mode |-> "best_of_three", size |-> 1, only |-> 0]}

IssueAt == i :> g1 @@ j :> g2
Edition(glossary, fixes, clean) ==
    [content |-> 1, glossary |-> glossary, loop |-> TRUE, fixes |-> fixes, clean |-> clean]
TwoFixesOrNone == {Edition(1, 2, 1), Edition(2, 0, 1)}
OneFixOrNone == {Edition(1, 1, 1), Edition(2, 0, 2)}

\* Two hosts and an engine of one workspace, and a host of another.
WorkspaceOf == h1 :> w1 @@ h2 :> w1 @@ h3 :> w2 @@ e1 :> w1

\* Exports, calls, threads, saves, names, the hosts of a workspace and ports are
\* interchangeable: no action or safety property names or orders them.  The components share
\* no state, so exchanging all these pairs at once is a symmetry of each.
Twin == a :> b @@ b :> a @@ k1 :> k2 @@ k2 :> k1 @@ t1 :> t2 @@ t2 :> t1 @@ s1 :> s2 @@ s2 :> s1
        @@ n1 :> n2 @@ n2 :> n1 @@ h1 :> h2 @@ h2 :> h1 @@ o1 :> o2 @@ o2 :> o1
Exchange == {[x \in DOMAIN Twin |-> IF exchanged THEN Twin[x] ELSE x] : exchanged \in BOOLEAN}

SvcInit ==
    /\ component \in Component
    /\ ExportInit /\ MigInit /\ RequestInit /\ BookInit /\ RevInit
    /\ SqliteInit /\ UpdatesInit /\ NativeInit /\ InstInit
    /\ component # "exports" => exportPlatform = "desktop"
    /\ component # "migration" =>
         catalog = NoCatalog /\ migProject = CHOOSE projects \in MigProjects : TRUE
    /\ component # "native" => \A n \in FilePaths : names[n] = Nothing
    /\ component # "review" => revEdition = CHOOSE edition \in Editions : TRUE

OthersRest(own) ==
    /\ IF own = "exports" THEN TRUE ELSE UNCHANGED exportVars
    /\ IF own = "migration" THEN TRUE ELSE UNCHANGED migVars
    /\ IF own = "requests" THEN TRUE ELSE UNCHANGED requestVars
    /\ IF own = "translation" THEN TRUE ELSE UNCHANGED bookVars
    /\ IF own = "review" THEN TRUE ELSE UNCHANGED revVars
    /\ IF own = "sqlite" THEN TRUE ELSE UNCHANGED sqlVars
    /\ IF own = "updates" THEN TRUE ELSE UNCHANGED updVars
    /\ IF own = "native" THEN TRUE ELSE UNCHANGED nativeVars
    /\ IF own = "admission" THEN TRUE ELSE UNCHANGED instVars

SvcNext ==
    /\ UNCHANGED component
    /\ \/ component = "exports" /\ ExportNext /\ OthersRest("exports")
       \/ component = "migration" /\ MigNext /\ OthersRest("migration")
       \/ component = "requests" /\ RequestNext /\ OthersRest("requests")
       \/ component = "translation" /\ BookNext /\ OthersRest("translation")
       \/ component = "review" /\ RevNext /\ OthersRest("review")
       \/ component = "sqlite" /\ SqliteNext /\ OthersRest("sqlite")
       \/ component = "updates" /\ UpdatesNext /\ OthersRest("updates")
       \/ component = "native" /\ NativeNext /\ OthersRest("native")
       \/ component = "admission" /\ InstNext /\ OthersRest("admission")

SvcSpec == SvcInit /\ [][SvcNext]_svcVars

\* The fairness of each component (ExportFairness, MigFairness, RequestFairness, RevFairness,
\* SqliteFairness, UpdatesFairness), in behaviours about it.
SvcFairness ==
    /\ \A e \in Export :
          /\ WF_exportVars(component = "exports" /\ (ExportRequestStep(e) \/ EnqueueExportFails(e)))
          /\ WF_exportVars(component = "exports" /\
                           (ConsumeExport(e) \/ ConsumerInterrupts(e) \/ ConsumerReturns(e)))
          /\ WF_exportVars(component = "exports" /\ ExportTaskStep(e))
          /\ SF_exportVars(component = "exports" /\ (LockExport(e) \/ PublishDesktop(e) \/ PublishWeb(e)))
          /\ WF_exportVars(component = "exports" /\ RecoverExport(e))
          /\ WF_exportVars(component = "exports" /\ InterruptExportStep(e))
    /\ WF_exportVars(component = "exports" /\ ExportSweep)
    /\ WF_exportVars(component = "exports" /\ ProjectRemovalStep)
    /\ \A w \in Workspace : WF_migVars(component = "migration" /\ (StartApp(w) \/ MigrationStep(w)))
    /\ \A k \in Call : WF_requestVars(component = "requests" /\ CallStep(k))
    /\ WF_requestVars(component = "requests" /\ Tick)
    /\ WF_bookVars(component = "translation" /\ BookStep)
    /\ WF_revVars(component = "review" /\ RevWork)
    /\ \A t \in SqlThreads : SF_sqlVars(component = "sqlite" /\ SqliteStep(t))
    /\ WF_updVars(component = "updates" /\ (StartEngine \/ StartEnds \/ StartReports))
    /\ WF_updVars(component = "updates" /\ EngineRegisters)
    /\ WF_updVars(component = "updates" /\ EngineDecides)
    /\ \A s \in Savers : WF_updVars(component = "updates" /\ EndSave(s))
    /\ WF_updVars(component = "updates" /\ QuitStep)
    /\ WF_updVars(component = "updates" /\ InstallStep)

SvcFairSpec == SvcSpec /\ SvcFairness

\* The variables of the component keep their types (those of the others do not change).
SvcTypeOK ==
    CASE component = "exports" -> ExportTypeOK
      [] component = "migration" -> MigTypeOK
      [] component = "requests" -> RequestTypeOK
      [] component = "translation" -> BookTypeOK
      [] component = "review" -> RevTypeOK
      [] component = "sqlite" -> SqliteTypeOK
      [] component = "updates" -> UpdatesTypeOK
      [] component = "native" -> NativeTypeOK
      [] component = "admission" -> InstTypeOK
      [] OTHER -> TRUE

\* Whatever has been begun comes to an end: exports, calls, invocations, reviews, the
\* operations of a storage, and the quitting or updating of the application.
WorkEnds ==
    ExportsEnd /\ CallsEnd /\ InvocationsEnd /\ ReviewsEnd /\ OperationsEnd /\ UpdatesEnd

\* The projects, jobs and exports the catalog lists: exports agree with their files and
\* tasks, and an import of old workspaces is all or nothing.
CatalogIsSound ==
    CASE component = "exports" -> ExportsAreConsistent
      [] component = "migration" -> ImportsAreSound
      [] OTHER -> TRUE

\* The translation of a book: calls stay within their limits, an interrupted invocation
\* goes on exactly where it was.
TranslationIsSound ==
    CASE component = "requests" -> LimitsHold
      [] component = "translation" -> ResumptionIsExact
      [] OTHER -> TRUE

\* The reviews of a book: a review goes on where it was, with verdicts that are supported.
ReviewsAreSound ==
    CASE component = "review" -> ReviewsGoOn /\ VerdictsAreSupported
      [] OTHER -> TRUE

\* The processes of the desktop: an update is installed only when nothing works, an old
\* workspace is upgraded only by a host that is alone, and the files the host saves and
\* uploads are whole.
HostIsSafe ==
    CASE component = "updates" -> UpdatesAreSafe
      [] component = "admission" -> UpgradesAreAlone /\ LaunchesReachTheOwner
      [] component = "native" -> PublishedFilesAreComplete /\ UploadsAreWhole
      [] OTHER -> TRUE

=============================================================================
