-------------------------- MODULE RunInitialization --------------------------
(***************************************************************************)
(* The preparation of a book in a directory of files: RunStore             *)
(* .begin_initialization, .stage_document, .finish_initialization          *)
(* (storage/run_store.py) under PreparationService.prepare                 *)
(* (pipeline/prepare/preparation.py).  Directories are named after the     *)
(* title, so sources of one title meet in one directory: .initializing.json *)
(* names the source whose preparation has begun, the manifest, written     *)
(* last, the one whose preparation is complete.  Preparations run under    *)
(* the run lock; one may fail or die anywhere.                             *)
(***************************************************************************)
EXTENDS Naturals, FiniteSets, SequencesExt, Functions

CONSTANTS
    BookSources,      \* sources with the same title
    PdfSources,       \* those whose conversion comes after the marker
    NoSource,
    MaxInitFailures   \* bound: exceptions and deaths

ASSUME InitializationAssumption ==
    PdfSources \subseteq BookSources /\ NoSource \notin BookSources /\ MaxInitFailures \in Nat

VARIABLES
    initMarker,       \* .initializing.json
    initManifest,     \* manifest.json
    initFiles,        \* whose chapters, annotation contexts and analysis there are
    initEvents,       \* the sources with events in events.jsonl
    initCached,       \* the sources with an analysis among the artifacts
    initUsage,        \* usage.json: calls billed, per source they were made for
    initJournal,      \* usage-pending.json: the totals to publish
    initWork,         \* the invocation
    initSpent,        \* calls made, per source (ghost)
    initFailures

initLedger == <<initUsage, initJournal>>
initVars == <<initMarker, initManifest, initFiles, initEvents, initCached, initLedger, initWork,
              initSpent, initFailures>>

DerivedFiles == {"chapters", "contexts", "analysis"}
NoPending == << >>
NoCalls == [s \in BookSources |-> 0]
IdlePreparation == [pc |-> "idle"]
Preparing == initWork.pc # "idle"
Prepared == initWork.source

\* What usage.json says once the journal has been published.
Durable == IF initJournal # NoPending THEN initJournal ELSE initUsage

\* While calls are made the marker names the source they are made for.
PreparationTypeOK ==
    /\ {initMarker, initManifest} \subseteq BookSources \cup {NoSource}
    /\ initFiles \in [DerivedFiles -> BookSources \cup {NoSource}]
    /\ initEvents \subseteq BookSources /\ initCached \subseteq BookSources
    /\ initUsage \in [BookSources -> Nat] /\ initSpent \in [BookSources -> Nat]
    /\ initJournal # NoPending => initJournal \in [BookSources -> Nat]
    /\ initWork.pc \in {"idle", "begin", "discard", "marker", "parse", "detect", "contexts", "chapters",
                        "analyze", "cache", "journal", "publish", "analysis", "manifest", "finish"}
    /\ initWork.pc \in {"detect", "contexts", "chapters", "analyze", "cache", "analysis", "manifest"} =>
         initMarker = Prepared /\ initManifest = NoSource
    /\ initFailures \in 0..MaxInitFailures

PreparationInit ==
    /\ initMarker = NoSource /\ initManifest = NoSource
    /\ initFiles = [f \in DerivedFiles |-> NoSource]
    /\ initEvents = {} /\ initCached = {}
    /\ initUsage = NoCalls /\ initJournal = NoPending
    /\ initWork = IdlePreparation
    /\ initSpent = NoCalls /\ initFailures = 0

PreparationGoes(pc) == initWork' = [initWork EXCEPT !.pc = pc]

\* prepare: a prepared directory is resumed, or refused to another source; a PDF is
\* converted after the marker has been written.
StartPreparation(s) ==
    /\ ~Preparing /\ initManifest = NoSource
    /\ initWork' = [pc |-> IF s \in PdfSources THEN "begin" ELSE "parse", source |-> s,
                    parsed |-> FALSE, todo |-> << >>, unbilled |-> 0, next |-> "idle"]
    /\ UNCHANGED <<initMarker, initManifest, initFiles, initEvents, initCached, initLedger,
                   initSpent, initFailures>>

ParseBook ==
    /\ initWork.pc = "parse"
    /\ initWork' = [initWork EXCEPT !.pc = "begin", !.parsed = TRUE]
    /\ UNCHANGED <<initMarker, initManifest, initFiles, initEvents, initCached, initLedger,
                   initSpent, initFailures>>

-----------------------------------------------------------------------------
(* begin_initialization                                                    *)

\* Mutant: everything is discarded, whoever left it.
RemainsOfAnybody == <<"journal", "usage", "chapters", "analysis", "contexts", "events">>

\* The usage and the events of the same source are kept, those of another one are not; its
\* journal goes first.
Remains ==
    IF initMarker = Prepared THEN <<"recover", "chapters", "analysis", "contexts">>
    ELSE <<"journal", "usage", "chapters", "analysis", "contexts", "events">>

BeginInitialization ==
    /\ initWork.pc = "begin"
    /\ initWork' = [initWork EXCEPT !.pc = "discard", !.todo = Remains]
    /\ UNCHANGED <<initMarker, initManifest, initFiles, initEvents, initCached, initLedger,
                   initSpent, initFailures>>

\* One removal, or the recovery of the journal.
DiscardRemains ==
    /\ initWork.pc = "discard"
    /\ IF initWork.todo = << >> THEN
          /\ PreparationGoes("marker")
          /\ UNCHANGED <<initFiles, initEvents, initLedger>>
       ELSE
          LET file == Head(initWork.todo) IN
          /\ initWork' = [initWork EXCEPT !.todo = Tail(@)]
          /\ initJournal' = IF file \in {"journal", "recover"} THEN NoPending ELSE initJournal
          /\ initUsage' = IF file = "recover" THEN Durable
                          ELSE IF file = "usage" THEN NoCalls ELSE initUsage
          /\ initFiles' = [f \in DerivedFiles |-> IF f = file THEN NoSource ELSE initFiles[f]]
          /\ initEvents' = IF file = "events" THEN {} ELSE initEvents
    /\ UNCHANGED <<initMarker, initManifest, initCached, initSpent, initFailures>>

\* Mutant: a marker that is there is not replaced.
MarkUnmarked ==
    /\ initWork.pc = "marker"
    /\ initMarker' = IF initMarker = NoSource THEN Prepared ELSE initMarker
    /\ PreparationGoes(IF initWork.parsed THEN "detect" ELSE "parse")
    /\ UNCHANGED <<initManifest, initFiles, initEvents, initCached, initLedger, initSpent, initFailures>>

MarkSource ==
    /\ initWork.pc = "marker"
    /\ initMarker' = Prepared
    /\ PreparationGoes(IF initWork.parsed THEN "detect" ELSE "parse")
    /\ UNCHANGED <<initManifest, initFiles, initEvents, initCached, initLedger, initSpent, initFailures>>

-----------------------------------------------------------------------------
(* _initialize_document                                                    *)

\* A request to the model, with its events.
Spend(pc) ==
    /\ initWork' = [initWork EXCEPT !.pc = pc, !.unbilled = @ + 1]
    /\ initSpent' = [initSpent EXCEPT ![Prepared] = @ + 1]
    /\ initEvents' = initEvents \cup {Prepared}

\* Unless the language is configured.
DetectLanguage ==
    /\ initWork.pc = "detect"
    /\ \/ Spend("contexts")
       \/ PreparationGoes("contexts") /\ UNCHANGED <<initSpent, initEvents>>
    /\ UNCHANGED <<initMarker, initManifest, initFiles, initCached, initLedger, initFailures>>

StageFile(pc, file, next) ==
    /\ initWork.pc = pc
    /\ initFiles' = [initFiles EXCEPT ![file] = Prepared]
    /\ PreparationGoes(next)
    /\ UNCHANGED <<initMarker, initManifest, initEvents, initCached, initLedger, initSpent, initFailures>>

StageContexts == StageFile("contexts", "contexts", "chapters")
StageChapters == StageFile("chapters", "chapters", "analyze")
SaveAnalysis == StageFile("analysis", "analysis", "manifest")

\* A saved analysis of this very source is not paid for again.
AnalyzeStyle ==
    /\ initWork.pc = "analyze"
    /\ IF Prepared \in initCached
       THEN PreparationGoes("analysis") /\ UNCHANGED <<initSpent, initEvents>>
       ELSE Spend("cache")
    /\ UNCHANGED <<initMarker, initManifest, initFiles, initCached, initLedger, initFailures>>

CacheAnalysis ==
    /\ initWork.pc = "cache"
    /\ initCached' = initCached \cup {Prepared}
    /\ initWork' = [initWork EXCEPT !.pc = "journal", !.next = "analysis"]
    /\ UNCHANGED <<initMarker, initManifest, initFiles, initEvents, initLedger, initSpent, initFailures>>

CommitManifest ==
    /\ initWork.pc = "manifest"
    /\ initManifest' = Prepared
    /\ PreparationGoes("finish")
    /\ UNCHANGED <<initMarker, initFiles, initEvents, initCached, initLedger, initSpent, initFailures>>

FinishInitialization ==
    /\ initWork.pc = "finish"
    /\ initMarker' = NoSource
    /\ initWork' = [initWork EXCEPT !.pc = "journal", !.next = "idle"]
    /\ UNCHANGED <<initManifest, initFiles, initEvents, initCached, initLedger, initSpent, initFailures>>

\* flush, of which UsageLedger has the details: recover and prepare in one transaction.
JournalCalls ==
    /\ initWork.pc = "journal"
    /\ initUsage' = Durable
    /\ IF initWork.unbilled = 0 THEN initJournal' = NoPending /\ PreparationGoes(initWork.next)
       ELSE /\ initJournal' = [Durable EXCEPT ![Prepared] = @ + initWork.unbilled]
            /\ initWork' = [initWork EXCEPT !.pc = "publish", !.unbilled = 0]
    /\ UNCHANGED <<initMarker, initManifest, initFiles, initEvents, initCached, initSpent, initFailures>>

PublishCalls ==
    /\ initWork.pc = "publish"
    /\ initUsage' = Durable /\ initJournal' = NoPending
    /\ PreparationGoes(initWork.next)
    /\ UNCHANGED <<initMarker, initManifest, initFiles, initEvents, initCached, initSpent, initFailures>>

\* An exception: once begin_initialization has returned, `finally` flushes.
PreparationFails ==
    /\ Preparing /\ initFailures < MaxInitFailures
    /\ initFailures' = initFailures + 1
    /\ initWork' = IF initWork.pc \in {"detect", "contexts", "chapters", "analyze", "cache", "analysis",
                                       "manifest", "finish"}
                   THEN [initWork EXCEPT !.pc = "journal", !.next = "idle"]
                   ELSE IdlePreparation
    /\ UNCHANGED <<initMarker, initManifest, initFiles, initEvents, initCached, initLedger, initSpent>>

DiePreparing ==
    /\ Preparing /\ initFailures < MaxInitFailures
    /\ initFailures' = initFailures + 1
    /\ initWork' = IdlePreparation
    /\ UNCHANGED <<initMarker, initManifest, initFiles, initEvents, initCached, initLedger, initSpent>>

PreparationNext ==
    \/ \E s \in BookSources : StartPreparation(s)
    \/ ParseBook \/ BeginInitialization \/ DiscardRemains \/ MarkSource
    \/ DetectLanguage \/ StageContexts \/ StageChapters \/ AnalyzeStyle \/ CacheAnalysis
    \/ SaveAnalysis \/ CommitManifest \/ FinishInitialization
    \/ JournalCalls \/ PublishCalls
    \/ PreparationFails \/ DiePreparing

PreparationSpec == PreparationInit /\ [][PreparationNext]_initVars

-----------------------------------------------------------------------------
(* Properties                                                              *)

\* A prepared book is all of the source its manifest names: its chapters, contexts, analysis,
\* events and the calls billed to it, whatever another book of the same title left.
BookIsOfOneSource ==
    initManifest # NoSource =>
        /\ \A f \in DerivedFiles : initFiles[f] = initManifest
        /\ initEvents \subseteq {initManifest}
        /\ \A s \in BookSources \ {initManifest} : Durable[s] = 0

\* Whatever is in the directory of a preparation that has begun belongs to the source its
\* marker names, at any moment a process may die.
MarkerTellsTheSource ==
    initMarker # NoSource =>
        /\ \A f \in DerivedFiles : initFiles[f] \in {initMarker, NoSource}
        /\ initEvents \subseteq {initMarker}
        /\ \A s \in BookSources \ {initMarker} : Durable[s] = 0

\* No call is billed twice, however often its source is prepared anew.
CallsAreBilledOnce == \A s \in BookSources : Durable[s] <= initSpent[s]

\* One directory, one source: what is prepared, what a death leaves, and what was paid.
SourcesStayApart == BookIsOfOneSource /\ MarkerTellsTheSource /\ CallsAreBilledOnce

\* Only the preparation of another source discards what a source has been billed.
BillsAreKept ==
    [][\A s \in BookSources : Durable'[s] < Durable[s] => initMarker = s /\ Prepared # s]_initVars

=============================================================================
