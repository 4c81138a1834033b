---------------------------- MODULE ProjectStorage ----------------------------
(***************************************************************************)
(* What is kept on disk for a project: its library and the catalog's row,  *)
(* the directory of its run, the archive of its glossary, the corrections  *)
(* a review publishes in its chapters, and its usage ledgers.  The parts    *)
(* share no state at the granularity they are modelled at: a behaviour is   *)
(* one of the component it is chosen for in the beginning.                  *)
(***************************************************************************)
EXTENDS UsageLedger, GlossaryArchive, RunInitialization, ProjectLibrary, ReviewAutofix

CONSTANT Component    \* the components a behaviour may be about

VARIABLE component

storageVars == <<vars, archiveVars, initVars, libVars, afVars, component>>

StorageInit ==
    /\ component \in Component
    /\ Init /\ ArchiveInit /\ PreparationInit /\ LibraryInit /\ AfInit
    /\ component # "library" => whole = {}

OthersRest(own) ==
    /\ IF own = "usage" THEN TRUE ELSE UNCHANGED vars
    /\ IF own = "archive" THEN TRUE ELSE UNCHANGED archiveVars
    /\ IF own = "initialization" THEN TRUE ELSE UNCHANGED initVars
    /\ IF own = "library" THEN TRUE ELSE UNCHANGED libVars
    /\ IF own = "autofix" THEN TRUE ELSE UNCHANGED afVars

StorageNext ==
    /\ UNCHANGED component
    /\ \/ component = "usage" /\ Next /\ OthersRest("usage")
       \/ component = "archive" /\ ArchiveNext /\ OthersRest("archive")
       \/ component = "initialization" /\ PreparationNext /\ OthersRest("initialization")
       \/ component = "library" /\ LibraryNext /\ OthersRest("library")
       \/ component = "autofix" /\ AfNext /\ OthersRest("autofix")

StorageSpec == StorageInit /\ [][StorageNext]_storageVars

\* The variables of the component keep their types.
StorageTypeOK ==
    CASE component = "usage" -> TypeOK
      [] component = "archive" -> ArchiveTypeOK
      [] component = "initialization" -> PreparationTypeOK
      [] component = "library" -> LibraryTypeOK
      [] component = "autofix" -> AfTypeOK
      [] OTHER -> TRUE

\* What is kept for a project is its own and complete: the versions of its glossary, the
\* book of its source, its originals, and the index of its corrections.
StorageIsSound ==
    CASE component = "archive" -> ArchiveIsSound
      [] component = "initialization" -> SourcesStayApart
      [] component = "library" -> LibraryIsSound
      [] component = "autofix" -> IndexTellsTheTruth
      [] OTHER -> TRUE

=============================================================================
