---------------------------- MODULE ServicesProofs ----------------------------
(***************************************************************************)
(* Theorems of the composed specification MCServices, for any values of    *)
(* the constants of its components: a behaviour of the composition is one  *)
(* of every component, so what is proved of the components holds of it.    *)
(***************************************************************************)
EXTENDS MCServices, CatalogProofs, HostProofs, TranslationProofs

-----------------------------------------------------------------------------
(* A behaviour of the composition is one of each component.                *)

\* A step of the composition is a step of the component it is about, and leaves the
\* variables of the others alone.
LEMMA OwnStep ==
    ASSUME [SvcNext]_svcVars
    PROVE  /\ [ExportNext]_exportVars /\ [MigNext]_migVars /\ [SqliteNext]_sqlVars
           /\ [UpdatesNext]_updVars /\ [NativeNext]_nativeVars /\ [InstNext]_instVars
           /\ [RequestNext]_requestVars /\ [BookNext]_bookVars /\ [RevNext]_revVars
           /\ component' = component
<1>1. CASE UNCHANGED svcVars
  BY <1>1 DEF svcVars
<1>2. CASE SvcNext
  <2>1. CASE ExportNext /\ OthersRest("exports")
    BY <1>2, <2>1 DEF OthersRest, SvcNext
  <2>2. CASE MigNext /\ OthersRest("migration")
    BY <1>2, <2>2 DEF OthersRest, SvcNext
  <2>3. CASE RequestNext /\ OthersRest("requests")
    BY <1>2, <2>3 DEF OthersRest, SvcNext
  <2>4. CASE BookNext /\ OthersRest("translation")
    BY <1>2, <2>4 DEF OthersRest, SvcNext
  <2>5. CASE RevNext /\ OthersRest("review")
    BY <1>2, <2>5 DEF OthersRest, SvcNext
  <2>6. CASE SqliteNext /\ OthersRest("sqlite")
    BY <1>2, <2>6 DEF OthersRest, SvcNext
  <2>7. CASE UpdatesNext /\ OthersRest("updates")
    BY <1>2, <2>7 DEF OthersRest, SvcNext
  <2>8. CASE NativeNext /\ OthersRest("native")
    BY <1>2, <2>8 DEF OthersRest, SvcNext
  <2>9. CASE InstNext /\ OthersRest("admission")
    BY <1>2, <2>9 DEF OthersRest, SvcNext
  <2>10. QED
    BY <1>2, <2>1, <2>2, <2>3, <2>4, <2>5, <2>6, <2>7, <2>8, <2>9 DEF SvcNext
<1>3. QED BY <1>1, <1>2

THEOREM EveryComponentKeepsItsSpecification ==
    SvcSpec => /\ ExportSpec /\ MigSpec /\ SqliteSpec /\ UpdSpec /\ NativeSpec /\ InstSpec
               /\ RequestSpec /\ BookSpec /\ RevSpec
<1>1. SvcInit => /\ ExportInit /\ MigInit /\ SqliteInit /\ UpdatesInit /\ NativeInit /\ InstInit
                 /\ RequestInit /\ BookInit /\ RevInit
  BY DEF SvcInit
<1>2. QED
  BY <1>1, OwnStep, PTL DEF SvcSpec, ExportSpec, MigSpec, SqliteSpec, UpdSpec, NativeSpec, InstSpec,
     RequestSpec, BookSpec, RevSpec

-----------------------------------------------------------------------------
(* The properties of the composition.                                      *)

\* The variables of the component a behaviour is about keep their types (SvcTypeOK).
THEOREM ComponentsTyped == SvcSpec => []SvcTypeOK
<1>1. /\ ExportTypeOK /\ MigTypeOK /\ RequestTypeOK /\ BookTypeOK /\ RevTypeOK
      /\ SqliteTypeOK /\ UpdatesTypeOK /\ NativeTypeOK /\ InstTypeOK
      => SvcTypeOK
  BY DEF SvcTypeOK
<1>2. SvcSpec => /\ []ExportTypeOK /\ []MigTypeOK /\ []RequestTypeOK /\ []BookTypeOK /\ []RevTypeOK
                 /\ []SqliteTypeOK /\ []UpdatesTypeOK /\ []NativeTypeOK /\ []InstTypeOK
  BY EveryComponentKeepsItsSpecification, ExportsTyped, MigrationTyped, RequestsTyped,
     ResumedExactly, ReviewTypes, ConnectionsTyped, UpdatesTyped, FilesTyped, InstancesTyped, PTL
<1>3. QED BY <1>1, <1>2, PTL

\* The catalog of the composition (CatalogIsSound): whichever component a behaviour is about,
\* its exports agree with their files and tasks, and its imports are all or nothing.
THEOREM CatalogSound == SvcSpec => []CatalogIsSound
<1>1. ExportsAreConsistent /\ ImportsAreSound => CatalogIsSound
  BY DEF CatalogIsSound
<1>2. QED
  BY <1>1, EveryComponentKeepsItsSpecification, ExportsTellOneStory, ImportsStaySound, PTL

\* The processes of the desktop (HostIsSafe): updates, admissions and files.
THEOREM HostSafe == SvcSpec => []HostIsSafe
<1>1. /\ UpdatesAreSafe /\ UpgradesAreAlone /\ LaunchesReachTheOwner
      /\ PublishedFilesAreComplete /\ UploadsAreWhole
      => HostIsSafe
  BY DEF HostIsSafe
<1>2. QED
  BY <1>1, EveryComponentKeepsItsSpecification, UpdatesSafe, UpgradesRunAlone, LaunchesReachOwners,
     PublishedFilesComplete, UploadsWhole, PTL

\* The translation of a book (TranslationIsSound), in the composition: provider calls stay
\* within the limits of their routes, and an interrupted invocation goes on exactly where it was.
THEOREM TranslationSound == SvcSpec => []TranslationIsSound
<1>1. LimitsHold /\ ResumptionIsExact => TranslationIsSound
  BY DEF TranslationIsSound
<1>2. QED
  BY <1>1, EveryComponentKeepsItsSpecification, LimitsAlwaysHold, ResumedExactly, PTL

\* The reviews of a book (ReviewsAreSound), in the composition: a review goes on with what it
\* has decided, and what it says of the book in the end is supported by its scans.
THEOREM ReviewsSound == SvcSpec => []ReviewsAreSound
<1>1. ReviewsGoOn /\ VerdictsAreSupported => ReviewsAreSound
  BY DEF ReviewsAreSound
<1>2. QED
  BY <1>1, EveryComponentKeepsItsSpecification, ReviewsGoOnSoundly, ReviewVerdictsSupported, PTL

\* The connections of a storage (ConnectionsAreSound), in the composition.
THEOREM ConnectionsSound == SvcSpec => []ConnectionsAreSound
BY EveryComponentKeepsItsSpecification, ConnectionsCorrect, PTL

\* What a step of the composition may never do: unpublish an export or take away the file of
\* a download (PublicationsLast), give out a number an old workspace has used
\* (ReservedNumbersAreTheSources), replace a file the user has not confirmed
\* (OnlyConfirmedFilesAreReplaced), publish one once the host is ending (ClosingStopsSaves) or
\* replace a formal target of a chapter (FormalTextIsKept).
THEOREM StepsLoseNothing ==
    SvcSpec => /\ PublicationsLast /\ ReservedNumbersAreTheSources
               /\ OnlyConfirmedFilesAreReplaced /\ ClosingStopsSaves /\ FormalTextIsKept
<1>1. SvcSpec => PublicationsLast
  BY EveryComponentKeepsItsSpecification, PublicationsStay, PTL
<1>2. SvcSpec => ReservedNumbersAreTheSources
  BY EveryComponentKeepsItsSpecification, ReservationsHold, PTL
<1>3. SvcSpec => OnlyConfirmedFilesAreReplaced
  BY EveryComponentKeepsItsSpecification, ConfirmedFilesAreReplaced, PTL
<1>4. SvcSpec => ClosingStopsSaves
  BY EveryComponentKeepsItsSpecification, ClosingIsTheEnd, PTL
<1>5. SvcSpec => FormalTextIsKept
  BY EveryComponentKeepsItsSpecification, TextIsKept, PTL
<1>6. QED BY <1>1, <1>2, <1>3, <1>4, <1>5, PTL

===============================================================================
