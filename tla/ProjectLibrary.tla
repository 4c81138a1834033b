---------------------------- MODULE ProjectLibrary ----------------------------
(***************************************************************************)
(* Desktop projects as directories and catalog rows: creation, a new       *)
(* source, import of a folder, removal, and the repair of a lost catalog   *)
(* (local_backend.py, catalog_recovery.py, paths.py, source_upload.py).    *)
(* Each request is a thread; between its steps the engine may crash, a     *)
(* drive may go away and the catalog may be lost.                          *)
(***************************************************************************)
EXTENDS Naturals, FiniteSets

CONSTANTS
    LibThreads,     \* requests under way at a time
    LibProjects,    \* project identities
    LibOps,         \* the operations threads may begin
    MaxLibCrashes,  \* bound: crashes of the engine
    MaxLibFaults    \* bound: file operations and commits that fail, losses of drive and catalog

ASSUME LibraryAssumption ==
    /\ MaxLibCrashes \in Nat /\ MaxLibFaults \in Nat
    /\ LibOps \subseteq {"create", "upload", "import", "remove"}
    /\ "none" \notin LibProjects

\* Directories of a project: below the workspace, the copy of an import beside it, below
\* a library on a drive, and one that no library owns.
Places == {"library", "staging", "drive", "outside"}
\* What they hold; "state" has the metadata a scan needs, "manifest" an initialized book.
Files == {"s1", "s2", "state", "manifest", "marker", "sentinel"}
Originals == {"s1", "s2"}
Nowhere == [root |-> "none", source |-> "none", deleting |-> FALSE]

VARIABLES
    folder,         \* files of a project in each place; none: the directory does not exist
    expects,        \* the source whose checksum the manifest records
    catalogRow,     \* the catalog row of each project, or Nowhere
    mounted,        \* the drive is there
    removing,       \* _removing_projects
    request,        \* what each thread does
    whole,          \* history: a complete project has existed
    asked,          \* history: its removal was accepted
    raced,          \* history: it was imported while another request for it was under way
    loose,          \* history: removal has begun with its files, or its drive moved meanwhile
    libCrashes, libFaults

libDisk == <<folder, expects, mounted>>
libHistory == <<whole, asked, raced, loose>>
libBounds == <<libCrashes, libFaults>>
libVars == <<libDisk, catalogRow, removing, request, libHistory, libBounds>>

NoRequest == [at |-> "idle", p |-> "none", dir |-> "none", source |-> "none"]

LibraryTypeOK ==
    /\ folder \in [LibProjects -> [Places -> SUBSET Files]]
    /\ expects \in [LibProjects -> Originals \cup {"none"}]
    /\ \A p \in LibProjects :
          /\ catalogRow[p].root \in {"none", "library", "drive"}
          /\ catalogRow[p].source \in Originals \cup {"none"} /\ catalogRow[p].deleting \in BOOLEAN
    /\ mounted \in BOOLEAN /\ removing \subseteq LibProjects
    /\ \A t \in LibThreads :
          /\ request[t].at \in {"idle", "insert", "invalidate", "publish", "clear", "copy", "verify",
                                "rename", "original", "record", "mark", "cleanup",
                                "sentinel", "row", "erase", "unlist"}
          /\ request[t].p \in LibProjects \cup {"none"} /\ request[t].dir \in Places \cup {"none"}
          /\ request[t].source \in Originals \cup {"none"}
    /\ \A history \in {whole, asked, raced, loose} : history \subseteq LibProjects
    /\ libCrashes \in 0..MaxLibCrashes /\ libFaults \in 0..MaxLibFaults

\* Nothing, or a folder of another installation: parsed only, or an initialized book.
LibraryInit ==
    /\ \E files \in {{}, {"s1", "state"}, {"s1", "state", "manifest", "marker"}} :
          /\ folder = [p \in LibProjects |-> [d \in Places |-> IF d = "outside" THEN files ELSE {}]]
          /\ expects = [p \in LibProjects |-> IF "manifest" \in files THEN "s1" ELSE "none"]
          /\ whole = IF files = {} THEN {} ELSE LibProjects
    /\ catalogRow = [p \in LibProjects |-> Nowhere]
    /\ mounted = TRUE /\ removing = {}
    /\ request = [t \in LibThreads |-> NoRequest]
    /\ asked = {} /\ raced = {} /\ loose = {}
    /\ libCrashes = 0 /\ libFaults = 0

There(p, d) == folder[p][d] # {} /\ (d = "drive" => mounted)
Listed(p) == catalogRow[p] # Nowhere
\* find_project: the directory whose name is the identity, or whose marker says so.
Named(p, d) == There(p, d) /\ (d = "staging" => "marker" \in folder[p][d])
Below(p, root) ==
    {d \in (IF root = "library" THEN {"library", "staging"} ELSE {root}) : Named(p, d)}
HasBook(p, d) == "state" \in folder[p][d] /\ folder[p][d] \cap Originals # {}

\* scan_project: the one source that agrees with the saved checksum.
Matching(p, d) == {s \in folder[p][d] \cap Originals : expects[p] \in {"none", s} \/ "manifest" \notin folder[p][d]}
Scans(p, d) == "state" \in folder[p][d] /\ Cardinality(Matching(p, d)) = 1

LibFails == libFaults < MaxLibFaults /\ libFaults' = libFaults + 1
Proceeds(t, at) == request' = [request EXCEPT ![t].at = at]
Ends(t) == request' = [request EXCEPT ![t] = NoRequest]
BeginsWith(t, at, p, d, s) ==
    request[t] = NoRequest /\ request' = [request EXCEPT ![t] = [at |-> at, p |-> p, dir |-> d, source |-> s]]
Begins(t, at, p, d) == BeginsWith(t, at, p, d, "none")
Holds(p, d, files) == folder' = [folder EXCEPT ![p][d] = files]
UnderWay(p) == \E t \in LibThreads : request[t].p = p
\* storage.lock of the project is held by a request.
LockedByRequest(p) ==
    \E t \in LibThreads : request[t].p = p /\ request[t].at \in {"invalidate", "publish", "sentinel", "row"}

-----------------------------------------------------------------------------
(* Creation, parsing and initialization, and another source                *)

CreateSaves(t, p, root) ==
    /\ "create" \in LibOps /\ \A d \in Places : folder[p][d] = {}
    /\ ~Listed(p) /\ p \notin whole /\ (root = "drive" => mounted)
    /\ ~UnderWay(p)
    /\ Begins(t, "insert", p, root) /\ Holds(p, root, {"s1"})
    /\ UNCHANGED <<expects, mounted, catalogRow, removing, libHistory, libBounds>>

CreateInserts(t) ==
    LET p == request[t].p IN
    /\ request[t].at = "insert" /\ Ends(t)
    /\ \/ /\ catalogRow' = [catalogRow EXCEPT ![p] =
                 [root |-> request[t].dir, source |-> "s1", deleting |-> FALSE]]
          /\ UNCHANGED <<folder, libFaults>>
       \/ /\ LibFails /\ (request[t].dir = "drive" => mounted)
          /\ Holds(p, request[t].dir, {}) /\ UNCHANGED catalogRow
    /\ UNCHANGED <<expects, mounted, removing, libHistory, libCrashes>>

\* A job opens the project it finds: storage_for leaves a marker, parsing its result,
\* preparation the manifest.
Parse(p) ==
    /\ Listed(p) /\ p \notin removing /\ ~LockedByRequest(p)
    /\ \E d \in Below(p, catalogRow[p].root) :
          /\ Below(p, catalogRow[p].root) = {d} /\ catalogRow[p].source \in folder[p][d]
          /\ \/ /\ Holds(p, d, folder[p][d] \cup {"marker", "state"})
                /\ UNCHANGED expects
             \/ /\ "state" \in folder[p][d] /\ "manifest" \notin folder[p][d]
                /\ Holds(p, d, folder[p][d] \cup {"manifest"})
                /\ expects' = [expects EXCEPT ![p] = catalogRow[p].source]
    /\ whole' = whole \cup {p}
    /\ UNCHANGED <<mounted, catalogRow, removing, request, asked, raced, loose, libBounds>>

UploadSaves(t, p) ==
    /\ "upload" \in LibOps /\ Listed(p) /\ p \notin removing /\ ~LockedByRequest(p)
    /\ \E d \in Below(p, catalogRow[p].root) :
          /\ Below(p, catalogRow[p].root) = {d} /\ "manifest" \notin folder[p][d]
          /\ "s2" \notin folder[p][d]
          /\ Begins(t, "invalidate", p, d) /\ Holds(p, d, folder[p][d] \cup {"s2", "marker"})
    /\ UNCHANGED <<expects, mounted, catalogRow, removing, libHistory, libBounds>>

\* The result of parsing is deleted; if that fails, so is the new source.
UploadInvalidates(t) ==
    LET p == request[t].p  d == request[t].dir IN
    /\ request[t].at = "invalidate"
    /\ \/ /\ There(p, d) /\ Holds(p, d, folder[p][d] \ {"state"}) /\ Proceeds(t, "publish")
          /\ whole' = whole \ {p} /\ UNCHANGED libFaults
       \/ LibFails /\ There(p, d) /\ Holds(p, d, folder[p][d] \ {"s2"}) /\ Ends(t) /\ UNCHANGED whole
       \/ ~There(p, d) /\ Ends(t) /\ UNCHANGED <<folder, whole, libFaults>>
    /\ UNCHANGED <<expects, mounted, catalogRow, removing, asked, raced, loose, libCrashes>>

\* A row that was deleted in the meantime is not written again.
NewSource(p) == catalogRow' = IF Listed(p) THEN [catalogRow EXCEPT ![p].source = "s2"] ELSE catalogRow

\* Mutant: a source whose publication reports an error is removed.
UploadPublishesOrUnlinks(t) ==
    LET p == request[t].p  d == request[t].dir IN
    /\ request[t].at = "publish" /\ There(p, d) /\ Ends(t)
    /\ \/ NewSource(p) /\ UNCHANGED <<folder, libFaults>>
       \/ LibFails /\ (NewSource(p) \/ UNCHANGED catalogRow) /\ Holds(p, d, folder[p][d] \ {"s2"})
    /\ UNCHANGED <<expects, mounted, removing, libHistory, libCrashes>>

\* The row is updated, perhaps without an acknowledgement: the file stays in any case.
UploadPublishes(t) ==
    /\ request[t].at = "publish" /\ Ends(t)
    /\ \/ NewSource(request[t].p) /\ UNCHANGED libFaults
       \/ LibFails /\ (NewSource(request[t].p) \/ UNCHANGED catalogRow)
    /\ UNCHANGED <<libDisk, removing, libHistory, libCrashes>>

-----------------------------------------------------------------------------
(* Import of a folder: copied beside its destination, compared, renamed;   *)
(* only then is the original removed                                       *)

ImportBegins(t, p, d) ==
    /\ "import" \in LibOps /\ d \in {"outside", "drive"} /\ There(p, d)
    /\ ~Listed(p) /\ folder[p]["library"] = {}
    /\ Scans(p, d) /\ \E s \in Matching(p, d) : BeginsWith(t, "clear", p, d, s)
    /\ asked' = asked \ {p} /\ loose' = loose \ {p} /\ whole' = whole \cup {p}
    /\ raced' = IF UnderWay(p) THEN raced \cup {p} ELSE raced
    /\ UNCHANGED <<libDisk, catalogRow, removing, libBounds>>

\* rmtree of what an earlier attempt left, in any order; errors are ignored.
ImportClears(t) ==
    LET p == request[t].p IN
    /\ request[t].at = "clear"
    /\ \/ folder[p]["staging"] = {} /\ Proceeds(t, "copy") /\ UNCHANGED <<folder, libFaults>>
       \/ \E f \in folder[p]["staging"] :
             Holds(p, "staging", folder[p]["staging"] \ {f}) /\ UNCHANGED <<request, libFaults>>
       \/ LibFails /\ folder[p]["staging"] # {} /\ Proceeds(t, "copy") /\ UNCHANGED folder
    /\ UNCHANGED <<expects, mounted, catalogRow, removing, libHistory, libCrashes>>

ImportCopies(t) ==
    LET p == request[t].p  d == request[t].dir IN
    /\ request[t].at = "copy"
    /\ \/ /\ There(p, d) /\ folder[p]["staging"] = {} /\ Proceeds(t, "verify") /\ UNCHANGED libFaults
          /\ Holds(p, "staging", folder[p][d])
       \/ /\ There(p, d) /\ folder[p]["staging"] = {} /\ LibFails /\ Proceeds(t, "cleanup")
          /\ \E some \in SUBSET folder[p][d] : Holds(p, "staging", some)
       \/ /\ ~There(p, d) \/ folder[p]["staging"] # {}
          /\ Proceeds(t, "cleanup") /\ UNCHANGED <<folder, libFaults>>
    /\ UNCHANGED <<expects, mounted, catalogRow, removing, libHistory, libCrashes>>

ImportVerifies(t) ==
    LET p == request[t].p IN
    /\ request[t].at = "verify"
    /\ Proceeds(t, IF There(p, request[t].dir) /\ folder[p]["staging"] = folder[p][request[t].dir]
               THEN "rename" ELSE "cleanup")
    /\ UNCHANGED <<libDisk, catalogRow, removing, libHistory, libBounds>>

ImportRenames(t) ==
    LET p == request[t].p  fits == folder[p]["library"] = {} /\ folder[p]["staging"] # {} IN
    /\ request[t].at = "rename" /\ Proceeds(t, IF fits THEN "original" ELSE "cleanup")
    /\ folder' = IF fits
                 THEN [folder EXCEPT ![p]["library"] = folder[p]["staging"], ![p]["staging"] = {}]
                 ELSE folder
    /\ UNCHANGED <<expects, mounted, catalogRow, removing, libHistory, libBounds>>

ImportCleansUp(t) ==
    /\ request[t].at = "cleanup" /\ Ends(t)
    /\ \/ Holds(request[t].p, "staging", {}) /\ UNCHANGED libFaults
       \/ LibFails /\ UNCHANGED folder
    /\ UNCHANGED <<expects, mounted, catalogRow, removing, libHistory, libCrashes>>

\* A leftover of the original is not an error.
ImportRemovesOriginal(t) ==
    LET p == request[t].p  d == request[t].dir IN
    /\ request[t].at = "original" /\ Proceeds(t, "record")
    /\ \/ There(p, d) /\ Holds(p, d, {}) /\ UNCHANGED libFaults
       \/ There(p, d) /\ LibFails /\ \E rest \in SUBSET folder[p][d] : Holds(p, d, rest)
       \/ ~There(p, d) /\ UNCHANGED <<folder, libFaults>>
    /\ UNCHANGED <<expects, mounted, catalogRow, removing, libHistory, libCrashes>>

ImportRecords(t) ==
    LET p == request[t].p IN
    /\ request[t].at = "record"
    /\ \/ /\ ~Listed(p) /\ Proceeds(t, "mark") /\ UNCHANGED libFaults
          /\ catalogRow' = [catalogRow EXCEPT ![p] =
                 [root |-> "library", source |-> request[t].source, deleting |-> FALSE]]
       \/ Listed(p) /\ Ends(t) /\ UNCHANGED <<catalogRow, libFaults>>
       \/ LibFails /\ Ends(t) /\ UNCHANGED catalogRow
    /\ UNCHANGED <<libDisk, removing, libHistory, libCrashes>>

\* mark_project creates the directory it does not find.
ImportMarks(t) ==
    LET p == request[t].p  found == Below(p, "library") IN
    /\ request[t].at = "mark" /\ Ends(t)
    /\ folder' = CASE found = {} -> [folder EXCEPT ![p]["library"] = {"marker"}]
                   [] Cardinality(found) = 1 ->
                        [folder EXCEPT ![p] = [d \in Places |-> IF d \in found THEN @[d] \cup {"marker"} ELSE @[d]]]
                   [] OTHER -> folder
    /\ UNCHANGED <<expects, mounted, catalogRow, removing, libHistory, libBounds>>

ImportStep(t) ==
    \/ ImportClears(t) \/ ImportCopies(t) \/ ImportVerifies(t) \/ ImportRenames(t)
    \/ ImportCleansUp(t) \/ ImportRemovesOriginal(t) \/ ImportRecords(t) \/ ImportMarks(t)

-----------------------------------------------------------------------------
(* Removal: a sentinel, the mark of the row, the files, the row            *)

Removed(t) == Ends(t) /\ removing' = removing \ {request[t].p}

\* A project that is not there is forgotten; one that is marked, taken up again.
RemoveBegins(t, p) ==
    LET found == Below(p, catalogRow[p].root) IN
    /\ "remove" \in LibOps /\ Listed(p) /\ p \notin removing
    /\ \/ /\ found = {} /\ request[t] = NoRequest
          /\ catalogRow' = [catalogRow EXCEPT ![p] = Nowhere] /\ UNCHANGED <<folder, removing, request>>
       \/ /\ \E d \in found : found = {d} /\ catalogRow[p].deleting /\ Begins(t, "erase", p, d)
          /\ UNCHANGED <<folder, removing, catalogRow>>
       \/ /\ ~catalogRow[p].deleting /\ ~LockedByRequest(p)
          /\ \E d \in found : /\ found = {d} /\ Begins(t, "sentinel", p, d)
                               /\ Holds(p, d, folder[p][d] \cup {"marker"})
          /\ removing' = removing \cup {p} /\ UNCHANGED catalogRow
    /\ UNCHANGED <<expects, mounted, libHistory, libBounds>>

RemoveWritesSentinel(t) ==
    LET p == request[t].p  d == request[t].dir IN
    /\ request[t].at = "sentinel"
    /\ \/ There(p, d) /\ Holds(p, d, folder[p][d] \cup {"sentinel"}) /\ Proceeds(t, "row") /\ UNCHANGED <<removing, libFaults>>
       \/ ~There(p, d) /\ Proceeds(t, "row") /\ UNCHANGED <<folder, removing, libFaults>>
       \/ LibFails /\ Removed(t) /\ UNCHANGED folder
    /\ UNCHANGED <<expects, mounted, catalogRow, libHistory, libCrashes>>

RemoveMarksRow(t) ==
    LET p == request[t].p IN
    /\ request[t].at = "row"
    /\ \/ /\ Listed(p) /\ catalogRow' = [catalogRow EXCEPT ![p].deleting = TRUE]
          /\ asked' = asked \cup {p} /\ Proceeds(t, "erase") /\ UNCHANGED <<removing, libFaults>>
       \/ ~Listed(p) /\ Removed(t) /\ UNCHANGED <<catalogRow, asked, libFaults>>
       \/ LibFails /\ Removed(t) /\ UNCHANGED <<catalogRow, asked>>
    /\ UNCHANGED <<libDisk, whole, raced, loose, libCrashes>>

\* rmtree in any order; what cannot be removed is left for another attempt.
RemoveErases(t) ==
    LET p == request[t].p  d == request[t].dir IN
    /\ request[t].at = "erase"
    /\ \/ \E f \in folder[p][d] :
             /\ There(p, d) /\ Holds(p, d, folder[p][d] \ {f})
             /\ loose' = loose \cup {p} /\ UNCHANGED <<request, removing, libFaults>>
       \/ ~There(p, d) /\ Proceeds(t, "unlist") /\ UNCHANGED <<folder, loose, removing, libFaults>>
       \/ There(p, d) /\ LibFails /\ Removed(t) /\ UNCHANGED <<folder, loose>>
    /\ UNCHANGED <<expects, mounted, catalogRow, whole, asked, raced, libCrashes>>

RemoveUnlists(t) ==
    /\ request[t].at = "unlist" /\ Removed(t)
    /\ \/ catalogRow' = [catalogRow EXCEPT ![request[t].p] = Nowhere] /\ UNCHANGED libFaults
       \/ LibFails /\ UNCHANGED catalogRow
    /\ UNCHANGED <<libDisk, libHistory, libCrashes>>

RemoveStep(t) == RemoveWritesSentinel(t) \/ RemoveMarksRow(t) \/ RemoveErases(t) \/ RemoveUnlists(t)

-----------------------------------------------------------------------------
(* Crashes, drives, a lost catalog and its repair                          *)

CrashEngine ==
    /\ libCrashes < MaxLibCrashes /\ libCrashes' = libCrashes + 1
    /\ \E t \in LibThreads : request[t] # NoRequest
    /\ request' = [t \in LibThreads |-> NoRequest] /\ removing' = {}
    /\ UNCHANGED <<libDisk, catalogRow, libHistory, libFaults>>

MoveDrive ==
    /\ mounted' = ~mounted /\ IF mounted THEN LibFails ELSE UNCHANGED libFaults
    /\ loose' = loose \cup {request[t].p : t \in {u \in LibThreads : request[u].at \in {"sentinel", "row"}}}
    /\ UNCHANGED <<folder, expects, catalogRow, removing, request, whole, asked, raced, libCrashes>>

EngineIdle == \A t \in LibThreads : request[t] = NoRequest

LoseCatalog ==
    /\ EngineIdle /\ LibFails /\ \E p \in LibProjects : Listed(p)
    /\ catalogRow' = [p \in LibProjects |-> Nowhere]
    /\ UNCHANGED <<libDisk, removing, request, libHistory, libCrashes>>

Restorable(p, d) == "sentinel" \notin folder[p][d] /\ Scans(p, d)

\* What recovery makes of a project: one directory of it, or none.
Restored(p) ==
    LET found == Below(p, "library") \cup Below(p, "drive") IN
    IF Cardinality(found) = 1 /\ \A d \in found : Restorable(p, d)
    THEN LET d == CHOOSE d \in found : TRUE IN
         [root |-> IF d = "drive" THEN "drive" ELSE "library",
          source |-> CHOOSE s \in Matching(p, d) : TRUE, deleting |-> FALSE]
    ELSE Nowhere

RepairCatalog ==
    /\ EngineIdle /\ \A p \in LibProjects : ~Listed(p)
    /\ catalogRow' = [p \in LibProjects |-> Restored(p)]
    /\ UNCHANGED <<libDisk, removing, request, libHistory, libBounds>>

LibraryNext ==
    \/ \E t \in LibThreads, p \in LibProjects :
          \/ \E root \in {"library", "drive"} : CreateSaves(t, p, root)
          \/ UploadSaves(t, p) \/ RemoveBegins(t, p)
          \/ \E d \in Places : ImportBegins(t, p, d)
    \/ \E t \in LibThreads :
          \/ CreateInserts(t) \/ UploadInvalidates(t) \/ UploadPublishes(t)
          \/ ImportStep(t) \/ RemoveStep(t)
    \/ \E p \in LibProjects : Parse(p)
    \/ CrashEngine \/ MoveDrive \/ LoseCatalog \/ RepairCatalog

LibrarySpec == LibraryInit /\ [][LibraryNext]_libVars

-----------------------------------------------------------------------------
(* Properties                                                              *)

\* Whatever import, crashes, failures and repairs do: a project nobody asked to remove is
\* complete somewhere (_adopt_directory: copy, proof and removal are separate steps),
\* unless it was imported while another request for it was under way (a second import
\* clears the copy that the first has verified).
OriginalsSurvive ==
    \A p \in whole \ (asked \cup raced) : \E d \in {"library", "drive", "outside"} : HasBook(p, d)

\* A listed project has the source its row names, in its own root (save_source before
\* create_project, publication after the directory).
SourceOfRowExists ==
    \A p \in LibProjects \ raced : Listed(p) /\ ~catalogRow[p].deleting =>
        \E d \in {"library", "staging", "drive"} :
            /\ d = "drive" <=> catalogRow[p].root = "drive"
            /\ catalogRow[p].source \in folder[p][d]

\* The row of an initialized book names the source it was made from, also after a repair.
ManifestAgreesWithRow ==
    \A p \in LibProjects \ raced, d \in {"library", "drive"} :
        Listed(p) /\ d = catalogRow[p].root /\ "manifest" \in folder[p][d] =>
            catalogRow[p].source = expects[p]

\* A project whose removal was accepted is not listed again, although the catalog was
\* lost, as long as removal has not begun with its files (its sentinel among them) and
\* its drive was there when the sentinel was to be written.
RemovedStaysRemoved ==
    \A p \in asked \ (loose \cup raced) : Listed(p) => catalogRow[p].deleting

\* The library of projects: see its parts.
LibraryIsSound ==
    OriginalsSurvive /\ SourceOfRowExists /\ ManifestAgreesWithRow /\ RemovedStaysRemoved

=============================================================================
