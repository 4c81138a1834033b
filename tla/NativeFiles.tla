------------------------------ MODULE NativeFiles ------------------------------
(***************************************************************************)
(* The native side of Desktop writes what a user saves and reads what a    *)
(* user drops (native_export.rs, native_drop.rs, publish.rs).  Saves run   *)
(* in threads; they, uploads and an explicit quit meet in the mutex of     *)
(* Saves, while other programs change the same folder at any time.         *)
(***************************************************************************)
EXTENDS Naturals, FiniteSets

CONSTANTS
    SaveThreads,    \* saves; each publishes at most one file, which is named for it
    FilePaths,      \* names in the chosen folder
    UserFiles,      \* files of the user (inodes)
    MAX_GRANTS,
    MAX_SOURCE_IDENTITIES, MAX_SOURCE_ALIASES,
    MaxFileChanges  \* bound: changes by other programs

ASSUME NativeFilesAssumption ==
    /\ SaveThreads \cap UserFiles = {} /\ "nothing" \notin SaveThreads \cup UserFiles
    /\ {MAX_GRANTS, MAX_SOURCE_IDENTITIES, MAX_SOURCE_ALIASES, MaxFileChanges} \subseteq Nat

VARIABLES
    names,          \* the file each name leads to, or nothing
    version,        \* the contents of a file: they change the size or the time of it
    saves,          \* each save: where it is, its Target, its temporary file
    ending,         \* Activity.closing
    sources,        \* Activity.sources
    aliases,        \* Activity.aliases
    grants,         \* Grants: dropped files
    upload,         \* the upload, if one is under way
    posted,         \* history: files of which an upload has sent something
    swapped,        \* history: saves whose files were changed after the last look at them
    fileChanges

nativeDisk == <<names, version>>
nativeSources == <<sources, aliases>>
nativeUploads == <<grants, upload, posted>>
nativeVars == <<nativeDisk, saves, ending, nativeSources, nativeUploads, swapped, fileChanges>>

Nothing == "nothing"
AllFiles == SaveThreads \cup UserFiles
Free == <<Nothing, 0>>
\* What a look at a name tells: the file and the state of it.
Inspect(n) == IF names[n] = Nothing THEN Free ELSE <<names[n], version[names[n]]>>
Inspections == {Free} \cup (AllFiles \X (0..MaxFileChanges))

NewSave == [at |-> "idle", path |-> Nothing, existing |-> Free, temporary |-> "none"]
NoGrant == [path |-> Nothing, file |-> Nothing, version |-> 0]
NoUpload == [at |-> "idle", grant |-> NoGrant, read |-> {}, chunks |-> 0]
Grants == [path : FilePaths, file : AllFiles, version : 0..MaxFileChanges]

NativeTypeOK ==
    /\ names \in [FilePaths -> AllFiles \cup {Nothing}] /\ version \in [AllFiles -> 0..MaxFileChanges]
    /\ \A s \in SaveThreads :
          /\ saves[s].at \in {"idle", "planned", "chosen", "wait", "copy", "staged", "checked",
                              "ended", "saved"}
          /\ saves[s].path \in FilePaths \cup {Nothing} /\ saves[s].existing \in Inspections
          /\ saves[s].temporary \in {"none", "partial", "complete"}
    /\ ending \in BOOLEAN /\ sources \subseteq AllFiles /\ aliases \subseteq FilePaths
    /\ Cardinality(sources) <= MAX_SOURCE_IDENTITIES /\ Cardinality(aliases) <= MAX_SOURCE_ALIASES
    /\ grants \subseteq Grants /\ Cardinality(grants) <= MAX_GRANTS
    /\ upload.at \in {"idle", "protect", "send", "look", "read", "sent"}
    /\ upload.grant \in Grants \cup {NoGrant} /\ upload.chunks \in 0..2
    /\ posted \subseteq AllFiles /\ swapped \subseteq SaveThreads /\ fileChanges \in 0..MaxFileChanges

NativeInit ==
    /\ \E f \in [FilePaths -> UserFiles \cup {Nothing}] :
          names = f /\ \A m, n \in FilePaths : m # n => f[m] # f[n] \/ f[m] = Nothing
    /\ version = [f \in AllFiles |-> 0]
    /\ saves = [s \in SaveThreads |-> NewSave] /\ ending = FALSE
    /\ sources = {} /\ aliases = {} /\ grants = {} /\ upload = NoUpload
    /\ posted = {} /\ swapped = {} /\ fileChanges = 0

\* The final checks and the publication hold the mutex of Saves.
MutexFree == \A s \in SaveThreads : saves[s].at # "checked"
SaveAt(s, at) == saves[s].at = at
SaveGoes(s, at) == saves' = [saves EXCEPT ![s].at = at]
\* Temporary is dropped with the save.
SaveEnds(s) == saves' = [saves EXCEPT ![s].at = "ended", ![s].temporary = "none"]

\* protect: neither the name nor the file of a source.
Protected(n) == n \in aliases \/ names[n] \in sources
\* validate: what was inspected when the name was chosen is still there.
Valid(s) == Inspect(saves[s].path) = saves[s].existing /\ ~Protected(saves[s].path)

-----------------------------------------------------------------------------
(* Saving: plan, dialogs, generation, copy beside the destination, rename  *)

PlanSave(s) ==
    /\ SaveAt(s, "idle") /\ MutexFree /\ ~ending /\ SaveGoes(s, "planned")
    /\ UNCHANGED <<nativeDisk, ending, nativeSources, nativeUploads, swapped, fileChanges>>

\* Target::new looks at the name until two looks agree.
ChooseTarget(s, n) ==
    /\ SaveAt(s, "planned") /\ MutexFree
    /\ IF Protected(n) THEN SaveEnds(s)
       ELSE saves' = [saves EXCEPT ![s].path = n, ![s].existing = Inspect(n), ![s].at = "chosen"]
    /\ UNCHANGED <<nativeDisk, ending, nativeSources, nativeUploads, swapped, fileChanges>>

\* The user has confirmed to replace an existing file; the engine starts to generate.
BeginSave(s) ==
    /\ SaveAt(s, "chosen") /\ MutexFree
    /\ IF ending \/ ~Valid(s) THEN SaveEnds(s) ELSE SaveGoes(s, "wait")
    /\ UNCHANGED <<nativeDisk, ending, nativeSources, nativeUploads, swapped, fileChanges>>

StartCopy(s) ==
    /\ SaveAt(s, "wait") /\ MutexFree
    /\ IF ending \/ ~Valid(s) THEN SaveEnds(s)
       ELSE saves' = [saves EXCEPT ![s].at = "copy", ![s].temporary = "partial"]
    /\ UNCHANGED <<nativeDisk, ending, nativeSources, nativeUploads, swapped, fileChanges>>

\* The announced length has been written; a transfer that is cut short ends the save.
FinishCopy(s) ==
    /\ SaveAt(s, "copy") /\ MutexFree
    /\ IF ending THEN SaveEnds(s)
       ELSE saves' = [saves EXCEPT ![s].at = "staged", ![s].temporary = "complete"]
    /\ UNCHANGED <<nativeDisk, ending, nativeSources, nativeUploads, swapped, fileChanges>>

\* Mutant: the mutex is taken without a look at closing.
LastLookWhileEnding(s) ==
    /\ SaveAt(s, "staged") /\ MutexFree
    /\ IF Valid(s) /\ saves[s].temporary = "complete" THEN SaveGoes(s, "checked") ELSE SaveEnds(s)
    /\ UNCHANGED <<nativeDisk, ending, nativeSources, nativeUploads, swapped, fileChanges>>

\* The mutex is taken, and everything checked again.
LastLook(s) ==
    /\ SaveAt(s, "staged") /\ MutexFree
    /\ IF ~ending /\ Valid(s) /\ saves[s].temporary = "complete"
       THEN SaveGoes(s, "checked") ELSE SaveEnds(s)
    /\ UNCHANGED <<nativeDisk, ending, nativeSources, nativeUploads, swapped, fileChanges>>

Publish(s) ==
    /\ names' = [names EXCEPT ![saves[s].path] = s]
    /\ saves' = [saves EXCEPT ![s].at = "saved", ![s].temporary = "none"]

\* Mutant: a rename for a new name, too.
PublishByRename(s) ==
    /\ SaveAt(s, "checked") /\ Publish(s)
    /\ UNCHANGED <<version, ending, nativeSources, nativeUploads, swapped, fileChanges>>

\* A new name is taken only if it is still free; a confirmed file is replaced.
PublishSave(s) ==
    /\ SaveAt(s, "checked")
    /\ IF saves[s].existing = Free /\ names[saves[s].path] # Nothing
       THEN SaveEnds(s) /\ UNCHANGED names
       ELSE Publish(s)
    /\ UNCHANGED <<version, ending, nativeSources, nativeUploads, swapped, fileChanges>>

\* A dialog is cancelled, a request or a file operation fails.
SaveFails(s) ==
    /\ saves[s].at \notin {"idle", "ended", "saved"} /\ SaveEnds(s)
    /\ UNCHANGED <<nativeDisk, ending, nativeSources, nativeUploads, swapped, fileChanges>>

\* Quit, or an update that may be taken back: a save looks at the flag under the mutex.
CloseNative ==
    /\ MutexFree /\ ending' = ~ending
    /\ UNCHANGED <<nativeDisk, saves, nativeSources, nativeUploads, swapped, fileChanges>>

-----------------------------------------------------------------------------
(* Dropping a source and uploading it                                      *)

\* Grant.validate: the retained file has not changed and its name still leads to it.
ValidGrant(g) == names[g.path] = g.file /\ version[g.file] = g.version

DropFile(n) ==
    /\ ~ending /\ upload.at = "idle" /\ Cardinality(grants) < MAX_GRANTS /\ names[n] # Nothing
    /\ grants' = grants \cup {[path |-> n, file |-> names[n], version |-> version[names[n]]]}
    /\ UNCHANGED <<nativeDisk, saves, ending, nativeSources, upload, posted, swapped, fileChanges>>

\* Expiry, release by the page, and clear.
ReleaseGrant(g) ==
    /\ grants' = grants \ {g}
    /\ UNCHANGED <<nativeDisk, saves, ending, nativeSources, upload, posted, swapped, fileChanges>>

TakeGrant(g) ==
    /\ upload.at = "idle" /\ ~ending /\ grants' = grants \ {g}
    /\ upload' = IF ValidGrant(g) THEN [NoUpload EXCEPT !.at = "protect", !.grant = g] ELSE NoUpload
    /\ UNCHANGED <<nativeDisk, saves, ending, nativeSources, posted, swapped, fileChanges>>

\* protect_source, before anything is sent: its identity and its name stay protected.
ProtectSource ==
    LET g == upload.grant
        refused ==
            \/ ending
            \/ g.file \notin sources /\ Cardinality(sources) >= MAX_SOURCE_IDENTITIES
            \/ g.path \notin aliases /\ Cardinality(aliases) >= MAX_SOURCE_ALIASES
    IN
    /\ upload.at = "protect" /\ MutexFree
    /\ IF refused THEN UNCHANGED nativeSources
       ELSE sources' = sources \cup {g.file} /\ aliases' = aliases \cup {g.path}
    /\ upload' = IF ~refused /\ ValidGrant(g) THEN [upload EXCEPT !.at = "send"] ELSE NoUpload
    /\ UNCHANGED <<nativeDisk, saves, ending, grants, posted, swapped, fileChanges>>

\* The file is read in chunks, with a look at it before and after each.
LookAtSource ==
    /\ upload.at = "send" /\ upload.chunks < 2
    /\ upload' = IF ValidGrant(upload.grant) THEN [upload EXCEPT !.at = "look"] ELSE NoUpload
    /\ UNCHANGED <<nativeDisk, saves, ending, nativeSources, grants, posted, swapped, fileChanges>>

\* From the retained file, wherever its name leads to by now.
ReadChunk ==
    /\ upload.at = "look"
    /\ upload' = [upload EXCEPT !.at = "read", !.read = @ \cup {version[upload.grant.file]}]
    /\ UNCHANGED <<nativeDisk, saves, ending, nativeSources, grants, posted, swapped, fileChanges>>

SendChunk ==
    /\ upload.at = "read"
    /\ IF ValidGrant(upload.grant)
       THEN /\ upload' = [upload EXCEPT !.at = IF upload.chunks = 1 THEN "sent" ELSE "send", !.chunks = @ + 1]
            /\ posted' = posted \cup {upload.grant.file}
       ELSE upload' = NoUpload /\ UNCHANGED posted
    /\ UNCHANGED <<nativeDisk, saves, ending, nativeSources, grants, swapped, fileChanges>>

\* Answered, refused or lost; the guard is released.
EndUpload ==
    /\ upload.at \in {"send", "sent"} /\ upload' = NoUpload
    /\ UNCHANGED <<nativeDisk, saves, ending, nativeSources, grants, posted, swapped, fileChanges>>

-----------------------------------------------------------------------------
(* Other programs                                                          *)

\* A name is removed, or leads to another file: a new one, or one of another name.
OthersRename(n, f) ==
    /\ fileChanges < MaxFileChanges /\ fileChanges' = fileChanges + 1
    /\ names[n] # f /\ names' = [names EXCEPT ![n] = f]
    /\ swapped' = swapped \cup {s \in SaveThreads : SaveAt(s, "checked") /\ saves[s].path = n}
    /\ UNCHANGED <<version, saves, ending, nativeSources, nativeUploads>>

OthersWrite(f) ==
    /\ fileChanges < MaxFileChanges /\ fileChanges' = fileChanges + 1
    /\ version' = [version EXCEPT ![f] = fileChanges']
    /\ swapped' = swapped \cup {s \in SaveThreads : SaveAt(s, "checked") /\ names[saves[s].path] = f}
    /\ UNCHANGED <<names, saves, ending, nativeSources, nativeUploads>>

\* The temporary file is an ordinary file of the chosen folder.
OthersTruncate(s) ==
    /\ fileChanges < MaxFileChanges /\ fileChanges' = fileChanges + 1
    /\ saves[s].temporary = "complete" /\ saves' = [saves EXCEPT ![s].temporary = "partial"]
    /\ swapped' = IF SaveAt(s, "checked") THEN swapped \cup {s} ELSE swapped
    /\ UNCHANGED <<nativeDisk, ending, nativeSources, nativeUploads>>

SaveStep(s) ==
    \/ PlanSave(s) \/ BeginSave(s) \/ StartCopy(s) \/ FinishCopy(s) \/ LastLook(s)
    \/ PublishSave(s) \/ SaveFails(s) \/ \E n \in FilePaths : ChooseTarget(s, n)

UploadStep == ProtectSource \/ LookAtSource \/ ReadChunk \/ SendChunk \/ EndUpload

NativeNext ==
    \/ \E s \in SaveThreads : SaveStep(s) \/ OthersTruncate(s)
    \/ CloseNative \/ UploadStep
    \/ \E n \in FilePaths : DropFile(n)
    \/ \E g \in grants : ReleaseGrant(g) \/ TakeGrant(g)
    \/ \E n \in FilePaths, f \in UserFiles \cup {Nothing} : OthersRename(n, f)
    \/ \E f \in UserFiles : OthersWrite(f)

-----------------------------------------------------------------------------
(* Properties                                                              *)

Publishes(s) == saves[s].at # "saved" /\ saves'[s].at = "saved"

\* A save replaces exactly the file its user has confirmed, never a source that is being or
\* has been uploaded, unless another program exchanges the file after the last look; under
\* a new name it replaces nothing even then (copy, publish_new).
OnlyConfirmedFilesAreReplaced ==
    [][\A s \in SaveThreads : Publishes(s) =>
          LET n == saves[s].path IN
          /\ s \notin swapped => Inspect(n) = saves[s].existing /\ names[n] \notin posted
          /\ saves[s].existing = Free => names[n] = Nothing]_nativeVars

\* Nothing is published once the application closes.
ClosingStopsSaves ==
    [][ending => \A s \in SaveThreads : ~Publishes(s)]_nativeVars

\* What is about to be published is complete, unless another program cuts it short after
\* the last look (copy).
PublishedFilesAreComplete ==
    \A s \in SaveThreads :
        saves[s].at = "checked" /\ s \notin swapped => saves[s].temporary = "complete"

\* An upload that was sent to its end is the file that was dropped, not a mixture of what
\* it was at different times.
UploadsAreWhole ==
    upload.at = "sent" => upload.read = {upload.grant.version}

=============================================================================
