------------------------------ MODULE HostProofs ------------------------------
(***************************************************************************)
(* Theorems of what the threads and processes of a host share: its saves   *)
(* and uploads (NativeFiles), its workspace (InstanceAdmission), its       *)
(* updates (DesktopUpdates), the connections of its storages               *)
(* (SqliteConnections) and the review directories that one invocation      *)
(* leaves to the next (ReviewSessions), for any number of saves, names,    *)
(* files, hosts, engines, workspaces, ports, releases, threads,            *)
(* operations, issues, rounds and reviews.  The five share no variable;    *)
(* each theorem is about the behaviours of one.                            *)
(***************************************************************************)
EXTENDS NativeFiles, InstanceAdmission, DesktopUpdates, SqliteConnections, ReviewSessions,
        FiniteSetTheorems, SequenceTheorems, NaturalsInduction, WellFoundedInduction, TLAPS

NativeSpec == NativeInit /\ [][NativeNext]_nativeVars
InstSpec == InstInit /\ [][InstNext]_instVars
UpdSpec == UpdatesInit /\ [][UpdatesNext]_updVars

-----------------------------------------------------------------------------
(* NativeFiles: types                                                      *)

SavePlaces == {"idle", "planned", "chosen", "wait", "copy", "staged", "checked", "ended", "saved"}
SaveRecords == [at : SavePlaces, path : FilePaths \cup {Nothing}, existing : Inspections,
                temporary : {"none", "partial", "complete"}]
Uploads == [at : {"idle", "protect", "send", "look", "read", "sent"}, grant : Grants \cup {NoGrant},
            read : SUBSET (0..MaxFileChanges), chunks : 0..2]

\* What NativeTypeOK says, with the whole of the records and the finiteness its bounds need.
NativeTypes ==
    /\ names \in [FilePaths -> AllFiles \cup {Nothing}]
    /\ version \in [AllFiles -> 0..MaxFileChanges]
    /\ saves \in [SaveThreads -> SaveRecords]
    /\ \A s \in SaveThreads :
          saves[s].at \in {"chosen", "wait", "copy", "staged", "checked"} => saves[s].path \in FilePaths
    /\ ending \in BOOLEAN
    /\ sources \subseteq AllFiles /\ IsFiniteSet(sources)
    /\ Cardinality(sources) <= MAX_SOURCE_IDENTITIES
    /\ aliases \subseteq FilePaths /\ IsFiniteSet(aliases)
    /\ Cardinality(aliases) <= MAX_SOURCE_ALIASES
    /\ grants \subseteq Grants /\ IsFiniteSet(grants) /\ Cardinality(grants) <= MAX_GRANTS
    /\ upload \in Uploads
    /\ upload.at # "idle" => upload.grant \in Grants
    /\ upload.at \in {"look", "read"} => upload.chunks < 2
    /\ posted \subseteq AllFiles /\ swapped \subseteq SaveThreads
    /\ fileChanges \in 0..MaxFileChanges

LEMMA InspectionIsTyped ==
    ASSUME NativeTypes, NEW n \in FilePaths PROVE Inspect(n) \in Inspections
<1>1. CASE names[n] = Nothing
  BY <1>1 DEF Inspect, Inspections, Free
<1>2. CASE names[n] # Nothing
  <2>1. names[n] \in AllFiles /\ version[names[n]] \in 0..MaxFileChanges
    BY <1>2 DEF NativeTypes
  <2>2. QED BY <1>2, <2>1 DEF Inspect, Inspections
<1>3. QED BY <1>1, <1>2

\* A bounded set stays within its bound.
LEMMA AddingKeepsBound ==
    ASSUME NEW S, NEW x, NEW max \in Nat, IsFiniteSet(S), Cardinality(S) <= max,
           x \in S \/ Cardinality(S) < max
    PROVE  IsFiniteSet(S \cup {x}) /\ Cardinality(S \cup {x}) <= max
<1>1. Cardinality(S) \in Nat
  BY FS_CardinalityType
<1>2. /\ IsFiniteSet(S \cup {x})
      /\ Cardinality(S \cup {x}) = IF x \in S THEN Cardinality(S) ELSE Cardinality(S) + 1
  BY FS_AddElement
<1>3. QED BY <1>1, <1>2

LEMMA RemovingKeepsBound ==
    ASSUME NEW S, NEW x, NEW max \in Nat, IsFiniteSet(S), Cardinality(S) <= max
    PROVE  IsFiniteSet(S \ {x}) /\ Cardinality(S \ {x}) <= max
BY FS_RemoveElement, FS_CardinalityType

\* The steps of a save.
LEMMA SaveKeepsTypes ==
    ASSUME NativeTypes, NEW s \in SaveThreads, SaveStep(s) \/ OthersTruncate(s)
    PROVE  NativeTypes'
<1> USE DEF NativeTypes
<1>1. saves' \in [SaveThreads -> SaveRecords]
  <2>1. CASE \E n \in FilePaths : ChooseTarget(s, n)
    BY <2>1, InspectionIsTyped DEF ChooseTarget, SaveEnds, SaveRecords, SavePlaces
  <2>2. CASE ~\E n \in FilePaths : ChooseTarget(s, n)
    BY <2>2 DEF SaveStep, PlanSave, BeginSave, StartCopy, FinishCopy, LastLook, PublishSave, Publish,
                SaveFails, OthersTruncate, SaveGoes, SaveEnds, SaveRecords, SavePlaces
  <2>3. QED BY <2>1, <2>2
<1>2. names' \in [FilePaths -> AllFiles \cup {Nothing}]
  BY DEF SaveStep, PlanSave, ChooseTarget, BeginSave, StartCopy, FinishCopy, LastLook, PublishSave,
         Publish, SaveFails, OthersTruncate, nativeDisk, AllFiles
<1>3. fileChanges' \in 0..MaxFileChanges /\ swapped' \subseteq SaveThreads
  <2>1. CASE OthersTruncate(s)
    BY <2>1, NativeFilesAssumption DEF OthersTruncate
  <2>2. CASE SaveStep(s)
    BY <2>2 DEF SaveStep, PlanSave, ChooseTarget, BeginSave, StartCopy, FinishCopy, LastLook,
                PublishSave, SaveFails
  <2>3. QED BY <2>1, <2>2
<1>4. UNCHANGED <<version, ending, nativeSources, nativeUploads>>
  BY DEF SaveStep, PlanSave, ChooseTarget, BeginSave, StartCopy, FinishCopy, LastLook, PublishSave,
         SaveFails, OthersTruncate, nativeDisk
<1>5. ASSUME NEW t \in SaveThreads, saves'[t].at \in {"chosen", "wait", "copy", "staged", "checked"}
      PROVE  saves'[t].path \in FilePaths
  <2>1. CASE \E n \in FilePaths : ChooseTarget(s, n)
    BY <1>5, <2>1 DEF ChooseTarget, SaveEnds, SaveRecords, SavePlaces
  <2>2. CASE PlanSave(s) \/ SaveFails(s) \/ PublishSave(s) \/ OthersTruncate(s)
    BY <1>5, <2>2 DEF PlanSave, SaveFails, PublishSave, Publish, OthersTruncate, SaveGoes, SaveEnds,
                      SaveRecords, SavePlaces
  <2>3. CASE BeginSave(s) \/ StartCopy(s) \/ FinishCopy(s) \/ LastLook(s)
    BY <1>5, <2>3 DEF BeginSave, StartCopy, FinishCopy, LastLook, SaveAt, SaveGoes, SaveEnds,
                      SaveRecords, SavePlaces
  <2>4. QED BY <2>1, <2>2, <2>3 DEF SaveStep
<1>6. QED BY <1>1, <1>2, <1>3, <1>4, <1>5 DEF nativeSources, nativeUploads

\* Grants and the upload of a dropped file.
LEMMA UploadKeepsTypes ==
    ASSUME NativeTypes,
           \/ UploadStep
           \/ \E n \in FilePaths : DropFile(n)
           \/ \E g \in grants : ReleaseGrant(g) \/ TakeGrant(g)
    PROVE  NativeTypes'
<1> USE NativeFilesAssumption DEF NativeTypes
<1>1. ASSUME NEW n \in FilePaths, DropFile(n) PROVE NativeTypes'
  <2> DEFINE g == [path |-> n, file |-> names[n], version |-> version[names[n]]]
  <2>1. g \in Grants
    BY <1>1 DEF DropFile, Grants
  <2>2. IsFiniteSet(grants \cup {g}) /\ Cardinality(grants \cup {g}) <= MAX_GRANTS
    BY <1>1, AddingKeepsBound DEF DropFile
  <2>3. QED BY <1>1, <2>1, <2>2 DEF DropFile, nativeDisk, nativeSources
<1>2. ASSUME NEW g \in grants, ReleaseGrant(g) \/ TakeGrant(g) PROVE NativeTypes'
  <2>1. IsFiniteSet(grants \ {g}) /\ Cardinality(grants \ {g}) <= MAX_GRANTS
    BY RemovingKeepsBound
  <2>2. upload' \in Uploads /\ (upload'.at # "idle" => upload'.grant \in Grants)
           /\ (upload'.at \in {"look", "read"} => UNCHANGED upload)
    <3>1. CASE ReleaseGrant(g)
      BY <3>1 DEF ReleaseGrant
    <3>2. CASE TakeGrant(g)
      <4>1. g \in Grants
        BY <1>2
      <4>2. /\ upload' \in {NoUpload, [at |-> "protect", grant |-> g, read |-> {}, chunks |-> 0]}
        BY <3>2 DEF TakeGrant, NoUpload
      <4>3. QED BY <4>1, <4>2 DEF NoUpload, Uploads
    <3>3. QED BY <1>2, <3>1, <3>2
  <2>3. QED BY <1>2, <2>1, <2>2 DEF ReleaseGrant, TakeGrant, nativeDisk, nativeSources
<1>3. CASE ProtectSource
  <2> DEFINE g == upload.grant
  <2>1. g \in Grants /\ g.file \in AllFiles /\ g.path \in FilePaths
    BY <1>3 DEF ProtectSource, Grants
  <2>2. CASE UNCHANGED nativeSources
    BY <1>3, <2>2 DEF ProtectSource, NoUpload, Uploads, nativeDisk, nativeSources
  <2>3. CASE /\ sources' = sources \cup {g.file} /\ aliases' = aliases \cup {g.path}
             /\ g.file \in sources \/ Cardinality(sources) < MAX_SOURCE_IDENTITIES
             /\ g.path \in aliases \/ Cardinality(aliases) < MAX_SOURCE_ALIASES
    <3>1. IsFiniteSet(sources') /\ Cardinality(sources') <= MAX_SOURCE_IDENTITIES
      BY <2>3, AddingKeepsBound
    <3>2. IsFiniteSet(aliases') /\ Cardinality(aliases') <= MAX_SOURCE_ALIASES
      BY <2>3, AddingKeepsBound
    <3>3. QED BY <1>3, <2>1, <2>3, <3>1, <3>2 DEF ProtectSource, NoUpload, Uploads, nativeDisk
  <2>4. Cardinality(sources) \in Nat /\ Cardinality(aliases) \in Nat
    BY FS_CardinalityType
  <2>5. QED BY <1>3, <2>2, <2>3, <2>4 DEF ProtectSource
<1>4. CASE LookAtSource \/ ReadChunk \/ SendChunk \/ EndUpload
  <2>1. upload.at # "idle" /\ upload.grant \in Grants /\ upload.grant.file \in AllFiles
    BY <1>4 DEF LookAtSource, ReadChunk, SendChunk, EndUpload, Grants
  <2>2. upload' \in Uploads /\ (upload'.at # "idle" => upload'.grant \in Grants)
           /\ (upload'.at \in {"look", "read"} => upload'.chunks < 2)
    <3>1. CASE LookAtSource
      BY <2>1, <3>1 DEF LookAtSource, NoUpload, Uploads
    <3>2. CASE ReadChunk
      BY <2>1, <3>2 DEF ReadChunk, Uploads
    <3>3. CASE SendChunk
      <4>1. upload.chunks \in 0..1
        BY <3>3 DEF SendChunk, Uploads
      <4>2. \/ upload' = NoUpload
            \/ /\ upload'.at \in {"sent", "send"} /\ upload'.grant = upload.grant
               /\ upload' \in Uploads
        <5>1. CASE ValidGrant(upload.grant)
          <6>1. upload' = [upload EXCEPT !.at = IF upload.chunks = 1 THEN "sent" ELSE "send",
                                         !.chunks = upload.chunks + 1]
            BY <3>3, <5>1 DEF SendChunk
          <6>2. upload.chunks + 1 \in 0..2
            BY <4>1
          <6>3. QED BY <6>1, <6>2 DEF Uploads
        <5>2. CASE ~ValidGrant(upload.grant)
          BY <3>3, <5>2 DEF SendChunk
        <5>3. QED BY <5>1, <5>2
      <4>3. QED BY <2>1, <4>2 DEF NoUpload, Uploads
    <3>4. CASE EndUpload
      BY <3>4 DEF EndUpload, NoUpload, Uploads
    <3>5. QED BY <1>4, <3>1, <3>2, <3>3, <3>4
  <2>3. posted' \subseteq AllFiles
    BY <1>4, <2>1 DEF LookAtSource, ReadChunk, SendChunk, EndUpload
  <2>4. QED
    BY <1>4, <2>2, <2>3 DEF LookAtSource, ReadChunk, SendChunk, EndUpload, nativeDisk, nativeSources
<1>5. QED BY <1>1, <1>2, <1>3, <1>4 DEF UploadStep

LEMMA NativeTypesHold == NativeSpec => []NativeTypes
<1>1. NativeInit => NativeTypes
  <2> SUFFICES ASSUME NativeInit PROVE NativeTypes
    OBVIOUS
  <2>1. names \in [FilePaths -> AllFiles \cup {Nothing}]
    BY DEF NativeInit, AllFiles
  <2>2. NewSave \in SaveRecords
    BY DEF NewSave, SaveRecords, SavePlaces, Inspections
  <2>3. NoUpload \in Uploads
    BY DEF NoUpload, Uploads
  <2>4. Cardinality({}) = 0 /\ IsFiniteSet({})
    BY FS_EmptySet
  <2>5. version \in [AllFiles -> 0..MaxFileChanges] /\ fileChanges \in 0..MaxFileChanges
    BY NativeFilesAssumption DEF NativeInit
  <2>6. saves \in [SaveThreads -> SaveRecords] /\ \A s \in SaveThreads : saves[s].at = "idle"
    BY <2>2 DEF NativeInit, NewSave
  <2>7. 0 <= MAX_GRANTS /\ 0 <= MAX_SOURCE_IDENTITIES /\ 0 <= MAX_SOURCE_ALIASES
    BY NativeFilesAssumption
  <2>8. upload \in Uploads /\ upload.at = "idle"
    BY <2>3 DEF NativeInit, NoUpload
  <2>9. QED BY <2>1, <2>4, <2>5, <2>6, <2>7, <2>8 DEF NativeInit, NativeTypes
<1>2. NativeTypes /\ [NativeNext]_nativeVars => NativeTypes'
  <2> SUFFICES ASSUME NativeTypes, [NativeNext]_nativeVars PROVE NativeTypes'
    OBVIOUS
  <2>1. CASE CloseNative
    BY <2>1 DEF CloseNative, NativeTypes, nativeDisk, nativeSources, nativeUploads
  <2>2. ASSUME NEW n \in FilePaths, NEW f \in UserFiles \cup {Nothing}, OthersRename(n, f)
        PROVE  NativeTypes'
    BY <2>2, NativeFilesAssumption
       DEF OthersRename, NativeTypes, AllFiles, nativeSources, nativeUploads
  <2>3. ASSUME NEW f \in UserFiles, OthersWrite(f) PROVE NativeTypes'
    BY <2>3, NativeFilesAssumption
       DEF OthersWrite, NativeTypes, AllFiles, nativeSources, nativeUploads
  <2>4. CASE UNCHANGED nativeVars
    BY <2>4 DEF nativeVars, NativeTypes, nativeDisk, nativeSources, nativeUploads
  <2>5. QED BY <2>1, <2>2, <2>3, <2>4, SaveKeepsTypes, UploadKeepsTypes DEF NativeNext
<1>3. QED BY <1>1, <1>2, PTL DEF NativeSpec

\* The variables keep their types in every behaviour of the native side.
THEOREM FilesTyped == NativeSpec => []NativeTypeOK
<1>1. NativeTypes => NativeTypeOK
  BY DEF NativeTypes, NativeTypeOK, SaveRecords, SavePlaces, Uploads
<1>2. QED BY <1>1, NativeTypesHold, PTL

-----------------------------------------------------------------------------
(* NativeFiles: saving.  Whoever has looked for the last time holds the    *)
(* mutex, under which what it saw can be changed by other programs only.   *)

OneSaver == \A s, t \in SaveThreads : SaveAt(s, "checked") /\ SaveAt(t, "checked") => s = t

\* What the last look has found.
StillValid(s) == SaveAt(s, "checked") /\ s \notin swapped =>
                    Valid(s) /\ saves[s].temporary = "complete"

\* The file that is being uploaded has been protected before anything of it was sent.
UploadIsProtected ==
    upload.at \in {"send", "look", "read", "sent"} => upload.grant.file \in sources

SaveInv ==
    /\ OneSaver
    /\ \A s \in SaveThreads : StillValid(s)
    /\ ending => MutexFree
    /\ UploadIsProtected /\ posted \subseteq sources

\* A name that leads where it led, to a file that has not changed, stays valid.
LEMMA ValidStays ==
    ASSUME NEW s \in SaveThreads, UNCHANGED <<sources, aliases>>,
           saves'[s].path = saves[s].path, saves'[s].existing = saves[s].existing,
           names'[saves[s].path] = names[saves[s].path],
           names[saves[s].path] # Nothing =>
              version'[names[saves[s].path]] = version[names[saves[s].path]]
    PROVE  Valid(s)' <=> Valid(s)
<1>1. Inspect(saves[s].path)' = Inspect(saves[s].path)
  BY DEF Inspect
<1>2. Protected(saves[s].path)' <=> Protected(saves[s].path)
  BY DEF Protected
<1>3. QED BY <1>1, <1>2 DEF Valid

\* A save moves under the mutex, to its last look only if all it needs holds.
LEMMA SaveKeepsInv ==
    ASSUME NativeTypes, SaveInv, NEW s \in SaveThreads, SaveStep(s)
    PROVE  SaveInv'
<1>1. /\ UNCHANGED <<version, ending, sources, aliases, upload, posted, swapped>>
      /\ \A t \in SaveThreads : t # s => saves'[t] = saves[t]
  BY DEF SaveStep, PlanSave, ChooseTarget, BeginSave, StartCopy, FinishCopy, LastLook, PublishSave,
         Publish, SaveFails, SaveGoes, SaveEnds, nativeDisk, nativeSources, nativeUploads, NativeTypes
<1>2. CASE MutexFree
  <2>1. UNCHANGED names
    BY <1>2 DEF MutexFree, SaveStep, PlanSave, ChooseTarget, BeginSave, StartCopy, FinishCopy,
                LastLook, PublishSave, SaveFails, SaveAt, nativeDisk
  <2>2. \A t \in SaveThreads : SaveAt(t, "checked")' => t = s
    BY <1>1, <1>2 DEF MutexFree, SaveAt
  <2>3. SaveAt(s, "checked")' =>
           /\ LastLook(s) /\ ~ending /\ Valid(s) /\ saves[s].temporary = "complete"
           /\ saves'[s] = [saves[s] EXCEPT !.at = "checked"]
    <3>1. CASE LastLook(s)
      BY <3>1 DEF LastLook, SaveGoes, SaveEnds, SaveAt, NativeTypes, SaveRecords
    <3>2. CASE PublishSave(s) \/ SaveFails(s)
      BY <1>2, <3>2 DEF PublishSave, Publish, SaveFails, SaveEnds, SaveAt, NativeTypes, SaveRecords
    <3>3. CASE \E n \in FilePaths : ChooseTarget(s, n)
      BY <3>3 DEF ChooseTarget, SaveEnds, SaveAt, NativeTypes, SaveRecords
    <3>4. CASE PlanSave(s) \/ BeginSave(s) \/ StartCopy(s) \/ FinishCopy(s)
      BY <3>4 DEF PlanSave, BeginSave, StartCopy, FinishCopy, SaveGoes, SaveEnds, SaveAt, NativeTypes,
                  SaveRecords
    <3>5. QED BY <3>1, <3>2, <3>3, <3>4 DEF SaveStep
  <2>4. StillValid(s)'
    BY <1>1, <2>1, <2>3 DEF StillValid, Valid, Inspect, Protected, NativeTypes, SaveRecords
  <2>5. QED
    BY <1>1, <2>2, <2>3, <2>4
       DEF SaveInv, OneSaver, StillValid, MutexFree, SaveAt, UploadIsProtected
<1>3. CASE ~MutexFree
  <2>1. PublishSave(s) \/ SaveFails(s)
    BY <1>3 DEF SaveStep, PlanSave, ChooseTarget, BeginSave, StartCopy, FinishCopy, LastLook
  <2>2. saves'[s].at \in {"ended", "saved"}
    BY <2>1 DEF PublishSave, Publish, SaveFails, SaveEnds, NativeTypes, SaveRecords
  <2>3. ASSUME NEW t \in SaveThreads, SaveAt(t, "checked")'
        PROVE  t # s /\ SaveAt(t, "checked") /\ UNCHANGED names
    BY <1>1, <2>1, <2>2, <2>3
       DEF SaveInv, OneSaver, SaveAt, PublishSave, SaveFails, nativeDisk
  <2>4. ASSUME NEW t \in SaveThreads PROVE StillValid(t)'
    BY <1>1, <2>3 DEF SaveInv, StillValid, Valid, Inspect, Protected, SaveAt
  <2>5. QED
    BY <1>1, <2>3, <2>4 DEF SaveInv, OneSaver, MutexFree, SaveAt, UploadIsProtected
<1>4. QED BY <1>2, <1>3

\* An upload protects its source under the mutex, before it sends anything.
LEMMA UploadKeepsInv ==
    ASSUME NativeTypes, SaveInv,
           \/ UploadStep
           \/ \E n \in FilePaths : DropFile(n)
           \/ \E g \in grants : ReleaseGrant(g) \/ TakeGrant(g)
    PROVE  SaveInv'
<1>1. UNCHANGED <<names, version, saves, ending, swapped>>
  BY DEF UploadStep, DropFile, ReleaseGrant, TakeGrant, ProtectSource, LookAtSource, ReadChunk,
         SendChunk, EndUpload, nativeDisk
<1>2. CASE ProtectSource
  <2>1. MutexFree /\ sources \subseteq sources' /\ UNCHANGED posted
    BY <1>2 DEF ProtectSource, nativeSources
  <2>2. UploadIsProtected'
    BY <1>2 DEF ProtectSource, UploadIsProtected, NoUpload, NativeTypes, Uploads
  <2>3. QED
    BY <1>1, <2>1, <2>2 DEF SaveInv, OneSaver, StillValid, MutexFree, SaveAt
<1>3. CASE ~ProtectSource
  <2>1. UNCHANGED <<sources, aliases>>
    BY <1>3 DEF UploadStep, DropFile, ReleaseGrant, TakeGrant, LookAtSource, ReadChunk, SendChunk,
                EndUpload, nativeSources
  <2>2. UploadIsProtected'
    <3>1. CASE LookAtSource
      BY <2>1, <3>1 DEF SaveInv, UploadIsProtected, LookAtSource, NoUpload, NativeTypes, Uploads
    <3>2. CASE ReadChunk
      BY <2>1, <3>2 DEF SaveInv, UploadIsProtected, ReadChunk, NativeTypes, Uploads
    <3>3. CASE SendChunk
      <4>1. upload.grant.file \in sources
        BY <3>3 DEF SaveInv, UploadIsProtected, SendChunk
      <4>2. upload'.grant = upload.grant \/ upload' = NoUpload
        BY <3>3 DEF SendChunk, NativeTypes, Uploads
      <4>3. QED BY <2>1, <4>1, <4>2 DEF UploadIsProtected, NoUpload
    <3>4. CASE EndUpload
      BY <3>4 DEF EndUpload, UploadIsProtected, NoUpload
    <3>5. ASSUME NEW g \in grants, TakeGrant(g) PROVE UploadIsProtected'
      BY <3>5 DEF TakeGrant, UploadIsProtected, NoUpload
    <3>6. CASE UNCHANGED upload
      BY <2>1, <3>6 DEF SaveInv, UploadIsProtected
    <3>7. QED
      BY <1>3, <3>1, <3>2, <3>3, <3>4, <3>5, <3>6 DEF UploadStep, DropFile, ReleaseGrant
  <2>3. posted' \subseteq sources
    BY <1>3 DEF SaveInv, UploadIsProtected, UploadStep, DropFile, ReleaseGrant, TakeGrant,
                LookAtSource, ReadChunk, SendChunk, EndUpload
  <2>4. QED
    BY <1>1, <2>1, <2>2, <2>3
       DEF SaveInv, OneSaver, StillValid, Valid, Inspect, Protected, MutexFree, SaveAt
<1>4. QED BY <1>2, <1>3

\* Other programs, of which the saves that have looked are told by the history.
LEMMA OthersKeepInv ==
    ASSUME NativeTypes, SaveInv,
           \/ \E s \in SaveThreads : OthersTruncate(s)
           \/ \E n \in FilePaths, f \in UserFiles \cup {Nothing} : OthersRename(n, f)
           \/ \E f \in UserFiles : OthersWrite(f)
    PROVE  SaveInv'
<1>1. /\ UNCHANGED <<ending, sources, aliases, upload, posted>> /\ swapped \subseteq swapped'
      /\ \A s \in SaveThreads : saves'[s].at = saves[s].at /\ saves'[s].path = saves[s].path
                                  /\ saves'[s].existing = saves[s].existing
  BY DEF OthersTruncate, OthersRename, OthersWrite, nativeSources, nativeUploads, NativeTypes,
         SaveRecords
<1>2. ASSUME NEW s \in SaveThreads, SaveAt(s, "checked"), s \notin swapped'
      PROVE  /\ names'[saves[s].path] = names[saves[s].path]
             /\ names[saves[s].path] # Nothing =>
                   version'[names[saves[s].path]] = version[names[saves[s].path]]
             /\ saves'[s].temporary = saves[s].temporary
  <2>1. /\ saves[s].path \in FilePaths
        /\ names[saves[s].path] # Nothing => names[saves[s].path] \in AllFiles
    BY <1>2 DEF NativeTypes, SaveAt
  <2>2. ASSUME NEW t \in SaveThreads, OthersTruncate(t)
        PROVE  UNCHANGED <<names, version>> /\ saves'[s] = saves[s]
    BY <1>2, <2>2 DEF OthersTruncate, nativeDisk, NativeTypes
  <2>3. ASSUME NEW n \in FilePaths, NEW f \in UserFiles \cup {Nothing}, OthersRename(n, f)
        PROVE  UNCHANGED <<version, saves>> /\ names'[saves[s].path] = names[saves[s].path]
    BY <1>2, <2>1, <2>3 DEF OthersRename, NativeTypes
  <2>4. ASSUME NEW f \in UserFiles, OthersWrite(f)
        PROVE  /\ UNCHANGED <<names, saves>>
               /\ names[saves[s].path] # Nothing =>
                     version'[names[saves[s].path]] = version[names[saves[s].path]]
    BY <1>2, <2>1, <2>4 DEF OthersWrite, NativeTypes
  <2>5. QED BY <2>2, <2>3, <2>4
<1>3. ASSUME NEW s \in SaveThreads PROVE StillValid(s)'
  <2>1. CASE SaveAt(s, "checked") /\ s \notin swapped'
    <3>1. Valid(s) /\ saves[s].temporary = "complete"
      BY <1>1, <2>1 DEF SaveInv, StillValid
    <3>2. Valid(s)'
      BY <1>1, <1>2, <2>1, <3>1, ValidStays
    <3>3. QED BY <1>2, <2>1, <3>1, <3>2 DEF StillValid
  <2>2. CASE ~(SaveAt(s, "checked") /\ s \notin swapped')
    BY <1>1, <2>2 DEF StillValid, SaveAt
  <2>3. QED BY <2>1, <2>2
<1>4. QED BY <1>1, <1>3 DEF SaveInv, OneSaver, MutexFree, SaveAt, UploadIsProtected

LEMMA SavesHold == NativeSpec => []SaveInv
<1>1. NativeInit => SaveInv
  BY DEF NativeInit, SaveInv, OneSaver, StillValid, MutexFree, SaveAt, UploadIsProtected, NewSave,
         NoUpload
<1>2. NativeTypes /\ SaveInv /\ [NativeNext]_nativeVars => SaveInv'
  <2> SUFFICES ASSUME NativeTypes, SaveInv, [NativeNext]_nativeVars PROVE SaveInv'
    OBVIOUS
  <2>1. CASE CloseNative
    BY <2>1 DEF CloseNative, SaveInv, OneSaver, StillValid, Valid, Inspect, Protected, MutexFree,
                SaveAt, UploadIsProtected, nativeDisk, nativeSources, nativeUploads
  <2>2. CASE UNCHANGED nativeVars
    BY <2>2 DEF nativeVars, SaveInv, OneSaver, StillValid, Valid, Inspect, Protected, MutexFree,
                SaveAt, UploadIsProtected, nativeDisk, nativeSources, nativeUploads
  <2>3. QED BY <2>1, <2>2, SaveKeepsInv, UploadKeepsInv, OthersKeepInv DEF NativeNext
<1>3. QED BY <1>1, <1>2, NativeTypesHold, PTL DEF NativeSpec

LEMMA WhoPublishes ==
    ASSUME NativeTypes, [NativeNext]_nativeVars, NEW s \in SaveThreads, Publishes(s)
    PROVE  PublishSave(s)
<1>1. ASSUME NEW t \in SaveThreads, SaveStep(t) PROVE PublishSave(s)
  <2>1. t = s
    BY <1>1 DEF Publishes, SaveStep, PlanSave, ChooseTarget, BeginSave, StartCopy, FinishCopy,
                LastLook, PublishSave, Publish, SaveFails, SaveGoes, SaveEnds, NativeTypes
  <2>2. CASE \E n \in FilePaths : ChooseTarget(s, n)
    BY <2>2 DEF Publishes, ChooseTarget, SaveEnds, NativeTypes, SaveRecords
  <2>3. CASE PlanSave(s) \/ BeginSave(s) \/ StartCopy(s) \/ FinishCopy(s)
    BY <2>3 DEF Publishes, PlanSave, BeginSave, StartCopy, FinishCopy, SaveGoes, SaveEnds,
                NativeTypes, SaveRecords
  <2>4. CASE LastLook(s) \/ SaveFails(s)
    BY <2>4 DEF Publishes, LastLook, SaveFails, SaveGoes, SaveEnds, NativeTypes, SaveRecords
  <2>5. QED BY <1>1, <2>1, <2>2, <2>3, <2>4 DEF SaveStep
<1>2. CASE ~\E t \in SaveThreads : SaveStep(t)
  <2>1. CASE \E t \in SaveThreads : OthersTruncate(t)
    BY <2>1 DEF Publishes, OthersTruncate, NativeTypes, SaveRecords
  <2>2. CASE UNCHANGED saves
    BY <2>2 DEF Publishes
  <2>3. QED
    BY <1>2, <2>1, <2>2 DEF NativeNext, nativeVars, CloseNative, UploadStep, DropFile,
       ReleaseGrant, TakeGrant, ProtectSource, LookAtSource, ReadChunk, SendChunk, EndUpload,
       OthersRename, OthersWrite
<1>3. QED BY <1>1, <1>2

\* A save replaces exactly the file its user has confirmed, never a source of which an upload
\* has sent something, unless another program exchanges the file after the last look; under a
\* new name it replaces nothing even then.
THEOREM ConfirmedFilesAreReplaced == NativeSpec => OnlyConfirmedFilesAreReplaced
<1>1. NativeTypes /\ SaveInv /\ [NativeNext]_nativeVars =>
        [\A s \in SaveThreads : Publishes(s) =>
            LET n == saves[s].path IN
            /\ s \notin swapped => Inspect(n) = saves[s].existing /\ names[n] \notin posted
            /\ saves[s].existing = Free => names[n] = Nothing]_nativeVars
  <2> SUFFICES ASSUME NativeTypes, SaveInv, [NativeNext]_nativeVars, NEW s \in SaveThreads,
                      Publishes(s)
               PROVE  LET n == saves[s].path IN
                      /\ s \notin swapped => Inspect(n) = saves[s].existing /\ names[n] \notin posted
                      /\ saves[s].existing = Free => names[n] = Nothing
    OBVIOUS
  <2>1. PublishSave(s)
    BY WhoPublishes
  <2>2. saves[s].existing = Free => names[saves[s].path] = Nothing
    BY <2>1 DEF PublishSave, SaveEnds, Publishes, NativeTypes, SaveRecords
  <2>3. s \notin swapped => Valid(s)
    BY <2>1 DEF PublishSave, SaveInv, StillValid
  <2>4. QED BY <2>2, <2>3 DEF Valid, Protected, SaveInv
<1>2. QED BY <1>1, NativeTypesHold, SavesHold, PTL DEF NativeSpec, OnlyConfirmedFilesAreReplaced

\* Once the application closes nothing is published: who has looked before holds the mutex,
\* and the flag is set under it.
THEOREM ClosingIsTheEnd == NativeSpec => ClosingStopsSaves
<1>1. NativeTypes /\ SaveInv /\ [NativeNext]_nativeVars =>
        [ending => \A s \in SaveThreads : ~Publishes(s)]_nativeVars
  <2> SUFFICES ASSUME NativeTypes, SaveInv, [NativeNext]_nativeVars, ending,
                      NEW s \in SaveThreads, Publishes(s)
               PROVE  FALSE
    OBVIOUS
  <2>1. SaveAt(s, "checked")
    BY WhoPublishes DEF PublishSave
  <2>2. QED BY <2>1 DEF SaveInv, MutexFree, SaveAt
<1>2. QED BY <1>1, NativeTypesHold, SavesHold, PTL DEF NativeSpec, ClosingStopsSaves

\* What is about to be published is complete, unless another program cuts it short after
\* the last look.
THEOREM PublishedFilesComplete == NativeSpec => []PublishedFilesAreComplete
<1>1. SaveInv => PublishedFilesAreComplete
  BY DEF SaveInv, StillValid, SaveAt, PublishedFilesAreComplete
<1>2. QED BY <1>1, SavesHold, PTL

-----------------------------------------------------------------------------
(* NativeFiles: uploading.  The contents of a file never return to what     *)
(* they were, so a look that finds what was dropped speaks for all that     *)
(* was read before it.                                                      *)

UploadInv ==
    /\ \A f \in AllFiles : version[f] <= fileChanges
    /\ upload.at \in {"protect", "send", "look", "read"} =>
          \A x \in upload.read : upload.grant.version <= x /\ x <= version[upload.grant.file]
    /\ upload.at \in {"protect", "send", "look", "read", "sent"} =>
          upload.grant.version <= version[upload.grant.file]
    /\ upload.at = "read" => upload.read # {}
    /\ UploadsAreWhole

LEMMA UploadStepKeepsWhole ==
    ASSUME NativeTypes, UploadInv, UploadStep
    PROVE  UploadInv'
<1> DEFINE g == upload.grant
<1>1. /\ UNCHANGED <<version, fileChanges>> /\ upload.at # "idle"
      /\ g.file \in AllFiles /\ g.version \in Nat /\ version[g.file] \in Nat
      /\ upload.read \subseteq Nat /\ g.version <= version[g.file]
  BY NativeFilesAssumption
     DEF UploadStep, ProtectSource, LookAtSource, ReadChunk, SendChunk, EndUpload, nativeDisk,
         NativeTypes, Uploads, Grants, UploadInv
<1>2. CASE upload' = NoUpload
  BY <1>1, <1>2 DEF UploadInv, UploadsAreWhole, NoUpload
<1>3. CASE ProtectSource \/ LookAtSource
  <2>1. upload' = NoUpload \/ /\ upload'.grant = g /\ upload'.read = upload.read
                              /\ upload'.at \in {"send", "look"} /\ upload.at \in {"protect", "send"}
    BY <1>3 DEF ProtectSource, LookAtSource, NativeTypes, Uploads
  <2>2. QED BY <1>1, <1>2, <2>1 DEF UploadInv, UploadsAreWhole
<1>4. CASE ReadChunk
  <2>1. /\ upload'.grant = g /\ upload'.read = upload.read \cup {version[g.file]}
        /\ upload'.at = "read" /\ upload.at = "look"
    BY <1>4 DEF ReadChunk, NativeTypes, Uploads
  <2>2. QED BY <1>1, <2>1 DEF UploadInv, UploadsAreWhole
<1>5. CASE SendChunk /\ ValidGrant(g)
  <2>1. /\ upload'.grant = g /\ upload'.read = upload.read
        /\ upload'.at \in {"sent", "send"} /\ upload.at = "read"
    BY <1>5 DEF SendChunk, NativeTypes, Uploads
  <2>2. upload.read = {g.version}
    BY <1>1, <1>5, <2>1 DEF UploadInv, ValidGrant
  <2>3. QED BY <1>1, <2>1, <2>2 DEF UploadInv, UploadsAreWhole
<1>6. QED BY <1>2, <1>3, <1>4, <1>5 DEF UploadStep, SendChunk, EndUpload

\* An upload that was sent to its end is the file that was dropped, not a mixture of what it
\* was at different times.
THEOREM UploadsWhole == NativeSpec => []UploadsAreWhole
<1>1. NativeInit => UploadInv
  BY NativeFilesAssumption DEF NativeInit, UploadInv, UploadsAreWhole, NoUpload
<1>2. NativeTypes /\ UploadInv /\ [NativeNext]_nativeVars => UploadInv'
  <2> SUFFICES ASSUME NativeTypes, UploadInv, [NativeNext]_nativeVars PROVE UploadInv'
    OBVIOUS
  <2>1. ASSUME NEW g \in grants, TakeGrant(g) PROVE UploadInv'
    <3>1. g.file \in AllFiles /\ version[g.file] \in Nat /\ UNCHANGED <<version, fileChanges>>
      BY <2>1, NativeFilesAssumption DEF TakeGrant, NativeTypes, Grants, nativeDisk
    <3>2. \/ upload' = NoUpload
          \/ /\ upload'.at = "protect" /\ upload'.read = {} /\ upload'.grant = g
             /\ version[g.file] = g.version
      BY <2>1 DEF TakeGrant, ValidGrant, NoUpload
    <3>3. QED BY <3>1, <3>2 DEF UploadInv, UploadsAreWhole, NoUpload
  <2>2. ASSUME NEW f \in UserFiles, OthersWrite(f) PROVE UploadInv'
    <3>1. /\ UNCHANGED upload /\ fileChanges' = fileChanges + 1
          /\ \A e \in AllFiles : version'[e] = IF e = f THEN fileChanges + 1 ELSE version[e]
      BY <2>2 DEF OthersWrite, nativeUploads, NativeTypes, AllFiles
    <3>2. \A e \in AllFiles : version[e] \in Nat /\ version[e] <= fileChanges
      BY NativeFilesAssumption DEF NativeTypes, UploadInv
    <3>3. fileChanges \in Nat /\ \A e \in AllFiles : version[e] <= version'[e] /\ version'[e] \in Nat
      BY <3>1, <3>2, NativeFilesAssumption DEF NativeTypes
    <3>4. upload.at # "idle" =>
             /\ upload.grant.file \in AllFiles /\ upload.grant.version \in Nat
             /\ upload.read \subseteq Nat
      BY NativeFilesAssumption DEF NativeTypes, Uploads, Grants
    <3>5. QED BY <3>1, <3>2, <3>3, <3>4 DEF UploadInv, UploadsAreWhole
  <2>3. ASSUME UNCHANGED <<version, upload>>, fileChanges' \in {fileChanges, fileChanges + 1}
        PROVE  UploadInv'
    <3>1. fileChanges \in Nat /\ \A e \in AllFiles : version[e] \in Nat
      BY NativeFilesAssumption DEF NativeTypes
    <3>2. QED BY <2>3, <3>1 DEF UploadInv, UploadsAreWhole
  <2>4. CASE \E s \in SaveThreads : SaveStep(s)
    BY <2>3, <2>4 DEF SaveStep, PlanSave, ChooseTarget, BeginSave, StartCopy, FinishCopy, LastLook,
           PublishSave, SaveFails, nativeDisk, nativeUploads
  <2>5. QED
    BY <2>1, <2>2, <2>3, <2>4, UploadStepKeepsWhole
       DEF NativeNext, nativeVars, nativeDisk, nativeUploads, CloseNative, DropFile, ReleaseGrant,
           OthersRename, OthersTruncate
<1>3. UploadInv => UploadsAreWhole
  BY DEF UploadInv
<1>4. QED BY <1>1, <1>2, <1>3, NativeTypesHold, PTL DEF NativeSpec


-----------------------------------------------------------------------------
(* InstanceAdmission                                                       *)

LEMMA HostsEnd ==
    ASSUME InstTypeOK, NEW h \in Hosts, HostEnds(h)
    PROVE  /\ host' = [host EXCEPT ![h] = "gone"] /\ port' = [port EXCEPT ![h] = Nobody]
           /\ host' \in [Hosts -> {"none", "entering", "locked", "bound", "profile", "running",
                                  "closing", "gone"}]
           /\ port' \in [Hosts -> Ports \cup {Nobody}]
           /\ workspaceLock' \in [Places -> Hosts \cup {Nobody}]
           /\ UNCHANGED record
<1>1. workspaceLock' \in [Places -> Hosts \cup {Nobody}]
  BY DEF HostEnds, Unlocked, InstTypeOK
<1>2. QED BY <1>1 DEF HostEnds, HostGoes, InstTypeOK

LEMMA EnginesGo ==
    ASSUME InstTypeOK, NEW e \in AnyEngine,
           NEW at \in {"none", "spawned", "proved", "leased", "writing", "dead"}, EngineGoes(e, at)
    PROVE  sidecar' \in [AnyEngine -> {"none", "spawned", "proved", "leased", "writing", "dead"}]
BY DEF EngineGoes, InstTypeOK

LEMMA RefusalIsTyped ==
    ASSUME InstTypeOK, NEW h \in Hosts, launch' = [launch EXCEPT ![h].reply = "closing"]
    PROVE  launch' \in [Hosts -> [reply : {"none", "starting", "activated", "closing",
                                         "unreachable"}, by : Hosts \cup {Nobody}]]
BY DEF InstTypeOK

\* Launching a host and showing its window.
LEMMA LaunchKeepsTypes ==
    ASSUME InstTypeOK, NEW h \in Hosts,
           \/ Launch(h) \/ EnterWorkspace(h) \/ GiveUp(h) \/ EnterProfile(h) \/ Ready(h)
           \/ \E n \in Ports : Bind(h, n)
           \/ \E o \in Hosts : Forward(h, o)
    PROVE  InstTypeOK'
<1> USE InstanceAdmissionAssumption DEF InstTypeOK
<1>1. Home[h] \in Places
  OBVIOUS
<1>2. CASE Launch(h) \/ Ready(h)
  BY <1>2 DEF Launch, Ready, HostGoes, launchVars, engineVars
<1>3. CASE EnterWorkspace(h)
  <2>1. CASE runtimeLock[Home[h]] # Nobody
    <3>1. launch' \in [Hosts -> [reply : {"none", "starting", "activated", "closing",
                                         "unreachable"}, by : Hosts \cup {Nobody}]]
      <4>1. launch' = [launch EXCEPT ![h].reply = "closing"]
        BY <1>3, <2>1 DEF EnterWorkspace
      <4>2. QED BY <4>1, RefusalIsTyped
    <3>2. QED BY <1>3, <2>1, <3>1 DEF EnterWorkspace, HostGoes, engineVars
  <2>2. CASE runtimeLock[Home[h]] = Nobody
    <3> HIDE DEF InstTypeOK
    <3>1. /\ host' = [host EXCEPT ![h] = "locked"]
          /\ workspaceLock' = [workspaceLock EXCEPT ![Home[h]] = h]
          /\ UNCHANGED <<port, record, launchVars, engineVars, upgrade, hostCrashes>>
      BY <1>3, <2>2 DEF EnterWorkspace, HostGoes, launchVars
    <3>2. QED BY <1>1, <3>1 DEF InstTypeOK, launchVars, engineVars
  <2>3. QED BY <2>1, <2>2
<1>4. CASE GiveUp(h)
  BY <1>4 DEF GiveUp, HostGoes, engineVars
<1>5. CASE EnterProfile(h)
  <2>1. CASE GateIsFree
    BY <1>5, <2>1 DEF EnterProfile, HostGoes, launchVars, engineVars
  <2>2. CASE HostEnds(h) /\ UNCHANGED <<launchVars, engineVars, upgrade, hostCrashes>>
    BY <2>2, HostsEnd DEF launchVars, engineVars
  <2>3. QED BY <1>5, <2>1, <2>2 DEF EnterProfile
<1>6. ASSUME NEW n \in Ports, Bind(h, n) PROVE InstTypeOK'
  BY <1>1, <1>6 DEF Bind, HostGoes, launchVars, engineVars
<1>7. ASSUME NEW o \in Hosts, Forward(h, o) PROVE InstTypeOK'
  <2>1. WakeRunning(o, h) \/ WakeClosing(o, h) \/ WakeEarly(o, h)
    BY <1>7 DEF Forward
  <2>2. /\ shown' \subseteq Hosts /\ notified' \subseteq Hosts
        /\ pendingWake' \in [Hosts -> BOOLEAN]
        /\ launch' \in [Hosts -> [reply : {"none", "starting", "activated", "closing", "unreachable"},
                                  by : Hosts \cup {Nobody}]]
    <3>1. CASE WakeRunning(o, h)
      BY <3>1 DEF WakeRunning
    <3>2. CASE WakeClosing(o, h)
      BY <3>2 DEF WakeClosing
    <3>3. CASE WakeEarly(o, h)
      BY <3>3 DEF WakeEarly
    <3>4. QED BY <2>1, <3>1, <3>2, <3>3
  <2>3. QED BY <1>7, <2>2 DEF Forward, HostGoes, engineVars
<1>8. QED BY <1>2, <1>3, <1>4, <1>5, <1>6, <1>7

\* Engines, the end of hosts, and updates.
LEMMA EngineKeepsTypes ==
    ASSUME InstTypeOK,
           \/ \E h \in Hosts :
                 \/ StartHostEngine(h) \/ ReadProof(h) \/ TakeLease(h) \/ QuitHost(h)
                 \/ FinishQuit(h) \/ HostCrashes(h)
                 \/ TakeExclusive(h) \/ FindQuiet(h) \/ EndUpgrade(h)
           \/ \E e \in AnyEngine : StartLone(e) \/ LockRuntime(e) \/ EngineEnds(e)
    PROVE  InstTypeOK'
<1> USE InstanceAdmissionAssumption DEF InstTypeOK, AnyEngine
<1>1. ASSUME NEW h \in Hosts, StartHostEngine(h) \/ ReadProof(h) \/ TakeLease(h)
      PROVE  InstTypeOK'
  <2>1. \E at \in {"spawned", "proved", "leased", "dead"} : EngineGoes(h, at)
    BY <1>1 DEF StartHostEngine, ReadProof, TakeLease
  <2>2. sidecar' \in [AnyEngine -> {"none", "spawned", "proved", "leased", "writing", "dead"}]
    BY <2>1, EnginesGo
  <2>3. QED BY <1>1, <2>2 DEF StartHostEngine, ReadProof, TakeLease, hostVars, launchVars
<1>2. ASSUME NEW h \in Hosts, QuitHost(h) \/ FinishQuit(h) PROVE InstTypeOK'
  <2>1. CASE QuitHost(h)
    BY <2>1 DEF QuitHost, HostGoes, launchVars, engineVars
  <2>2. CASE FinishQuit(h)
    BY <2>2, HostsEnd DEF FinishQuit, launchVars, engineVars
  <2>3. QED BY <1>2, <2>1, <2>2
<1>3. ASSUME NEW h \in Hosts, HostCrashes(h) PROVE InstTypeOK'
  BY <1>3, HostsEnd DEF HostCrashes, NoUpgrade, launchVars, engineVars
<1>4. ASSUME NEW h \in Hosts, TakeExclusive(h) \/ FindQuiet(h) \/ EndUpgrade(h)
      PROVE  InstTypeOK'
  BY <1>4 DEF TakeExclusive, FindQuiet, EndUpgrade, NoUpgrade, hostVars, launchVars, engineVars
<1>5. ASSUME NEW e \in AnyEngine, StartLone(e) \/ LockRuntime(e) \/ EngineEnds(e)
      PROVE  InstTypeOK'
  <2>1. \E at \in {"leased", "writing", "dead"} : EngineGoes(e, at)
    BY <1>5 DEF StartLone, LockRuntime, EngineEnds
  <2>2. sidecar' \in [AnyEngine -> {"none", "spawned", "proved", "leased", "writing", "dead"}]
    BY <2>1, EnginesGo
  <2>3. runtimeLock' \in [Places -> AnyEngine \cup {Nobody}]
    BY <1>5 DEF StartLone, LockRuntime, EngineEnds, Unlocked
  <2>4. QED BY <1>5, <2>2, <2>3 DEF StartLone, LockRuntime, EngineEnds, hostVars, launchVars
<1>6. QED BY <1>1, <1>2, <1>3, <1>4, <1>5

\* The variables keep their types, whatever is launched, crashes and is updated.
THEOREM InstancesTyped == InstSpec => []InstTypeOK
<1>1. InstInit => InstTypeOK
  BY InstanceAdmissionAssumption DEF InstInit, InstTypeOK, NoRecord, NoUpgrade
<1>2. InstTypeOK /\ [InstNext]_instVars => InstTypeOK'
  <2> SUFFICES ASSUME InstTypeOK, [InstNext]_instVars PROVE InstTypeOK'
    OBVIOUS
  <2>1. CASE UNCHANGED instVars
    BY <2>1 DEF instVars, hostVars, launchVars, engineVars, InstTypeOK
  <2>2. QED BY <2>1, LaunchKeepsTypes, EngineKeepsTypes DEF InstNext
<1>3. QED BY <1>1, <1>2, PTL DEF InstSpec

-----------------------------------------------------------------------------
(* InstanceAdmission: updates.  From the moment a host has the profile for  *)
(* itself the gate stays closed, and all that could share the profile or    *)
(* take a lease passes the gate first.                                      *)

UpgradeInv ==
    /\ upgrade.at \in {"exclusive", "quiet"} => upgrade.host \in Hosts
    /\ upgrade.host \in Hosts =>
          /\ HostAt(upgrade.host, "running")
          /\ Sharers = {upgrade.host} /\ LiveWriters \subseteq {upgrade.host}
    /\ upgrade.at = "quiet" => LiveWriters = {}

LEMMA UpgradeStays ==
    ASSUME UpgradeInv, UNCHANGED upgrade,
           upgrade.host \in Hosts => /\ HostAt(upgrade.host, "running")'
                                     /\ Sharers' \subseteq Sharers
                                     /\ LiveWriters' \subseteq LiveWriters
    PROVE  UpgradeInv'
<1>1. upgrade.host \in Hosts => upgrade.host \in Sharers'
  BY DEF Sharers, HostAt
<1>2. QED BY <1>1 DEF UpgradeInv

LEMMA UpgradesHold == InstSpec => []UpgradeInv
<1>1. InstInit => UpgradeInv
  BY InstanceAdmissionAssumption DEF InstInit, UpgradeInv, NoUpgrade, Nobody
<1>2. InstTypeOK /\ UpgradeInv /\ [InstNext]_instVars => UpgradeInv'
  <2> SUFFICES ASSUME InstTypeOK, UpgradeInv, [InstNext]_instVars PROVE UpgradeInv'
    OBVIOUS
  <2> USE InstanceAdmissionAssumption DEF InstTypeOK
  <2>1. ASSUME NEW h \in Hosts,
               \/ Launch(h) \/ EnterWorkspace(h) \/ GiveUp(h) \/ EnterProfile(h) \/ Ready(h)
               \/ QuitHost(h) \/ FinishQuit(h)
               \/ \E n \in Ports : Bind(h, n)
               \/ \E o \in Hosts : Forward(h, o)
        PROVE  UpgradeInv'
    <3>1. UNCHANGED <<sidecar, upgrade>> /\ \A g \in Hosts : g # h => host'[g] = host[g]
      BY <2>1 DEF Launch, EnterWorkspace, GiveUp, EnterProfile, Ready, Bind, Forward, QuitHost,
                  FinishQuit, HostGoes, HostEnds, engineVars
    <3>2. LiveWriters' = LiveWriters
      BY <3>1 DEF LiveWriters
    <3>3. upgrade.host \in Hosts => /\ h # upgrade.host \/ UNCHANGED host
                                    /\ h \in Sharers' => h \in Sharers
      BY <2>1 DEF UpgradeInv, HostAt, Launch, EnterWorkspace, GiveUp, EnterProfile, GateIsFree,
                  Ready, Bind, Forward, QuitHost, FinishQuit, HostGoes, HostEnds, Sharers, Nobody
    <3>4. upgrade.host \in Hosts => Sharers' \subseteq Sharers
      BY <3>1, <3>3 DEF Sharers
    <3>5. QED BY <3>1, <3>2, <3>3, <3>4, UpgradeStays DEF UpgradeInv, HostAt
  <2>2. ASSUME NEW h \in Hosts, HostCrashes(h) PROVE UpgradeInv'
    <3>1. CASE upgrade.host = h
      BY <2>2, <3>1 DEF HostCrashes, NoUpgrade, UpgradeInv, Nobody
    <3>2. CASE upgrade.host # h
      <4>1. /\ UNCHANGED <<sidecar, upgrade>> /\ host'[h] = "gone"
            /\ \A g \in Hosts : g # h => host'[g] = host[g]
        BY <2>2, <3>2 DEF HostCrashes, HostEnds, HostGoes, engineVars
      <4>2. Sharers' \subseteq Sharers /\ LiveWriters' = LiveWriters
        BY <4>1 DEF Sharers, LiveWriters
      <4>3. QED BY <3>2, <4>1, <4>2, UpgradeStays DEF UpgradeInv, HostAt
    <3>3. QED BY <3>1, <3>2
  <2>3. ASSUME NEW h \in Hosts, StartHostEngine(h) \/ ReadProof(h) \/ TakeLease(h)
        PROVE  UpgradeInv'
    <3>1. /\ UNCHANGED <<host, upgrade>> /\ \A e \in AnyEngine : e # h => sidecar'[e] = sidecar[e]
          /\ h \notin Lone
      BY <2>3 DEF StartHostEngine, ReadProof, TakeLease, EngineGoes, hostVars
    <3>2. upgrade.host \in Hosts => sidecar'[h] \notin {"leased", "writing"}
      BY <2>3 DEF StartHostEngine, ReadProof, TakeLease, EngineGoes, GateIsFree, AnyEngine, Nobody
    <3>3. upgrade.host \in Hosts => Sharers' \subseteq Sharers /\ LiveWriters' \subseteq LiveWriters
      BY <3>1, <3>2 DEF Sharers, LiveWriters, AnyEngine
    <3>4. QED BY <3>1, <3>3, UpgradeStays DEF UpgradeInv, HostAt
  <2>4. ASSUME NEW e \in AnyEngine, StartLone(e) \/ LockRuntime(e) \/ EngineEnds(e)
        PROVE  UpgradeInv'
    <3>1. /\ UNCHANGED <<host, upgrade>> /\ \A d \in AnyEngine : d # e => sidecar'[d] = sidecar[d]
      BY <2>4 DEF StartLone, LockRuntime, EngineEnds, EngineGoes, hostVars
    <3>2. upgrade.host \in Hosts /\ sidecar'[e] \in {"leased", "writing"} =>
             sidecar[e] \in {"leased", "writing"}
      BY <2>4 DEF StartLone, LockRuntime, EngineEnds, EngineGoes, GateIsFree, AnyEngine, Nobody
    <3>3. upgrade.host \in Hosts => Sharers' \subseteq Sharers /\ LiveWriters' \subseteq LiveWriters
      BY <3>1, <3>2 DEF Sharers, LiveWriters, AnyEngine
    <3>4. QED BY <3>1, <3>3, UpgradeStays DEF UpgradeInv, HostAt
  <2>5. ASSUME NEW h \in Hosts, TakeExclusive(h) \/ FindQuiet(h) \/ EndUpgrade(h)
        PROVE  UpgradeInv'
    <3>1. UNCHANGED <<host, sidecar>>
      BY <2>5 DEF TakeExclusive, FindQuiet, EndUpgrade, hostVars, engineVars
    <3>2. Sharers' = Sharers /\ LiveWriters' = LiveWriters
      BY <3>1 DEF Sharers, LiveWriters
    <3>3. QED
      BY <2>5, <3>1, <3>2 DEF TakeExclusive, FindQuiet, EndUpgrade, NoUpgrade, UpgradeInv, HostAt,
                              Nobody
  <2>6. CASE UNCHANGED instVars
    BY <2>6 DEF instVars, hostVars, engineVars, UpgradeInv, HostAt, Sharers, LiveWriters
  <2>7. QED BY <2>1, <2>2, <2>3, <2>4, <2>5, <2>6 DEF InstNext
<1>3. QED BY <1>1, <1>2, InstancesTyped, PTL DEF InstSpec

\* While the profile is copied for an update nobody writes in it: no engine of another host,
\* none that outlived its host, none without a host, and not the own one.
THEOREM UpgradesRunAlone == InstSpec => []UpgradesAreAlone
<1>1. UpgradeInv => UpgradesAreAlone
  BY InstanceAdmissionAssumption
     DEF UpgradeInv, UpgradesAreAlone, Sharers, LiveWriters, AnyEngine
<1>2. QED BY <1>1, UpgradesHold, PTL

-----------------------------------------------------------------------------
(* InstanceAdmission: launches.  A record outlives the host that wrote it,  *)
(* so an answer counts only if it comes from the generation it names.       *)

\* What a launch that was answered has been promised.
Promised(h) ==
    LET o == launch[h].by IN
    /\ launch[h].reply \in {"starting", "activated"} => o \in Hosts /\ Home[o] = Home[h]
    /\ launch[h].reply = "activated" => o \in shown
    /\ launch[h].reply = "starting" =>
         \/ o \in shown \cup notified \/ HostAt(o, "gone")
         \/ pendingWake[o] /\ host[o] \in {"bound", "profile"}

LaunchInv ==
    /\ \A w \in Places : record[w].generation \in Hosts => Home[record[w].generation] = w
    /\ \A h \in Hosts : Listening(h) <=> host[h] \in {"bound", "profile", "running", "closing"}
    /\ \A h \in Hosts : Promised(h)

\* A step of host s alone, which tells no launch anything new.
LEMMA PromisesStay ==
    ASSUME InstTypeOK, LaunchInv, NEW s \in Hosts, shown \subseteq shown', notified \subseteq notified',
           \A h \in Hosts : h # s => host'[h] = host[h] /\ port'[h] = port[h]
                                       /\ pendingWake'[h] = pendingWake[h],
           \A h \in Hosts : launch'[h] = launch[h]
                              \/ launch'[h].reply \notin {"starting", "activated"},
           record' = record \/ \E n \in Ports :
               record' = [record EXCEPT ![Home[s]] = [port |-> n, generation |-> s]],
           Listening(s)' <=> host'[s] \in {"bound", "profile", "running", "closing"},
           HostAt(s, "gone") => host'[s] = "gone",
           pendingWake[s] /\ host[s] \in {"bound", "profile"} =>
               \/ s \in shown' \cup notified' \/ host'[s] = "gone"
               \/ pendingWake'[s] /\ host'[s] \in {"bound", "profile"}
    PROVE  LaunchInv'
<1>1. \A w \in Places : record'[w].generation \in Hosts => Home[record'[w].generation] = w
  <2>1. CASE record' = record
    BY <2>1 DEF LaunchInv
  <2>2. ASSUME NEW n \in Ports,
               record' = [record EXCEPT ![Home[s]] = [port |-> n, generation |-> s]],
               NEW w \in Places, record'[w].generation \in Hosts
        PROVE  Home[record'[w].generation] = w
    <3>1. CASE w = Home[s]
      BY <2>2, <3>1 DEF InstTypeOK
    <3>2. CASE w # Home[s]
      BY <2>2, <3>2 DEF LaunchInv, InstTypeOK
    <3>3. QED BY <3>1, <3>2
  <2>3. QED BY <2>1, <2>2
<1>2. \A h \in Hosts : Listening(h)' <=> host'[h] \in {"bound", "profile", "running", "closing"}
  BY DEF LaunchInv, Listening
<1>3. ASSUME NEW h \in Hosts PROVE Promised(h)'
  BY DEF LaunchInv, Promised, HostAt
<1>4. QED BY <1>1, <1>2, <1>3 DEF LaunchInv

LEMMA LaunchesHold == InstSpec => []LaunchInv
<1>1. InstInit => LaunchInv
  BY InstanceAdmissionAssumption DEF InstInit, LaunchInv, Promised, Listening, NoRecord, Nobody
<1>2. InstTypeOK /\ LaunchInv /\ [InstNext]_instVars => LaunchInv'
  <2> SUFFICES ASSUME InstTypeOK, LaunchInv, [InstNext]_instVars PROVE LaunchInv'
    OBVIOUS
  <2> USE InstanceAdmissionAssumption DEF InstTypeOK
  <2>1. ASSUME NEW h \in Hosts, Launch(h) \/ QuitHost(h) PROVE LaunchInv'
    BY <2>1, PromisesStay DEF Launch, QuitHost, HostGoes, HostAt, Listening, LaunchInv, launchVars
  <2>2. ASSUME NEW h \in Hosts, EnterWorkspace(h) \/ GiveUp(h) PROVE LaunchInv'
    <3>1. \A g \in Hosts : launch'[g] = launch[g]
                             \/ launch'[g].reply \notin {"starting", "activated"}
      BY <2>2 DEF EnterWorkspace, GiveUp
    <3>2. /\ UNCHANGED <<port, record, pendingWake, shown, notified>> /\ HostAt(h, "entering")
          /\ \A g \in Hosts : g # h => host'[g] = host[g]
          /\ host'[h] \in {"gone", "locked"}
      BY <2>2 DEF EnterWorkspace, GiveUp, HostGoes, HostAt
    <3>3. QED BY <3>1, <3>2, PromisesStay DEF HostAt, Listening, LaunchInv
  <2>3. ASSUME NEW h \in Hosts, NEW n \in Ports, Bind(h, n) PROVE LaunchInv'
    <3>1. /\ UNCHANGED <<launch, pendingWake, shown, notified>> /\ HostAt(h, "locked")
          /\ \A g \in Hosts : g # h => host'[g] = host[g] /\ port'[g] = port[g]
          /\ host'[h] = "bound" /\ port'[h] = n
          /\ record' = [record EXCEPT ![Home[h]] = [port |-> n, generation |-> h]]
      BY <2>3 DEF Bind, HostGoes, HostAt, launchVars
    <3>2. Listening(h)' <=> host'[h] \in {"bound", "profile", "running", "closing"}
      BY <3>1 DEF Listening, Nobody
    <3>3. QED BY <3>1, <3>2, PromisesStay DEF HostAt
  <2>4. ASSUME NEW h \in Hosts, EnterProfile(h) \/ FinishQuit(h) \/ HostCrashes(h)
        PROVE  LaunchInv'
    BY <2>4, PromisesStay DEF EnterProfile, FinishQuit, HostCrashes, HostEnds, HostGoes, HostAt,
                              Listening, LaunchInv, launchVars
  <2>5. ASSUME NEW h \in Hosts, Ready(h) PROVE LaunchInv'
    BY <2>5, PromisesStay DEF Ready, HostGoes, HostAt, Listening, LaunchInv
  <2>6. ASSUME NEW h \in Hosts, NEW o \in Hosts, Forward(h, o) PROVE LaunchInv'
    <3>1. /\ HostAt(h, "entering") /\ host' = [host EXCEPT ![h] = "gone"]
          /\ UNCHANGED <<port, record>>
          /\ Home[o] = Home[h] /\ host[o] \in {"bound", "profile", "running", "closing"} /\ o # h
      BY <2>6 DEF Forward, Answers, HostGoes, HostAt, LaunchInv, AnyEngine
    <3>2. /\ \A g \in Hosts : g # h => launch'[g] = launch[g]
          /\ shown \subseteq shown' /\ notified \subseteq notified'
          /\ \A g \in Hosts : pendingWake[g] => pendingWake'[g]
      BY <2>6 DEF Forward, WakeRunning, WakeClosing, WakeEarly
    <3>3. /\ launch'[h].reply \in {"starting", "activated"} => launch'[h].by = o
          /\ launch'[h].reply = "activated" => o \in shown'
          /\ launch'[h].reply = "starting" => pendingWake'[o] /\ host[o] \in {"bound", "profile"}
      BY <2>6, <3>1 DEF Forward, WakeRunning, WakeClosing, WakeEarly, HostAt
    <3>4. ASSUME NEW g \in Hosts PROVE Promised(g)'
      <4>1. CASE g = h
        BY <3>1, <3>3, <4>1 DEF Promised, HostAt
      <4>2. CASE g # h
        <5>1. Promised(g) /\ launch'[g] = launch[g]
          BY <3>2, <4>2 DEF LaunchInv
        <5>2. \A p \in Hosts : /\ HostAt(p, "gone") => HostAt(p, "gone")'
                               /\ host[p] \in {"bound", "profile"} => host'[p] = host[p]
          BY <3>1 DEF HostAt
        <5>3. QED BY <3>2, <5>1, <5>2 DEF Promised
      <4>3. QED BY <4>1, <4>2
    <3>5. QED BY <3>1, <3>4 DEF LaunchInv, Listening, HostAt
  <2>7. CASE UNCHANGED <<hostVars, launchVars>>
    BY <2>7 DEF hostVars, launchVars, LaunchInv, Promised, Listening, HostAt
  <2>8. QED
    BY <2>1, <2>2, <2>3, <2>4, <2>5, <2>6, <2>7
       DEF InstNext, instVars, StartHostEngine, ReadProof, TakeLease, TakeExclusive, FindQuiet,
           EndUpgrade, StartLone, LockRuntime, EngineEnds
<1>3. QED BY <1>1, <1>2, InstancesTyped, PTL DEF InstSpec

\* A launch that ends because the application runs already has reached the host of its own
\* workspace.  The window it was told of was shown; one it was told to wait for was shown or
\* reported as not restored, or will be when the host is up, unless that has gone.
THEOREM LaunchesReachOwners == InstSpec => []LaunchesReachTheOwner
<1>1. LaunchInv => LaunchesReachTheOwner
  BY DEF LaunchInv, Promised, LaunchesReachTheOwner
<1>2. QED BY <1>1, LaunchesHold, PTL

-----------------------------------------------------------------------------
(* DesktopUpdates: types                                                   *)

RowTypes ==
    /\ updPhase \in {"idle", "checking", "current", "available", "downloading", "ready", "installing", "error"}
    /\ updRelease \in Releases /\ updBytes \in Releases /\ fetched \in Releases
ThreadTypes ==
    /\ installing \in {"none", "begin", "lease", "claim", "saves", "prepare", "decide", "plan", "cancel",
                       "stop", "quiesce", "snapshot", "installer", "recover", "wait", "broken",
                       "window", "reopen", "unclaim", "failed", "restarted"}
    /\ starting \in {"spawn", "wait", "report", "done"}
    /\ quitting \in {"none", "close", "drain", "take", "leave", "exited"}
    /\ monitor \in {"look", "check", "report", "reported"}
FlagTypes ==
    /\ hostClosing \in BOOLEAN /\ hostError \in BOOLEAN /\ windowClosing \in BOOLEAN
    /\ saving \in [Savers -> {"none", "pending", "active"}] /\ savesClosed \in BOOLEAN
    /\ lease \in {"shared", "exclusive"} /\ other \in {"absent", "open", "orphan"}
HandleTypes ==
    spawned \in 0..MaxEngines /\ connection \in 0..spawned /\ child \in 0..spawned
ProcessTypes == engine \in [Engines -> {"none", "booting", "serving", "gone", "ended"}]
GateTypes ==
    childReady \in BOOLEAN /\ gate \in {"open", "closing", "host", "plugin"} /\ work \in BOOLEAN
FaultTypes == updFaults \in 0..MaxUpdFaults

\* UpdatesTypeOK, by what the actions change together.
UpdatesTypes ==
    /\ RowTypes /\ ThreadTypes /\ FlagTypes /\ HandleTypes /\ ProcessTypes /\ GateTypes /\ FaultTypes

LEMMA ThreadsKeepTypes ==
    ASSUME ThreadTypes, UpdatesNext PROVE ThreadTypes'
<1> USE DEF ThreadTypes, updThreads
<1>1. CASE InstallStep
  BY <1>1 DEF InstallStep, InstallGoesTo, ReadConnection, TakeProfile, Claim, CloseSaves, Prepare,
              PrepareReply, BackupPlan, CancelPreparation, StopEngine, Quiesce, Snapshot, Installer,
              Recover, RecoveryEnds, RecoveryFails, OpenWindow, ReopenSaves, Unclaim, InstallFails
<1>2. CASE \/ BeginCheck \/ EndCheck \/ BeginDownload \/ EndDownload \/ BeginInstall
           \/ StartEngine \/ StartEnds \/ StartReports
           \/ \E s \in Savers : ReserveSave(s) \/ ConfirmSave(s) \/ EndSave(s)
  BY <1>2 DEF BeginCheck, EndCheck, BeginDownload, EndDownload, BeginInstall, StartEngine, StartEnds,
              StartReports, ReserveSave, ConfirmSave, EndSave
<1>3. CASE \/ EngineRegisters \/ EngineCrashes \/ EngineWorks \/ EngineDecides \/ EngineFinishesWork
           \/ PluginOpensGate \/ OtherChanges \/ Monitor \/ RequestQuit \/ QuitStep
  BY <1>3 DEF EngineRegisters, EngineCrashes, EngineWorks, EngineDecides, EngineFinishesWork,
              PluginOpensGate, OtherChanges, Monitor, RequestQuit, QuitStep, QuitCloses, QuitWaits,
              QuitStopsEngine, QuitLeaves
<1>4. QED BY <1>1, <1>2, <1>3 DEF UpdatesNext

\* Which steps change what an update knows of its release, and how.
LEMMA RowsChange ==
    ASSUME UpdatesNext
    PROVE  \/ BeginCheck \/ EndCheck \/ BeginDownload \/ EndDownload \/ BeginInstall \/ InstallFails
           \/ UNCHANGED <<updRows, installing>>
           \/ UNCHANGED updRows /\ installing # "none" /\ installing' # "none"
<1> USE DEF updThreads
<1>1. CASE InstallStep
  BY <1>1 DEF InstallStep, InstallGoesTo, ReadConnection, TakeProfile, Claim, CloseSaves, Prepare,
              PrepareReply, BackupPlan, CancelPreparation, StopEngine, Quiesce, Snapshot, Installer,
              Recover, RecoveryEnds, RecoveryFails, OpenWindow, ReopenSaves, Unclaim
<1>2. CASE \/ StartEngine \/ StartEnds \/ StartReports
           \/ \E s \in Savers : ReserveSave(s) \/ ConfirmSave(s) \/ EndSave(s)
           \/ EngineRegisters \/ EngineCrashes \/ EngineWorks \/ EngineDecides \/ EngineFinishesWork
           \/ PluginOpensGate \/ OtherChanges \/ Monitor \/ RequestQuit \/ QuitStep
  BY <1>2 DEF StartEngine, StartEnds, StartReports, ReserveSave, ConfirmSave, EndSave,
              EngineRegisters, EngineCrashes, EngineWorks, EngineDecides, EngineFinishesWork,
              PluginOpensGate, OtherChanges, Monitor, RequestQuit, QuitStep, QuitCloses, QuitWaits,
              QuitStopsEngine, QuitLeaves
<1>3. QED BY <1>1, <1>2 DEF UpdatesNext

LEMMA RowsKeepTypes ==
    ASSUME RowTypes, UpdatesNext PROVE RowTypes'
BY RowsChange, UpdatesAssumption
   DEF RowTypes, Releases, updRows, BeginCheck, EndCheck, BeginDownload, EndDownload, BeginInstall,
       InstallFails

\* Which steps change the flags of the host, its saves and its leases.
LEMMA FlagsKeepTypes ==
    ASSUME FlagTypes, UpdatesNext PROVE FlagTypes'
<1> USE DEF FlagTypes, updHost, updSaves, updProfile
<1>1. CASE InstallStep
  <2>1. CASE ReadConnection \/ TakeProfile \/ Claim \/ CloseSaves \/ Prepare \/ PrepareReply \/ BackupPlan
    BY <2>1 DEF ReadConnection, TakeProfile, Claim, CloseSaves, Prepare, PrepareReply, BackupPlan
  <2>2. CASE CancelPreparation \/ StopEngine \/ Quiesce \/ Snapshot \/ Installer
    BY <2>2 DEF CancelPreparation, StopEngine, Unavailable, Quiesce, Snapshot, Installer
  <2>3. CASE \/ Recover \/ RecoveryEnds \/ RecoveryFails \/ OpenWindow \/ ReopenSaves \/ Unclaim
             \/ InstallFails
    BY <2>3 DEF Recover, RecoveryEnds, EngineConnects, EngineDoesNotConnect, RecoveryFails, OpenWindow,
                ReopenSaves, Unclaim, InstallFails
  <2>4. QED BY <1>1, <2>1, <2>2, <2>3 DEF InstallStep
<1>2. CASE \/ BeginCheck \/ EndCheck \/ BeginDownload \/ EndDownload \/ BeginInstall
           \/ StartEngine \/ StartEnds \/ StartReports
           \/ \E s \in Savers : ReserveSave(s) \/ ConfirmSave(s) \/ EndSave(s)
  BY <1>2 DEF BeginCheck, EndCheck, BeginDownload, EndDownload, BeginInstall, StartEngine, StartEnds,
              EngineConnects, EngineDoesNotConnect, StartReports, ReserveSave, ConfirmSave, EndSave
<1>3. CASE \/ EngineRegisters \/ EngineCrashes \/ EngineWorks \/ EngineDecides \/ EngineFinishesWork
           \/ PluginOpensGate \/ OtherChanges \/ Monitor \/ RequestQuit \/ QuitStep
  BY <1>3 DEF EngineRegisters, EngineCrashes, EngineWorks, EngineDecides, EngineFinishesWork,
              PluginOpensGate, OtherChanges, Monitor, RequestQuit, QuitStep, QuitCloses, QuitWaits,
              QuitStopsEngine, QuitLeaves
<1>4. QED BY <1>1, <1>2, <1>3 DEF UpdatesNext

\* Which steps change the engine processes and the host's handles of them.
LEMMA EnginesChange ==
    ASSUME UpdatesNext
    PROVE  \/ StartEngine \/ StartEnds \/ EngineRegisters \/ EngineCrashes
           \/ EngineWorks \/ EngineDecides \/ EngineFinishesWork \/ PluginOpensGate
           \/ QuitStopsEngine \/ Prepare \/ CancelPreparation \/ StopEngine \/ Recover \/ RecoveryEnds
           \/ UNCHANGED <<updEngine, connection>>
<1> USE DEF updHost, updEngine
<1>1. CASE InstallStep
  BY <1>1 DEF InstallStep, ReadConnection, TakeProfile, Claim, CloseSaves, PrepareReply, BackupPlan,
              Quiesce, Snapshot, Installer, RecoveryFails, OpenWindow, ReopenSaves, Unclaim, InstallFails
<1>2. CASE \/ BeginCheck \/ EndCheck \/ BeginDownload \/ EndDownload \/ BeginInstall \/ StartReports
           \/ \E s \in Savers : ReserveSave(s) \/ ConfirmSave(s) \/ EndSave(s)
           \/ OtherChanges \/ Monitor \/ RequestQuit \/ QuitCloses \/ QuitWaits \/ QuitLeaves
  BY <1>2 DEF BeginCheck, EndCheck, BeginDownload, EndDownload, BeginInstall, StartReports, ReserveSave,
              ConfirmSave, EndSave, OtherChanges, Monitor, RequestQuit, QuitCloses, QuitWaits, QuitLeaves
<1>3. QED BY <1>1, <1>2 DEF UpdatesNext, QuitStep

LEMMA EnginesKeepTypes ==
    ASSUME HandleTypes, ProcessTypes, GateTypes, UpdatesNext
    PROVE  HandleTypes' /\ ProcessTypes' /\ GateTypes'
<1> USE UpdatesAssumption DEF updEngine
<1>1. HandleTypes'
  <2>1. \/ UNCHANGED spawned
        \/ spawned < MaxEngines /\ spawned' = spawned + 1
    BY EnginesChange
       DEF StartEngine, Spawn, StartEnds, EngineConnects, EngineDoesNotConnect,
           EngineRegisters, EngineCrashes, EngineWorks, EngineDecides, EngineFinishesWork,
           PluginOpensGate, QuitStopsEngine, Prepare, CancelPreparation, Unavailable, StopEngine,
           Recover, RecoveryEnds, updHost
  <2>2. connection' \in {connection, spawned, 0} /\ child' \in {child, spawned', 0}
    BY EnginesChange
       DEF StartEngine, Spawn, StartEnds, EngineConnects, EngineDoesNotConnect,
           EngineRegisters, EngineCrashes, EngineWorks, EngineDecides, EngineFinishesWork,
           PluginOpensGate, QuitStopsEngine, Prepare, CancelPreparation, Unavailable, StopEngine,
           Recover, RecoveryEnds, updHost
  <2>3. QED BY <2>1, <2>2 DEF HandleTypes
<1>2. ProcessTypes'
  BY EnginesChange
     DEF HandleTypes, ProcessTypes, Engines, StartEngine, Spawn, StartEnds, EngineConnects,
         EngineDoesNotConnect, Exited, EngineRegisters, EngineCrashes, EngineWorks, EngineDecides,
         EngineFinishesWork, PluginOpensGate, QuitStopsEngine, ShutChildDown, Prepare,
         CancelPreparation, StopEngine, Recover, RecoveryEnds
<1>3. GateTypes'
  BY EnginesChange
     DEF GateTypes, StartEngine, Spawn, StartEnds, EngineConnects, EngineDoesNotConnect,
         EngineRegisters, EngineCrashes, EngineWorks, EngineDecides, EngineFinishesWork,
         PluginOpensGate, QuitStopsEngine, ShutChildDown, Prepare, CancelPreparation, StopEngine,
         Recover, RecoveryEnds
<1>4. QED BY <1>1, <1>2, <1>3

LEMMA FaultsAreCounted ==
    ASSUME FaultTypes, UpdatesNext PROVE FaultTypes'
<1>1. UNCHANGED updFaults \/ UpdFails
  <2>1. CASE InstallStep
    BY <2>1 DEF InstallStep, ReadConnection, TakeProfile, Claim, CloseSaves, Prepare, PrepareReply,
                BackupPlan, CancelPreparation, StopEngine, ShutChildDown, Quiesce, Snapshot, Installer,
                Recover, RecoveryEnds, EngineConnects, EngineDoesNotConnect, RecoveryFails, OpenWindow,
                ReopenSaves, Unclaim, InstallFails
  <2>2. CASE ~InstallStep
    BY <2>2 DEF UpdatesNext, BeginCheck, EndCheck, BeginDownload, EndDownload, BeginInstall,
                StartEngine, StartEnds, EngineConnects, EngineDoesNotConnect, StartReports,
                ReserveSave, ConfirmSave, EndSave, EngineRegisters, EngineCrashes, EngineWorks,
                EngineDecides, EngineFinishesWork, PluginOpensGate, OtherChanges, Monitor, RequestQuit,
                QuitStep, QuitCloses, QuitWaits, QuitStopsEngine, ShutChildDown, QuitLeaves
  <2>3. QED BY <2>1, <2>2
<1>2. QED BY <1>1, UpdatesAssumption DEF FaultTypes, UpdFails

LEMMA UpdatesTypesHold == UpdSpec => []UpdatesTypes
<1>1. UpdatesInit => UpdatesTypes
  <2> SUFFICES ASSUME UpdatesInit PROVE UpdatesTypes
    OBVIOUS
  <2>1. RowTypes
    BY UpdatesAssumption DEF UpdatesInit, RowTypes, Releases
  <2>. ThreadTypes /\ FlagTypes
    BY DEF UpdatesInit, ThreadTypes, FlagTypes
  <2>2. HandleTypes
    <3>1. spawned = 0 /\ connection = 0 /\ child = 0
      BY DEF UpdatesInit
    <3>2. QED BY <3>1, UpdatesAssumption DEF HandleTypes
  <2>3. ProcessTypes
    BY DEF UpdatesInit, ProcessTypes
  <2>4. GateTypes
    BY DEF UpdatesInit, GateTypes
  <2>5. FaultTypes
    BY UpdatesAssumption DEF UpdatesInit, FaultTypes
  <2>6. QED BY <2>1, <2>2, <2>3, <2>4, <2>5 DEF UpdatesTypes
<1>2. UpdatesTypes /\ [UpdatesNext]_updVars => UpdatesTypes'
  <2> SUFFICES ASSUME UpdatesTypes, [UpdatesNext]_updVars PROVE UpdatesTypes'
    OBVIOUS
  <2>1. CASE UpdatesNext
    BY <2>1, RowsKeepTypes, ThreadsKeepTypes, FlagsKeepTypes, EnginesKeepTypes, FaultsAreCounted
       DEF UpdatesTypes
  <2>2. CASE UNCHANGED updVars
    BY <2>2 DEF updVars, updRows, updHost, updEngine, updSaves, updThreads, updProfile, UpdatesTypes,
                RowTypes, ThreadTypes, FlagTypes, HandleTypes, ProcessTypes, GateTypes, FaultTypes
  <2>3. QED BY <2>1, <2>2
<1>3. QED BY <1>1, <1>2, PTL DEF UpdSpec

\* Every variable of the host, of its engines and of an installation keeps its type.
THEOREM UpdatesTyped == UpdSpec => []UpdatesTypeOK
<1>1. UpdatesTypes => UpdatesTypeOK
  BY DEF UpdatesTypes, RowTypes, ThreadTypes, FlagTypes, HandleTypes, ProcessTypes, GateTypes, FaultTypes,
         UpdatesTypeOK
<1>2. QED BY <1>1, UpdatesTypesHold, PTL


-----------------------------------------------------------------------------
(* DesktopUpdates: the invariant                                           *)

\* An installation that has claimed the host (updates.rs: closing is its own), and the part
\* of it in which window and saves are shut.
Claimed == {"saves", "prepare", "decide", "plan", "cancel", "stop", "quiesce", "snapshot",
            "installer", "recover", "wait", "broken", "window", "reopen", "unclaim", "restarted"}
Shut == Claimed \ {"saves", "reopen", "unclaim"}
Quitting == {"drain", "take", "leave", "exited"}

\* A release is known from its discovery on, and the bytes in memory are of it.
ReleaseInv ==
    /\ updPhase \in {"available", "downloading", "ready", "installing"} => updRelease # 0
    /\ fetched = IF updPhase = "downloading" THEN updRelease ELSE 0
    /\ updPhase \in {"ready", "installing"} => updBytes = updRelease
    /\ updPhase = "installing" <=> installing # "none"

\* Whoever closes the host is an installation or a quit, never both.
FlagsInv ==
    /\ installing \in Claimed => quitting = "none"
    /\ hostClosing <=> installing \in Claimed \/ quitting # "none"
    /\ windowClosing <=> installing \in Shut \/ quitting \in Quitting

\* Nothing is installed, and no page connected, before the first start has come to its end.
StartedInv ==
    /\ connection # 0 \/ installing \notin {"none", "begin", "failed"} => starting = "done"
    /\ starting = "wait" \/ installing = "wait" => spawned # 0

\* A session whose user has been told to quit.
Session == hostError /\ starting = "done" /\ installing \in {"none", "begin", "failed", "unclaim"}

SavesInv ==
    /\ installing \in Shut \cup {"reopen"} => savesClosed /\ \A s \in Savers : saving[s] = "none"
    /\ quitting \in Quitting => savesClosed
    /\ quitting \in {"take", "leave", "exited"} => \A s \in Savers : saving[s] # "active"
    /\ savesClosed => installing \in Shut \cup {"reopen"} \/ quitting \in Quitting \/ Session

GateInv ==
    /\ gate = "host" => ~work
    /\ installing \in {"plan", "stop", "quiesce", "snapshot", "installer", "restarted"} => gate = "host"
    /\ gate \in {"closing", "host"} =>
         installing \in {"decide", "plan", "cancel", "stop", "quiesce", "snapshot", "installer",
                         "restarted", "recover", "broken"} \/ Session

EngineInv ==
    /\ child \in {0, spawned} /\ connection \in {0, spawned}
    /\ \A e \in Engines : Alive(e) => e = child \/ quitting \in {"leave", "exited"}
    /\ quitting \in {"leave", "exited"} => child = 0
    /\ installing \in {"quiesce", "snapshot", "installer", "recover", "restarted"} => child = 0

LeaseInv ==
    /\ installing \in {"claim", "saves", "prepare", "decide", "plan", "cancel", "stop", "quiesce",
                       "snapshot", "installer", "recover", "restarted"} => lease = "exclusive"
    /\ lease = "exclusive" => other = "absent"

UpdatesInv == ReleaseInv /\ FlagsInv /\ StartedInv /\ SavesInv /\ GateInv /\ EngineInv /\ LeaseInv

LEMMA ReleasesHold ==
    ASSUME RowTypes, ThreadTypes, ReleaseInv, UpdatesNext PROVE ReleaseInv'
<1> USE UpdatesAssumption DEF ReleaseInv, RowTypes, Releases, Busy, HostRuns
<1>1. CASE BeginCheck
  BY <1>1 DEF BeginCheck, updThreads
<1>2. CASE EndCheck
  BY <1>2 DEF EndCheck, updThreads
<1>3. CASE BeginDownload
  BY <1>3 DEF BeginDownload, updThreads
<1>4. CASE EndDownload
  BY <1>4 DEF EndDownload, updThreads
<1>5. CASE BeginInstall
  BY <1>5 DEF BeginInstall
<1>6. CASE InstallFails
  BY <1>6 DEF InstallFails
<1>7. CASE UNCHANGED updRows /\ (installing' = "none" <=> installing = "none")
  BY <1>7 DEF updRows
<1>8. QED BY <1>1, <1>2, <1>3, <1>4, <1>5, <1>6, <1>7, RowsChange


LEMMA FlagsHold ==
    ASSUME ThreadTypes, FlagTypes, FlagsInv, ReleaseInv, UpdatesNext PROVE FlagsInv'
<1> USE DEF FlagsInv, Claimed, Shut, Quitting, updHost, updThreads
<1>1. CASE InstallStep
  <2> USE DEF InstallGoesTo
  <2>1. CASE ReadConnection \/ TakeProfile \/ Prepare \/ PrepareReply \/ BackupPlan
    BY <2>1 DEF ReadConnection, TakeProfile, Prepare, PrepareReply, BackupPlan
  <2>2. CASE Claim \/ CloseSaves
    BY <2>2 DEF Claim, CloseSaves
  <2>3. CASE CancelPreparation \/ StopEngine
    BY <2>3 DEF CancelPreparation, StopEngine, Unavailable
  <2>4. CASE Quiesce \/ Snapshot \/ Installer
    BY <2>4 DEF Quiesce, Snapshot, Installer
  <2>5. CASE Recover \/ RecoveryEnds \/ RecoveryFails
    BY <2>5 DEF Recover, RecoveryEnds, EngineConnects, EngineDoesNotConnect, RecoveryFails
  <2>6. CASE OpenWindow \/ ReopenSaves \/ Unclaim \/ InstallFails
    BY <2>6 DEF OpenWindow, ReopenSaves, Unclaim, InstallFails
  <2>7. QED BY <1>1, <2>1, <2>2, <2>3, <2>4, <2>5, <2>6 DEF InstallStep
<1>2. CASE RequestQuit \/ BeginInstall
  BY <1>2 DEF RequestQuit, BeginInstall, ReleaseInv
<1>5. CASE QuitCloses
  BY <1>5 DEF QuitCloses
<1>6. CASE QuitWaits \/ QuitStopsEngine \/ QuitLeaves
  BY <1>6 DEF QuitWaits, QuitStopsEngine, QuitLeaves
<1>3. CASE \/ BeginCheck \/ EndCheck \/ BeginDownload \/ EndDownload
           \/ StartEngine \/ StartEnds \/ StartReports
           \/ \E s \in Savers : ReserveSave(s) \/ ConfirmSave(s) \/ EndSave(s)
  BY <1>3 DEF BeginCheck, EndCheck, BeginDownload, EndDownload, StartEngine, StartEnds,
              EngineConnects, EngineDoesNotConnect, StartReports, ReserveSave, ConfirmSave, EndSave
<1>4. CASE \/ EngineRegisters \/ EngineCrashes \/ EngineWorks \/ EngineDecides \/ EngineFinishesWork
           \/ PluginOpensGate \/ OtherChanges \/ Monitor
  BY <1>4 DEF EngineRegisters, EngineCrashes, EngineWorks, EngineDecides, EngineFinishesWork,
              PluginOpensGate, OtherChanges, Monitor
<1>7. QED BY <1>1, <1>2, <1>3, <1>4, <1>5, <1>6 DEF UpdatesNext, QuitStep

LEMMA StartsHold ==
    ASSUME ThreadTypes, HandleTypes, StartedInv, UpdatesNext PROVE StartedInv'
<1> USE DEF StartedInv, HandleTypes, updHost, updThreads, updEngine
<1>1. CASE InstallStep
  <2> USE DEF InstallGoesTo
  <2>1. CASE ReadConnection \/ TakeProfile \/ Claim \/ CloseSaves \/ Prepare \/ PrepareReply \/ BackupPlan
    BY <2>1 DEF ReadConnection, TakeProfile, Claim, CloseSaves, Prepare, PrepareReply, BackupPlan
  <2>2. CASE CancelPreparation \/ StopEngine \/ Quiesce \/ Snapshot \/ Installer
    BY <2>2 DEF CancelPreparation, StopEngine, Unavailable, Quiesce, Snapshot, Installer
  <2>3. CASE \/ Recover \/ RecoveryEnds \/ RecoveryFails \/ OpenWindow \/ ReopenSaves \/ Unclaim
             \/ InstallFails
    BY <2>3 DEF Recover, Spawn, RecoveryEnds, EngineConnects, EngineDoesNotConnect, RecoveryFails,
                OpenWindow, ReopenSaves, Unclaim, InstallFails
  <2>4. QED BY <1>1, <2>1, <2>2, <2>3 DEF InstallStep
<1>2. CASE StartEngine \/ StartEnds \/ StartReports
  BY <1>2 DEF StartEngine, Spawn, StartEnds, EngineConnects, EngineDoesNotConnect, StartReports
<1>3. CASE \/ BeginCheck \/ EndCheck \/ BeginDownload \/ EndDownload \/ BeginInstall
           \/ \E s \in Savers : ReserveSave(s) \/ ConfirmSave(s) \/ EndSave(s)
  BY <1>3 DEF BeginCheck, EndCheck, BeginDownload, EndDownload, BeginInstall, ReserveSave, ConfirmSave,
              EndSave
<1>4. CASE \/ EngineRegisters \/ EngineCrashes \/ EngineWorks \/ EngineDecides \/ EngineFinishesWork
           \/ PluginOpensGate \/ OtherChanges \/ Monitor \/ RequestQuit \/ QuitStep
  BY <1>4 DEF EngineRegisters, EngineCrashes, EngineWorks, EngineDecides, EngineFinishesWork,
              PluginOpensGate, OtherChanges, Monitor, RequestQuit, QuitStep, QuitCloses, QuitWaits,
              QuitStopsEngine, QuitLeaves
<1>5. QED BY <1>1, <1>2, <1>3, <1>4 DEF UpdatesNext

LEMMA LeasesHold ==
    ASSUME ThreadTypes, FlagTypes, LeaseInv, UpdatesNext PROVE LeaseInv'
<1> USE DEF LeaseInv, FlagTypes, updThreads, updProfile
<1>1. CASE InstallStep
  <2> USE DEF InstallGoesTo
  <2>1. CASE ReadConnection \/ TakeProfile \/ Claim \/ CloseSaves \/ Prepare \/ PrepareReply \/ BackupPlan
    BY <2>1 DEF ReadConnection, TakeProfile, OthersAreQuiet, Claim, CloseSaves, Prepare, PrepareReply,
                BackupPlan
  <2>2. CASE CancelPreparation \/ StopEngine \/ Quiesce \/ Snapshot \/ Installer
    BY <2>2 DEF CancelPreparation, StopEngine, Quiesce, Snapshot, Installer
  <2>3. CASE \/ Recover \/ RecoveryEnds \/ RecoveryFails \/ OpenWindow \/ ReopenSaves \/ Unclaim
             \/ InstallFails
    BY <2>3 DEF Recover, RecoveryEnds, RecoveryFails, OpenWindow, ReopenSaves, Unclaim, InstallFails
  <2>4. QED BY <1>1, <2>1, <2>2, <2>3 DEF InstallStep
<1>2. CASE \/ BeginCheck \/ EndCheck \/ BeginDownload \/ EndDownload \/ BeginInstall
           \/ StartEngine \/ StartEnds \/ StartReports
           \/ \E s \in Savers : ReserveSave(s) \/ ConfirmSave(s) \/ EndSave(s)
  BY <1>2 DEF BeginCheck, EndCheck, BeginDownload, EndDownload, BeginInstall, StartEngine, StartEnds,
              StartReports, ReserveSave, ConfirmSave, EndSave
<1>3. CASE \/ EngineRegisters \/ EngineCrashes \/ EngineWorks \/ EngineDecides \/ EngineFinishesWork
           \/ PluginOpensGate \/ OtherChanges \/ Monitor \/ RequestQuit \/ QuitStep
  BY <1>3 DEF EngineRegisters, EngineCrashes, EngineWorks, EngineDecides, EngineFinishesWork,
              PluginOpensGate, OtherChanges, Monitor, RequestQuit, QuitStep, QuitCloses, QuitWaits,
              QuitStopsEngine, QuitLeaves
<1>4. QED BY <1>1, <1>2, <1>3 DEF UpdatesNext

LEMMA ClosedSavesHold ==
    ASSUME ThreadTypes, FlagTypes, SavesInv, FlagsInv, ReleaseInv, StartedInv, UpdatesNext PROVE SavesInv'
<1> USE DEF SavesInv, FlagTypes, Session, Claimed, Shut, Quitting, updHost, updSaves, updThreads
<1>1. CASE InstallStep
  <2> USE DEF InstallGoesTo
  <2>1. CASE ReadConnection \/ TakeProfile \/ Prepare \/ PrepareReply \/ BackupPlan
    BY <2>1 DEF ReadConnection, TakeProfile, Prepare, PrepareReply, BackupPlan, FlagsInv
  <2>2. CASE Claim \/ CloseSaves
    BY <2>2 DEF Claim, CloseSaves, Idle, FlagsInv
  <2>3. CASE CancelPreparation \/ StopEngine
    BY <2>3 DEF CancelPreparation, StopEngine, Unavailable, StartedInv, FlagsInv
  <2>4. CASE Quiesce \/ Snapshot \/ Installer
    BY <2>4 DEF Quiesce, Snapshot, Installer
  <2>5. CASE Recover \/ RecoveryEnds \/ RecoveryFails
    BY <2>5 DEF Recover, RecoveryEnds, EngineConnects, EngineDoesNotConnect, RecoveryFails, StartedInv
  <2>6. CASE OpenWindow \/ ReopenSaves \/ Unclaim \/ InstallFails
    BY <2>6 DEF OpenWindow, ReopenSaves, Unclaim, InstallFails, FlagsInv
  <2>7. QED BY <1>1, <2>1, <2>2, <2>3, <2>4, <2>5, <2>6 DEF InstallStep
<1>2. CASE RequestQuit \/ BeginInstall
  BY <1>2 DEF RequestQuit, BeginInstall, ReleaseInv, FlagsInv
<1>6. CASE QuitCloses
  BY <1>6 DEF QuitCloses, FlagsInv
<1>7. CASE QuitWaits \/ QuitStopsEngine \/ QuitLeaves
  BY <1>7 DEF QuitWaits, QuitStopsEngine, QuitLeaves
<1>3. CASE \E s \in Savers : ReserveSave(s) \/ ConfirmSave(s) \/ EndSave(s)
  BY <1>3 DEF ReserveSave, ConfirmSave, EndSave, HostRuns
<1>4. CASE StartEngine \/ StartEnds \/ StartReports
  BY <1>4 DEF StartEngine, StartEnds, EngineConnects, EngineDoesNotConnect, StartReports
<1>5. CASE \/ BeginCheck \/ EndCheck \/ BeginDownload \/ EndDownload
           \/ EngineRegisters \/ EngineCrashes \/ EngineWorks \/ EngineDecides \/ EngineFinishesWork
           \/ PluginOpensGate \/ OtherChanges \/ Monitor
  BY <1>5 DEF BeginCheck, EndCheck, BeginDownload, EndDownload, EngineRegisters, EngineCrashes,
              EngineWorks, EngineDecides, EngineFinishesWork, PluginOpensGate, OtherChanges, Monitor
<1>8. QED BY <1>1, <1>2, <1>3, <1>4, <1>5, <1>6, <1>7 DEF UpdatesNext, QuitStep


LEMMA EnginesHold ==
    ASSUME ThreadTypes, HandleTypes, ProcessTypes, EngineInv, FlagsInv, StartedInv, UpdatesNext
    PROVE  EngineInv'
<1> USE DEF EngineInv, HandleTypes, ProcessTypes, Engines, Alive, updHost, updEngine, updThreads
<1>1. CASE InstallStep
  <2> USE DEF InstallGoesTo
  <2>1. CASE ReadConnection \/ TakeProfile \/ Claim \/ CloseSaves \/ Prepare \/ PrepareReply \/ BackupPlan
    BY <2>1 DEF ReadConnection, TakeProfile, Claim, CloseSaves, Prepare, PrepareReply, BackupPlan
  <2>2. CASE CancelPreparation \/ Quiesce \/ Snapshot \/ Installer
    BY <2>2 DEF CancelPreparation, Unavailable, Quiesce, Snapshot, Installer
  <2>3. CASE StopEngine
    BY <2>3 DEF StopEngine, ShutChildDown, Exited, Unavailable, FlagsInv, Claimed
  <2>4. CASE Recover
    BY <2>4, UpdatesAssumption DEF Recover, Spawn, FlagsInv, Claimed
  <2>5. CASE RecoveryEnds
    BY <2>5 DEF RecoveryEnds, EngineConnects, EngineDoesNotConnect, Exited, FlagsInv, Claimed
  <2>6. CASE RecoveryFails \/ OpenWindow \/ ReopenSaves \/ Unclaim \/ InstallFails
    BY <2>6 DEF RecoveryFails, OpenWindow, ReopenSaves, Unclaim, InstallFails
  <2>7. QED BY <1>1, <2>1, <2>2, <2>3, <2>4, <2>5, <2>6 DEF InstallStep
<1>2. CASE StartEngine
  BY <1>2, UpdatesAssumption DEF StartEngine, Spawn, SpawnAllowed, FlagsInv, StartedInv
<1>3. CASE StartEnds \/ StartReports
  BY <1>3 DEF StartEnds, EngineConnects, EngineDoesNotConnect, Exited, StartReports, FlagsInv, StartedInv
<1>4. CASE EngineRegisters \/ EngineCrashes
  BY <1>4 DEF EngineRegisters, EngineCrashes, Exited
<1>5. CASE QuitStopsEngine
  BY <1>5 DEF QuitStopsEngine, ShutChildDown, Exited, FlagsInv, Claimed
<1>6. CASE \/ BeginCheck \/ EndCheck \/ BeginDownload \/ EndDownload \/ BeginInstall
           \/ \E s \in Savers : ReserveSave(s) \/ ConfirmSave(s) \/ EndSave(s)
  BY <1>6 DEF BeginCheck, EndCheck, BeginDownload, EndDownload, BeginInstall, ReserveSave, ConfirmSave,
              EndSave
<1>7. CASE \/ EngineWorks \/ EngineDecides \/ EngineFinishesWork \/ PluginOpensGate
           \/ OtherChanges \/ Monitor \/ RequestQuit \/ QuitCloses \/ QuitWaits \/ QuitLeaves
  BY <1>7 DEF EngineWorks, EngineDecides, EngineFinishesWork, PluginOpensGate, OtherChanges, Monitor,
              RequestQuit, QuitCloses, QuitWaits, QuitLeaves
<1>8. QED BY <1>1, <1>2, <1>3, <1>4, <1>5, <1>6, <1>7 DEF UpdatesNext, QuitStep

LEMMA GatesHold ==
    ASSUME ThreadTypes, FlagTypes, GateTypes, GateInv, ReleaseInv, StartedInv, UpdatesNext
    PROVE  GateInv'
<1> USE DEF GateInv, Session, FlagTypes, GateTypes, updHost, updEngine, updThreads
<1>1. CASE InstallStep
  <2> USE DEF InstallGoesTo
  <2>1. CASE ReadConnection \/ TakeProfile \/ Claim \/ CloseSaves
    BY <2>1 DEF ReadConnection, TakeProfile, Claim, CloseSaves
  <2>2. CASE Prepare
    BY <2>2 DEF Prepare
  <2>3. CASE PrepareReply \/ BackupPlan
    BY <2>3 DEF PrepareReply, BackupPlan
  <2>4. CASE CancelPreparation
    BY <2>4 DEF CancelPreparation, Unavailable, StartedInv
  <2>5. CASE StopEngine
    BY <2>5 DEF StopEngine, ShutChildDown, Unavailable, StartedInv
  <2>6. CASE Quiesce \/ Snapshot \/ Installer
    BY <2>6 DEF Quiesce, Snapshot, Installer
  <2>7. CASE Recover \/ RecoveryEnds \/ RecoveryFails
    BY <2>7 DEF Recover, Spawn, RecoveryEnds, EngineConnects, EngineDoesNotConnect, RecoveryFails,
                StartedInv
  <2>8. CASE OpenWindow \/ ReopenSaves \/ Unclaim \/ InstallFails
    BY <2>8 DEF OpenWindow, ReopenSaves, Unclaim, InstallFails
  <2>9. QED BY <1>1, <2>1, <2>2, <2>3, <2>4, <2>5, <2>6, <2>7, <2>8 DEF InstallStep
<1>2. CASE StartEngine \/ StartEnds \/ StartReports
  BY <1>2 DEF StartEngine, Spawn, StartEnds, EngineConnects, EngineDoesNotConnect, StartReports,
              StartedInv
<1>3. CASE EngineRegisters \/ EngineCrashes
  BY <1>3 DEF EngineRegisters, EngineCrashes
<1>4. CASE EngineWorks \/ EngineDecides \/ EngineFinishesWork \/ PluginOpensGate
  BY <1>4 DEF EngineWorks, EngineDecides, EngineFinishesWork, PluginOpensGate
<1>5. CASE RequestQuit \/ QuitStep
  BY <1>5 DEF RequestQuit, QuitStep, QuitCloses, QuitWaits, QuitStopsEngine, ShutChildDown, QuitLeaves
<1>6. CASE \/ BeginCheck \/ EndCheck \/ BeginDownload \/ EndDownload \/ BeginInstall
           \/ \E s \in Savers : ReserveSave(s) \/ ConfirmSave(s) \/ EndSave(s)
           \/ OtherChanges \/ Monitor
  BY <1>6 DEF BeginCheck, EndCheck, BeginDownload, EndDownload, BeginInstall, ReserveSave, ConfirmSave,
              EndSave, OtherChanges, Monitor, ReleaseInv
<1>7. QED BY <1>1, <1>2, <1>3, <1>4, <1>5, <1>6 DEF UpdatesNext


LEMMA UpdatesHold == UpdSpec => [](UpdatesTypes /\ UpdatesInv)
<1>1. UpdatesInit => UpdatesInv
  <2> SUFFICES ASSUME UpdatesInit PROVE UpdatesInv
    OBVIOUS
  <2>1. ReleaseInv /\ FlagsInv
    BY DEF UpdatesInit, ReleaseInv, FlagsInv, Claimed, Shut, Quitting
  <2>2. StartedInv /\ SavesInv
    BY DEF UpdatesInit, StartedInv, SavesInv, Shut, Claimed, Quitting
  <2>3. GateInv /\ LeaseInv
    BY DEF UpdatesInit, GateInv, LeaseInv
  <2>4. EngineInv
    BY DEF UpdatesInit, EngineInv, Alive
  <2>5. QED BY <2>1, <2>2, <2>3, <2>4 DEF UpdatesInv
<1>2. UpdatesTypes /\ UpdatesInv /\ [UpdatesNext]_updVars => UpdatesInv'
  <2> SUFFICES ASSUME UpdatesTypes, UpdatesInv, [UpdatesNext]_updVars PROVE UpdatesInv'
    OBVIOUS
  <2>1. CASE UpdatesNext
    BY <2>1, ReleasesHold, FlagsHold, StartsHold, ClosedSavesHold, GatesHold, EnginesHold, LeasesHold
       DEF UpdatesTypes, UpdatesInv
  <2>2. CASE UNCHANGED updVars
    <3>1. UNCHANGED <<updPhase, updRelease, updBytes, fetched, installing, starting, quitting, hostClosing,
                      hostError, windowClosing, connection, child, engine, gate, work, spawned, saving,
                      savesClosed, lease, other>>
      BY <2>2 DEF updVars, updRows, updHost, updEngine, updSaves, updThreads, updProfile
    <3>2. QED
      BY <3>1 DEF UpdatesInv, ReleaseInv, FlagsInv, StartedInv, SavesInv, GateInv, EngineInv, LeaseInv,
                  Session, Alive
  <2>3. QED BY <2>1, <2>2
<1>3. QED BY <1>1, <1>2, UpdatesTypesHold, PTL DEF UpdSpec

\* What is copied and replaced nobody writes, an installation interrupts neither saves nor
\* work, a quit is final, there is one engine, nothing stays closed without an owner, and
\* the bytes are of the release that is shown.
THEOREM UpdatesSafe == UpdSpec => []UpdatesAreSafe
<1>1. UpdatesTypes /\ UpdatesInv => UpdatesAreSafe
  <2> SUFFICES ASSUME UpdatesTypes, UpdatesInv PROVE UpdatesAreSafe
    OBVIOUS
  <2>1. BackupsAreOfQuietData
    <3> SUFFICES ASSUME installing \in {"snapshot", "installer", "restarted"}
                 PROVE  lease = "exclusive" /\ other = "absent" /\ \A e \in Engines : ~Alive(e)
      BY DEF BackupsAreOfQuietData
    <3>1. lease = "exclusive" /\ other = "absent"
      BY DEF UpdatesInv, LeaseInv
    <3>2. child = 0 /\ quitting = "none"
      BY DEF UpdatesInv, EngineInv, FlagsInv, Claimed
    <3>3. 0 \notin Engines
      BY DEF Engines
    <3>4. QED BY <3>1, <3>2, <3>3 DEF UpdatesInv, EngineInv
  <2>2. UpdateInterruptsNothing
    BY DEF UpdateInterruptsNothing, UpdatesInv, GateInv, SavesInv, Shut, Claimed
  <2>3. QuitStaysQuit
    BY DEF QuitStaysQuit, UpdatesInv, FlagsInv, SavesInv, EngineInv, Quitting
  <2>4. OneEngine
    BY DEF OneEngine, UpdatesInv, EngineInv
  <2>5. ClosedDoorsHaveOwner
    BY DEF ClosedDoorsHaveOwner, UpdatesInv, FlagsInv, SavesInv, GateInv, Session, Claimed, Shut, Quitting
  <2>6. BytesBelongToRelease
    BY DEF BytesBelongToRelease, UpdatesInv, ReleaseInv
  <2>7. QED BY <2>1, <2>2, <2>3, <2>4, <2>5, <2>6 DEF UpdatesAreSafe
<1>2. QED BY <1>1, UpdatesHold, PTL

-----------------------------------------------------------------------------
(* SqliteConnections                                                       *)

Opening == {"open", "register", "cache"}

\* A read is counted from its start to its end, also while it opens its connection.
Reads(t) == sqlPc[t] \in {"query", "endread"} \/ (sqlPc[t] \in Opening /\ sqlAim[t] = "read")

\* What a thread does only while it has the mutex, and what else it may then do: a read.
InMutex(t) ==
    \/ sqlPc[t] \in {"write", "nested", "commit", "drain", "leave"}
    \/ sqlPc[t] \in Opening /\ sqlAim[t] = "write"

MutexInv ==
    \A t \in SqlThreads :
        /\ InMutex(t) => sqlMutex = t
        /\ sqlMutex = t => InMutex(t) \/ sqlPc[t] \in {"query", "endread"}

CountedReads == readers = Cardinality({t \in SqlThreads : Reads(t)})

\* A thread has the connection it opens or the one it has cached, and never both.
CachesInv ==
    \A t \in SqlThreads :
        /\ sqlPc[t] \in Opening => sqlConn[t] = 0
        /\ sqlPc[t] \notin {"register", "cache"} => sqlOpening[t] = 0
        /\ sqlPc[t] = "register" => sqlOpening[t] \in sqlOpen \ connections
        /\ sqlPc[t] = "cache" => sqlOpening[t] \in sqlOpen \cap connections
        /\ sqlConn[t] # 0 => sqlConn[t] \in sqlOpen \cap connections
        /\ sqlPc[t] \in {"query", "write", "nested", "commit"} => sqlConn[t] # 0
        /\ sqlPc[t] = "endread" /\ sqlMutex = t => sqlConn[t] # 0

\* No two threads have the same connection, and every open one is some thread's.
OwnersInv ==
    /\ \A t, u \in SqlThreads : t # u =>
          /\ sqlConn[t] # 0 => sqlConn[t] \notin {sqlConn[u], sqlOpening[u]}
          /\ sqlOpening[t] # 0 => sqlOpening[t] # sqlOpening[u]
    /\ \A c \in sqlOpen : \E t \in SqlThreads : c \in {sqlConn[t], sqlOpening[t]}

\* An operation opens at most one connection.
OpenedInv ==
    opened + Cardinality({t \in SqlThreads : sqlPc[t] \in {"begin", "open"}}) <= operations

SqlInv == MutexInv /\ CountedReads /\ CachesInv /\ OwnersInv /\ OpenedInv

ThreadActs(t) == BeginRead(t) \/ BeginTransaction(t) \/ BeginClose(t) \/ SqliteStep(t)

\* A thread moves itself alone: what each step does to what it is about and is counted by.
LEMMA OnlyThatThreadMoves ==
    ASSUME SqliteTypeOK, NEW t \in SqlThreads, ThreadActs(t)
    PROVE  /\ \A u \in SqlThreads \ {t} : sqlPc'[u] = sqlPc[u] /\ sqlAim'[u] = sqlAim[u]
           /\ sqlPc' \in [SqlThreads ->
                 {"idle", "open", "register", "cache", "query", "endread", "begin", "write", "nested",
                  "commit", "close", "closeall", "drain", "leave"}]
           /\ sqlAim' \in [SqlThreads -> {"read", "write"}]
           /\ sqlMutex' \in SqlThreads \cup {NoThread} /\ closing' \in BOOLEAN
<1> USE DEF SqliteTypeOK, Goes
<1>1. CASE BeginRead(t) \/ NestedRead(t)
  BY <1>1 DEF BeginRead, NestedRead
<1>2. CASE BeginTransaction(t) \/ BeginClose(t)
  BY <1>2 DEF BeginTransaction, BeginClose, sqlCaches
<1>3. CASE OpenConnection(t) \/ RegisterConnection(t) \/ CacheConnection(t)
  BY <1>3 DEF OpenConnection, RegisterConnection, CacheConnection
<1>4. CASE OpenFails(t) \/ QueryEnds(t) \/ EndRead(t)
  BY <1>4 DEF OpenFails, QueryEnds, EndRead, sqlCaches
<1>5. CASE EnterTransaction(t)
  BY <1>5 DEF EnterTransaction, TakeMutex
<1>6. CASE WriteState(t) \/ EndTransaction(t) \/ LeaveMutex(t)
  BY <1>6 DEF WriteState, EndTransaction, LeaveMutex, sqlCaches
<1>7. CASE CloseConnection(t)
  BY <1>7 DEF CloseConnection, TakeMutex
<1>8. CASE BeginDrain(t)
  BY <1>8 DEF BeginDrain, TakeMutex, sqlCaches
<1>9. CASE CloseConnections(t)
  BY <1>9 DEF CloseConnections
<1>10. QED
  BY <1>1, <1>2, <1>3, <1>4, <1>5, <1>6, <1>7, <1>8, <1>9 DEF ThreadActs, SqliteStep

\* The mutex: who is in it has it, and who has it is in it.
LEMMA MutexStep ==
    ASSUME SqliteTypeOK, MutexInv, NEW t \in SqlThreads, ThreadActs(t)
    PROVE  MutexInv'
<1>1. \A u \in SqlThreads \ {t} :
         /\ InMutex(u)' <=> InMutex(u)
         /\ sqlPc'[u] \in {"query", "endread"} <=> sqlPc[u] \in {"query", "endread"}
  BY OnlyThatThreadMoves DEF InMutex
<1>2. /\ InMutex(t)' => sqlMutex' = t
      /\ sqlMutex' = t => InMutex(t)' \/ sqlPc'[t] \in {"query", "endread"}
      /\ \/ sqlMutex' = sqlMutex
         \/ sqlMutex = NoThread /\ sqlMutex' = t
         \/ sqlMutex = t /\ sqlMutex' = NoThread
  <2> USE SqliteAssumption DEF SqliteTypeOK, Goes, MutexInv, InMutex, Opening
  <2>1. CASE BeginRead(t) \/ NestedRead(t)
    BY <2>1 DEF BeginRead, NestedRead
  <2>2. CASE BeginTransaction(t) \/ BeginClose(t)
    BY <2>2 DEF BeginTransaction, BeginClose, sqlCaches
  <2>3. CASE OpenConnection(t) \/ RegisterConnection(t) \/ CacheConnection(t)
    BY <2>3 DEF OpenConnection, RegisterConnection, CacheConnection
  <2>4. CASE OpenFails(t) \/ QueryEnds(t) \/ EndRead(t)
    BY <2>4 DEF OpenFails, QueryEnds, EndRead, sqlCaches
  <2>5. CASE EnterTransaction(t)
    BY <2>5 DEF EnterTransaction, TakeMutex
  <2>6. CASE WriteState(t) \/ EndTransaction(t) \/ LeaveMutex(t)
    BY <2>6 DEF WriteState, EndTransaction, LeaveMutex, sqlCaches
  <2>7. CASE CloseConnection(t)
    BY <2>7 DEF CloseConnection, TakeMutex
  <2>8. CASE BeginDrain(t)
    BY <2>8 DEF BeginDrain, TakeMutex, sqlCaches
  <2>9. CASE CloseConnections(t)
    BY <2>9 DEF CloseConnections
  <2>10. QED
    BY <2>1, <2>2, <2>3, <2>4, <2>5, <2>6, <2>7, <2>8, <2>9 DEF ThreadActs, SqliteStep
<1>3. QED BY <1>1, <1>2, SqliteAssumption DEF MutexInv

\* A step of t adds it to a set of threads, takes it out or leaves the set as it is.
LEMMA CountOfThreads ==
    ASSUME NEW S \in SUBSET SqlThreads, NEW S2 \in SUBSET SqlThreads, NEW t \in SqlThreads,
           \A u \in SqlThreads \ {t} : u \in S2 <=> u \in S
    PROVE  /\ Cardinality(S) \in 0..Cardinality(SqlThreads)
           /\ Cardinality(S2) =
                 IF t \in S2 THEN IF t \in S THEN Cardinality(S) ELSE Cardinality(S) + 1
                             ELSE IF t \in S THEN Cardinality(S) - 1 ELSE Cardinality(S)
<1>1. IsFiniteSet(S) /\ Cardinality(S) \in Nat /\ Cardinality(S) <= Cardinality(SqlThreads)
  BY SqliteAssumption, FS_Subset, FS_CardinalityType
<1>2. Cardinality(SqlThreads) \in Nat
  BY SqliteAssumption, FS_CardinalityType
<1>3. CASE (t \in S2) <=> (t \in S)
  <2>1. S2 = S
    BY <1>3
  <2>2. QED BY <1>1, <1>2, <1>3, <2>1
<1>4. CASE t \in S2 /\ t \notin S
  <2>1. S2 = S \cup {t}
    BY <1>4
  <2>2. QED BY <1>1, <1>2, <1>4, <2>1, FS_AddElement
<1>5. CASE t \notin S2 /\ t \in S
  <2>1. S2 = S \ {t}
    BY <1>5
  <2>2. QED BY <1>1, <1>2, <1>5, <2>1, FS_RemoveElement
<1>6. QED BY <1>3, <1>4, <1>5

LEMMA ReadersStep ==
    ASSUME SqliteTypeOK, CountedReads, NEW t \in SqlThreads, ThreadActs(t)
    PROVE  CountedReads'
<1> DEFINE R == {u \in SqlThreads : Reads(u)}
           R2 == {u \in SqlThreads : Reads(u)'}
<1>1. \A u \in SqlThreads \ {t} : u \in R2 <=> u \in R
  BY OnlyThatThreadMoves DEF Reads
<1>2. /\ Cardinality(R) \in Nat
      /\ Cardinality(R2) =
            IF t \in R2 THEN IF t \in R THEN Cardinality(R) ELSE Cardinality(R) + 1
                        ELSE IF t \in R THEN Cardinality(R) - 1 ELSE Cardinality(R)
  BY <1>1, CountOfThreads
<1>3. readers' = IF Reads(t)' THEN IF Reads(t) THEN readers ELSE readers + 1
                              ELSE IF Reads(t) THEN readers - 1 ELSE readers
  <2> USE DEF SqliteTypeOK, Goes, Reads, Opening
  <2>1. CASE BeginRead(t) \/ NestedRead(t)
    BY <2>1 DEF BeginRead, NestedRead
  <2>2. CASE BeginTransaction(t) \/ BeginClose(t)
    BY <2>2 DEF BeginTransaction, BeginClose, sqlCaches
  <2>3. CASE OpenConnection(t) \/ RegisterConnection(t) \/ CacheConnection(t)
    BY <2>3 DEF OpenConnection, RegisterConnection, CacheConnection
  <2>4. CASE OpenFails(t) \/ QueryEnds(t) \/ EndRead(t)
    BY <2>4 DEF OpenFails, QueryEnds, EndRead, sqlCaches
  <2>5. CASE EnterTransaction(t)
    BY <2>5 DEF EnterTransaction, TakeMutex
  <2>6. CASE WriteState(t) \/ EndTransaction(t) \/ LeaveMutex(t)
    BY <2>6 DEF WriteState, EndTransaction, LeaveMutex, sqlCaches
  <2>7. CASE CloseConnection(t)
    BY <2>7 DEF CloseConnection, TakeMutex
  <2>8. CASE BeginDrain(t)
    BY <2>8 DEF BeginDrain, TakeMutex, sqlCaches
  <2>9. CASE CloseConnections(t)
    BY <2>9 DEF CloseConnections
  <2>10. QED
    BY <2>1, <2>2, <2>3, <2>4, <2>5, <2>6, <2>7, <2>8, <2>9 DEF ThreadActs, SqliteStep
<1>4. QED BY <1>2, <1>3 DEF CountedReads


\* The bound on the operations bounds the connections.
LEMMA OpenedStep ==
    ASSUME SqliteTypeOK, OpenedInv, NEW t \in SqlThreads, ThreadActs(t)
    PROVE  OpenedInv' /\ operations' \in 0..MaxOperations /\ opened' \in Nat
<1> DEFINE Pending(pc) == pc \in {"begin", "open"}
           P == {u \in SqlThreads : sqlPc[u] \in {"begin", "open"}}
           P2 == {u \in SqlThreads : sqlPc'[u] \in {"begin", "open"}}
<1>1. \A u \in SqlThreads \ {t} : u \in P2 <=> u \in P
  BY OnlyThatThreadMoves
<1>2. /\ Cardinality(P) \in Nat
      /\ Cardinality(P2) =
            IF t \in P2 THEN IF t \in P THEN Cardinality(P) ELSE Cardinality(P) + 1
                        ELSE IF t \in P THEN Cardinality(P) - 1 ELSE Cardinality(P)
  BY <1>1, CountOfThreads
<1>3. /\ opened' \in Nat /\ operations' \in 0..MaxOperations
      /\ \/ opened' = opened /\ operations' = operations /\ (Pending(sqlPc'[t]) => Pending(sqlPc[t]))
         \/ opened' = opened /\ operations' = operations + 1 /\ ~Pending(sqlPc[t])
         \/ opened' = opened + 1 /\ operations' = operations
               /\ Pending(sqlPc[t]) /\ ~Pending(sqlPc'[t])
  <2> USE SqliteAssumption DEF SqliteTypeOK, Goes
  <2>1. CASE BeginRead(t) \/ NestedRead(t)
    BY <2>1 DEF BeginRead, NestedRead, Operates
  <2>2. CASE BeginTransaction(t) \/ BeginClose(t)
    BY <2>2 DEF BeginTransaction, BeginClose, sqlCaches, Operates
  <2>3. CASE OpenConnection(t) \/ RegisterConnection(t) \/ CacheConnection(t)
    BY <2>3 DEF OpenConnection, RegisterConnection, CacheConnection
  <2>4. CASE OpenFails(t) \/ QueryEnds(t) \/ EndRead(t)
    BY <2>4 DEF OpenFails, QueryEnds, EndRead, sqlCaches
  <2>5. CASE EnterTransaction(t)
    BY <2>5 DEF EnterTransaction, TakeMutex
  <2>6. CASE WriteState(t) \/ EndTransaction(t) \/ LeaveMutex(t)
    BY <2>6 DEF WriteState, EndTransaction, LeaveMutex, sqlCaches
  <2>7. CASE CloseConnection(t)
    BY <2>7 DEF CloseConnection, TakeMutex
  <2>8. CASE BeginDrain(t)
    BY <2>8 DEF BeginDrain, TakeMutex, sqlCaches
  <2>9. CASE CloseConnections(t)
    BY <2>9 DEF CloseConnections
  <2>10. QED
    BY <2>1, <2>2, <2>3, <2>4, <2>5, <2>6, <2>7, <2>8, <2>9 DEF ThreadActs, SqliteStep
<1>4. opened \in Nat /\ operations \in Nat /\ opened + Cardinality(P) <= operations
  BY SqliteAssumption DEF SqliteTypeOK, OpenedInv
<1>5. opened' + Cardinality(P2) <= operations'
  BY <1>2, <1>3, <1>4
<1>6. QED BY <1>3, <1>5 DEF OpenedInv

\* A thread that closes the storage has it to itself.
LEMMA DrainedIsQuiet ==
    ASSUME SqliteTypeOK, SqlInv, NEW t \in SqlThreads, sqlPc[t] = "drain", readers = 0
    PROVE  \A u \in SqlThreads \ {t} : sqlPc[u] \in {"idle", "begin", "close", "closeall"}
<1>1. \A u \in SqlThreads : ~Reads(u)
  <2>1. IsFiniteSet({u \in SqlThreads : Reads(u)})
    BY SqliteAssumption, FS_Subset
  <2>2. {u \in SqlThreads : Reads(u)} = {}
    BY <2>1, FS_EmptySet DEF SqlInv, CountedReads
  <2>3. QED BY <2>2
<1>2. \A u \in SqlThreads \ {t} : ~InMutex(u)
  BY DEF SqlInv, MutexInv, InMutex
<1>3. \A u \in SqlThreads :
         sqlPc[u] \in {"idle", "open", "register", "cache", "query", "endread", "begin", "write",
                       "nested", "commit", "close", "closeall", "drain", "leave"}
         /\ sqlAim[u] \in {"read", "write"}
  BY DEF SqliteTypeOK
<1>4. QED BY <1>1, <1>2, <1>3 DEF Reads, InMutex, Opening

\* A connection is new, registered, cached and closed by one thread, or closed with all others.
LEMMA CachesStep ==
    ASSUME SqliteTypeOK, SqlInv, NEW t \in SqlThreads, ThreadActs(t)
    PROVE  /\ CachesInv' /\ OwnersInv'
           /\ sqlConn' \in [SqlThreads -> 0..opened'] /\ sqlOpening' \in [SqlThreads -> 0..opened']
           /\ connections' \subseteq 1..opened' /\ sqlOpen' \subseteq 1..opened'
<1> DEFINE Goal ==
       /\ CachesInv' /\ OwnersInv'
       /\ sqlConn' \in [SqlThreads -> 0..opened'] /\ sqlOpening' \in [SqlThreads -> 0..opened']
       /\ connections' \subseteq 1..opened' /\ sqlOpen' \subseteq 1..opened'
<1>0. opened \in Nat
  BY SqliteAssumption DEF SqliteTypeOK
<1>1. CASE OpenConnection(t)
  <2> USE DEF SqliteTypeOK, SqlInv, OpenConnection, Goes
  <2>1. opened' = opened + 1 /\ opened' \notin sqlOpen /\ opened' \notin connections
        /\ \A u \in SqlThreads : opened' # sqlConn[u] /\ opened' # sqlOpening[u]
    BY <1>0, <1>1
  <2>2. CachesInv'
    BY <1>0, <1>1, <2>1 DEF CachesInv, Opening
  <2>3. OwnersInv'
    <3>1. sqlOpening[t] = 0
      BY <1>1 DEF CachesInv
    <3>2. QED BY <1>0, <1>1, <2>1, <3>1 DEF OwnersInv
  <2>4. QED BY <1>0, <1>1, <2>1, <2>2, <2>3
<1>2. CASE RegisterConnection(t)
  <2> USE DEF SqliteTypeOK, SqlInv, RegisterConnection, Goes
  <2>1. sqlOpening[t] \in sqlOpen /\ sqlOpening[t] # 0
    BY <1>0, <1>2 DEF CachesInv
  <2>2. CachesInv'
    BY <1>0, <1>2, <2>1 DEF CachesInv, OwnersInv, Opening
  <2>3. OwnersInv'
    BY <1>2 DEF OwnersInv
  <2>4. QED BY <1>0, <1>2, <2>1, <2>2, <2>3
<1>3. CASE CacheConnection(t)
  <2> USE DEF SqliteTypeOK, SqlInv, CacheConnection, Goes
  <2>1. sqlOpening[t] \in sqlOpen \cap connections /\ sqlOpening[t] # 0 /\ sqlConn[t] = 0
    BY <1>0, <1>3 DEF CachesInv, Opening
  <2>2. CachesInv'
    BY <1>0, <1>3, <2>1 DEF CachesInv, Opening
  <2>3. OwnersInv'
    BY <1>0, <1>3, <2>1 DEF OwnersInv
  <2>4. QED BY <1>0, <1>3, <2>1, <2>2, <2>3
<1>4. CASE CloseConnection(t)
  <2> USE DEF SqliteTypeOK, SqlInv, CloseConnection, TakeMutex, Goes
  <2>1. \A u \in SqlThreads \ {t} : sqlMutex # u
    BY <1>4, SqliteAssumption
  <2>2. CachesInv'
    BY <1>0, <1>4, <2>1 DEF CachesInv, OwnersInv, Opening
  <2>3. OwnersInv'
    BY <1>0, <1>4 DEF OwnersInv, CachesInv
  <2>4. opened' = opened /\ sqlOpening' = sqlOpening /\ 0 \in 0..opened
    BY <1>0, <1>4
  <2>5. sqlConn' \in [SqlThreads -> 0..opened]
    BY <1>4, <2>4
  <2>6. connections' \subseteq connections /\ sqlOpen' \subseteq sqlOpen
    BY <1>4
  <2>7. QED BY <2>2, <2>3, <2>4, <2>5, <2>6
<1>5. CASE CloseConnections(t)
  <2>1. \A u \in SqlThreads \ {t} : sqlPc[u] \in {"idle", "begin", "close", "closeall"}
    BY <1>5, DrainedIsQuiet DEF CloseConnections
  <2>2. \A u \in SqlThreads : sqlOpening[u] = 0
    BY <1>5, <2>1 DEF SqlInv, CachesInv, CloseConnections
  <2>3. sqlOpen' = {} /\ connections' = {}
    BY <1>0, <1>5, <2>2 DEF SqlInv, CachesInv, OwnersInv, CloseConnections, SqliteTypeOK
  <2>4. sqlOpening' = sqlOpening /\ sqlConn' = [u \in SqlThreads |-> 0] /\ opened' = opened
    BY <1>5 DEF CloseConnections
  <2>5. \A u \in SqlThreads : sqlPc'[u] \in {"idle", "begin", "close", "closeall", "leave"}
    BY <1>5, <2>1 DEF CloseConnections, Goes, SqliteTypeOK
  <2>6. CachesInv' /\ OwnersInv'
    BY <2>2, <2>3, <2>4, <2>5 DEF CachesInv, OwnersInv, Opening
  <2>7. QED BY <1>0, <2>3, <2>4, <2>6 DEF SqliteTypeOK
<1>6. CASE UNCHANGED <<sqlConn, sqlOpening, sqlOpen, connections, opened>>
  <2>1. OwnersInv' /\ sqlConn' \in [SqlThreads -> 0..opened']
        /\ sqlOpening' \in [SqlThreads -> 0..opened']
        /\ connections' \subseteq 1..opened' /\ sqlOpen' \subseteq 1..opened'
    BY <1>6 DEF SqlInv, OwnersInv, SqliteTypeOK
  <2>2. CASE \/ OpenConnection(t) \/ RegisterConnection(t) \/ CacheConnection(t)
             \/ CloseConnection(t) \/ CloseConnections(t)
    BY <1>1, <1>2, <1>3, <1>4, <1>5, <2>2
  <2>3. CASE \/ BeginRead(t) \/ NestedRead(t) \/ BeginTransaction(t) \/ BeginClose(t)
             \/ OpenFails(t) \/ QueryEnds(t) \/ EndRead(t) \/ EnterTransaction(t) \/ WriteState(t)
             \/ EndTransaction(t) \/ LeaveMutex(t) \/ BeginDrain(t)
    <3>1. /\ \A u \in SqlThreads \ {t} : sqlPc'[u] = sqlPc[u] /\ (sqlMutex' = u => sqlMutex = u)
          /\ sqlPc'[t] \notin {"register", "cache"} /\ sqlPc[t] \notin {"register", "cache"}
          /\ sqlPc'[t] = "open" => sqlConn[t] = 0
          /\ sqlPc'[t] \in {"query", "write", "nested", "commit"} => sqlConn[t] # 0
          /\ sqlPc'[t] = "endread" /\ sqlMutex' = t => sqlConn[t] # 0
      <4> USE SqliteAssumption
          DEF SqliteTypeOK, Goes, SqlInv, CachesInv, MutexInv, InMutex, Opening, TakeMutex
      <4>1. CASE BeginRead(t) \/ NestedRead(t)
        BY <4>1 DEF BeginRead, NestedRead
      <4>2. CASE BeginTransaction(t) \/ BeginClose(t)
        BY <4>2 DEF BeginTransaction, BeginClose, sqlCaches
      <4>3. CASE OpenFails(t) \/ QueryEnds(t) \/ EndRead(t)
        BY <4>3 DEF OpenFails, QueryEnds, EndRead, sqlCaches
      <4>4. CASE EnterTransaction(t) \/ BeginDrain(t)
        BY <4>4 DEF EnterTransaction, BeginDrain, sqlCaches
      <4>5. CASE WriteState(t) \/ EndTransaction(t) \/ LeaveMutex(t)
        BY <4>5 DEF WriteState, EndTransaction, LeaveMutex, sqlCaches
      <4>6. QED BY <2>3, <4>1, <4>2, <4>3, <4>4, <4>5
    <3>2. CachesInv'
      BY <1>6, <3>1 DEF SqlInv, CachesInv, Opening
    <3>3. QED BY <2>1, <3>2
  <2>4. QED BY <2>2, <2>3 DEF ThreadActs, SqliteStep
<1>7. CASE ~UNCHANGED <<sqlConn, sqlOpening, sqlOpen, connections, opened>>
  BY <1>1, <1>2, <1>3, <1>4, <1>5, <1>7
     DEF ThreadActs, SqliteStep, BeginRead, NestedRead, BeginTransaction, BeginClose, OpenFails,
         QueryEnds, EndRead, EnterTransaction, WriteState, EndTransaction, LeaveMutex, BeginDrain,
         sqlCaches
<1>8. QED BY <1>6, <1>7

LEMMA SqlStep ==
    ASSUME SqliteTypeOK, SqlInv, [SqliteNext]_sqlVars
    PROVE  SqliteTypeOK' /\ SqlInv'
<1>1. ASSUME NEW t \in SqlThreads, ThreadActs(t) PROVE SqliteTypeOK' /\ SqlInv'
  <2>1. SqlInv'
    BY <1>1, MutexStep, ReadersStep, OpenedStep, CachesStep DEF SqlInv
  <2>2. readers' \in 0..Cardinality(SqlThreads)
    <3>1. readers' = Cardinality({u \in SqlThreads : Reads(u)'})
      BY <2>1 DEF SqlInv, CountedReads
    <3>2. {u \in SqlThreads : Reads(u)'} \in SUBSET SqlThreads
      OBVIOUS
    <3>3. QED BY <1>1, <3>1, <3>2, CountOfThreads
  <2>3. operations' \in 0..MaxOperations /\ opened' \in 0..MaxOperations
    <3>1. operations' \in 0..MaxOperations /\ opened' \in Nat
      BY <1>1, OpenedStep DEF SqlInv
    <3>2. Cardinality({u \in SqlThreads : sqlPc'[u] \in {"begin", "open"}}) \in Nat
      BY SqliteAssumption, FS_Subset, FS_CardinalityType
    <3>3. opened' + Cardinality({u \in SqlThreads : sqlPc'[u] \in {"begin", "open"}}) <= operations'
      BY <2>1 DEF SqlInv, OpenedInv
    <3>4. QED BY <3>1, <3>2, <3>3, SqliteAssumption
  <2>4. QED BY <1>1, <2>1, <2>2, <2>3, OnlyThatThreadMoves, CachesStep DEF SqliteTypeOK
<1>2. CASE UNCHANGED sqlVars
  <2>1. SqliteTypeOK'
    BY <1>2 DEF sqlVars, sqlCaches, SqliteTypeOK
  <2>2. MutexInv' /\ CachesInv' /\ OwnersInv'
    BY <1>2 DEF sqlVars, sqlCaches, SqlInv, MutexInv, CachesInv, OwnersInv, InMutex, Opening
  <2>3. CountedReads' /\ OpenedInv'
    BY <1>2 DEF sqlVars, sqlCaches, SqlInv, CountedReads, OpenedInv, Reads, Opening
  <2>4. QED BY <2>1, <2>2, <2>3 DEF SqlInv
<1>3. QED BY <1>1, <1>2 DEF SqliteNext, ThreadActs

LEMMA SqlStart == SqliteInit => SqliteTypeOK /\ SqlInv
<1> SUFFICES ASSUME SqliteInit PROVE SqliteTypeOK /\ SqlInv
  OBVIOUS
<1>1. {t \in SqlThreads : Reads(t)} = {} /\ {t \in SqlThreads : sqlPc[t] \in {"begin", "open"}} = {}
  BY DEF SqliteInit, Reads, Opening
<1>2. Cardinality({}) = 0 /\ Cardinality(SqlThreads) \in Nat
  BY SqliteAssumption, FS_EmptySet, FS_CardinalityType
<1>3. SqliteTypeOK
  <2>1. 0 \in 0..Cardinality(SqlThreads) /\ 0 \in 0..MaxOperations /\ 0 \in 0..0
    BY <1>2, SqliteAssumption
  <2>2. QED BY <2>1 DEF SqliteInit, SqliteTypeOK
<1>4. CountedReads /\ OpenedInv
  <2>1. readers = 0 /\ opened = 0 /\ operations = 0
    BY DEF SqliteInit
  <2>2. Cardinality({t \in SqlThreads : Reads(t)}) = 0
        /\ Cardinality({t \in SqlThreads : sqlPc[t] \in {"begin", "open"}}) = 0
    BY <1>1, <1>2
  <2>3. QED BY <2>1, <2>2 DEF CountedReads, OpenedInv
<1>5. MutexInv /\ CachesInv /\ OwnersInv
  BY SqliteAssumption DEF SqliteInit, MutexInv, InMutex, Opening, CachesInv, OwnersInv
<1>6. QED BY <1>3, <1>4, <1>5 DEF SqlInv

\* The program counters, the caches and the counters keep their types; there are never more
\* readers than threads.
THEOREM ConnectionsTyped == SqliteSpec => []SqliteTypeOK
BY SqlStart, SqlStep, PTL DEF SqliteSpec

\* Whoever closes the storage waits for those who use it, and closes every connection there is:
\* none is used after it has been closed, and none stays open that nobody can close.
THEOREM ConnectionsCorrect == SqliteSpec => []ConnectionsAreSound
<1>1. SqliteTypeOK /\ SqlInv => ConnectionsAreSound
  <2> SUFFICES ASSUME SqliteTypeOK, SqlInv PROVE ConnectionsAreSound
    OBVIOUS
  <2>1. ConnectionsOutliveTheirUse
    BY DEF ConnectionsOutliveTheirUse, SqlInv, CachesInv
  <2>2. NoConnectionIsForgotten
    BY SqliteAssumption DEF NoConnectionIsForgotten, SqlInv, CachesInv, OwnersInv, SqliteTypeOK
  <2>3. QED BY <2>1, <2>2 DEF ConnectionsAreSound
<1>2. QED BY <1>1, SqlStart, SqlStep, PTL DEF SqliteSpec

-----------------------------------------------------------------------------
(* ReviewSessions: what the variables hold                                 *)

LEMMA FirstOfNumbers ==
    ASSUME NEW T \in SUBSET Nat, T # {}
    PROVE  \E m \in T : \A n \in T : m <= n
<1>1. PICK m \in T : \A n \in T : ~(<<n, m>> \in OpToRel(<, Nat))
  BY NatLessThanWellFounded, WFMin
<1>2. \A n \in T : ~(n < m)
  BY <1>1 DEF OpToRel
<1> QED BY <1>2

LEMMA MinIsFirst ==
    ASSUME NEW T \in SUBSET Nat, T # {}
    PROVE  Min(T) \in T /\ \A n \in T : Min(T) <= n
BY FirstOfNumbers DEF Min

LEMMA LastOfNumbers ==
    ASSUME NEW T \in SUBSET Nat, T # {}, NEW top \in Nat, \A n \in T : n <= top
    PROVE  \E m \in T : \A n \in T : n <= m
<1> DEFINE below == {top - n : n \in T}
<1>1. \A n \in T : n \in Nat /\ top - n \in Nat
  OBVIOUS
<1>2. below \in SUBSET Nat /\ below # {}
  BY <1>1
<1>3. PICK d \in below : \A e \in below : d <= e
  BY <1>2, FirstOfNumbers
<1>4. PICK m \in T : d = top - m
  BY <1>3
<1>5. ASSUME NEW n \in T PROVE n <= m
  <2>1. top - n \in below
    OBVIOUS
  <2>2. top - m <= top - n
    BY <1>3, <1>4, <2>1
  <2>3. QED BY <1>1, <2>2
<1>6. QED BY <1>5

Shadows == [Paragraphs -> Wordings]
Fixes == [at : Paragraphs, round : Nat, issues : SUBSET Issues]
Summaries == [round : Nat, clean : BOOLEAN, streak : Nat]
States == [overlay : Shadows, seen : SUBSET Shadows, active : SUBSET Fixes, blocked : SUBSET Issues,
           streak : Nat, fixes : Nat, rounds : Seq(Summaries)]
Scans == [issues : SUBSET Issues, unfixable : SUBSET Issues, round : Nat]
Checkpoints ==
    {NoCheckpoint} \cup
    [phase : {"scan_done", "round_done"}, next : Nat \ {0}, state : States, latest : Scans]
Blocks == [round : Nat \ {0}, at : Paragraphs, issues : SUBSET Issues, saw : Shadows]
Patches == [at : Paragraphs, round : Nat, before : Wordings, issues : SUBSET Issues, after : Wordings]
Terminations == {"unresolved_fixes", "clean_confirmed", "issues_reported", "max_rounds",
                 "no_progress", "cycle_detected"}
Results ==
    {NoResult} \cup
    [termination : Terminations, issues : SUBSET Issues, overlay : Shadows, rounds : Seq(Summaries)]
Directories ==
    [edition : Editions, status : {"created", "running", "interrupted", "failed", "completed"},
     checkpoint : Checkpoints, blocks : SUBSET Blocks, patches : SUBSET Patches, result : Results,
     tried : Seq(Shadows), unfixed : SUBSET [issue : Issues, round : Nat], decided : Seq(Nat)]
FixAnswers == Wordings \cup {NoProposal, FailedProposal}
Sessions ==
    {IdleReview} \cup [pc : {"create"}, review : Nat] \cup
    [pc : {"scan", "decide", "limit", "result", "usage"}, review : Nat, round : Nat \ {0},
     state : States, latest : Scans, termination : Terminations \cup {"not_started"}] \cup
    [pc : {"fix"}, review : Nat, round : Nat \ {0}, state : States, latest : Scans,
     termination : Terminations \cup {"not_started"}, proposals : [Paragraphs -> FixAnswers]]

RevTypes ==
    /\ revEdition \in Editions
    /\ reviews \in Seq(Directories) /\ rev \in Sessions /\ revReturned \in 0..Len(reviews)
    /\ Len(reviews) <= MaxReviews
    /\ revEdits \in 0..MaxRevEdits /\ revFailures \in 0..MaxRevFailures

\* The invocation and its directory; no other unfinished one is of its edition.
AtWork == rev.pc \in {"scan", "decide", "fix", "limit", "result", "usage"}
SessionInv ==
    /\ Reviewing =>
         /\ rev.review \in DOMAIN reviews /\ Current.edition = revEdition /\ revReturned # rev.review
         /\ \A n \in DOMAIN reviews :
              Resumable(reviews[n].status) /\ reviews[n].edition = revEdition => n = rev.review
    /\ rev.pc = "create" => Current.status = "created"
    /\ rev.pc = "usage" => Current.status = "completed"
    /\ AtWork /\ rev.pc # "usage" => Current.status = "running"
    /\ OutcomesMatchTheBook /\ NoReviewIsAbandoned
    /\ \A n \in DOMAIN reviews : reviews[n].status = "created" => reviews[n].checkpoint = NoCheckpoint

\* Where the checkpoint of a directory lets a review go on.
Limit(d) == MaxRounds(d.edition)
Saved(d) == d.checkpoint # NoCheckpoint
Scanned(d) == d.checkpoint # NoCheckpoint /\ d.checkpoint.phase = "scan_done"
Position(d) == IF Saved(d) THEN d.checkpoint.next ELSE 1

\* A round that is over, for good unless it is the last one.
Passed(d, r) == r \in 1..Limit(d) /\ (r < Position(d) \/ (r = Limit(d) /\ Position(d) >= Limit(d)))

\* What a decided scan leaves blocked.
Unblocked(d) ==
    ResumedState(d).blocked
      \ UNION {a.issues \ d.checkpoint.latest.issues :
                 a \in {c \in ResumedState(d).active : c.round < d.checkpoint.next}}

\* The invocation is where the checkpoint is, except while it fixes.
FixingState(d) == [ResumedState(d) EXCEPT !.blocked = Unblocked(d), !.streak = 0]
FixOf(v, p) == (v.latest.issues \ v.latest.unfixable) \cap IssuesAt(p)
IsFixing(v, d) ==
    /\ v.state = FixingState(d) /\ v.latest.issues # {} /\ v.state.fixes < d.edition.fixes
    /\ \A p \in Paragraphs : v.proposals[p] \in Wordings =>
         /\ FixOf(v, p) # {}
         /\ \E t \in d.patches : t.at = p /\ t.round = v.round /\ t.issues = FixOf(v, p)
HasEnded(v, d) ==
    /\ v.termination \in Terminations
    /\ v.termination = "clean_confirmed" =>
         v.latest.issues = {} /\ v.state.blocked = {} /\ v.state.streak >= RequiredClean(d.edition)
InStepOf(v, d) ==
    /\ v.pc \in {"scan", "decide", "fix"} => v.round = ResumedRound(d)
    /\ v.pc = "scan" => ~Scanned(d)
    /\ v.pc \in {"decide", "fix"} => Scanned(d) /\ d.checkpoint.latest = v.latest
    /\ v.pc # "fix" => v.state = ResumedState(d)
    /\ v.pc \in {"limit", "result", "usage"} =>
         /\ Saved(d) /\ d.checkpoint.phase = "round_done"
         /\ d.checkpoint.latest = NoScan /\ d.checkpoint.next = v.round + 1
    /\ v.pc = "limit" => v.round = Limit(d)
    /\ v.pc = "fix" => IsFixing(v, d)
    /\ v.pc = "result" => HasEnded(v, d)
InStep == AtWork => InStepOf(rev, Current)

\* The blocks of a directory.
Found(d, r) == UNION {b.issues : b \in {c \in d.blocks : c.round = r}}
IsScanned(d, r) == \A p \in Paragraphs : \E b \in d.blocks : b.round = r /\ b.at = p
BlocksOf(d) ==
    /\ \A b \in d.blocks : b.round \in 1..Limit(d) /\ b.round <= Position(d) /\ b.issues \subseteq IssuesAt(b.at)
    /\ \A b, c \in d.blocks : b.round = c.round /\ b.at = c.at => b = c
    /\ \A b \in d.blocks : b.round >= ResumedRound(d) =>
         b.saw = ResumedState(d).overlay \/ Found(d, b.round) # {}

CheckpointOf(d) ==
    Saved(d) =>
      /\ d.checkpoint.next \in 1..(Limit(d) + 1)
      /\ d.checkpoint.phase = "scan_done" =>
           /\ d.checkpoint.next <= Limit(d) /\ d.checkpoint.latest.round = d.checkpoint.next
           /\ d.checkpoint.latest.issues = Found(d, d.checkpoint.next)
           /\ IsScanned(d, d.checkpoint.next)
      /\ d.checkpoint.state.overlay \in d.checkpoint.state.seen
      /\ d.checkpoint.state.fixes <= d.edition.fixes

DecidedOf(d) ==
    /\ \A k \in DOMAIN d.decided :
         Passed(d, d.decided[k]) \/ (Scanned(d) /\ d.decided[k] = Position(d))
    /\ \A k, m \in DOMAIN d.decided : k < m /\ d.decided[k] = d.decided[m] => d.decided[k] = Limit(d)

TriedOf(d) ==
    /\ FormalText \in ResumedState(d).seen
    /\ \A k \in DOMAIN d.tried : d.tried[k] \in ResumedState(d).seen
    /\ IsInjective(<<FormalText>> \o d.tried)

ActiveOf(d) ==
    /\ \A a, c \in ResumedState(d).active : a.at = c.at => a = c
    /\ \A a \in ResumedState(d).active :
         \/ a.round = Limit(d)
         \/ a.round < Position(d) /\ \E t \in d.patches : t.at = a.at /\ t.round = a.round /\ t.issues = a.issues

\* An issue whose fix failed and that a later scan does not report any more.
Released(d, u) ==
    \E t \in d.patches : \E b \in d.blocks :
        u.issue \in t.issues /\ b.at = t.at /\ b.round > t.round /\ b.round > u.round /\ u.issue \notin b.issues
UnfixedOf(d) ==
    \A u \in d.unfixed :
      /\ u.issue \in Found(d, u.round) /\ Passed(d, u.round)
      /\ u.issue \in ResumedState(d).blocked \/ Released(d, u)

\* The rounds of a review follow each other, except the last one, and the last of them that
\* count as confirmations have found nothing in the text as it is.
Confirms(d, e, overlay) ==
    e.clean /\ \A b \in d.blocks : b.round = e.round => b.issues = {} /\ b.saw = overlay
RoundsOf(d) ==
    LET rounds == ResumedState(d).rounds IN
    /\ \A k \in DOMAIN rounds : Passed(d, rounds[k].round) /\ IsScanned(d, rounds[k].round)
    /\ \A k, m \in DOMAIN rounds : k < m => rounds[k].round < rounds[m].round \/ rounds[m].round = Limit(d)
    /\ ResumedState(d).streak <= Len(rounds)
    /\ \A k \in DOMAIN rounds :
         k > Len(rounds) - ResumedState(d).streak => Confirms(d, rounds[k], ResumedState(d).overlay)

CompletedOf(d) ==
    d.status = "completed" =>
      /\ d.result # NoResult
      /\ \A u \in d.unfixed : u.issue \in d.result.issues \/ Released(d, u)
      /\ d.result.termination = "clean_confirmed" =>
           /\ d.result.issues = {} /\ Len(d.result.rounds) >= RequiredClean(d.edition)
           /\ \A k \in DOMAIN d.result.rounds : k > Len(d.result.rounds) - RequiredClean(d.edition) =>
                Confirms(d, d.result.rounds[k], d.result.overlay)
           /\ \A k \in DOMAIN d.result.rounds : d.result.rounds[k].round \in 1..Limit(d)
           /\ \A k, m \in DOMAIN d.result.rounds : k < m =>
                d.result.rounds[k].round < d.result.rounds[m].round \/ d.result.rounds[m].round = Limit(d)

IsSound(d) ==
    /\ BlocksOf(d) /\ CheckpointOf(d) /\ DecidedOf(d) /\ TriedOf(d) /\ ActiveOf(d) /\ UnfixedOf(d)
    /\ RoundsOf(d) /\ CompletedOf(d)
DirectoryInv == \A n \in DOMAIN reviews : IsSound(reviews[n])

RevInv == RevTypes /\ SessionInv /\ InStep /\ DirectoryInv

LEMMA MaxIsGreatest ==
    ASSUME NEW T \in SUBSET Nat, T # {}, NEW top \in Nat, \A n \in T : n <= top
    PROVE  Max(T) \in T /\ \A n \in T : Max(T) >= n
BY LastOfNumbers DEF Max

LEMMA ProductIsPositive ==
    ASSUME NEW m \in Nat \ {0}, NEW n \in Nat \ {0}
    PROVE  m * n \in Nat \ {0}
OBVIOUS

LEMMA RoundsAreBounded ==
    ASSUME NEW e \in Editions
    PROVE  RequiredClean(e) \in Nat \ {0} /\ MaxRounds(e) \in Nat \ {0} /\ e.fixes \in Nat
<1>1. e.loop \in BOOLEAN /\ e.fixes \in Nat /\ e.clean \in Nat \ {0}
  BY ReviewAssumption
<1>2. RequiredClean(e) \in Nat \ {0}
  BY <1>1 DEF RequiredClean
<1>3. e.fixes + 1 \in Nat \ {0}
  BY <1>1
<1>4. QED BY <1>1, <1>2, <1>3, ProductIsPositive DEF MaxRounds

LEMMA FreshIsState == FormalText \in Shadows /\ FreshState \in States
BY ReviewAssumption DEF FormalText, Shadows, FreshState, States

\* Where a directory lets a review go on.
LEMMA WhereItGoesOn ==
    ASSUME NEW d \in Directories, CheckpointOf(d)
    PROVE  /\ Limit(d) \in Nat \ {0} /\ Position(d) \in Nat \ {0} /\ Position(d) <= Limit(d) + 1
           /\ ResumedRound(d) = (IF Position(d) <= Limit(d) THEN Position(d) ELSE Limit(d))
           /\ ResumedState(d) \in States
           /\ Saved(d) => ResumedState(d) = d.checkpoint.state /\ Position(d) = d.checkpoint.next
           /\ Scanned(d) => Saved(d) /\ Position(d) <= Limit(d)
<1>1. d.edition \in Editions /\ d.checkpoint \in Checkpoints
  BY DEF Directories
<1>2. Limit(d) \in Nat \ {0}
  BY <1>1, RoundsAreBounded DEF Limit
<1>3. CASE ~Saved(d)
  BY <1>2, <1>3, FreshIsState DEF Saved, Position, ResumedRound, ResumedState, Scanned, Limit
<1>4. CASE Saved(d)
  <2>1. PICK next, limit : next = d.checkpoint.next /\ limit = Limit(d)
    OBVIOUS
  <2>2. next \in Nat \ {0} /\ d.checkpoint.state \in States /\ next <= limit + 1 /\ limit \in Nat \ {0}
    BY <1>1, <1>2, <1>4, <2>1 DEF Saved, Checkpoints, CheckpointOf
  <2>3. Min({next, limit}) = IF next <= limit THEN next ELSE limit
    BY <2>2, MinIsFirst
  <2>4. ResumedRound(d) = Min({next, limit}) /\ ResumedState(d) = d.checkpoint.state
    BY <1>4, <2>1 DEF Saved, ResumedRound, ResumedState, Limit
  <2>5. Scanned(d) => next <= limit
    BY <1>4, <2>1 DEF Saved, Scanned, CheckpointOf
  <2>6. QED BY <1>2, <1>4, <2>1, <2>2, <2>3, <2>4, <2>5 DEF Saved, Position, Scanned
<1>5. QED BY <1>3, <1>4

\* What a directory with the same checkpoint and edition has in common.
LEMMA SameCheckpoint ==
    ASSUME NEW d, NEW e, e.checkpoint = d.checkpoint, e.edition = d.edition
    PROVE  /\ Limit(e) = Limit(d) /\ Saved(e) = Saved(d) /\ Scanned(e) = Scanned(d)
           /\ Position(e) = Position(d) /\ ResumedRound(e) = ResumedRound(d)
           /\ ResumedState(e) = ResumedState(d)
           /\ \A r : Passed(e, r) = Passed(d, r)
BY DEF Limit, Saved, Scanned, Position, ResumedRound, ResumedState, Passed

\* The status of a directory changes nothing else.
LEMMA StatusKeeps ==
    ASSUME NEW d \in Directories, IsSound(d), NEW status \in {"running", "interrupted", "failed"},
           NEW e, e = [d EXCEPT !.status = status]
    PROVE  IsSound(e) /\ e \in Directories
<1>1. /\ e.checkpoint = d.checkpoint /\ e.edition = d.edition /\ e.blocks = d.blocks
      /\ e.patches = d.patches /\ e.unfixed = d.unfixed /\ e.tried = d.tried
      /\ e.decided = d.decided /\ e.status = status /\ e \in Directories
  BY DEF Directories
<1>2. /\ Limit(e) = Limit(d) /\ Saved(e) = Saved(d) /\ Scanned(e) = Scanned(d)
      /\ Position(e) = Position(d) /\ ResumedRound(e) = ResumedRound(d)
      /\ ResumedState(e) = ResumedState(d) /\ \A r : Passed(e, r) = Passed(d, r)
  BY <1>1, SameCheckpoint
<1>3. /\ \A r : Found(e, r) = Found(d, r) /\ IsScanned(e, r) = IsScanned(d, r)
      /\ \A u : Released(e, u) = Released(d, u)
      /\ \A row, overlay : Confirms(e, row, overlay) = Confirms(d, row, overlay)
  BY <1>1 DEF Found, IsScanned, Released, Confirms
<1>6. BlocksOf(e)
  BY <1>1, <1>2, <1>3 DEF IsSound, BlocksOf
<1>7. CheckpointOf(e)
  BY <1>1, <1>2, <1>3 DEF IsSound, CheckpointOf
<1>8. DecidedOf(e) /\ TriedOf(e)
  BY <1>1, <1>2 DEF IsSound, DecidedOf, TriedOf
<1>9. ActiveOf(e) /\ UnfixedOf(e)
  BY <1>1, <1>2, <1>3 DEF IsSound, ActiveOf, UnfixedOf
<1>10. RoundsOf(e)
  BY <1>1, <1>2, <1>3 DEF IsSound, RoundsOf
<1>4. CompletedOf(e)
  BY <1>1 DEF CompletedOf
<1>5. QED BY <1>1, <1>4, <1>6, <1>7, <1>8, <1>9, <1>10 DEF IsSound

\* A new directory.
LEMMA NewIsSound ==
    ASSUME NEW d \in Directories, d.checkpoint = NoCheckpoint, d.blocks = {}, d.unfixed = {},
           d.tried = << >>, d.decided = << >>, d.status = "created"
    PROVE  IsSound(d)
<1>1. ResumedState(d) = FreshState /\ ~Saved(d)
  BY DEF ResumedState, Saved
<1>2. BlocksOf(d) /\ CheckpointOf(d) /\ DecidedOf(d) /\ UnfixedOf(d) /\ CompletedOf(d)
  BY <1>1 DEF BlocksOf, CheckpointOf, DecidedOf, UnfixedOf, CompletedOf
<1>3. IsInjective(<<FormalText>> \o d.tried)
  BY DEF IsInjective
<1>4. TriedOf(d) /\ ActiveOf(d) /\ RoundsOf(d)
  BY <1>1, <1>3 DEF TriedOf, ActiveOf, RoundsOf, FreshState
<1>5. QED BY <1>2, <1>4 DEF IsSound

\* A block is scanned.
LEMMA ScanKeeps ==
    ASSUME NEW d \in Directories, IsSound(d), d.status = "running", ~Scanned(d),
           NEW p \in Paragraphs, \A b \in d.blocks : b.round # ResumedRound(d) \/ b.at # p,
           NEW found \in SUBSET IssuesAt(p),
           NEW new, new = [round |-> ResumedRound(d), at |-> p, issues |-> found,
                           saw |-> ResumedState(d).overlay],
           NEW e, e = [d EXCEPT !.blocks = @ \cup {new}]
    PROVE  IsSound(e) /\ e \in Directories
<1>1. /\ Limit(d) \in Nat \ {0} /\ Position(d) \in Nat \ {0} /\ ResumedState(d) \in States
      /\ ResumedRound(d) \in Nat \ {0} /\ ResumedRound(d) <= Limit(d) /\ ResumedRound(d) <= Position(d)
  BY WhereItGoesOn DEF IsSound
<1>2. new \in Blocks /\ found \subseteq Issues
  BY <1>1 DEF Blocks, IssuesAt, States
<1>3. /\ e.checkpoint = d.checkpoint /\ e.edition = d.edition /\ e.blocks = d.blocks \cup {new}
      /\ e.patches = d.patches /\ e.unfixed = d.unfixed /\ e.tried = d.tried
      /\ e.decided = d.decided /\ e.status = "running" /\ e \in Directories /\ d.blocks \subseteq Blocks
  BY <1>2 DEF Directories
<1>4. /\ Limit(e) = Limit(d) /\ Saved(e) = Saved(d) /\ Scanned(e) = Scanned(d)
      /\ Position(e) = Position(d) /\ ResumedRound(e) = ResumedRound(d)
      /\ ResumedState(e) = ResumedState(d) /\ \A r : Passed(e, r) = Passed(d, r)
  BY <1>3, SameCheckpoint
<1>5. /\ \A r : Found(d, r) \subseteq Found(e, r) /\ (IsScanned(d, r) => IsScanned(e, r))
      /\ \A u : Released(d, u) => Released(e, u)
  BY <1>3 DEF Found, IsScanned, Released
<1>6. ASSUME NEW r, IsScanned(d, r) PROVE r # new.round
  BY <1>6 DEF IsScanned
<1>7. BlocksOf(e)
  <2>1. \A b \in e.blocks : /\ b.round \in 1..Limit(e) /\ b.round <= Position(e)
                            /\ b.issues \subseteq IssuesAt(b.at)
    BY <1>1, <1>3, <1>4 DEF IsSound, BlocksOf
  <2>2. \A b, c \in e.blocks : b.round = c.round /\ b.at = c.at => b = c
    BY <1>3 DEF IsSound, BlocksOf
  <2>3. ASSUME NEW b \in e.blocks, b.round >= ResumedRound(e)
        PROVE  b.saw = ResumedState(e).overlay \/ Found(e, b.round) # {}
    <3>1. CASE b = new
      BY <1>4, <3>1
    <3>2. CASE b \in d.blocks
      <4>1. b.saw = ResumedState(d).overlay \/ Found(d, b.round) # {}
        BY <1>4, <2>3, <3>2 DEF IsSound, BlocksOf
      <4>2. QED BY <1>4, <1>5, <4>1
    <3>3. QED BY <1>3, <3>1, <3>2
  <2>4. QED BY <2>1, <2>2, <2>3 DEF BlocksOf
<1>8. CheckpointOf(e) /\ DecidedOf(e) /\ TriedOf(e)
  <2>1. CheckpointOf(e)
    BY <1>3, <1>4 DEF IsSound, CheckpointOf, Scanned, Saved
  <2>2. DecidedOf(e)
    BY <1>3, <1>4 DEF IsSound, DecidedOf
  <2>3. TriedOf(e)
    BY <1>3, <1>4 DEF IsSound, TriedOf
  <2>4. QED BY <2>1, <2>2, <2>3
<1>9. ActiveOf(e) /\ UnfixedOf(e)
  <2>1. ActiveOf(e)
    BY <1>3, <1>4 DEF IsSound, ActiveOf
  <2>2. UnfixedOf(e)
    BY <1>3, <1>4, <1>5 DEF IsSound, UnfixedOf
  <2>3. QED BY <2>1, <2>2
<1>10. RoundsOf(e)
  <2> DEFINE rounds == ResumedState(d).rounds
  <2>1. \A k \in DOMAIN rounds : IsScanned(d, rounds[k].round) /\ Passed(d, rounds[k].round)
    BY DEF IsSound, RoundsOf
  <2>2. ASSUME NEW k \in DOMAIN rounds, NEW overlay, Confirms(d, rounds[k], overlay)
        PROVE  Confirms(e, rounds[k], overlay)
    BY <1>3, <1>6, <2>1, <2>2 DEF Confirms
  <2>3. QED BY <1>4, <1>5, <2>1, <2>2 DEF IsSound, RoundsOf
<1>11. CompletedOf(e)
  BY <1>3 DEF CompletedOf
<1>12. QED BY <1>3, <1>7, <1>8, <1>9, <1>10, <1>11 DEF IsSound

\* Where a review goes on, nothing of a later round is passed.
LEMMA PassedBefore ==
    ASSUME NEW d \in Directories, CheckpointOf(d), NEW r, Passed(d, r)
    PROVE  r \in Nat \ {0} /\ r <= Limit(d) /\ r <= Position(d) /\ (r < ResumedRound(d) \/ r = Limit(d))
BY WhereItGoesOn DEF Passed

\* A scan is finished.
LEMMA FinishScanKeeps ==
    ASSUME NEW d \in Directories, IsSound(d), d.status = "running", ~Scanned(d),
           IsScanned(d, ResumedRound(d)), NEW unfixable \in SUBSET Found(d, ResumedRound(d)),
           NEW latest, latest = [issues |-> Found(d, ResumedRound(d)), unfixable |-> unfixable,
                                 round |-> ResumedRound(d)],
           NEW e, e = [d EXCEPT !.checkpoint = Checkpoint("scan_done", ResumedRound(d), ResumedState(d), latest),
                                !.decided = Append(@, ResumedRound(d))]
    PROVE  /\ IsSound(e) /\ e \in Directories /\ latest \in Scans /\ Scanned(e)
           /\ e.checkpoint.latest = latest /\ ResumedRound(e) = ResumedRound(d)
           /\ ResumedState(e) = ResumedState(d) /\ Position(e) = ResumedRound(d)
<1>1. PICK r, s, limit, pos : /\ r = ResumedRound(d) /\ s = ResumedState(d)
                              /\ limit = Limit(d) /\ pos = Position(d)
  OBVIOUS
<1>2. /\ limit \in Nat \ {0} /\ pos \in Nat \ {0} /\ s \in States /\ r \in Nat \ {0} /\ pos <= limit + 1
      /\ r = (IF pos <= limit THEN pos ELSE limit)
  BY <1>1, WhereItGoesOn DEF IsSound
<1>3. Found(d, r) \subseteq Issues
  BY DEF Found, Directories, Blocks
<1>4. latest \in Scans
  BY <1>1, <1>2, <1>3 DEF Scans
<1>19. PICK saved : saved = [phase |-> "scan_done", next |-> r, state |-> s, latest |-> latest]
  OBVIOUS
<1>20. saved \in Checkpoints
  BY <1>2, <1>4, <1>19 DEF Checkpoints
<1>21. e = [d EXCEPT !.checkpoint = saved, !.decided = Append(@, r)]
  BY <1>1, <1>19 DEF Checkpoint
<1>22. d.decided \in Seq(Nat) /\ Append(d.decided, r) \in Seq(Nat)
  BY <1>2 DEF Directories
<1>5. /\ e.checkpoint = [phase |-> "scan_done", next |-> r, state |-> s, latest |-> latest]
      /\ e.edition = d.edition /\ e.blocks = d.blocks /\ e.patches = d.patches /\ e.unfixed = d.unfixed
      /\ e.tried = d.tried /\ e.decided = Append(d.decided, r) /\ e.status = "running"
      /\ d.decided \in Seq(Nat) /\ e \in Directories
  BY <1>19, <1>20, <1>21, <1>22 DEF Directories
<1>6. /\ Limit(e) = limit /\ Saved(e) /\ Scanned(e) /\ Position(e) = r /\ ResumedState(e) = s
  BY <1>1, <1>5 DEF Limit, Saved, Scanned, Position, ResumedState, NoCheckpoint
<1>7. \A x : Found(e, x) = Found(d, x) /\ IsScanned(e, x) = IsScanned(d, x)
  BY <1>5 DEF Found, IsScanned
<1>8. CheckpointOf(e)
  <2>1. s.overlay \in s.seen /\ s.fixes <= d.edition.fixes
    <3>1. CASE Saved(d)
      BY <1>1, <3>1, WhereItGoesOn DEF IsSound, CheckpointOf
    <3>2. CASE ~Saved(d)
      BY <1>1, <3>2, RoundsAreBounded DEF Directories, FreshState, ResumedState, Saved
    <3>3. QED BY <3>1, <3>2
  <2>2. QED BY <1>1, <1>2, <1>5, <1>6, <1>7, <2>1 DEF CheckpointOf
<1>9. ResumedRound(e) = r
  BY <1>2, <1>5, <1>6, <1>8, WhereItGoesOn
<1>10. \A x : Passed(d, x) => Passed(e, x)
  BY <1>1, <1>2, <1>6 DEF Passed
<1>11. BlocksOf(e)
  <2>1. \A b \in d.blocks : b.round \in 1..limit /\ b.round <= pos /\ b.round \in Nat
    BY <1>1 DEF IsSound, BlocksOf, Directories, Blocks
  <2>2. \A b \in d.blocks : b.round <= r
    BY <1>2, <2>1
  <2>3. QED BY <1>1, <1>5, <1>6, <1>7, <1>9, <2>1, <2>2 DEF IsSound, BlocksOf
<1>12. DecidedOf(e)
  <2>1. /\ DOMAIN d.decided = 1..Len(d.decided) /\ DOMAIN e.decided = 1..(Len(d.decided) + 1)
        /\ Len(d.decided) \in Nat
        /\ \A k \in 1..Len(d.decided) : e.decided[k] = d.decided[k]
        /\ e.decided[Len(d.decided) + 1] = r
    BY <1>2, <1>5
  <2>2. \A k \in 1..Len(d.decided) : Passed(d, d.decided[k])
    BY <2>1 DEF IsSound, DecidedOf
  <2>3. \A k \in DOMAIN e.decided : Passed(e, e.decided[k]) \/ e.decided[k] = r
    BY <1>10, <2>1, <2>2
  <2>4. \A k \in 1..Len(d.decided) : d.decided[k] = r => r = limit
    BY <1>1, <2>2, PassedBefore DEF IsSound
  <2>5. ASSUME NEW k \in DOMAIN e.decided, NEW m \in DOMAIN e.decided, k < m, e.decided[k] = e.decided[m]
        PROVE  e.decided[k] = limit
    <3>1. k \in 1..Len(d.decided)
      BY <2>1, <2>5
    <3>2. CASE m = Len(d.decided) + 1
      BY <2>1, <2>4, <2>5, <3>1, <3>2
    <3>3. CASE m \in 1..Len(d.decided)
      BY <1>1, <2>1, <2>5, <3>1, <3>3 DEF IsSound, DecidedOf
    <3>4. QED BY <2>1, <3>2, <3>3
  <2>6. QED BY <1>6, <2>3, <2>5 DEF DecidedOf
<1>13. TriedOf(e)
  BY <1>1, <1>5, <1>6 DEF IsSound, TriedOf
<1>14. ActiveOf(e)
  <2>1. \A x \in s.active : x.round \in Nat
    BY <1>2 DEF States, Fixes
  <2>2. \A x \in s.active : x.round < pos => x.round = limit \/ x.round < r
    BY <1>2, <2>1
  <2>3. QED BY <1>1, <1>5, <1>6, <2>2 DEF IsSound, ActiveOf
<1>15. UnfixedOf(e)
  <2>1. \A u : Released(d, u) => Released(e, u)
    BY <1>5 DEF Released
  <2>2. QED BY <1>1, <1>5, <1>6, <1>7, <1>10, <2>1 DEF IsSound, UnfixedOf
<1>16. RoundsOf(e)
  <2>1. \A x, overlay : Confirms(e, x, overlay) = Confirms(d, x, overlay)
    BY <1>5 DEF Confirms
  <2>2. QED BY <1>1, <1>6, <1>7, <1>10, <2>1 DEF IsSound, RoundsOf
<1>17. CompletedOf(e)
  BY <1>5 DEF CompletedOf
<1>18. QED
  BY <1>1, <1>4, <1>5, <1>6, <1>8, <1>9, <1>11, <1>12, <1>13, <1>14, <1>15, <1>16, <1>17 DEF IsSound


\* An issue leaves the blocked ones only when a patch covers it and the scan is without it.
LEMMA UnblockedIsReleased ==
    ASSUME NEW d \in Directories, IsSound(d), Scanned(d), NEW u \in d.unfixed,
           u.issue \in ResumedState(d).blocked, u.issue \notin Unblocked(d)
    PROVE  Released(d, u)
<1>1. PICK r, latest : r = d.checkpoint.next /\ latest = d.checkpoint.latest.issues
  OBVIOUS
<1>2. /\ Limit(d) \in Nat \ {0} /\ Position(d) = r /\ r \in Nat \ {0} /\ r <= Limit(d)
      /\ ResumedState(d) \in States
  BY <1>1, WhereItGoesOn DEF IsSound
<1>3. latest = Found(d, r) /\ IsScanned(d, r)
  BY <1>1 DEF IsSound, CheckpointOf, Scanned, Saved
<1>4. PICK a \in ResumedState(d).active : a.round < r /\ u.issue \in a.issues /\ u.issue \notin latest
  BY <1>1 DEF Unblocked
<1>5. a \in Fixes /\ a.round # Limit(d)
  BY <1>2, <1>4 DEF States, Fixes
<1>6. PICK t \in d.patches : t.at = a.at /\ t.round = a.round /\ t.issues = a.issues
  BY <1>4, <1>5 DEF IsSound, ActiveOf
<1>7. PICK b \in d.blocks : b.round = r /\ b.at = a.at
  BY <1>3, <1>5 DEF IsScanned, Fixes
<1>8. u.issue \notin b.issues
  BY <1>3, <1>4, <1>7 DEF Found
<1>9. u.round < r
  <2>1. u.issue \in Found(d, u.round) /\ Passed(d, u.round)
    BY DEF IsSound, UnfixedOf
  <2>2. u.round # r
    BY <1>3, <1>4, <2>1
  <2>3. QED BY <1>2, <2>1, <2>2, PassedBefore DEF IsSound
<1>10. QED BY <1>4, <1>6, <1>7, <1>8, <1>9 DEF Released

\* After a round nothing that was passed is to come again, and the round is passed.
LEMMA RoundPasses ==
    ASSUME NEW d \in Directories, IsSound(d), Scanned(d), NEW s \in States,
           s.overlay \in s.seen, s.fixes <= d.edition.fixes,
           NEW e \in Directories, e.edition = d.edition, e.blocks = d.blocks,
           e.checkpoint = Checkpoint("round_done", d.checkpoint.next + 1, s, NoScan)
    PROVE  /\ Limit(e) = Limit(d) /\ Saved(e) /\ ~Scanned(e) /\ ResumedState(e) = s
           /\ Position(e) = d.checkpoint.next + 1
           /\ CheckpointOf(e)
           /\ \A x : Passed(d, x) \/ x = d.checkpoint.next => Passed(e, x)
           /\ \A x : Found(e, x) = Found(d, x) /\ IsScanned(e, x) = IsScanned(d, x)
           /\ s.overlay = ResumedState(d).overlay \/ Found(d, d.checkpoint.next) # {} => BlocksOf(e)
<1>1. PICK r, limit : r = d.checkpoint.next /\ limit = Limit(d)
  OBVIOUS
<1>2. limit \in Nat \ {0} /\ Position(d) = r /\ r \in Nat \ {0} /\ r <= limit /\ ResumedRound(d) = r
  BY <1>1, WhereItGoesOn DEF IsSound
<1>3. e.checkpoint = [phase |-> "round_done", next |-> r + 1, state |-> s, latest |-> NoScan]
  BY <1>1 DEF Checkpoint
<1>4. /\ Limit(e) = limit /\ Saved(e) /\ ~Scanned(e) /\ ResumedState(e) = s /\ Position(e) = r + 1
  BY <1>1, <1>3 DEF Limit, Saved, Scanned, ResumedState, Position, NoCheckpoint
<1>5. CheckpointOf(e)
  <2>1. r + 1 \in 1..(limit + 1)
    BY <1>2
  <2>2. QED BY <1>3, <1>4, <2>1 DEF CheckpointOf
<1>6. ASSUME NEW x, Passed(d, x) \/ x = r PROVE Passed(e, x)
  <2>1. x \in 1..limit /\ x <= r
    BY <1>1, <1>2, <1>6 DEF Passed
  <2>2. QED BY <1>2, <1>4, <2>1 DEF Passed
<1>7. \A x : Found(e, x) = Found(d, x) /\ IsScanned(e, x) = IsScanned(d, x)
  BY DEF Found, IsScanned
<1>8. ASSUME s.overlay = ResumedState(d).overlay \/ Found(d, r) # {} PROVE BlocksOf(e)
  <2>1. \A b \in d.blocks : /\ b.round \in 1..limit /\ b.round <= r /\ b.issues \subseteq IssuesAt(b.at)
                            /\ b.round \in Nat
    BY <1>1, <1>2 DEF IsSound, BlocksOf, Directories, Blocks
  <2>2. ResumedRound(e) = IF r + 1 <= limit THEN r + 1 ELSE limit
    BY <1>4, <1>5, WhereItGoesOn
  <2>3. ASSUME NEW b \in e.blocks, b.round >= ResumedRound(e)
        PROVE  b.saw = s.overlay \/ Found(d, b.round) # {}
    <3>1. b \in d.blocks /\ b.round \in Nat /\ b.round <= r
      BY <2>1
    <3>2. b.round = r
      BY <1>2, <2>2, <2>3, <3>1
    <3>3. b.saw = ResumedState(d).overlay \/ Found(d, b.round) # {}
      BY <1>2, <3>1, <3>2 DEF IsSound, BlocksOf
    <3>4. QED BY <1>8, <3>2, <3>3
  <2>4. \A b \in e.blocks : /\ b.round \in 1..limit /\ b.round <= r + 1
                            /\ b.issues \subseteq IssuesAt(b.at)
    BY <1>2, <2>1
  <2>5. \A b, c \in e.blocks : b.round = c.round /\ b.at = c.at => b = c
    BY DEF IsSound, BlocksOf
  <2>6. QED BY <1>4, <1>7, <2>3, <2>4, <2>5 DEF BlocksOf
<1>9. QED BY <1>1, <1>4, <1>5, <1>6, <1>7, <1>8

\* The rounds of a review after one more.
LEMMA RoundAdded ==
    ASSUME NEW d \in Directories, IsSound(d), Scanned(d), NEW s \in States,
           NEW row \in Summaries, row.round = d.checkpoint.next,
           s.rounds = Append(ResumedState(d).rounds, row),
           s.streak \in {0, ResumedState(d).streak + 1},
           s.streak # 0 =>
             row.clean /\ s.overlay = ResumedState(d).overlay /\ Found(d, d.checkpoint.next) = {},
           NEW e \in Directories, e.edition = d.edition, e.blocks = d.blocks,
           ResumedState(e) = s, Limit(e) = Limit(d),
           \A x : Passed(d, x) \/ x = d.checkpoint.next => Passed(e, x)
    PROVE  RoundsOf(e)
<1>1. PICK r, limit, old, olds : /\ r = d.checkpoint.next /\ limit = Limit(d)
                                 /\ old = ResumedState(d).rounds /\ olds = ResumedState(d).streak
  OBVIOUS
<1>2. /\ limit \in Nat \ {0} /\ Position(d) = r /\ r \in Nat \ {0} /\ r <= limit /\ ResumedRound(d) = r
      /\ ResumedState(d) \in States
  BY <1>1, WhereItGoesOn DEF IsSound
<1>3. /\ old \in Seq(Summaries) /\ olds \in Nat /\ olds <= Len(old)
  BY <1>1, <1>2 DEF States, IsSound, RoundsOf
<1>4. PICK n \in Nat : n = Len(old)
  BY <1>3
<1>5. /\ DOMAIN s.rounds = 1..(n + 1) /\ Len(s.rounds) = n + 1 /\ DOMAIN old = 1..n
      /\ \A k \in 1..n : s.rounds[k] = old[k]
      /\ s.rounds[n + 1] = row
  BY <1>1, <1>3, <1>4
<1>6. \A x : IsScanned(e, x) = IsScanned(d, x) /\ Found(e, x) = Found(d, x)
  BY DEF IsScanned, Found
<1>7. \A x, overlay : Confirms(e, x, overlay) = Confirms(d, x, overlay)
  BY DEF Confirms
<1>8. IsScanned(d, r)
  BY <1>1 DEF IsSound, CheckpointOf, Scanned, Saved
<1>9. \A k \in 1..n : Passed(d, old[k].round) /\ IsScanned(d, old[k].round)
  BY <1>1, <1>5 DEF IsSound, RoundsOf
<1>10. \A k \in DOMAIN s.rounds : Passed(e, s.rounds[k].round) /\ IsScanned(e, s.rounds[k].round)
  <2>1. ASSUME NEW k \in 1..n PROVE Passed(e, s.rounds[k].round) /\ IsScanned(e, s.rounds[k].round)
    BY <1>5, <1>6, <1>9
  <2>2. Passed(e, row.round) /\ IsScanned(e, row.round)
    BY <1>1, <1>6, <1>8
  <2>3. QED BY <1>5, <2>1, <2>2
<1>11. ASSUME NEW k \in DOMAIN s.rounds, NEW m \in DOMAIN s.rounds, k < m
       PROVE  s.rounds[k].round < s.rounds[m].round \/ s.rounds[m].round = limit
  <2>1. k \in 1..n
    BY <1>5, <1>11
  <2>2. CASE m \in 1..n
    BY <1>1, <1>5, <1>11, <2>1, <2>2 DEF IsSound, RoundsOf
  <2>3. CASE m = n + 1
    <3>1. s.rounds[m].round = r /\ s.rounds[k] = old[k]
      BY <1>1, <1>5, <2>1, <2>3
    <3>2. old[k].round < r \/ old[k].round = limit
      BY <1>1, <1>2, <1>9, <2>1, PassedBefore DEF IsSound
    <3>3. old[k].round <= r
      BY <1>2, <1>9, <2>1, PassedBefore DEF IsSound
    <3>4. QED BY <1>2, <3>1, <3>2, <3>3
  <2>4. QED BY <1>5, <2>2, <2>3
<1>12. CASE s.streak = 0
  <2>1. s.streak = 0
    BY <1>12
  <2>2. s.streak <= n + 1 /\ \A k \in 1..(n + 1) : ~(k > n + 1 - s.streak)
    BY <2>1
  <2>3. s.streak <= Len(s.rounds) /\ \A k \in DOMAIN s.rounds : ~(k > Len(s.rounds) - s.streak)
    BY <1>4, <1>5, <2>1
  <2>4. QED BY <1>1, <1>10, <1>11, <2>3 DEF RoundsOf
<1>13. CASE s.streak # 0
  <2>1. s.streak = olds + 1 /\ s.streak <= n + 1
    BY <1>1, <1>3, <1>4, <1>13
  <2>2. Confirms(d, row, s.overlay)
    <3>1. ASSUME NEW b \in d.blocks, b.round = r PROVE b.issues = {} /\ b.saw = s.overlay
      <4>1. b.issues \subseteq Found(d, r)
        BY <3>1 DEF Found
      <4>2. b.saw = ResumedState(d).overlay \/ Found(d, b.round) # {}
        BY <1>2, <3>1 DEF IsSound, BlocksOf
      <4>3. QED BY <1>1, <1>13, <3>1, <4>1, <4>2
    <3>2. QED BY <1>1, <1>13, <3>1 DEF Confirms
  <2>3. ASSUME NEW k \in DOMAIN s.rounds, k > Len(s.rounds) - s.streak
        PROVE  Confirms(e, s.rounds[k], s.overlay)
    <3>1. CASE k = n + 1
      BY <1>5, <1>7, <2>2, <3>1
    <3>2. CASE k \in 1..n
      <4>1. k > n - olds
        BY <1>3, <1>4, <1>5, <2>1, <2>3, <3>2
      <4>2. Confirms(d, old[k], ResumedState(d).overlay)
        BY <1>1, <1>4, <1>5, <3>2, <4>1 DEF IsSound, RoundsOf
      <4>3. QED BY <1>5, <1>7, <1>13, <3>2, <4>2
    <3>3. QED BY <1>5, <3>1, <3>2
  <2>4. QED BY <1>1, <1>5, <1>10, <1>11, <2>1, <2>3 DEF RoundsOf
<1>14. QED BY <1>12, <1>13


\* A scan is decided upon, without a fix: the directory by its fields.
LEMMA DecidedDirectory ==
    ASSUME NEW d \in Directories, IsSound(d), Scanned(d),
           NEW row \in Summaries, row.round = d.checkpoint.next,
           NEW s \in States, s.overlay = ResumedState(d).overlay, s.seen = ResumedState(d).seen,
           s.active = ResumedState(d).active, s.fixes = ResumedState(d).fixes, s.blocked = Unblocked(d),
           s.streak \in {0, ResumedState(d).streak + 1},
           s.streak # 0 => row.clean /\ d.checkpoint.latest.issues = {},
           s.rounds = Append(ResumedState(d).rounds, row),
           NEW e \in Directories,
           e.checkpoint = Checkpoint("round_done", d.checkpoint.next + 1, s, NoScan),
           e.edition = d.edition, e.blocks = d.blocks, e.patches = d.patches, e.unfixed = d.unfixed,
           e.tried = d.tried, e.decided = d.decided, e.status = "running"
    PROVE  /\ IsSound(e) /\ Saved(e) /\ ~Scanned(e) /\ ResumedState(e) = s
           /\ Position(e) = d.checkpoint.next + 1
<1>1. PICK r, old : r = d.checkpoint.next /\ old = ResumedState(d)
  OBVIOUS
<1>2. r \in Nat \ {0} /\ old \in States /\ Saved(d) /\ old = d.checkpoint.state
  BY <1>1, WhereItGoesOn DEF IsSound
<1>11. s.overlay \in s.seen /\ s.fixes <= d.edition.fixes
  BY <1>1, <1>2 DEF IsSound, CheckpointOf
<1>12. /\ Limit(e) = Limit(d) /\ Saved(e) /\ ~Scanned(e) /\ ResumedState(e) = s
       /\ Position(e) = r + 1 /\ CheckpointOf(e) /\ BlocksOf(e)
       /\ \A x : Passed(d, x) \/ x = r => Passed(e, x)
       /\ \A x : Found(e, x) = Found(d, x)
  <2>2. s.overlay = ResumedState(d).overlay
    BY <1>1
  <2>3. /\ Limit(e) = Limit(d) /\ Saved(e) /\ ~Scanned(e) /\ ResumedState(e) = s
        /\ Position(e) = d.checkpoint.next + 1 /\ CheckpointOf(e)
        /\ \A x : Passed(d, x) \/ x = d.checkpoint.next => Passed(e, x)
        /\ \A x : Found(e, x) = Found(d, x) /\ IsScanned(e, x) = IsScanned(d, x)
        /\ s.overlay = ResumedState(d).overlay \/ Found(d, d.checkpoint.next) # {} => BlocksOf(e)
    BY <1>11, RoundPasses
  <2>4. QED BY <1>1, <2>2, <2>3
<1>13. DecidedOf(e)
  <2>1. Position(d) = r
    BY <1>1, <1>2 DEF Position
  <2>2. \A k \in DOMAIN e.decided : Passed(e, e.decided[k])
    <3>1. \A k \in DOMAIN d.decided : Passed(d, d.decided[k]) \/ d.decided[k] = r
      BY <2>1 DEF IsSound, DecidedOf
    <3>2. QED BY <1>12, <3>1
  <2>3. DecidedOf(d)
    BY DEF IsSound
  <2>4. QED BY <1>12, <2>2, <2>3 DEF DecidedOf
<1>14. TriedOf(e)
  BY <1>1, <1>12 DEF IsSound, TriedOf
<1>15. ActiveOf(e)
  <2>1. \A x \in old.active : x.round \in Nat
    BY <1>2 DEF States, Fixes
  <2>2. Position(d) = r
    BY <1>1, <1>2 DEF Position
  <2>3. \A x \in old.active : x.round < r => x.round < r + 1
    BY <1>2, <2>1
  <2>4. ActiveOf(d)
    BY DEF IsSound
  <2>5. QED BY <1>1, <1>12, <2>2, <2>3, <2>4 DEF ActiveOf
<1>16. UnfixedOf(e)
  <2>1. ASSUME NEW u \in d.unfixed PROVE u.issue \in s.blocked \/ Released(e, u)
    <3>1. Released(d, u) => Released(e, u)
      BY DEF Released
    <3>2. u.issue \in ResumedState(d).blocked \/ Released(d, u)
      BY DEF IsSound, UnfixedOf
    <3>3. QED BY <3>1, <3>2, UnblockedIsReleased
  <2>2. QED BY <1>12, <2>1 DEF IsSound, UnfixedOf
<1>17. RoundsOf(e)
  <2>1. d.checkpoint.latest.issues = Found(d, r)
    BY <1>1 DEF IsSound, CheckpointOf, Scanned, Saved
  <2>2. s.streak # 0 =>
           row.clean /\ s.overlay = ResumedState(d).overlay /\ Found(d, d.checkpoint.next) = {}
    BY <1>1, <2>1
  <2>3. \A x : Passed(d, x) \/ x = d.checkpoint.next => Passed(e, x)
    BY <1>1, <1>12
  <2>4. QED BY <1>12, <2>2, <2>3, RoundAdded
<1>18. CompletedOf(e)
  BY DEF CompletedOf
<1>19. QED BY <1>1, <1>12, <1>13, <1>14, <1>15, <1>16, <1>17, <1>18 DEF IsSound

\* A scan is decided upon, without a fix.
StreakAfter(d) ==
    IF d.checkpoint.latest.issues = {} /\ Unblocked(d) = {} THEN ResumedState(d).streak + 1 ELSE 0
SummaryOf(d, streak) ==
    [round |-> d.checkpoint.next, clean |-> d.checkpoint.latest.issues = {}, streak |-> streak]
DecidedState(d) ==
    [ResumedState(d) EXCEPT !.blocked = Unblocked(d), !.streak = StreakAfter(d),
                            !.rounds = Append(@, SummaryOf(d, StreakAfter(d)))]
RoundDone(d, s) == [d EXCEPT !.checkpoint = Checkpoint("round_done", d.checkpoint.next + 1, s, NoScan)]

LEMMA DecideKeeps ==
    ASSUME NEW d \in Directories, IsSound(d), Scanned(d), d.status = "running",
           NEW s, s = DecidedState(d), NEW e, e = RoundDone(d, s)
    PROVE  /\ IsSound(e) /\ e \in Directories /\ s \in States /\ Saved(e) /\ ~Scanned(e)
           /\ ResumedState(e) = s /\ Position(e) = d.checkpoint.next + 1
<1>1. PICK r, old : r = d.checkpoint.next /\ old = ResumedState(d)
  OBVIOUS
<1>2. r \in Nat \ {0} /\ old \in States /\ Saved(d) /\ old = d.checkpoint.state
  BY <1>1, WhereItGoesOn DEF IsSound
<1>3. PICK streak, row : streak = StreakAfter(d) /\ row = SummaryOf(d, streak)
  OBVIOUS
<1>4. /\ streak \in Nat /\ streak \in {0, old.streak + 1}
      /\ streak # 0 => d.checkpoint.latest.issues = {}
  <2>1. PICK before, after : before = old.streak /\ after = before + 1
    OBVIOUS
  <2>2. before \in Nat /\ after \in Nat
    BY <1>2, <2>1 DEF States
  <2>3. streak = 0 \/ (streak = after /\ d.checkpoint.latest.issues = {})
    BY <1>1, <1>3, <2>1 DEF StreakAfter
  <2>4. QED BY <2>1, <2>2, <2>3
<1>5. /\ row \in Summaries /\ row.round = r /\ (row.clean <=> d.checkpoint.latest.issues = {})
      /\ Unblocked(d) \subseteq Issues
  BY <1>1, <1>2, <1>3, <1>4 DEF Summaries, SummaryOf, Unblocked, States
<1>6. /\ s \in States /\ s.overlay = old.overlay /\ s.seen = old.seen /\ s.active = old.active
      /\ s.fixes = old.fixes /\ s.blocked = Unblocked(d) /\ s.streak = streak
      /\ s.rounds = Append(old.rounds, row)
  <2>1. Append(old.rounds, row) \in Seq(Summaries)
    BY <1>2, <1>5 DEF States
  <2>2. PICK blocked, rounds : blocked = Unblocked(d) /\ rounds = Append(old.rounds, row)
    OBVIOUS
  <2>3. s = [old EXCEPT !.blocked = blocked, !.streak = streak, !.rounds = rounds]
    BY <1>1, <1>3, <2>2 DEF DecidedState
  <2>4. blocked \in SUBSET Issues /\ rounds \in Seq(Summaries)
    BY <1>5, <2>1, <2>2
  <2>5. /\ s \in States /\ s.overlay = old.overlay /\ s.seen = old.seen /\ s.active = old.active
        /\ s.fixes = old.fixes /\ s.blocked = blocked /\ s.streak = streak /\ s.rounds = rounds
    BY <1>2, <1>4, <2>3, <2>4 DEF States
  <2>6. QED BY <2>2, <2>5
<1>7. PICK saved : saved = [phase |-> "round_done", next |-> r + 1, state |-> s, latest |-> NoScan]
  OBVIOUS
<1>8. saved \in Checkpoints
  BY <1>2, <1>6, <1>7 DEF Checkpoints, Scans, NoScan
<1>9. e = [d EXCEPT !.checkpoint = saved]
  BY <1>1, <1>7 DEF Checkpoint, RoundDone
<1>10. /\ e.checkpoint = saved /\ e.edition = d.edition /\ e.blocks = d.blocks /\ e.patches = d.patches
       /\ e.unfixed = d.unfixed /\ e.tried = d.tried /\ e.decided = d.decided /\ e.status = "running"
       /\ e \in Directories
  BY <1>8, <1>9 DEF Directories
<1>11. QED
  <2>1. e.checkpoint = Checkpoint("round_done", d.checkpoint.next + 1, s, NoScan)
    BY <1>1, <1>7, <1>10 DEF Checkpoint
  <2>2. s.streak \in {0, ResumedState(d).streak + 1} /\ row.round = d.checkpoint.next
    BY <1>1, <1>4, <1>5, <1>6
  <2>3. s.streak # 0 => row.clean /\ d.checkpoint.latest.issues = {}
    BY <1>4, <1>5, <1>6
  <2>4. QED BY <1>1, <1>5, <1>6, <1>10, <2>1, <2>2, <2>3, DecidedDirectory

\* A trace of a fixer is written.
LEMMA PatchKeeps ==
    ASSUME NEW d \in Directories, IsSound(d), Scanned(d), d.status = "running",
           NEW p \in Paragraphs,
           NEW new \in Patches, new.at = p, new.round = d.checkpoint.next,
           NEW e, e = [d EXCEPT !.patches = {t \in @ : t.at # p \/ t.round # d.checkpoint.next} \cup {new}]
    PROVE  IsSound(e) /\ e \in Directories
<1>1. PICK r : r = d.checkpoint.next
  OBVIOUS
<1>2. r \in Nat \ {0} /\ Position(d) = r /\ ResumedState(d) \in States
  BY <1>1, WhereItGoesOn DEF IsSound
<1>3. /\ e.checkpoint = d.checkpoint /\ e.edition = d.edition /\ e.blocks = d.blocks
      /\ e.patches = {t \in d.patches : t.at # p \/ t.round # r} \cup {new}
      /\ e.unfixed = d.unfixed /\ e.tried = d.tried /\ e.decided = d.decided /\ e.status = "running"
      /\ e \in Directories /\ d.blocks \subseteq Blocks /\ d.patches \subseteq Patches
  BY <1>1 DEF Directories
<1>4. /\ Limit(e) = Limit(d) /\ Saved(e) = Saved(d) /\ Scanned(e) = Scanned(d)
      /\ Position(e) = Position(d) /\ ResumedRound(e) = ResumedRound(d)
      /\ ResumedState(e) = ResumedState(d) /\ \A x : Passed(e, x) = Passed(d, x)
  BY <1>3, SameCheckpoint
<1>5. /\ \A x : Found(e, x) = Found(d, x) /\ IsScanned(e, x) = IsScanned(d, x)
      /\ \A row, overlay : Confirms(e, row, overlay) = Confirms(d, row, overlay)
  BY <1>3 DEF Found, IsScanned, Confirms
<1>6. ASSUME NEW u, Released(d, u) PROVE Released(e, u)
  <2>1. PICK t \in d.patches, b \in d.blocks :
            u.issue \in t.issues /\ b.at = t.at /\ b.round > t.round /\ b.round > u.round /\ u.issue \notin b.issues
    BY <1>6 DEF Released
  <2>2. b.round <= r /\ b.round \in Nat /\ t.round \in Nat
    BY <1>2, <1>3 DEF IsSound, BlocksOf, Blocks, Patches
  <2>3. t.round # r
    BY <1>2, <2>1, <2>2
  <2>4. t \in e.patches /\ b \in e.blocks
    BY <1>3, <2>3
  <2>5. QED BY <2>1, <2>4 DEF Released
<1>7. BlocksOf(e)
  BY <1>3, <1>4, <1>5 DEF IsSound, BlocksOf
<1>8. CheckpointOf(e)
  BY <1>3, <1>4, <1>5 DEF IsSound, CheckpointOf
<1>9. DecidedOf(e) /\ TriedOf(e)
  BY <1>3, <1>4 DEF IsSound, DecidedOf, TriedOf
<1>10. ActiveOf(e)
  <2>1. ASSUME NEW a \in ResumedState(d).active, a.round < r,
               NEW t \in d.patches, t.at = a.at, t.round = a.round, t.issues = a.issues
        PROVE  t \in e.patches
    <3>1. a.round \in Nat
      BY <1>2 DEF States, Fixes
    <3>2. QED BY <1>2, <1>3, <2>1, <3>1
  <2>2. QED BY <1>2, <1>4, <2>1 DEF IsSound, ActiveOf
<1>11. UnfixedOf(e)
  BY <1>3, <1>4, <1>5, <1>6 DEF IsSound, UnfixedOf
<1>12. RoundsOf(e)
  <2>1. RoundsOf(d)
    BY DEF IsSound
  <2>2. QED BY <1>4, <1>5, <2>1 DEF RoundsOf
<1>13. CompletedOf(e)
  BY <1>3 DEF CompletedOf
<1>14. QED BY <1>3, <1>7, <1>8, <1>9, <1>10, <1>11, <1>12, <1>13 DEF IsSound


\* The text a review tries anew.
LEMMA NewShadow ==
    ASSUME NEW old \in Seq(Shadows), NEW c \in Shadows, IsInjective(<<FormalText>> \o old),
           c # FormalText, \A k \in DOMAIN old : old[k] # c
    PROVE  IsInjective(<<FormalText>> \o Append(old, c))
<1>1. FormalText \in Shadows
  BY FreshIsState
<1>8. PICK n \in Nat : n = Len(old)
  OBVIOUS
<1>2. PICK was, is : n = Len(old) /\ was = <<FormalText>> \o old /\ is = <<FormalText>> \o Append(old, c)
  BY <1>8
<1>3. /\ DOMAIN was = 1..(n + 1) /\ DOMAIN is = 1..(n + 2) /\ was[1] = FormalText /\ is[1] = FormalText
      /\ \A k \in 1..n : was[k + 1] = old[k] /\ is[k + 1] = old[k]
      /\ is[n + 2] = c
  <2>1. PICK longer, one : longer = Append(old, c) /\ one = <<FormalText>>
    OBVIOUS
  <2>2. /\ longer \in Seq(Shadows) /\ Len(longer) = n + 1 /\ longer[n + 1] = c
        /\ \A k \in 1..n : longer[k] = old[k]
    BY <1>2, <2>1
  <2>3. one \in Seq(Shadows) /\ Len(one) = 1 /\ one[1] = FormalText
    BY <1>1, <2>1
  <2>4. was = one \o old /\ is = one \o longer
    BY <1>2, <2>1
  <2>5. /\ DOMAIN was = 1..(n + 1) /\ was[1] = FormalText
        /\ \A k \in 1..n : was[k + 1] = old[k]
    BY <1>2, <2>3, <2>4
  <2>6. /\ DOMAIN is = 1..(n + 2) /\ is[1] = FormalText
        /\ \A k \in 1..(n + 1) : is[k + 1] = longer[k]
    BY <1>2, <2>2, <2>3, <2>4
  <2>7. is[(n + 1) + 1] = longer[n + 1]
    <3>1. n + 1 \in 1..(n + 1)
      OBVIOUS
    <3>2. QED BY <2>6, <3>1
  <2>8. QED BY <1>2, <2>2, <2>5, <2>6, <2>7
<1>4. \A k \in 1..(n + 1) : is[k] = was[k] /\ was[k] # c
  <2>1. TAKE k \in 1..(n + 1)
  <2>2. CASE k = 1
    BY <1>3, <2>2
  <2>3. CASE k - 1 \in 1..n
    BY <1>2, <1>3, <2>3
  <2>4. QED BY <1>2, <2>2, <2>3
<1>5. \A k, m \in 1..(n + 1) : was[k] = was[m] => k = m
  BY <1>2, <1>3 DEF IsInjective
<1>6. ASSUME NEW k \in 1..(n + 2), NEW m \in 1..(n + 2), is[k] = is[m] PROVE k = m
  <2>1. k \in 1..(n + 1) \/ k = n + 2
    BY <1>2
  <2>2. m \in 1..(n + 1) \/ m = n + 2
    BY <1>2
  <2>3. QED BY <1>3, <1>4, <1>5, <1>6, <2>1, <2>2
<1>7. QED BY <1>2, <1>3, <1>6 DEF IsInjective

\* A round ends with the answers of the fixers: the directory by its fields.
FixedTo(d, patched, fix, failed, advanced, s, e) ==
    /\ s.blocked = Unblocked(d) \cup failed
    /\ ~advanced => /\ s.overlay = ResumedState(d).overlay /\ s.seen = ResumedState(d).seen
                    /\ s.active = ResumedState(d).active /\ s.fixes = ResumedState(d).fixes
    /\ advanced => /\ s.overlay \notin ResumedState(d).seen
                   /\ s.seen = ResumedState(d).seen \cup {s.overlay}
                   /\ s.fixes = ResumedState(d).fixes + 1 /\ s.fixes <= d.edition.fixes
                   /\ s.active = {a \in ResumedState(d).active : a.at \notin patched} \cup
                                   {[at |-> p, round |-> d.checkpoint.next, issues |-> fix[p]] : p \in patched}
    /\ e.patches = d.patches /\ e.decided = d.decided /\ e.status = "running"
    /\ e.unfixed = d.unfixed \cup {[issue |-> u, round |-> d.checkpoint.next] : u \in failed}
    /\ e.tried = (IF advanced THEN Append(d.tried, s.overlay) ELSE d.tried)

LEMMA FixedDirectory ==
    ASSUME NEW d \in Directories, IsSound(d), Scanned(d), d.checkpoint.latest.issues # {},
           NEW patched \in SUBSET Paragraphs, NEW fix \in [patched -> SUBSET Issues],
           \A p \in patched : \E t \in d.patches : t.at = p /\ t.round = d.checkpoint.next /\ t.issues = fix[p],
           NEW failed \in SUBSET d.checkpoint.latest.issues, NEW advanced \in BOOLEAN,
           NEW row \in Summaries, row.round = d.checkpoint.next,
           NEW s \in States, s.streak = 0, s.rounds = Append(ResumedState(d).rounds, row),
           NEW e \in Directories, e.edition = d.edition, e.blocks = d.blocks,
           e.checkpoint = Checkpoint("round_done", d.checkpoint.next + 1, s, NoScan),
           FixedTo(d, patched, fix, failed, advanced, s, e)
    PROVE  /\ IsSound(e) /\ Saved(e) /\ ~Scanned(e) /\ ResumedState(e) = s
           /\ Position(e) = d.checkpoint.next + 1
<1>1. PICK r, old : r = d.checkpoint.next /\ old = ResumedState(d)
  OBVIOUS
<1>2. /\ r \in Nat \ {0} /\ old \in States /\ Saved(d) /\ old = d.checkpoint.state
      /\ Position(d) = r /\ r <= Limit(d) /\ Limit(d) \in Nat \ {0}
  BY <1>1, WhereItGoesOn DEF IsSound
<1>3. Found(d, r) = d.checkpoint.latest.issues /\ IsScanned(d, r)
  BY <1>1 DEF IsSound, CheckpointOf, Scanned, Saved
<1>4. s.overlay \in s.seen /\ s.fixes <= d.edition.fixes
  BY <1>1, <1>2 DEF IsSound, CheckpointOf, FixedTo
<1>5. /\ Limit(e) = Limit(d) /\ Saved(e) /\ ~Scanned(e) /\ ResumedState(e) = s
      /\ Position(e) = r + 1 /\ CheckpointOf(e) /\ BlocksOf(e)
      /\ \A x : Passed(d, x) \/ x = r => Passed(e, x)
      /\ \A x : Found(e, x) = Found(d, x)
  <2>1. Found(d, d.checkpoint.next) # {}
    BY <1>1, <1>3
  <2>2. /\ Limit(e) = Limit(d) /\ Saved(e) /\ ~Scanned(e) /\ ResumedState(e) = s
        /\ Position(e) = d.checkpoint.next + 1 /\ CheckpointOf(e)
        /\ \A x : Passed(d, x) \/ x = d.checkpoint.next => Passed(e, x)
        /\ \A x : Found(e, x) = Found(d, x) /\ IsScanned(e, x) = IsScanned(d, x)
        /\ s.overlay = ResumedState(d).overlay \/ Found(d, d.checkpoint.next) # {} => BlocksOf(e)
    BY <1>4, RoundPasses
  <2>3. QED BY <1>1, <2>1, <2>2
<1>6. DecidedOf(e)
  <2>1. \A k \in DOMAIN d.decided : Passed(d, d.decided[k]) \/ d.decided[k] = r
    BY <1>2 DEF IsSound, DecidedOf
  <2>2. \A k \in DOMAIN e.decided : Passed(e, e.decided[k])
    BY <1>5, <2>1 DEF FixedTo
  <2>3. DecidedOf(d) /\ e.decided = d.decided
    BY DEF IsSound, FixedTo
  <2>4. QED BY <1>5, <2>2, <2>3 DEF DecidedOf
<1>7. TriedOf(e)
  <2>1. TriedOf(d) /\ d.tried \in Seq(Shadows) /\ s.overlay \in Shadows
    BY DEF IsSound, Directories, States
  <2>5. /\ ~advanced => s.seen = ResumedState(d).seen /\ e.tried = d.tried
        /\ advanced => /\ s.overlay \notin ResumedState(d).seen /\ e.tried = Append(d.tried, s.overlay)
                       /\ s.seen = ResumedState(d).seen \cup {s.overlay}
    BY DEF FixedTo
  <2>2. CASE ~advanced
    BY <1>5, <2>1, <2>2, <2>5 DEF TriedOf
  <2>3. CASE advanced
    <3>1. s.overlay # FormalText /\ \A k \in DOMAIN d.tried : d.tried[k] # s.overlay
      BY <2>1, <2>3, <2>5 DEF TriedOf
    <3>2. IsInjective(<<FormalText>> \o e.tried)
      BY <2>1, <2>3, <2>5, <3>1, NewShadow DEF TriedOf
    <3>3. \A k \in DOMAIN e.tried : e.tried[k] \in s.seen
      <4>1. e.tried = Append(d.tried, s.overlay)
        BY <2>3, <2>5
      <4>2. \A k \in DOMAIN e.tried : e.tried[k] = s.overlay \/ \E m \in DOMAIN d.tried : e.tried[k] = d.tried[m]
        BY <2>1, <4>1
      <4>3. QED BY <2>1, <2>3, <2>5, <4>2 DEF TriedOf
    <3>4. FormalText \in s.seen
      BY <2>1, <2>3, <2>5 DEF TriedOf
    <3>5. QED BY <1>5, <3>2, <3>3, <3>4 DEF TriedOf
  <2>6. QED BY <2>2, <2>3
<1>8. ActiveOf(e)
  <2>1. \A x \in old.active : x.round \in Nat
    BY <1>2 DEF States, Fixes
  <2>2. \A x \in old.active : x.round < r => x.round < r + 1
    BY <1>2, <2>1
  <2>3. ActiveOf(d) /\ e.patches = d.patches
    BY DEF IsSound, FixedTo
  <2>4. ASSUME NEW a \in old.active
        PROVE  \/ a.round = Limit(e)
               \/ a.round < r + 1 /\ \E t \in e.patches : t.at = a.at /\ t.round = a.round /\ t.issues = a.issues
    BY <1>1, <1>2, <1>5, <2>2, <2>3 DEF ActiveOf
  <2>5. CASE ~advanced
    BY <1>1, <1>5, <2>3, <2>4, <2>5 DEF ActiveOf, FixedTo
  <2>6. CASE advanced
    <3>1. \A a \in s.active :
             \/ a \in old.active /\ a.at \notin patched
             \/ \E p \in patched : a = [at |-> p, round |-> r, issues |-> fix[p]]
      BY <1>1, <2>6 DEF FixedTo
    <3>2. ASSUME NEW a \in s.active
          PROVE  \/ a.round = Limit(e)
                 \/ a.round < r + 1 /\ \E t \in e.patches : t.at = a.at /\ t.round = a.round /\ t.issues = a.issues
      <4>1. CASE a \in old.active
        BY <2>4, <4>1
      <4>2. ASSUME NEW p \in patched, a = [at |-> p, round |-> r, issues |-> fix[p]]
            PROVE  a.round < r + 1 /\ \E t \in e.patches : t.at = a.at /\ t.round = a.round /\ t.issues = a.issues
        BY <1>1, <1>2, <2>3, <4>2
      <4>3. QED BY <3>1, <4>1, <4>2
    <3>3. \A a, c \in s.active : a.at = c.at => a = c
      BY <1>1, <2>3, <3>1 DEF ActiveOf
    <3>4. QED BY <1>5, <3>2, <3>3 DEF ActiveOf
  <2>7. QED BY <2>5, <2>6
<1>9. UnfixedOf(e)
  <2>1. ASSUME NEW u \in d.unfixed PROVE u.issue \in s.blocked \/ Released(e, u)
    <3>1. Released(d, u) => Released(e, u)
      BY DEF Released, FixedTo
    <3>2. u.issue \in ResumedState(d).blocked \/ Released(d, u)
      BY DEF IsSound, UnfixedOf
    <3>3. Unblocked(d) \subseteq s.blocked
      BY DEF FixedTo
    <3>4. QED BY <3>1, <3>2, <3>3, UnblockedIsReleased
  <2>2. \A u \in d.unfixed : u.issue \in Found(e, u.round) /\ Passed(e, u.round)
    BY <1>5 DEF IsSound, UnfixedOf
  <2>3. ASSUME NEW x \in failed, NEW u, u = [issue |-> x, round |-> r]
        PROVE  u.issue \in Found(e, u.round) /\ Passed(e, u.round) /\ u.issue \in s.blocked
    BY <1>3, <1>5, <2>3 DEF FixedTo
  <2>4. \A u \in e.unfixed : u \in d.unfixed \/ \E x \in failed : u = [issue |-> x, round |-> r]
    BY <1>1 DEF FixedTo
  <2>5. QED BY <1>5, <2>1, <2>2, <2>3, <2>4 DEF UnfixedOf
<1>10. RoundsOf(e)
  <2>1. \A x : Passed(d, x) \/ x = d.checkpoint.next => Passed(e, x)
    BY <1>1, <1>5
  <2>2. QED BY <1>5, <2>1, RoundAdded
<1>11. CompletedOf(e)
  BY DEF CompletedOf, FixedTo
<1>12. QED BY <1>1, <1>5, <1>6, <1>7, <1>8, <1>9, <1>10, <1>11 DEF IsSound


\* A review is completed.
CompletedAs(d, termination, issues) ==
    [d EXCEPT !.status = "completed",
              !.result = [termination |-> termination, issues |-> issues,
                          overlay |-> ResumedState(d).overlay, rounds |-> ResumedState(d).rounds]]
LEMMA CompleteKeeps ==
    ASSUME NEW d \in Directories, IsSound(d), NEW termination \in Terminations,
           NEW issues \in SUBSET Issues, ResumedState(d).blocked \subseteq issues,
           termination = "clean_confirmed" =>
             issues = {} /\ ResumedState(d).streak >= RequiredClean(d.edition),
           NEW e, e = CompletedAs(d, termination, issues)
    PROVE  IsSound(e) /\ e \in Directories
<1>1. PICK s, result : /\ s = ResumedState(d)
                       /\ result = [termination |-> termination, issues |-> issues, overlay |-> s.overlay,
                                    rounds |-> s.rounds]
  OBVIOUS
<1>2. s \in States /\ Limit(d) \in Nat /\ RequiredClean(d.edition) \in Nat
  BY <1>1, WhereItGoesOn, RoundsAreBounded DEF IsSound, Directories
<1>3. result \in Results /\ result # NoResult
  BY <1>1, <1>2 DEF Results, States, NoResult, Terminations
<1>4. /\ e.checkpoint = d.checkpoint /\ e.edition = d.edition /\ e.blocks = d.blocks
      /\ e.patches = d.patches /\ e.unfixed = d.unfixed /\ e.tried = d.tried
      /\ e.decided = d.decided /\ e.status = "completed" /\ e.result = result /\ e \in Directories
  <2>1. e = [d EXCEPT !.status = "completed", !.result = result]
    BY <1>1 DEF CompletedAs
  <2>2. QED BY <1>3, <2>1 DEF Directories
<1>5. /\ Limit(e) = Limit(d) /\ Saved(e) = Saved(d) /\ Scanned(e) = Scanned(d)
      /\ Position(e) = Position(d) /\ ResumedRound(e) = ResumedRound(d)
      /\ ResumedState(e) = ResumedState(d) /\ \A r : Passed(e, r) = Passed(d, r)
  BY <1>4, SameCheckpoint
<1>6. /\ \A r : Found(e, r) = Found(d, r) /\ IsScanned(e, r) = IsScanned(d, r)
      /\ \A u : Released(e, u) = Released(d, u)
      /\ \A row, overlay : Confirms(e, row, overlay) = Confirms(d, row, overlay)
  BY <1>4 DEF Found, IsScanned, Released, Confirms
<1>7. BlocksOf(d) /\ CheckpointOf(d) /\ DecidedOf(d) /\ TriedOf(d) /\ ActiveOf(d) /\ UnfixedOf(d) /\ RoundsOf(d)
  BY DEF IsSound
<1>8. BlocksOf(e)
  BY <1>4, <1>5, <1>6, <1>7 DEF BlocksOf
<1>9. CheckpointOf(e)
  BY <1>4, <1>5, <1>6, <1>7 DEF CheckpointOf
<1>10. DecidedOf(e) /\ TriedOf(e)
  BY <1>4, <1>5, <1>7 DEF DecidedOf, TriedOf
<1>11. ActiveOf(e) /\ UnfixedOf(e)
  BY <1>4, <1>5, <1>6, <1>7 DEF ActiveOf, UnfixedOf
<1>12. RoundsOf(e)
  BY <1>4, <1>5, <1>6, <1>7 DEF RoundsOf
<1>13. CompletedOf(e)
  <2>1. \A u \in e.unfixed : u.issue \in result.issues \/ Released(e, u)
    BY <1>1, <1>4, <1>6, <1>7 DEF UnfixedOf
  <2>2. /\ result.termination = termination /\ result.issues = issues /\ result.rounds = s.rounds
        /\ result.overlay = s.overlay
    BY <1>1
  <2>3. ASSUME termination = "clean_confirmed"
        PROVE  /\ issues = {} /\ Len(s.rounds) >= RequiredClean(d.edition)
               /\ \A k \in DOMAIN s.rounds : k > Len(s.rounds) - RequiredClean(d.edition) =>
                    Confirms(d, s.rounds[k], s.overlay)
    <3>1. s.streak >= RequiredClean(d.edition) /\ s.streak <= Len(s.rounds) /\ issues = {}
      BY <1>1, <1>7, <2>3 DEF RoundsOf
    <3>2. s.streak \in Nat /\ Len(s.rounds) \in Nat /\ DOMAIN s.rounds = 1..Len(s.rounds)
      BY <1>2 DEF States
    <3>3. PICK clean, len, streak : clean = RequiredClean(d.edition) /\ len = Len(s.rounds) /\ streak = s.streak
      OBVIOUS
    <3>4. clean \in Nat /\ len \in Nat /\ streak \in Nat /\ clean <= streak /\ streak <= len
      BY <1>2, <3>1, <3>2, <3>3
    <3>5. \A k \in 1..len : k > len - clean => k > len - streak
      BY <3>4
    <3>6. \A k \in DOMAIN s.rounds : k > len - streak => Confirms(d, s.rounds[k], s.overlay)
      BY <1>1, <1>7, <3>3 DEF RoundsOf
    <3>7. QED BY <3>1, <3>2, <3>3, <3>4, <3>5, <3>6
  <2>4. \A k \in DOMAIN s.rounds : s.rounds[k].round \in 1..Limit(d)
    BY <1>1, <1>7 DEF RoundsOf, Passed
  <2>5. \A k, m \in DOMAIN s.rounds : k < m => s.rounds[k].round < s.rounds[m].round \/ s.rounds[m].round = Limit(d)
    BY <1>1, <1>7 DEF RoundsOf
  <2>6. QED BY <1>3, <1>4, <1>5, <1>6, <2>1, <2>2, <2>3, <2>4, <2>5 DEF CompletedOf
<1>14. QED BY <1>4, <1>8, <1>9, <1>10, <1>11, <1>12, <1>13 DEF IsSound


-----------------------------------------------------------------------------
(* ReviewSessions: the invocation                                          *)

LEMMA SessionShape ==
    ASSUME RevTypes
    PROVE  /\ rev.pc \in {"idle", "create", "scan", "decide", "fix", "limit", "result", "usage"}
           /\ Reviewing <=> rev.pc # "idle"
           /\ ~Reviewing => rev = IdleReview
           /\ rev.pc = "create" => rev \in [pc : {"create"}, review : Nat]
           /\ AtWork => /\ rev.review \in Nat /\ rev.round \in Nat \ {0} /\ rev.state \in States
                        /\ rev.latest \in Scans /\ rev.termination \in Terminations \cup {"not_started"}
           /\ AtWork /\ rev.pc # "fix" =>
                rev = [pc |-> rev.pc, review |-> rev.review, round |-> rev.round, state |-> rev.state,
                       latest |-> rev.latest, termination |-> rev.termination]
           /\ rev.pc = "fix" =>
                /\ rev = [pc |-> rev.pc, review |-> rev.review, round |-> rev.round, state |-> rev.state,
                          latest |-> rev.latest, termination |-> rev.termination, proposals |-> rev.proposals]
                /\ rev.proposals \in [Paragraphs -> FixAnswers]
<1>1. CASE rev = IdleReview
  BY <1>1 DEF IdleReview, Reviewing, AtWork
<1>2. CASE rev \in [pc : {"create"}, review : Nat]
  BY <1>2 DEF Reviewing, AtWork
<1>3. CASE rev \in [pc : {"scan", "decide", "limit", "result", "usage"}, review : Nat, round : Nat \ {0},
                    state : States, latest : Scans, termination : Terminations \cup {"not_started"}]
  BY <1>3 DEF Reviewing, AtWork
<1>4. CASE rev \in [pc : {"fix"}, review : Nat, round : Nat \ {0}, state : States, latest : Scans,
                    termination : Terminations \cup {"not_started"}, proposals : [Paragraphs -> FixAnswers]]
  BY <1>4 DEF Reviewing, AtWork
<1>5. QED BY <1>1, <1>2, <1>3, <1>4 DEF RevTypes, Sessions

LEMMA CurrentIsSound ==
    ASSUME RevInv, Reviewing
    PROVE  /\ rev.review \in DOMAIN reviews /\ Current \in Directories /\ IsSound(Current)
           /\ DOMAIN reviews = 1..Len(reviews) /\ Len(reviews) \in Nat /\ reviews \in Seq(Directories)
           /\ AtWork => InStepOf(rev, Current)
<1>1. rev.review \in DOMAIN reviews /\ reviews \in Seq(Directories)
  BY DEF RevInv, SessionInv, RevTypes
<1>2. Current \in Directories
  BY <1>1 DEF Current
<1>3. QED BY <1>1, <1>2 DEF RevInv, DirectoryInv, InStep, Current

\* Writing to the directory of the invocation.
LEMMA DirectoryWritten ==
    ASSUME RevInv, Reviewing, NEW e \in Directories, Write(e)
    PROVE  /\ reviews' \in Seq(Directories) /\ Len(reviews') = Len(reviews)
           /\ DOMAIN reviews' = DOMAIN reviews /\ reviews'[rev.review] = e
           /\ \A n \in DOMAIN reviews : n # rev.review => reviews'[n] = reviews[n]
           /\ IsSound(e) => DirectoryInv'
<1>1. /\ rev.review \in DOMAIN reviews /\ reviews \in Seq(Directories)
      /\ DOMAIN reviews = 1..Len(reviews) /\ Len(reviews) \in Nat
  BY CurrentIsSound
<1>2. PICK n \in DOMAIN reviews : n = rev.review
  BY <1>1
<1>3. reviews' = [reviews EXCEPT ![n] = e]
  BY <1>2 DEF Write
<1>4. /\ reviews' \in Seq(Directories) /\ Len(reviews') = Len(reviews)
      /\ DOMAIN reviews' = DOMAIN reviews /\ reviews'[n] = e
      /\ \A m \in DOMAIN reviews : m # n => reviews'[m] = reviews[m]
  BY <1>1, <1>3
<1>5. ASSUME IsSound(e) PROVE DirectoryInv'
  <2>1. \A m \in DOMAIN reviews' : reviews'[m] = e \/ \E k \in DOMAIN reviews : reviews'[m] = reviews[k]
    BY <1>4
  <2>2. \A m \in DOMAIN reviews' : IsSound(reviews'[m])
    BY <1>5, <2>1 DEF RevInv, DirectoryInv
  <2>3. QED BY <2>2 DEF DirectoryInv
<1>6. QED BY <1>2, <1>4, <1>5

\* The session stays one of the same directory, whose status and edition stay.
Inside(pc) == pc \in {"scan", "decide", "fix", "limit", "result"}
LEMMA SessionStays ==
    ASSUME RevInv, Reviewing, rev'.review = rev.review, Inside(rev.pc), Inside(rev'.pc),
           UNCHANGED <<revEdition, revReturned, revEdits, revFailures>>,
           DOMAIN reviews' = DOMAIN reviews,
           \A n \in DOMAIN reviews : reviews'[n].status = reviews[n].status /\ reviews'[n].edition = reviews[n].edition,
           \A n \in DOMAIN reviews : n # rev.review => reviews'[n] = reviews[n]
    PROVE  SessionInv'
<1>1. SessionInv /\ rev.review \in DOMAIN reviews /\ Reviewing' /\ AtWork'
  BY CurrentIsSound DEF RevInv, Reviewing, AtWork, Inside
<1>2. /\ rev'.review \in DOMAIN reviews' /\ Current'.edition = revEdition' /\ revReturned' # rev'.review
      /\ \A n \in DOMAIN reviews' :
           Resumable(reviews'[n].status) /\ reviews'[n].edition = revEdition' => n = rev'.review
  BY <1>1 DEF SessionInv, Current
<1>3. Current'.status = "running" /\ Current.status = "running"
  BY <1>1 DEF SessionInv, Current, AtWork, Inside
<1>4. OutcomesMatchTheBook'
  <2>1. revReturned \in 0..Len(reviews) /\ DOMAIN reviews = 1..Len(reviews) /\ Len(reviews) \in Nat
    BY CurrentIsSound DEF RevInv, RevTypes
  <2>2. QED BY <1>1, <2>1 DEF SessionInv, OutcomesMatchTheBook
<1>5. NoReviewIsAbandoned'
  BY <1>1 DEF SessionInv, NoReviewIsAbandoned
<1>6. \A n \in DOMAIN reviews' : reviews'[n].status = "created" => reviews'[n].checkpoint = NoCheckpoint
  BY <1>1, <1>3 DEF SessionInv, Current
<1>7. rev'.pc # "create" /\ rev'.pc # "usage"
  BY DEF Inside
<1>8. QED BY <1>2, <1>3, <1>4, <1>5, <1>6, <1>7 DEF SessionInv


Rest == UNCHANGED <<revEdition, revReturned, revEdits, revFailures>>

LEMMA UnchangedIsWritten ==
    ASSUME RevInv, Reviewing, UNCHANGED reviews
    PROVE  Write(Current)
BY CurrentIsSound DEF Write, Current

\* A step of the invocation within its session.
LEMMA StepInside ==
    ASSUME RevInv, Inside(rev.pc), Rest,
           NEW e \in Directories, IsSound(e), e.status = "running", e.edition = Current.edition, Write(e),
           NEW v \in Sessions, rev' = v, v.review = rev.review, Inside(v.pc), InStepOf(v, e)
    PROVE  RevInv'
<1>1. Reviewing /\ AtWork /\ AtWork'
  BY DEF Reviewing, AtWork, Inside
<1>2. /\ reviews' \in Seq(Directories) /\ Len(reviews') = Len(reviews)
      /\ DOMAIN reviews' = DOMAIN reviews /\ reviews'[rev.review] = e
      /\ \A n \in DOMAIN reviews : n # rev.review => reviews'[n] = reviews[n]
      /\ DirectoryInv'
  BY <1>1, DirectoryWritten
<1>3. RevTypes'
  BY <1>2 DEF RevInv, RevTypes, Rest
<1>4. Current.status = "running"
  BY <1>1 DEF RevInv, SessionInv, Inside
<1>5. \A n \in DOMAIN reviews : reviews'[n].status = reviews[n].status /\ reviews'[n].edition = reviews[n].edition
  BY <1>2, <1>4 DEF Current
<1>6. SessionInv'
  BY <1>1, <1>2, <1>5, SessionStays DEF Rest
<1>7. InStep'
  BY <1>2 DEF InStep, Current
<1>8. QED BY <1>2, <1>3, <1>6, <1>7 DEF RevInv

\* The invocation begins where the checkpoint is.
LEMMA RestoredIsInStep ==
    ASSUME RevInv, NEW n \in DOMAIN reviews, NEW e \in Directories,
           e.checkpoint = reviews[n].checkpoint, e.edition = reviews[n].edition,
           NEW v, v = Restore(n)
    PROVE  v \in Sessions /\ v.review = n /\ Inside(v.pc) /\ InStepOf(v, e)
<1>1. PICK d : d = reviews[n]
  OBVIOUS
<1>2. d \in Directories /\ IsSound(d) /\ CheckpointOf(d) /\ n \in Nat
  BY <1>1 DEF RevInv, RevTypes, DirectoryInv, IsSound
<1>3. /\ Saved(e) = Saved(d) /\ Scanned(e) = Scanned(d) /\ ResumedRound(e) = ResumedRound(d)
      /\ ResumedState(e) = ResumedState(d)
  BY <1>1, SameCheckpoint
<1>4. ResumedState(d) \in States /\ ResumedRound(d) \in Nat \ {0}
  BY <1>2, WhereItGoesOn
<1>5. ResumedScan(d) \in Scans /\ (ResumedScan(d) = NoScan <=> ~Scanned(d))
      /\ (Scanned(d) => e.checkpoint.latest = ResumedScan(d))
  <2>1. CASE ~Scanned(d)
    BY <2>1 DEF ResumedScan, Scanned, NoScan, Scans
  <2>2. CASE Scanned(d)
    <3>1. d.checkpoint.latest \in Scans /\ d.checkpoint.latest.round \in Nat \ {0}
      BY <1>2, <2>2 DEF Directories, Checkpoints, Scanned, CheckpointOf, Saved
    <3>2. d.checkpoint.latest # NoScan
      BY <3>1 DEF NoScan
    <3>3. QED BY <1>1, <2>2, <3>1, <3>2 DEF ResumedScan, Scanned
  <2>3. QED BY <2>1, <2>2
<1>6. v = [pc |-> IF Scanned(d) THEN "decide" ELSE "scan", review |-> n, round |-> ResumedRound(d),
           state |-> ResumedState(d), latest |-> ResumedScan(d), termination |-> "not_started"]
  BY <1>1, <1>5 DEF Restore
<1>7. v \in Sessions
  BY <1>2, <1>4, <1>5, <1>6 DEF Sessions
<1>8. InStepOf(v, e)
  BY <1>3, <1>5, <1>6 DEF InStepOf
<1>9. QED BY <1>6, <1>7, <1>8 DEF Inside

\* A review with a result, the newest of those that have one, or of those to go on with.
LEMMA NewestIsThere ==
    ASSUME RevInv, NEW T \in SUBSET (DOMAIN reviews), T # {}
    PROVE  Max(T) \in T /\ \A n \in T : Max(T) >= n
<1>1. DOMAIN reviews = 1..Len(reviews) /\ Len(reviews) \in Nat
  BY DEF RevInv, RevTypes
<1>2. T \in SUBSET Nat /\ \A n \in T : n <= Len(reviews)
  BY <1>1
<1>3. QED BY <1>1, <1>2, MaxIsGreatest

LEMMA ChangeEditionStep ==
    ASSUME RevInv, NEW edition \in Editions, ChangeEdition(edition)
    PROVE  RevInv'
<1>1. /\ ~Reviewing /\ UNCHANGED <<reviews, rev, revFailures>> /\ revReturned' = 0 /\ revEdition' = edition
      /\ revEdits' \in 0..MaxRevEdits
  BY ReviewAssumption DEF ChangeEdition, RevInv, RevTypes
<1>2. rev = IdleReview /\ ~Reviewing' /\ ~AtWork'
  BY <1>1, SessionShape DEF RevInv, Reviewing, AtWork, IdleReview
<1>3. RevTypes'
  BY <1>1 DEF RevInv, RevTypes
<1>4. SessionInv'
  BY <1>1, <1>2 DEF RevInv, SessionInv, OutcomesMatchTheBook, NoReviewIsAbandoned, Reviewing, IdleReview
<1>5. DirectoryInv'
  BY <1>1 DEF RevInv, DirectoryInv
<1>6. QED BY <1>2, <1>3, <1>4, <1>5 DEF RevInv, InStep

LEMMA SkipReviewStep ==
    ASSUME RevInv, SkipReview
    PROVE  RevInv'
<1>1. /\ ~Reviewing /\ UNCHANGED <<revEdition, reviews, rev, revEdits, revFailures>>
      /\ Reusable # {} /\ revReturned' = Max(Reusable)
  BY DEF SkipReview
<1>2. rev = IdleReview /\ ~Reviewing' /\ ~AtWork'
  BY <1>1, SessionShape DEF RevInv, Reviewing, AtWork, IdleReview
<1>3. revReturned' \in Reusable
  <2>1. Reusable \in SUBSET (DOMAIN reviews)
    BY DEF Reusable, WithResult
  <2>2. QED BY <1>1, <2>1, NewestIsThere
<1>4. /\ revReturned' \in DOMAIN reviews /\ reviews[revReturned'].status = "completed"
      /\ reviews[revReturned'].edition = revEdition
  BY <1>3 DEF Reusable, WithResult
<1>5. RevTypes'
  BY <1>1, <1>4 DEF RevInv, RevTypes
<1>6. SessionInv'
  BY <1>1, <1>2, <1>4 DEF RevInv, SessionInv, OutcomesMatchTheBook, NoReviewIsAbandoned, Reviewing, IdleReview
<1>7. DirectoryInv'
  BY <1>1 DEF RevInv, DirectoryInv
<1>8. QED BY <1>2, <1>5, <1>6, <1>7 DEF RevInv, InStep


LEMMA ResumeReviewStep ==
    ASSUME RevInv, ResumeReview
    PROVE  RevInv'
<1>1. PICK n, v : n = Max(Matches) /\ v = Restore(n)
  OBVIOUS
<1>2. /\ ~Reviewing /\ Matches # {} /\ rev' = v /\ reviews' = [reviews EXCEPT ![n].status = "running"]
      /\ UNCHANGED <<revEdition, revReturned, revEdits, revFailures>>
  BY <1>1 DEF ResumeReview
<1>3. n \in DOMAIN reviews /\ Resumable(reviews[n].status) /\ reviews[n].edition = revEdition
  <2>1. Matches \in SUBSET (DOMAIN reviews)
    BY DEF Matches, WithResult
  <2>2. n \in Matches
    BY <1>1, <1>2, <2>1, NewestIsThere
  <2>3. QED BY <2>2 DEF Matches, WithResult
<1>4. /\ DOMAIN reviews = 1..Len(reviews) /\ Len(reviews) \in Nat /\ reviews \in Seq(Directories)
      /\ reviews[n] \in Directories /\ IsSound(reviews[n]) /\ SessionInv
  BY <1>3 DEF RevInv, RevTypes, DirectoryInv
<1>5. PICK e : e = [reviews[n] EXCEPT !.status = "running"]
  OBVIOUS
<1>6. /\ e \in Directories /\ IsSound(e) /\ e.status = "running" /\ e.edition = reviews[n].edition
      /\ e.checkpoint = reviews[n].checkpoint
  BY <1>4, <1>5, StatusKeeps DEF Directories
<1>7. reviews' = [reviews EXCEPT ![n] = e]
  BY <1>2, <1>3, <1>5
<1>8. /\ reviews' \in Seq(Directories) /\ Len(reviews') = Len(reviews) /\ DOMAIN reviews' = DOMAIN reviews
      /\ reviews'[n] = e /\ \A m \in DOMAIN reviews : m # n => reviews'[m] = reviews[m]
  BY <1>3, <1>4, <1>6, <1>7
<1>9. v \in Sessions /\ v.review = n /\ Inside(v.pc) /\ InStepOf(v, e)
  BY <1>1, <1>3, <1>6, RestoredIsInStep
<1>10. RevTypes'
  BY <1>2, <1>8, <1>9 DEF RevInv, RevTypes
<1>11. DirectoryInv'
  BY <1>6, <1>8 DEF RevInv, DirectoryInv
<1>12. SessionInv'
  <2>1. revReturned # n
    BY <1>3, <1>4 DEF SessionInv, OutcomesMatchTheBook, Resumable
  <2>2. \A m \in DOMAIN reviews' : Resumable(reviews'[m].status) /\ reviews'[m].edition = revEdition' => m = n
    BY <1>2, <1>3, <1>4, <1>8 DEF SessionInv, NoReviewIsAbandoned
  <2>3. /\ Reviewing' => /\ rev'.review \in DOMAIN reviews' /\ Current'.edition = revEdition'
                         /\ revReturned' # rev'.review
        /\ Current'.status = "running" /\ rev'.review = n
    BY <1>2, <1>3, <1>6, <1>8, <1>9, <2>1 DEF Current
  <2>4. OutcomesMatchTheBook'
    <3>1. revReturned \in 0..Len(reviews)
      BY DEF RevInv, RevTypes
    <3>2. QED BY <1>2, <1>4, <1>8, <2>1, <3>1 DEF SessionInv, OutcomesMatchTheBook
  <2>5. NoReviewIsAbandoned'
    <3>1. \A m \in DOMAIN reviews : /\ reviews'[m].edition = reviews[m].edition
                                    /\ (Resumable(reviews'[m].status) <=> Resumable(reviews[m].status))
      BY <1>3, <1>6, <1>8 DEF Resumable
    <3>2. QED BY <1>4, <1>8, <3>1 DEF SessionInv, NoReviewIsAbandoned
  <2>6. \A m \in DOMAIN reviews' : reviews'[m].status = "created" => reviews'[m].checkpoint = NoCheckpoint
    BY <1>4, <1>6, <1>8 DEF SessionInv
  <2>7. rev'.pc # "create" /\ rev'.pc # "usage"
    BY <1>2, <1>9 DEF Inside
  <2>8. QED BY <2>2, <2>3, <2>4, <2>5, <2>6, <2>7 DEF SessionInv
<1>13. InStep'
  BY <1>2, <1>8, <1>9 DEF InStep, Current
<1>14. QED BY <1>10, <1>11, <1>12, <1>13 DEF RevInv

LEMMA CreateReviewStep ==
    ASSUME RevInv, CreateReview
    PROVE  RevInv'
<1>1. PICK n, e : /\ n = Len(reviews) + 1
                  /\ e = [edition |-> revEdition, status |-> "created",
                          checkpoint |-> NoCheckpoint, blocks |-> {}, patches |-> {},
                          result |-> NoResult, tried |-> << >>, unfixed |-> {}, decided |-> << >>]
  OBVIOUS
<1>2. /\ ~Reviewing /\ Matches = {} /\ Len(reviews) < MaxReviews /\ reviews' = Append(reviews, e)
      /\ rev' = [pc |-> "create", review |-> n]
      /\ UNCHANGED <<revEdition, revReturned, revEdits, revFailures>>
  BY <1>1 DEF CreateReview
<1>3. /\ reviews \in Seq(Directories) /\ Len(reviews) \in Nat /\ DOMAIN reviews = 1..Len(reviews)
      /\ n \in Nat /\ revEdition \in Editions /\ revReturned \in 0..Len(reviews) /\ SessionInv
  BY <1>1 DEF RevInv, RevTypes
<1>4. e \in Directories
  BY <1>1, <1>3 DEF Directories, Checkpoints, Results
<1>5. IsSound(e) /\ e.status = "created" /\ e.edition = revEdition /\ e.checkpoint = NoCheckpoint
  <2>1. /\ e.checkpoint = NoCheckpoint /\ e.blocks = {} /\ e.unfixed = {} /\ e.status = "created"
        /\ e.tried = << >> /\ e.decided = << >> /\ e.edition = revEdition
    BY <1>1
  <2>2. QED BY <1>4, <2>1, NewIsSound
<1>6. /\ reviews' \in Seq(Directories) /\ Len(reviews') = n /\ DOMAIN reviews' = 1..n
      /\ reviews'[n] = e /\ \A m \in 1..Len(reviews) : reviews'[m] = reviews[m]
      /\ \A m \in DOMAIN reviews' : m = n \/ m \in DOMAIN reviews
  BY <1>1, <1>2, <1>3, <1>4
<1>7. /\ rev'.pc = "create" /\ rev'.review = n /\ Reviewing' /\ ~AtWork' /\ rev' \in Sessions
  BY <1>2, <1>3 DEF Reviewing, AtWork, Sessions
<1>8. RevTypes'
  <2>1. n <= MaxReviews
    BY <1>1, <1>2, <1>3, ReviewAssumption
  <2>2. revReturned \in 0..n
    BY <1>1, <1>3
  <2>3. QED BY <1>2, <1>6, <1>7, <2>1, <2>2 DEF RevInv, RevTypes
<1>9. DirectoryInv'
  BY <1>3, <1>5, <1>6 DEF RevInv, DirectoryInv
<1>10. SessionInv'
  <2>1. revReturned # n /\ n \notin DOMAIN reviews
    BY <1>1, <1>3
  <2>2. \A m \in DOMAIN reviews : Resumable(reviews[m].status) => reviews[m].edition # revEdition
    BY <1>2 DEF Matches, WithResult, Resumable
  <2>3. ~Resumable(e.status)
    BY <1>5 DEF Resumable
  <2>4. \A m \in DOMAIN reviews' : Resumable(reviews'[m].status) /\ reviews'[m].edition = revEdition' => m = n
    BY <1>2, <1>3, <1>6, <2>2
  <2>5. rev'.review \in DOMAIN reviews' /\ Current'.edition = revEdition' /\ revReturned' # rev'.review
    BY <1>1, <1>2, <1>3, <1>5, <1>6, <1>7, <2>1 DEF Current
  <2>6. Current'.status = "created"
    BY <1>5, <1>6, <1>7 DEF Current
  <2>7. OutcomesMatchTheBook'
    BY <1>2, <1>3, <1>6 DEF SessionInv, OutcomesMatchTheBook
  <2>8. NoReviewIsAbandoned'
    BY <1>3, <1>6, <2>3 DEF SessionInv, NoReviewIsAbandoned
  <2>9. \A m \in DOMAIN reviews' : reviews'[m].status = "created" => reviews'[m].checkpoint = NoCheckpoint
    BY <1>3, <1>5, <1>6 DEF SessionInv
  <2>10. QED BY <1>7, <2>4, <2>5, <2>6, <2>7, <2>8, <2>9 DEF SessionInv, AtWork
<1>11. QED BY <1>7, <1>8, <1>9, <1>10 DEF RevInv, InStep

LEMMA StartReviewStep ==
    ASSUME RevInv, StartReview
    PROVE  RevInv'
<1>1. PICK n, d, v : n = rev.review /\ d = Current /\ v = Restore(n)
  OBVIOUS
<1>2. PICK e : e = [d EXCEPT !.status = "running"]
  OBVIOUS
<1>3. /\ rev.pc = "create" /\ Reviewing /\ Write(e) /\ rev' = v
      /\ UNCHANGED <<revEdition, revReturned, revEdits, revFailures>>
  BY <1>1, <1>2 DEF StartReview, Reviewing
<1>4. /\ n \in DOMAIN reviews /\ d = reviews[n] /\ d \in Directories /\ IsSound(d) /\ SessionInv
      /\ DOMAIN reviews = 1..Len(reviews) /\ Len(reviews) \in Nat
  BY <1>1, <1>3, CurrentIsSound DEF Current, RevInv
<1>5. /\ e \in Directories /\ IsSound(e) /\ e.status = "running" /\ e.edition = d.edition
      /\ e.checkpoint = d.checkpoint
  BY <1>2, <1>4, StatusKeeps DEF Directories
<1>6. /\ reviews' \in Seq(Directories) /\ Len(reviews') = Len(reviews) /\ DOMAIN reviews' = DOMAIN reviews
      /\ reviews'[n] = e /\ \A m \in DOMAIN reviews : m # n => reviews'[m] = reviews[m]
      /\ DirectoryInv'
  BY <1>1, <1>3, <1>5, DirectoryWritten
<1>7. v \in Sessions /\ v.review = n /\ Inside(v.pc) /\ InStepOf(v, e)
  BY <1>1, <1>4, <1>5, RestoredIsInStep
<1>8. RevTypes'
  BY <1>3, <1>6, <1>7 DEF RevInv, RevTypes
<1>9. SessionInv'
  <2>1. /\ d.edition = revEdition /\ revReturned # n
        /\ \A m \in DOMAIN reviews : Resumable(reviews[m].status) /\ reviews[m].edition = revEdition => m = n
    BY <1>1, <1>3, <1>4 DEF SessionInv
  <2>2. \A m \in DOMAIN reviews' : Resumable(reviews'[m].status) /\ reviews'[m].edition = revEdition' => m = n
    BY <1>3, <1>6, <2>1
  <2>3. /\ rev'.review \in DOMAIN reviews' /\ Current'.edition = revEdition' /\ revReturned' # rev'.review
        /\ Current'.status = "running"
    BY <1>3, <1>4, <1>5, <1>6, <1>7, <2>1 DEF Current
  <2>4. OutcomesMatchTheBook'
    <3>1. revReturned \in 0..Len(reviews)
      BY DEF RevInv, RevTypes
    <3>2. QED BY <1>3, <1>4, <1>6, <2>1, <3>1 DEF SessionInv, OutcomesMatchTheBook
  <2>5. NoReviewIsAbandoned'
    <3>1. \A m \in DOMAIN reviews : m # n /\ Resumable(reviews[m].status) => reviews[m].edition # d.edition
      BY <2>1
    <3>2. QED BY <1>4, <1>5, <1>6, <3>1 DEF SessionInv, NoReviewIsAbandoned
  <2>6. \A m \in DOMAIN reviews' : reviews'[m].status = "created" => reviews'[m].checkpoint = NoCheckpoint
    BY <1>4, <1>5, <1>6 DEF SessionInv
  <2>7. rev'.pc # "create" /\ rev'.pc # "usage"
    BY <1>3, <1>7 DEF Inside
  <2>8. QED BY <1>3, <1>7, <2>2, <2>3, <2>4, <2>5, <2>6, <2>7 DEF SessionInv
<1>10. InStep'
  BY <1>3, <1>6, <1>7 DEF InStep, Current
<1>11. QED BY <1>6, <1>8, <1>9, <1>10 DEF RevInv


LEMMA ScanBlockStep ==
    ASSUME RevInv, NEW p \in Paragraphs, ScanBlock(p)
    PROVE  RevInv'
<1>1. PICK d, v : d = Current /\ v = rev
  OBVIOUS
<1>2. /\ rev.pc = "scan" /\ Reviewing /\ Inside(rev.pc) /\ AtWork /\ rev' = v
      /\ InScan(rev.round, p) = {} /\ Rest
  BY <1>1 DEF ScanBlock, Reviewing, Inside, AtWork, Rest
<1>3. /\ d \in Directories /\ IsSound(d) /\ InStepOf(v, d) /\ v \in Sessions
  BY <1>1, <1>2, CurrentIsSound DEF RevInv, RevTypes
<1>4. d.status = "running"
  BY <1>1, <1>2 DEF RevInv, SessionInv
<1>5. v.round = ResumedRound(d) /\ ~Scanned(d) /\ v.state = ResumedState(d)
  BY <1>1, <1>2, <1>3 DEF InStepOf
<1>6. PICK found \in SUBSET IssuesAt(p) :
        Write([d EXCEPT !.blocks = @ \cup {[round |-> ResumedRound(d), at |-> p, issues |-> found,
                                            saw |-> ResumedState(d).overlay]}])
  BY <1>1, <1>5 DEF ScanBlock
<1>7. PICK new : new = [round |-> ResumedRound(d), at |-> p, issues |-> found, saw |-> ResumedState(d).overlay]
  OBVIOUS
<1>8. PICK e : e = [d EXCEPT !.blocks = @ \cup {new}]
  OBVIOUS
<1>9. Write(e)
  BY <1>6, <1>7, <1>8
<1>10. \A b \in d.blocks : b.round # ResumedRound(d) \/ b.at # p
  BY <1>1, <1>2, <1>5 DEF InScan
<1>11. IsSound(e) /\ e \in Directories
  BY <1>3, <1>4, <1>5, <1>7, <1>8, <1>10, ScanKeeps
<1>12. e.status = "running" /\ e.edition = d.edition /\ e.checkpoint = d.checkpoint
  BY <1>3, <1>4, <1>8 DEF Directories
<1>13. InStepOf(v, e)
  <2>1. Scanned(e) = Scanned(d) /\ ResumedRound(e) = ResumedRound(d) /\ ResumedState(e) = ResumedState(d)
    BY <1>12, SameCheckpoint
  <2>2. QED BY <1>1, <1>2, <1>5, <2>1 DEF InStepOf
<1>14. QED BY <1>1, <1>2, <1>3, <1>9, <1>11, <1>12, <1>13, StepInside

\* A session of which some fields change.
LEMMA ScanEnds ==
    ASSUME NEW pc, NEW review, NEW round, NEW state, NEW latest, NEW termination, NEW w,
           w = [pc |-> pc, review |-> review, round |-> round, state |-> state,
                latest |-> latest, termination |-> termination],
           NEW x, NEW y, NEW v, v = [w EXCEPT !.pc = x, !.latest = y]
    PROVE  v = [pc |-> x, review |-> review, round |-> round, state |-> state,
              latest |-> y, termination |-> termination]
<1>1. /\ DOMAIN v = {"pc", "review", "round", "state", "latest", "termination"}
      /\ v.pc = x /\ v.review = review /\ v.round = round /\ v.state = state
      /\ v.latest = y /\ v.termination = termination
  OBVIOUS
<1>2. v = [i \in {"pc", "review", "round", "state", "latest", "termination"} |-> v[i]]
  OBVIOUS
<1>3. QED BY <1>1, <1>2

LEMMA RoundEnds ==
    ASSUME NEW pc, NEW review, NEW round, NEW state, NEW latest, NEW termination, NEW w,
           w = [pc |-> pc, review |-> review, round |-> round, state |-> state,
                latest |-> latest, termination |-> termination],
           NEW x, NEW y, NEW z, NEW v, v = [w EXCEPT !.pc = x, !.state = y, !.termination = z]
    PROVE  v = [pc |-> x, review |-> review, round |-> round, state |-> y,
              latest |-> latest, termination |-> z]
<1>1. /\ DOMAIN v = {"pc", "review", "round", "state", "latest", "termination"}
      /\ v.pc = x /\ v.review = review /\ v.round = round /\ v.state = y
      /\ v.latest = latest /\ v.termination = z
  OBVIOUS
<1>2. v = [i \in {"pc", "review", "round", "state", "latest", "termination"} |-> v[i]]
  OBVIOUS
<1>3. QED BY <1>1, <1>2

LEMMA LoopEnds ==
    ASSUME NEW pc, NEW review, NEW round, NEW state, NEW latest, NEW termination, NEW w,
           w = [pc |-> pc, review |-> review, round |-> round, state |-> state,
                latest |-> latest, termination |-> termination],
           NEW x, NEW y, NEW v, v = [w EXCEPT !.pc = x, !.termination = y]
    PROVE  v = [pc |-> x, review |-> review, round |-> round, state |-> state,
              latest |-> latest, termination |-> y]
<1>1. /\ DOMAIN v = {"pc", "review", "round", "state", "latest", "termination"}
      /\ v.pc = x /\ v.review = review /\ v.round = round /\ v.state = state
      /\ v.latest = latest /\ v.termination = y
  OBVIOUS
<1>2. v = [i \in {"pc", "review", "round", "state", "latest", "termination"} |-> v[i]]
  OBVIOUS
<1>3. QED BY <1>1, <1>2

LEMMA FinishScanStep ==
    ASSUME RevInv, FinishScan
    PROVE  RevInv'
<1>1. PICK d, r : d = Current /\ r = ResumedRound(d)
  OBVIOUS
<1>2. /\ rev.pc = "scan" /\ Reviewing /\ Inside(rev.pc) /\ AtWork /\ Rest
      /\ \A p \in Paragraphs : InScan(rev.round, p) # {}
  BY DEF FinishScan, Reviewing, Inside, AtWork, Rest
<1>3. /\ d \in Directories /\ IsSound(d) /\ InStepOf(rev, d) /\ RevTypes
  BY <1>1, <1>2, CurrentIsSound DEF RevInv
<1>4. d.status = "running"
  BY <1>1, <1>2 DEF RevInv, SessionInv
<1>5. rev.round = r /\ ~Scanned(d) /\ rev.state = ResumedState(d)
  BY <1>1, <1>2, <1>3 DEF InStepOf
<1>6. PICK found : found = UNION {b.issues : b \in {c \in Current.blocks : c.round = rev.round}}
  OBVIOUS
<1>7. found = Found(d, r)
  BY <1>1, <1>5, <1>6 DEF Found
<1>8. PICK unfixable \in SUBSET found : \E latest :
        /\ latest = [issues |-> found, unfixable |-> unfixable, round |-> rev.round]
        /\ rev' = [rev EXCEPT !.pc = "decide", !.latest = latest]
        /\ Write([Current EXCEPT !.checkpoint = Checkpoint("scan_done", rev.round, rev.state, latest),
                                 !.decided = Append(@, rev.round)])
  BY <1>6 DEF FinishScan
<1>9. PICK latest :
        /\ latest = [issues |-> found, unfixable |-> unfixable, round |-> rev.round]
        /\ rev' = [rev EXCEPT !.pc = "decide", !.latest = latest]
        /\ Write([Current EXCEPT !.checkpoint = Checkpoint("scan_done", rev.round, rev.state, latest),
                                 !.decided = Append(@, rev.round)])
  BY <1>8
<1>19. PICK e : e = [d EXCEPT !.checkpoint = Checkpoint("scan_done", ResumedRound(d), ResumedState(d), latest),
                             !.decided = Append(@, ResumedRound(d))]
  OBVIOUS
<1>20. Write(e)
  BY <1>1, <1>5, <1>9, <1>19
<1>21. /\ latest = [issues |-> Found(d, ResumedRound(d)), unfixable |-> unfixable, round |-> ResumedRound(d)]
       /\ unfixable \in SUBSET Found(d, ResumedRound(d))
  BY <1>1, <1>5, <1>7, <1>9
<1>10. IsScanned(d, r)
  BY <1>1, <1>2, <1>5 DEF InScan, IsScanned
<1>11. /\ IsSound(e) /\ e \in Directories /\ latest \in Scans /\ Scanned(e)
       /\ e.checkpoint.latest = latest /\ ResumedRound(e) = r /\ ResumedState(e) = ResumedState(d)
  <2>1. IsScanned(d, ResumedRound(d))
    BY <1>1, <1>10
  <2>2. /\ IsSound(e) /\ e \in Directories /\ latest \in Scans /\ Scanned(e)
        /\ e.checkpoint.latest = latest /\ ResumedRound(e) = ResumedRound(d)
        /\ ResumedState(e) = ResumedState(d)
    BY <1>3, <1>4, <1>5, <1>19, <1>21, <2>1, FinishScanKeeps
  <2>3. QED BY <1>1, <2>2
<1>12. e.status = "running" /\ e.edition = d.edition
  BY <1>3, <1>4, <1>19 DEF Directories
<1>13. PICK v : v = [pc |-> "decide", review |-> rev.review, round |-> r, state |-> ResumedState(d),
                     latest |-> latest, termination |-> rev.termination]
  OBVIOUS
<1>14. /\ rev = [pc |-> rev.pc, review |-> rev.review, round |-> rev.round, state |-> rev.state,
                 latest |-> rev.latest, termination |-> rev.termination]
       /\ rev.review \in Nat /\ rev.round \in Nat \ {0} /\ rev.state \in States
       /\ rev.termination \in Terminations \cup {"not_started"}
  BY <1>2, <1>3, SessionShape
<1>15. rev' = v
  <2>1. rev' = [pc |-> "decide", review |-> rev.review, round |-> rev.round, state |-> rev.state,
                latest |-> latest, termination |-> rev.termination]
    BY <1>9, <1>14, ScanEnds
  <2>2. QED BY <1>5, <1>13, <2>1
<1>16. v \in Sessions /\ v.review = rev.review /\ Inside(v.pc)
  BY <1>5, <1>11, <1>13, <1>14 DEF Sessions, Inside
<1>17. InStepOf(v, e)
  BY <1>11, <1>13 DEF InStepOf
<1>18. QED BY <1>1, <1>2, <1>11, <1>12, <1>20, <1>15, <1>16, <1>17, StepInside

\* A round ends with its checkpoint, and the loop goes on.
LEMMA NextRoundStep ==
    ASSUME RevInv, Inside(rev.pc), Rest, NEW s \in States, NEW e \in Directories, IsSound(e),
           e.status = "running", e.edition = Current.edition, Write(e),
           e.checkpoint = Checkpoint("round_done", rev.round + 1, s, NoScan), NextRound(s)
    PROVE  RevInv'
<1>1. PICK r, limit : r = rev.round /\ limit = Limit(e)
  OBVIOUS
<1>2. /\ rev.review \in Nat /\ r \in Nat \ {0} /\ rev.latest \in Scans
      /\ rev.termination \in Terminations \cup {"not_started"}
  BY <1>1, SessionShape DEF RevInv, AtWork, Inside
<1>3. /\ Saved(e) /\ ~Scanned(e) /\ Position(e) = r + 1 /\ ResumedState(e) = s
      /\ e.checkpoint.phase = "round_done" /\ e.checkpoint.latest = NoScan /\ e.checkpoint.next = r + 1
  BY <1>1 DEF Checkpoint, NoCheckpoint, Saved, Scanned, Position, ResumedState
<1>4. /\ limit \in Nat \ {0} /\ r + 1 <= limit + 1
      /\ ResumedRound(e) = (IF r + 1 <= limit THEN r + 1 ELSE limit)
  BY <1>1, <1>3, WhereItGoesOn DEF IsSound
<1>5. limit = MaxRounds(Policy)
  BY <1>1 DEF Limit, Policy
<1>6. CASE r < limit
  <2>1. PICK v : v = [review |-> rev.review, pc |-> "scan", round |-> r + 1, state |-> s,
                      latest |-> rev.latest, termination |-> rev.termination]
    OBVIOUS
  <2>2. rev' = v
    BY <1>1, <1>5, <1>6, <2>1 DEF NextRound
  <2>3. v \in Sessions /\ v.review = rev.review /\ Inside(v.pc)
    BY <1>2, <2>1 DEF Sessions, Inside
  <2>4. r + 1 = ResumedRound(e)
    BY <1>2, <1>4, <1>6
  <2>5. InStepOf(v, e)
    BY <1>3, <2>1, <2>4 DEF InStepOf
  <2>6. QED BY <2>2, <2>3, <2>5, StepInside
<1>7. CASE r = limit
  <2>1. PICK v : v = [review |-> rev.review, pc |-> "limit", round |-> r, state |-> s,
                      latest |-> rev.latest, termination |-> rev.termination]
    OBVIOUS
  <2>2. ~(r < limit)
    BY <1>4, <1>7
  <2>3. rev' = v
    BY <1>1, <1>5, <2>1, <2>2 DEF NextRound
  <2>4. v \in Sessions /\ v.review = rev.review /\ Inside(v.pc)
    BY <1>2, <2>1 DEF Sessions, Inside
  <2>5. InStepOf(v, e)
    BY <1>1, <1>3, <1>7, <2>1 DEF InStepOf
  <2>6. QED BY <2>3, <2>4, <2>5, StepInside
<1>8. QED BY <1>2, <1>4, <1>6, <1>7

\* The loop ends with its verdict.
LEMMA VerdictStep ==
    ASSUME RevInv, Inside(rev.pc), Rest, NEW s \in States, NEW e \in Directories, IsSound(e),
           e.status = "running", e.edition = Current.edition, Write(e),
           e.checkpoint = Checkpoint("round_done", rev.round + 1, s, NoScan),
           NEW termination \in Terminations,
           termination = "clean_confirmed" =>
             rev.latest.issues = {} /\ s.blocked = {} /\ s.streak >= RequiredClean(e.edition),
           rev' = [pc |-> "result", review |-> rev.review, round |-> rev.round, state |-> s,
                   latest |-> rev.latest, termination |-> termination]
    PROVE  RevInv'
<1>1. PICK r : r = rev.round
  OBVIOUS
<1>2. /\ rev.review \in Nat /\ r \in Nat \ {0} /\ rev.latest \in Scans
  BY <1>1, SessionShape DEF RevInv, AtWork, Inside
<1>3. /\ Saved(e) /\ ResumedState(e) = s
      /\ e.checkpoint.phase = "round_done" /\ e.checkpoint.latest = NoScan /\ e.checkpoint.next = r + 1
  BY <1>1 DEF Checkpoint, NoCheckpoint, Saved, ResumedState
<1>4. PICK v : v = [pc |-> "result", review |-> rev.review, round |-> r, state |-> s,
                    latest |-> rev.latest, termination |-> termination]
  OBVIOUS
<1>5. rev' = v
  BY <1>1, <1>4
<1>6. v \in Sessions /\ v.review = rev.review /\ Inside(v.pc)
  BY <1>2, <1>4 DEF Sessions, Inside
<1>7. HasEnded(v, e)
  BY <1>4 DEF HasEnded
<1>8. InStepOf(v, e)
  BY <1>3, <1>4, <1>7 DEF InStepOf
<1>9. QED BY <1>5, <1>6, <1>8, StepInside

\* What an invocation with a finished scan decides upon.
LEMMA DecidesOnTheScan ==
    ASSUME RevInv, rev.pc \in {"decide", "fix"}, NEW d, d = Current
    PROVE  /\ d \in Directories /\ IsSound(d) /\ Scanned(d) /\ d.status = "running"
           /\ rev.latest = d.checkpoint.latest /\ rev.latest \in Scans
           /\ rev.round = d.checkpoint.next /\ rev.round \in Nat \ {0} /\ ResumedState(d) \in States
           /\ rev.review \in Nat /\ rev.termination \in Terminations \cup {"not_started"}
           /\ Reviewing /\ Inside(rev.pc) /\ AtWork
           /\ rev.pc = "decide" => rev.state = ResumedState(d)
           /\ rev.pc = "fix" => IsFixing(rev, d)
<1>1. Reviewing /\ Inside(rev.pc) /\ AtWork /\ RevTypes
  BY DEF Reviewing, Inside, AtWork, RevInv
<1>2. d \in Directories /\ IsSound(d) /\ InStepOf(rev, d)
  BY <1>1, CurrentIsSound
<1>3. d.status = "running"
  BY DEF RevInv, SessionInv, AtWork
<1>4. /\ rev.review \in Nat /\ rev.round \in Nat \ {0} /\ rev.latest \in Scans
      /\ rev.termination \in Terminations \cup {"not_started"}
  BY <1>1, SessionShape
<1>5. /\ Scanned(d) /\ d.checkpoint.latest = rev.latest /\ rev.round = ResumedRound(d)
      /\ rev.pc = "decide" => rev.state = ResumedState(d)
      /\ rev.pc = "fix" => IsFixing(rev, d)
  BY <1>2 DEF InStepOf
<1>6. ResumedRound(d) = d.checkpoint.next /\ ResumedState(d) \in States
  BY <1>2, <1>5, WhereItGoesOn DEF IsSound
<1>7. QED BY <1>1, <1>2, <1>3, <1>4, <1>5, <1>6

\* The state a round without a fix ends with, by its fields.
Judged(old, blocked, streak) == [old EXCEPT !.blocked = blocked, !.streak = streak]
WithRow(state, row) == [state EXCEPT !.rounds = Append(@, row)]
JudgedAndEnded(old, blocked, streak, row) ==
    [old EXCEPT !.blocked = blocked, !.streak = streak, !.rounds = Append(@, row)]

LEMMA JudgedState ==
    ASSUME NEW old \in States, NEW blocked \in SUBSET Issues, NEW streak \in Nat, NEW row \in Summaries,
           NEW judged, judged = Judged(old, blocked, streak)
    PROVE  /\ judged \in States
           /\ judged.fixes = old.fixes /\ judged.blocked = blocked /\ judged.streak = streak
           /\ WithRow(judged, row) = JudgedAndEnded(old, blocked, streak, row)
<1>1. PICK rounds : rounds = Append(old.rounds, row)
  OBVIOUS
<1>2. rounds \in Seq(Summaries)
  BY <1>1 DEF States
<1>3. /\ judged \in States /\ judged.rounds = old.rounds
      /\ judged.fixes = old.fixes /\ judged.blocked = blocked /\ judged.streak = streak
      /\ judged.overlay = old.overlay /\ judged.seen = old.seen /\ judged.active = old.active
  BY DEF States, Judged
<1>4. PICK a, b : a = [judged EXCEPT !.rounds = rounds]
                  /\ b = [old EXCEPT !.blocked = blocked, !.streak = streak, !.rounds = rounds]
  OBVIOUS
<1>5. /\ a \in States /\ b \in States
      /\ a.overlay = b.overlay /\ a.seen = b.seen /\ a.active = b.active /\ a.blocked = b.blocked
      /\ a.streak = b.streak /\ a.fixes = b.fixes /\ a.rounds = b.rounds
  BY <1>2, <1>3, <1>4 DEF States
<1>6. a = b
  BY <1>5 DEF States
<1>7. WithRow(judged, row) = a /\ JudgedAndEnded(old, blocked, streak, row) = b
  BY <1>1, <1>3, <1>4 DEF WithRow, JudgedAndEnded
<1>8. QED BY <1>3, <1>6, <1>7

LEMMA DecideStep ==
    ASSUME RevInv, Decide
    PROVE  RevInv'
<1>1. PICK d, blocked, clean : d = Current /\ blocked = StillBlocked(rev.state)
                               /\ clean = (rev.latest.issues = {} /\ blocked = {})
  OBVIOUS
<1>2. PICK streak : streak = IF clean THEN rev.state.streak + 1 ELSE 0
  OBVIOUS
<1>3. PICK verdict, judged : verdict = Verdict(rev.state, blocked, streak)
                             /\ judged = [rev.state EXCEPT !.blocked = blocked, !.streak = streak]
  OBVIOUS
<1>4. PICK ended : ended = [judged EXCEPT !.rounds = Append(@, Summary(streak))]
  OBVIOUS
<1>5. /\ rev.pc = "decide" /\ Rest
      /\ IF verdict = "fix"
         THEN /\ rev' = [pc |-> "fix", review |-> rev.review, round |-> rev.round, state |-> judged,
                         latest |-> rev.latest, termination |-> rev.termination,
                         proposals |-> [p \in Paragraphs |-> NoProposal]]
              /\ UNCHANGED reviews
         ELSE /\ Write([Current EXCEPT !.checkpoint = Checkpoint("round_done", rev.round + 1, ended, NoScan)])
              /\ IF verdict = "continue" THEN NextRound(ended)
                 ELSE rev' = [rev EXCEPT !.pc = "result", !.state = ended, !.termination = verdict]
  BY <1>1, <1>2, <1>3, <1>4 DEF Decide, Rest
<1>6. /\ d \in Directories /\ IsSound(d) /\ Scanned(d) /\ d.status = "running"
      /\ rev.latest = d.checkpoint.latest /\ rev.latest \in Scans
      /\ rev.round = d.checkpoint.next /\ rev.round \in Nat \ {0} /\ ResumedState(d) \in States
      /\ rev.review \in Nat /\ rev.termination \in Terminations \cup {"not_started"}
      /\ Reviewing /\ Inside(rev.pc) /\ AtWork /\ rev.state = ResumedState(d)
  BY <1>1, <1>5, DecidesOnTheScan
<1>7. blocked = Unblocked(d)
  BY <1>1, <1>6 DEF StillBlocked, Unblocked
<1>8. blocked \in SUBSET Issues /\ streak \in Nat /\ streak = StreakAfter(d)
  <2>1. rev.state.streak \in Nat /\ rev.state.blocked \in SUBSET Issues
    BY <1>6 DEF States
  <2>2. blocked \in SUBSET Issues
    BY <1>1, <2>1 DEF StillBlocked
  <2>3. streak \in Nat
    BY <1>2, <2>1
  <2>4. streak = StreakAfter(d)
    BY <1>1, <1>2, <1>6, <1>7 DEF StreakAfter
  <2>5. QED BY <2>2, <2>3, <2>4
<1>9. Summary(streak) = SummaryOf(d, streak) /\ Summary(streak) \in Summaries
  BY <1>6, <1>8 DEF Summary, SummaryOf, Summaries
<1>10. /\ judged \in States /\ judged = [ResumedState(d) EXCEPT !.blocked = blocked, !.streak = streak]
       /\ judged.fixes = ResumedState(d).fixes /\ judged.blocked = blocked /\ judged.streak = streak
       /\ ended = [ResumedState(d) EXCEPT !.blocked = blocked, !.streak = streak,
                                          !.rounds = Append(@, Summary(streak))]
  <2>1. PICK old, row : old = ResumedState(d) /\ row = Summary(streak)
    OBVIOUS
  <2>2. old \in States /\ row \in Summaries /\ blocked \in SUBSET Issues /\ streak \in Nat
    BY <1>6, <1>8, <1>9, <2>1
  <2>3. judged = Judged(old, blocked, streak)
    BY <1>3, <1>6, <2>1 DEF Judged
  <2>4. ended = WithRow(judged, row)
    BY <1>4, <2>1 DEF WithRow
  <2>5. /\ judged \in States /\ judged.fixes = old.fixes /\ judged.blocked = blocked
        /\ judged.streak = streak /\ ended = JudgedAndEnded(old, blocked, streak, row)
    BY <2>2, <2>3, <2>4, JudgedState
  <2>6. QED BY <1>3, <1>6, <2>1, <2>5 DEF JudgedAndEnded
<1>11. ended = DecidedState(d)
  BY <1>7, <1>8, <1>9, <1>10 DEF DecidedState
<1>12. d.edition \in Editions /\ d.edition = Policy
  BY <1>1, <1>6 DEF Directories, Policy
<1>13. CASE verdict = "fix"
  <2>1. /\ rev.latest.issues # {} /\ ~(rev.state.fixes >= Policy.fixes)
    BY <1>3, <1>13 DEF Verdict
  <2>2. streak = 0
    BY <1>1, <1>2, <2>1
  <2>3. judged.fixes < d.edition.fixes
    <3>1. PICK fixes, limit : fixes = rev.state.fixes /\ limit = Policy.fixes
      OBVIOUS
    <3>2. fixes \in Nat /\ limit \in Nat /\ ~(fixes >= limit)
      BY <1>6, <1>12, <2>1, <3>1, RoundsAreBounded DEF States
    <3>3. fixes < limit
      BY <3>2
    <3>4. QED BY <1>6, <1>10, <1>12, <3>1, <3>3
  <2>4. PICK v : v = [pc |-> "fix", review |-> rev.review, round |-> rev.round, state |-> judged,
                      latest |-> rev.latest, termination |-> rev.termination,
                      proposals |-> [p \in Paragraphs |-> NoProposal]]
    OBVIOUS
  <2>5. v \in Sessions /\ v.review = rev.review /\ Inside(v.pc)
    BY <1>6, <1>10, <2>4 DEF Sessions, Inside, FixAnswers
  <2>6. \A p \in Paragraphs : v.proposals[p] \notin Wordings
    BY <2>4, ReviewAssumption DEF NoProposal
  <2>7. v.state = FixingState(d)
    BY <1>7, <1>10, <2>2, <2>4 DEF FixingState
  <2>8. IsFixing(v, d)
    BY <2>1, <2>3, <2>4, <2>6, <2>7 DEF IsFixing
  <2>9. v.round = ResumedRound(d)
    BY <1>6, <2>4, WhereItGoesOn DEF IsSound
  <2>10. InStepOf(v, d)
    BY <1>6, <2>4, <2>8, <2>9 DEF InStepOf
  <2>11. Write(d)
    BY <1>1, <1>5, <1>6, <1>13, UnchangedIsWritten
  <2>12. rev' = v
    BY <1>5, <1>13, <2>4
  <2>13. QED BY <1>1, <1>5, <1>6, <2>5, <2>10, <2>11, <2>12, StepInside
<1>14. CASE verdict # "fix"
  <2>1. PICK e : e = RoundDone(d, ended)
    OBVIOUS
  <2>2. Write(e)
    BY <1>1, <1>5, <1>6, <1>14, <2>1 DEF RoundDone
  <2>3. IsSound(e) /\ e \in Directories /\ ended \in States /\ ResumedState(e) = ended
    BY <1>6, <1>11, <2>1, DecideKeeps
  <2>4. /\ e.status = "running" /\ e.edition = d.edition
        /\ e.checkpoint = Checkpoint("round_done", rev.round + 1, ended, NoScan)
    BY <1>6, <2>1 DEF RoundDone, Directories
  <2>5. CASE verdict = "continue"
    <3>1. NextRound(ended)
      BY <1>5, <2>5
    <3>2. QED BY <1>1, <1>5, <1>6, <2>2, <2>3, <2>4, <3>1, NextRoundStep
  <2>6. CASE verdict # "continue"
    <3>1. rev' = [rev EXCEPT !.pc = "result", !.state = ended, !.termination = verdict]
      BY <1>5, <1>14, <2>6
    <3>2. rev = [pc |-> rev.pc, review |-> rev.review, round |-> rev.round, state |-> rev.state,
                 latest |-> rev.latest, termination |-> rev.termination]
      BY <1>5, <1>6, SessionShape DEF RevInv
    <3>3. rev' = [pc |-> "result", review |-> rev.review, round |-> rev.round, state |-> ended,
                  latest |-> rev.latest, termination |-> verdict]
      BY <3>1, <3>2, RoundEnds
    <3>4. verdict \in Terminations
      BY <1>3, <1>14, <2>6 DEF Verdict, Terminations
    <3>5. verdict = "clean_confirmed" =>
             rev.latest.issues = {} /\ blocked = {} /\ streak >= RequiredClean(Policy)
      BY <1>3 DEF Verdict
    <3>6. ended.blocked = blocked /\ ended.streak = streak
      <4>1. ended \in States /\ ended.blocked = Unblocked(d) /\ ended.streak = StreakAfter(d)
        BY <1>6, <1>11, <2>3 DEF DecidedState, States
      <4>2. QED BY <1>7, <1>8, <4>1
    <3>7. QED BY <1>1, <1>5, <1>6, <1>12, <2>2, <2>3, <2>4, <3>3, <3>4, <3>5, <3>6, VerdictStep
  <2>7. QED BY <2>5, <2>6
<1>15. QED BY <1>13, <1>14

\* A session that fixes.
FixingSessions ==
    [pc : {"fix"}, review : Nat, round : Nat \ {0}, state : States, latest : Scans,
     termination : Terminations \cup {"not_started"}, proposals : [Paragraphs -> FixAnswers]]

\* A fixer has answered.
LEMMA AnswerStep ==
    ASSUME RevInv, rev.pc = "fix", Rest, NEW p \in Paragraphs, NEW answer \in FixAnswers,
           NEW e \in Directories, IsSound(e), e.status = "running", e.edition = Current.edition,
           e.checkpoint = Current.checkpoint, Write(e),
           \A t \in Current.patches : t \in e.patches \/ t.at = p,
           FixOf(rev, p) # {},
           answer \in Wordings =>
             \E t \in e.patches : t.at = p /\ t.round = rev.round /\ t.issues = FixOf(rev, p),
           rev' = [rev EXCEPT !.proposals[p] = answer]
    PROVE  RevInv'
<1>1. PICK d, w, v : d = Current /\ w = rev /\ v = [w EXCEPT !.proposals[p] = answer]
  OBVIOUS
<1>2. /\ d \in Directories /\ IsSound(d) /\ Scanned(d) /\ IsFixing(w, d) /\ Inside(w.pc)
      /\ w.latest = d.checkpoint.latest /\ w.round = d.checkpoint.next
  BY <1>1, DecidesOnTheScan
<1>3. w \in FixingSessions
  BY <1>1 DEF RevInv, RevTypes, Sessions, FixingSessions, IdleReview
<1>4. /\ v \in FixingSessions /\ v.review = w.review /\ v.round = w.round /\ v.state = w.state
      /\ v.latest = w.latest /\ v.pc = "fix" /\ v.proposals[p] = answer
      /\ \A q \in Paragraphs : q # p => v.proposals[q] = w.proposals[q]
  BY <1>1, <1>3 DEF FixingSessions
<1>5. v \in Sessions /\ v.review = rev.review /\ Inside(v.pc)
  BY <1>1, <1>4 DEF FixingSessions, Sessions, Inside
<1>6. /\ Limit(e) = Limit(d) /\ Scanned(e) /\ ResumedRound(e) = ResumedRound(d)
      /\ ResumedState(e) = ResumedState(d)
  BY <1>1, <1>2, SameCheckpoint
<1>7. Unblocked(e) = Unblocked(d) /\ FixingState(e) = FixingState(d)
  BY <1>1, <1>6 DEF Unblocked, FixingState
<1>8. \A q : FixOf(v, q) = FixOf(w, q)
  BY <1>4 DEF FixOf
<1>9. ASSUME NEW q \in Paragraphs, v.proposals[q] \in Wordings
      PROVE  /\ FixOf(v, q) # {}
             /\ \E t \in e.patches : t.at = q /\ t.round = v.round /\ t.issues = FixOf(v, q)
  <2>1. CASE q = p
    BY <1>1, <1>4, <1>8, <1>9, <2>1
  <2>2. CASE q # p
    <3>1. /\ FixOf(w, q) # {}
          /\ \E t \in d.patches : t.at = q /\ t.round = w.round /\ t.issues = FixOf(w, q)
      BY <1>2, <1>4, <1>9, <2>2 DEF IsFixing
    <3>2. QED BY <1>1, <1>4, <1>8, <2>2, <3>1
  <2>3. QED BY <2>1, <2>2
<1>10. IsFixing(v, e)
  BY <1>1, <1>2, <1>4, <1>7, <1>9 DEF IsFixing
<1>11. v.round = ResumedRound(e)
  BY <1>2, <1>4, <1>6, WhereItGoesOn DEF IsSound
<1>12. InStepOf(v, e)
  BY <1>1, <1>2, <1>4, <1>6, <1>10, <1>11 DEF InStepOf
<1>13. rev' = v
  BY <1>1
<1>14. QED BY <1>1, <1>2, <1>5, <1>12, <1>13, StepInside

LEMMA FailPatchStep ==
    ASSUME RevInv, NEW p \in Paragraphs, FailPatch(p)
    PROVE  RevInv'
<1>1. /\ rev.pc = "fix" /\ Fixable(p) # {} /\ rev' = [rev EXCEPT !.proposals[p] = FailedProposal]
      /\ Rest /\ UNCHANGED reviews /\ Reviewing
  BY DEF FailPatch, Rest, Reviewing
<1>2. FailedProposal \in FixAnswers /\ FailedProposal \notin Wordings
  BY ReviewAssumption DEF FixAnswers, FailedProposal
<1>3. Write(Current) /\ Current \in Directories /\ IsSound(Current) /\ Current.status = "running"
  BY <1>1, UnchangedIsWritten, DecidesOnTheScan
<1>4. FixOf(rev, p) # {}
  BY <1>1 DEF FixOf, Fixable
<1>5. QED BY <1>1, <1>2, <1>3, <1>4, AnswerStep

LEMMA ProposePatchStep ==
    ASSUME RevInv, NEW p \in Paragraphs, ProposePatch(p)
    PROVE  RevInv'
<1>1. PICK d : d = Current
  OBVIOUS
<1>2. rev.pc = "fix" /\ Fixable(p) # {} /\ Rest /\ Reviewing
  BY DEF ProposePatch, Rest, Reviewing
<1>3. /\ d \in Directories /\ IsSound(d) /\ Scanned(d) /\ d.status = "running"
      /\ rev.latest \in Scans /\ rev.round = d.checkpoint.next /\ rev.round \in Nat \ {0}
      /\ IsFixing(rev, d) /\ ResumedState(d) \in States
  BY <1>1, <1>2, DecidesOnTheScan
<1>4. FixOf(rev, p) = Fixable(p) /\ Fixable(p) \in SUBSET Issues
  BY <1>3 DEF FixOf, Fixable, Scans
<1>5. CASE Traces(p) # {}
  <2>1. PICK t : t = CHOOSE x \in Traces(p) : TRUE
    OBVIOUS
  <2>2. t \in Traces(p)
    BY <1>5, <2>1
  <2>3. t \in d.patches /\ t.at = p /\ t.round = rev.round /\ t.issues = Fixable(p)
    BY <1>1, <2>2 DEF Traces
  <2>4. t.after \in Wordings /\ t.after \in FixAnswers
    BY <1>3, <2>3 DEF Directories, Patches, FixAnswers
  <2>5. rev' = [rev EXCEPT !.proposals[p] = t.after] /\ UNCHANGED reviews
    BY <1>5, <2>1 DEF ProposePatch
  <2>6. Write(d)
    BY <1>1, <1>2, <2>5, UnchangedIsWritten
  <2>7. QED BY <1>1, <1>2, <1>3, <1>4, <2>3, <2>4, <2>5, <2>6, AnswerStep
<1>6. CASE Traces(p) = {}
  <2>1. PICK after \in Wordings \ {rev.state.overlay[p]} :
          /\ rev' = [rev EXCEPT !.proposals[p] = after]
          /\ Write([Current EXCEPT !.patches =
                  {t \in @ : t.at # p \/ t.round # rev.round}
                    \cup {[at |-> p, round |-> rev.round, before |-> rev.state.overlay[p],
                           issues |-> Fixable(p), after |-> after]}])
    BY <1>6 DEF ProposePatch
  <2>2. PICK new : new = [at |-> p, round |-> rev.round, before |-> rev.state.overlay[p],
                          issues |-> Fixable(p), after |-> after]
    OBVIOUS
  <2>3. rev.state.overlay[p] \in Wordings
    BY <1>2, SessionShape DEF RevInv, AtWork, States, Shadows
  <2>4. new \in Patches /\ new.at = p /\ new.round = d.checkpoint.next /\ new.issues = Fixable(p)
    BY <1>3, <1>4, <2>1, <2>2, <2>3 DEF Patches
  <2>5. PICK e : e = [d EXCEPT !.patches = {t \in @ : t.at # p \/ t.round # d.checkpoint.next} \cup {new}]
    OBVIOUS
  <2>6. Write(e)
    BY <1>1, <1>3, <2>1, <2>2, <2>5
  <2>7. IsSound(e) /\ e \in Directories
    BY <1>3, <2>4, <2>5, PatchKeeps
  <2>8. /\ e.status = "running" /\ e.edition = d.edition /\ e.checkpoint = d.checkpoint
        /\ e.patches = {t \in d.patches : t.at # p \/ t.round # d.checkpoint.next} \cup {new}
    BY <1>3, <2>5 DEF Directories
  <2>9. /\ \A t \in d.patches : t \in e.patches \/ t.at = p
        /\ \E t \in e.patches : t.at = p /\ t.round = rev.round /\ t.issues = FixOf(rev, p)
    BY <1>3, <1>4, <2>4, <2>8
  <2>10. after \in FixAnswers
    BY <2>1 DEF FixAnswers
  <2>11. QED BY <1>1, <1>2, <1>4, <2>1, <2>6, <2>7, <2>8, <2>9, <2>10, AnswerStep
<1>7. QED BY <1>5, <1>6

\* The state a round with fixes ends with, by its fields.
RefusedRound(old, blocked, row) == [old EXCEPT !.blocked = blocked, !.rounds = Append(@, row)]
AcceptedRound(refused, candidate, active) ==
    [refused EXCEPT !.overlay = candidate, !.seen = @ \cup {candidate}, !.fixes = @ + 1, !.active = active]

LEMMA RefusedState ==
    ASSUME NEW old \in States, NEW blocked \in SUBSET Issues, NEW row \in Summaries,
           NEW s, s = RefusedRound(old, blocked, row)
    PROVE  /\ s \in States /\ s.overlay = old.overlay /\ s.seen = old.seen /\ s.active = old.active
           /\ s.blocked = blocked /\ s.streak = old.streak /\ s.fixes = old.fixes
           /\ s.rounds = Append(old.rounds, row)
<1>1. PICK rounds : rounds = Append(old.rounds, row)
  OBVIOUS
<1>2. rounds \in Seq(Summaries)
  BY <1>1 DEF States
<1>3. s = [old EXCEPT !.blocked = blocked, !.rounds = rounds]
  BY <1>1 DEF RefusedRound
<1>4. QED BY <1>1, <1>2, <1>3 DEF States

LEMMA AcceptedState ==
    ASSUME NEW old \in States, NEW candidate \in Shadows, NEW active \in SUBSET Fixes,
           NEW s, s = AcceptedRound(old, candidate, active)
    PROVE  /\ s \in States /\ s.overlay = candidate /\ s.seen = old.seen \cup {candidate}
           /\ s.active = active /\ s.blocked = old.blocked /\ s.streak = old.streak
           /\ s.fixes = old.fixes + 1 /\ s.rounds = old.rounds
<1>1. PICK seen, fixes : seen = old.seen \cup {candidate} /\ fixes = old.fixes + 1
  OBVIOUS
<1>2. seen \in SUBSET Shadows /\ fixes \in Nat
  BY <1>1 DEF States
<1>3. s = [old EXCEPT !.overlay = candidate, !.seen = seen, !.fixes = fixes, !.active = active]
  BY <1>1 DEF AcceptedRound
<1>4. QED BY <1>1, <1>2, <1>3 DEF States

\* The directory a round with fixes ends with.
FixRecorded(d, s, unfixed, tried) ==
    [d EXCEPT !.checkpoint = Checkpoint("round_done", d.checkpoint.next + 1, s, NoScan),
              !.unfixed = unfixed, !.tried = tried]
LEMMA FixIsRecorded ==
    ASSUME NEW d \in Directories, d.checkpoint.next \in Nat \ {0}, NEW s \in States,
           NEW unfixed \in SUBSET [issue : Issues, round : Nat], NEW tried \in Seq(Shadows),
           NEW e, e = FixRecorded(d, s, unfixed, tried)
    PROVE  /\ e \in Directories /\ e.edition = d.edition /\ e.blocks = d.blocks /\ e.patches = d.patches
           /\ e.decided = d.decided /\ e.status = d.status /\ e.tried = tried
           /\ e.checkpoint = Checkpoint("round_done", d.checkpoint.next + 1, s, NoScan)
           /\ e.unfixed = unfixed
<1>1. PICK r, saved :
        /\ r = d.checkpoint.next
        /\ saved = [phase |-> "round_done", next |-> r + 1, state |-> s, latest |-> NoScan]
  OBVIOUS
<1>2. saved \in Checkpoints
  BY <1>1 DEF Checkpoints, Scans, NoScan
<1>3. e = [d EXCEPT !.checkpoint = saved, !.unfixed = unfixed, !.tried = tried]
  BY <1>1 DEF FixRecorded, Checkpoint
<1>4. /\ e \in Directories /\ e.edition = d.edition /\ e.blocks = d.blocks /\ e.patches = d.patches
      /\ e.decided = d.decided /\ e.status = d.status /\ e.tried = tried
      /\ e.checkpoint = saved /\ e.unfixed = unfixed
  BY <1>2, <1>3 DEF Directories
<1>5. QED BY <1>1, <1>4 DEF Checkpoint

LEMMA FinishFixStep ==
    ASSUME RevInv, FinishFix
    PROVE  RevInv'
<1>1. PICK d, row, patched, candidate :
        /\ d = Current /\ row = Summary(0)
        /\ patched = {p \in Paragraphs : rev.proposals[p] \in Wordings}
        /\ candidate = [p \in Paragraphs |-> IF p \in patched THEN rev.proposals[p]
                                             ELSE rev.state.overlay[p]]
  OBVIOUS
<1>2. PICK failed : failed = rev.latest.issues \ UNION {Fixable(p) : p \in patched}
  OBVIOUS
<1>3. PICK refused : refused = [rev.state EXCEPT !.blocked = @ \cup failed, !.rounds = Append(@, row)]
  OBVIOUS
<1>4. PICK active, tried :
        /\ active = {a \in rev.state.active : a.at \notin patched}
                      \cup {[at |-> p, round |-> rev.round, issues |-> Fixable(p)] : p \in patched}
        /\ tried = Append(d.tried, candidate)
  OBVIOUS
<1>5. PICK accepted : accepted = [refused EXCEPT
               !.overlay = candidate, !.seen = @ \cup {candidate}, !.fixes = @ + 1, !.active = active]
  OBVIOUS
<1>6. rev.pc = "fix" /\ Rest
  BY DEF FinishFix, Rest
<1>7. /\ patched # {} /\ candidate \notin rev.state.seen =>
           /\ Write([Current EXCEPT
               !.checkpoint = Checkpoint("round_done", rev.round + 1, accepted, NoScan),
               !.unfixed = @ \cup {[issue |-> i, round |-> rev.round] : i \in failed},
               !.tried = Append(@, candidate)])
           /\ NextRound(accepted)
      /\ ~(patched # {} /\ candidate \notin rev.state.seen) =>
           /\ Write([Current EXCEPT
               !.checkpoint = Checkpoint("round_done", rev.round + 1, refused, NoScan),
               !.unfixed = @ \cup {[issue |-> i, round |-> rev.round] : i \in failed},
               !.tried = @])
           /\ rev' = [review |-> rev.review, pc |-> "result", round |-> rev.round, state |-> refused,
                      latest |-> rev.latest,
                      termination |-> IF patched = {} THEN "no_progress" ELSE "cycle_detected"]
  BY <1>1, <1>2, <1>3, <1>4, <1>5 DEF FinishFix
<1>8. /\ d \in Directories /\ IsSound(d) /\ Scanned(d) /\ d.status = "running"
      /\ rev.latest = d.checkpoint.latest /\ rev.latest \in Scans
      /\ rev.round = d.checkpoint.next /\ rev.round \in Nat \ {0} /\ ResumedState(d) \in States
      /\ Reviewing /\ Inside(rev.pc) /\ AtWork /\ IsFixing(rev, d)
  BY <1>1, <1>6, DecidesOnTheScan
<1>9. PICK old, state, r : old = ResumedState(d) /\ state = rev.state /\ r = rev.round
  OBVIOUS
<1>10. /\ state \in States /\ state.overlay = old.overlay /\ state.seen = old.seen
       /\ state.active = old.active /\ state.fixes = old.fixes /\ state.rounds = old.rounds
       /\ state.blocked = Unblocked(d) /\ state.streak = 0
  <2>1. state \in States
    BY <1>8, <1>9, SessionShape DEF RevInv
  <2>2. state = [old EXCEPT !.blocked = Unblocked(d), !.streak = 0]
    BY <1>8, <1>9 DEF IsFixing, FixingState
  <2>3. QED BY <1>8, <1>9, <2>1, <2>2 DEF States
<1>11. /\ failed \in SUBSET rev.latest.issues /\ failed \in SUBSET Issues /\ row \in Summaries /\ row.round = r
       /\ \A p : Fixable(p) \in SUBSET Issues
  BY <1>1, <1>2, <1>8, <1>9 DEF Scans, Summary, Summaries, Fixable
<1>12. candidate \in Shadows /\ patched \in SUBSET Paragraphs
  <2>1. \A p \in Paragraphs : state.overlay[p] \in Wordings
    BY <1>10 DEF States, Shadows
  <2>2. QED BY <1>1, <1>9, <2>1 DEF Shadows
<1>13. PICK fix : fix = [p \in patched |-> Fixable(p)]
  OBVIOUS
<1>14. /\ fix \in [patched -> SUBSET Issues]
       /\ \A p \in patched : \E t \in d.patches : t.at = p /\ t.round = d.checkpoint.next /\ t.issues = fix[p]
  <2>1. \A p \in patched : Fixable(p) = FixOf(rev, p)
    BY DEF Fixable, FixOf
  <2>2. \A p \in patched : \E t \in d.patches : t.at = p /\ t.round = rev.round /\ t.issues = FixOf(rev, p)
    BY <1>1, <1>8 DEF IsFixing
  <2>3. fix \in [patched -> SUBSET Issues] /\ \A p \in patched : fix[p] = Fixable(p)
    BY <1>11, <1>13
  <2>4. QED BY <1>8, <2>1, <2>2, <2>3
<1>15. d.checkpoint.latest.issues # {} /\ old.fixes < d.edition.fixes
  BY <1>8, <1>9, <1>10 DEF IsFixing
<1>16. /\ refused \in States /\ refused.overlay = old.overlay /\ refused.seen = old.seen
       /\ refused.active = old.active /\ refused.blocked = Unblocked(d) \cup failed
       /\ refused.streak = 0 /\ refused.fixes = old.fixes /\ refused.rounds = Append(old.rounds, row)
  <2>1. PICK blocked : blocked = state.blocked \cup failed
    OBVIOUS
  <2>2. state \in States /\ blocked \in SUBSET Issues /\ row \in Summaries
    BY <1>10, <1>11, <2>1 DEF States
  <2>3. refused = RefusedRound(state, blocked, row)
    BY <1>3, <1>9, <2>1 DEF RefusedRound
  <2>4. /\ refused \in States /\ refused.overlay = state.overlay /\ refused.seen = state.seen
        /\ refused.active = state.active /\ refused.blocked = blocked
        /\ refused.streak = state.streak /\ refused.fixes = state.fixes
        /\ refused.rounds = Append(state.rounds, row)
    BY <2>2, <2>3, RefusedState
  <2>5. QED BY <1>10, <2>1, <2>4
<1>17. d.tried \in Seq(Shadows) /\ r \in Nat \ {0} /\ r = d.checkpoint.next /\ old.fixes \in Nat /\ d.edition.fixes \in Nat
  BY <1>8, <1>9, RoundsAreBounded DEF Directories, States
<1>20. PICK unfixed : unfixed = d.unfixed \cup {[issue |-> i, round |-> r] : i \in failed}
  OBVIOUS
<1>21. unfixed \in SUBSET [issue : Issues, round : Nat]
  BY <1>8, <1>11, <1>17, <1>20 DEF Directories
<1>18. CASE patched # {} /\ candidate \notin rev.state.seen
  <2>1. active \in SUBSET Fixes
    <3>1. \A p \in patched : [at |-> p, round |-> r, issues |-> Fixable(p)] \in Fixes
      BY <1>11, <1>12, <1>17 DEF Fixes
    <3>2. state.active \in SUBSET Fixes
      BY <1>10 DEF States
    <3>3. QED BY <1>4, <1>9, <3>1, <3>2
  <2>2. /\ accepted \in States /\ accepted.overlay = candidate
        /\ accepted.seen = old.seen \cup {candidate} /\ accepted.active = active
        /\ accepted.blocked = Unblocked(d) \cup failed /\ accepted.streak = 0
        /\ accepted.fixes = old.fixes + 1 /\ accepted.rounds = Append(old.rounds, row)
    <3>1. accepted = AcceptedRound(refused, candidate, active)
      BY <1>5 DEF AcceptedRound
    <3>2. QED BY <1>12, <1>16, <2>1, <3>1, AcceptedState
  <2>3. tried \in Seq(Shadows)
    BY <1>4, <1>12, <1>17
  <2>4. PICK e : e = FixRecorded(d, accepted, unfixed, tried)
    OBVIOUS
  <2>5. Write(e) /\ NextRound(accepted)
    BY <1>1, <1>4, <1>7, <1>8, <1>9, <1>18, <1>20, <2>4 DEF FixRecorded
  <2>6. /\ e \in Directories /\ e.edition = d.edition /\ e.blocks = d.blocks /\ e.patches = d.patches
        /\ e.decided = d.decided /\ e.status = "running" /\ e.tried = tried
        /\ e.checkpoint = Checkpoint("round_done", d.checkpoint.next + 1, accepted, NoScan)
        /\ e.unfixed = d.unfixed \cup {[issue |-> u, round |-> d.checkpoint.next] : u \in failed}
    <3>1. /\ d \in Directories /\ d.checkpoint.next \in Nat \ {0} /\ accepted \in States
          /\ tried \in Seq(Shadows) /\ d.status = "running"
      BY <1>8, <1>17, <2>2, <2>3
    <3>2. /\ e \in Directories /\ e.edition = d.edition /\ e.blocks = d.blocks /\ e.patches = d.patches
          /\ e.decided = d.decided /\ e.status = d.status /\ e.tried = tried
          /\ e.checkpoint = Checkpoint("round_done", d.checkpoint.next + 1, accepted, NoScan)
          /\ e.unfixed = unfixed
      BY <1>21, <2>4, <3>1, FixIsRecorded
    <3>3. QED BY <1>17, <1>20, <3>1, <3>2
  <2>7. active = {a \in old.active : a.at \notin patched} \cup
                   {[at |-> p, round |-> d.checkpoint.next, issues |-> fix[p]] : p \in patched}
    BY <1>4, <1>9, <1>10, <1>13, <1>17
  <2>8. accepted.fixes <= d.edition.fixes
    BY <1>15, <1>17, <2>2
  <2>9. FixedTo(d, patched, fix, failed, TRUE, accepted, e)
    BY <1>4, <1>9, <1>10, <1>18, <2>2, <2>6, <2>7, <2>8 DEF FixedTo
  <2>10. IsSound(e)
    <3>1. /\ failed \in SUBSET d.checkpoint.latest.issues /\ row \in Summaries
          /\ row.round = d.checkpoint.next
          /\ accepted \in States /\ accepted.streak = 0
          /\ accepted.rounds = Append(ResumedState(d).rounds, row)
      BY <1>8, <1>9, <1>11, <1>17, <2>2
    <3>2. QED BY <1>8, <1>12, <1>14, <1>15, <2>6, <2>9, <3>1, FixedDirectory
  <2>11. QED BY <1>1, <1>6, <1>8, <2>2, <2>5, <2>6, <2>10, NextRoundStep
<1>19. CASE ~(patched # {} /\ candidate \notin rev.state.seen)
  <2>1. PICK e : e = FixRecorded(d, refused, unfixed, d.tried)
    OBVIOUS
  <2>2. PICK termination : termination = IF patched = {} THEN "no_progress" ELSE "cycle_detected"
    OBVIOUS
  <2>3. Write(e)
    BY <1>1, <1>7, <1>8, <1>9, <1>19, <1>20, <2>1 DEF FixRecorded
  <2>4. rev' = [pc |-> "result", review |-> rev.review, round |-> rev.round, state |-> refused,
                latest |-> rev.latest, termination |-> termination]
    BY <1>7, <1>19, <2>2
  <2>5. /\ e \in Directories /\ e.edition = d.edition /\ e.blocks = d.blocks /\ e.patches = d.patches
        /\ e.decided = d.decided /\ e.status = "running" /\ e.tried = d.tried
        /\ e.checkpoint = Checkpoint("round_done", d.checkpoint.next + 1, refused, NoScan)
        /\ e.unfixed = d.unfixed \cup {[issue |-> u, round |-> d.checkpoint.next] : u \in failed}
    <3>1. /\ d \in Directories /\ d.checkpoint.next \in Nat \ {0} /\ refused \in States
          /\ d.tried \in Seq(Shadows) /\ d.status = "running"
      BY <1>8, <1>16, <1>17
    <3>2. /\ e \in Directories /\ e.edition = d.edition /\ e.blocks = d.blocks /\ e.patches = d.patches
          /\ e.decided = d.decided /\ e.status = d.status /\ e.tried = d.tried
          /\ e.checkpoint = Checkpoint("round_done", d.checkpoint.next + 1, refused, NoScan)
          /\ e.unfixed = unfixed
      BY <1>21, <2>1, <3>1, FixIsRecorded
    <3>3. QED BY <1>17, <1>20, <3>1, <3>2
  <2>6. FixedTo(d, patched, fix, failed, FALSE, refused, e)
    BY <1>9, <1>16, <2>5 DEF FixedTo
  <2>7. IsSound(e)
    <3>1. /\ failed \in SUBSET d.checkpoint.latest.issues /\ row \in Summaries
          /\ row.round = d.checkpoint.next
          /\ refused \in States /\ refused.streak = 0
          /\ refused.rounds = Append(ResumedState(d).rounds, row)
      BY <1>8, <1>9, <1>11, <1>16, <1>17
    <3>2. QED BY <1>8, <1>12, <1>14, <1>15, <2>5, <2>6, <3>1, FixedDirectory
  <2>8. termination \in Terminations /\ termination # "clean_confirmed"
    BY <2>2 DEF Terminations
  <2>9. QED BY <1>1, <1>6, <1>8, <1>16, <2>3, <2>4, <2>5, <2>7, <2>8, VerdictStep
<1>22. QED BY <1>18, <1>19

\* The directory of the invocation gets another status.
LEMMA StatusChanges ==
    ASSUME RevInv, Reviewing, UNCHANGED <<revEdition, revReturned>>,
           NEW e \in Directories, e.edition = Current.edition, e.status # "created", Write(e)
    PROVE  /\ OutcomesMatchTheBook' /\ NoReviewIsAbandoned'
           /\ \A n \in DOMAIN reviews' : reviews'[n].status = "created" => reviews'[n].checkpoint = NoCheckpoint
           /\ \A n \in DOMAIN reviews' :
                Resumable(reviews'[n].status) /\ reviews'[n].edition = revEdition' => n = rev.review
<1>1. PICK n : n = rev.review
  OBVIOUS
<1>2. /\ DOMAIN reviews' = DOMAIN reviews /\ reviews'[n] = e /\ n \in DOMAIN reviews
      /\ \A m \in DOMAIN reviews : m # n => reviews'[m] = reviews[m]
  BY <1>1, DirectoryWritten, CurrentIsSound
<1>3. /\ SessionInv /\ e.edition = revEdition /\ revReturned # n
      /\ \A m \in DOMAIN reviews : Resumable(reviews[m].status) /\ reviews[m].edition = revEdition => m = n
  BY <1>1 DEF RevInv, SessionInv
<1>4. revReturned \in 0..Len(reviews) /\ DOMAIN reviews = 1..Len(reviews) /\ Len(reviews) \in Nat
  BY CurrentIsSound DEF RevInv, RevTypes
<1>5. OutcomesMatchTheBook'
  BY <1>2, <1>3, <1>4 DEF SessionInv, OutcomesMatchTheBook
<1>6. \A m \in DOMAIN reviews' : Resumable(reviews'[m].status) /\ reviews'[m].edition = revEdition => m = n
  BY <1>2, <1>3
<1>7. NoReviewIsAbandoned'
  BY <1>2, <1>3, <1>6 DEF SessionInv, NoReviewIsAbandoned
<1>8. \A m \in DOMAIN reviews' : reviews'[m].status = "created" => reviews'[m].checkpoint = NoCheckpoint
  BY <1>2, <1>3 DEF SessionInv
<1>9. QED BY <1>1, <1>5, <1>6, <1>7, <1>8

LEMMA ReachLimitStep ==
    ASSUME RevInv, ReachLimit
    PROVE  RevInv'
<1>1. PICK d, s : d = Current /\ s = rev.state
  OBVIOUS
<1>2. /\ rev.pc = "limit" /\ Rest /\ Reviewing /\ Inside(rev.pc) /\ AtWork
      /\ rev' = [rev EXCEPT !.pc = "result", !.termination = "max_rounds"]
      /\ Write([Current EXCEPT !.checkpoint = Checkpoint("round_done", MaxRounds(Policy) + 1, s, NoScan)])
  BY <1>1 DEF ReachLimit, Rest, Reviewing, Inside, AtWork
<1>3. d \in Directories /\ IsSound(d) /\ InStepOf(rev, d) /\ RevTypes
  BY <1>1, <1>2, CurrentIsSound DEF RevInv
<1>4. d.status = "running"
  BY <1>1, <1>2 DEF RevInv, SessionInv, AtWork
<1>5. /\ s = ResumedState(d) /\ Saved(d) /\ d.checkpoint.phase = "round_done"
      /\ d.checkpoint.latest = NoScan /\ d.checkpoint.next = rev.round + 1 /\ rev.round = Limit(d)
  BY <1>1, <1>2, <1>3 DEF InStepOf
<1>6. MaxRounds(Policy) = rev.round
  BY <1>1, <1>5 DEF Limit, Policy
<1>7. /\ rev = [pc |-> rev.pc, review |-> rev.review, round |-> rev.round, state |-> rev.state,
                latest |-> rev.latest, termination |-> rev.termination]
      /\ s \in States
  BY <1>1, <1>2, <1>3, SessionShape
<1>8. PICK saved : saved = Checkpoint("round_done", rev.round + 1, s, NoScan)
  OBVIOUS
<1>9. d.checkpoint = saved
  <2>1. d.checkpoint.state = s
    BY <1>3, <1>5, WhereItGoesOn DEF IsSound
  <2>2. d.checkpoint \in [phase : {"scan_done", "round_done"}, next : Nat \ {0}, state : States, latest : Scans]
    BY <1>3, <1>5 DEF Directories, Checkpoints, Saved
  <2>3. QED BY <1>5, <1>8, <2>1, <2>2 DEF Checkpoint
<1>10. Write(d)
  <2>1. [d EXCEPT !.checkpoint = saved] = d
    BY <1>3, <1>9 DEF Directories
  <2>2. QED BY <1>1, <1>2, <1>6, <1>8, <2>1
<1>11. rev' = [pc |-> "result", review |-> rev.review, round |-> rev.round, state |-> s,
               latest |-> rev.latest, termination |-> "max_rounds"]
  BY <1>1, <1>2, <1>7, LoopEnds
<1>12. "max_rounds" \in Terminations /\ d.checkpoint = Checkpoint("round_done", rev.round + 1, s, NoScan)
  BY <1>8, <1>9 DEF Terminations
<1>13. QED BY <1>1, <1>2, <1>3, <1>4, <1>7, <1>10, <1>11, <1>12, VerdictStep

LEMMA WriteCompletedStep ==
    ASSUME RevInv, WriteCompleted
    PROVE  RevInv'
<1>1. PICK d, s, issues : d = Current /\ s = rev.state /\ issues = Unresolved(rev.state)
  OBVIOUS
<1>2. /\ rev.pc = "result" /\ Rest /\ Reviewing /\ AtWork /\ rev' = [rev EXCEPT !.pc = "usage"]
      /\ Write([Current EXCEPT
            !.status = "completed",
            !.result = [termination |-> rev.termination, issues |-> issues,
                        overlay |-> s.overlay, rounds |-> s.rounds]])
  BY <1>1 DEF WriteCompleted, Rest, Reviewing, AtWork, Step
<1>3. d \in Directories /\ IsSound(d) /\ InStepOf(rev, d) /\ RevTypes
  BY <1>1, <1>2, CurrentIsSound DEF RevInv
<1>4. /\ s = ResumedState(d) /\ Saved(d) /\ d.checkpoint.phase = "round_done"
      /\ d.checkpoint.latest = NoScan /\ d.checkpoint.next = rev.round + 1 /\ HasEnded(rev, d)
  BY <1>1, <1>2, <1>3 DEF InStepOf
<1>5. /\ rev = [pc |-> rev.pc, review |-> rev.review, round |-> rev.round, state |-> rev.state,
                latest |-> rev.latest, termination |-> rev.termination]
      /\ s \in States /\ rev.review \in Nat /\ rev.round \in Nat \ {0} /\ rev.latest \in Scans
  BY <1>1, <1>2, <1>3, SessionShape
<1>6. /\ issues \in SUBSET Issues /\ ResumedState(d).blocked \subseteq issues
      /\ rev.termination \in Terminations
      /\ rev.termination = "clean_confirmed" =>
           issues = {} /\ ResumedState(d).streak >= RequiredClean(d.edition)
  BY <1>1, <1>4, <1>5 DEF Unresolved, HasEnded, States, Scans
<1>7. PICK e : e = CompletedAs(d, rev.termination, issues)
  OBVIOUS
<1>8. IsSound(e) /\ e \in Directories
  BY <1>3, <1>6, <1>7, CompleteKeeps
<1>9. Write(e)
  BY <1>1, <1>2, <1>4, <1>7 DEF CompletedAs
<1>10. e.status = "completed" /\ e.edition = d.edition /\ e.checkpoint = d.checkpoint
  BY <1>3, <1>7 DEF CompletedAs, Directories
<1>11. PICK v : v = [pc |-> "usage", review |-> rev.review, round |-> rev.round, state |-> s,
                     latest |-> rev.latest, termination |-> rev.termination]
  OBVIOUS
<1>12. rev' = v
  BY <1>1, <1>2, <1>5, <1>11
<1>13. v \in Sessions
  BY <1>5, <1>6, <1>11 DEF Sessions
<1>14. InStepOf(v, e)
  <2>1. Saved(e) = Saved(d) /\ ResumedState(e) = ResumedState(d)
    BY <1>10, SameCheckpoint
  <2>2. QED BY <1>4, <1>10, <1>11, <2>1 DEF InStepOf
<1>15. /\ reviews' \in Seq(Directories) /\ Len(reviews') = Len(reviews)
       /\ DOMAIN reviews' = DOMAIN reviews /\ reviews'[rev.review] = e /\ DirectoryInv'
       /\ rev.review \in DOMAIN reviews
  BY <1>2, <1>8, <1>9, DirectoryWritten, CurrentIsSound
<1>16. RevTypes'
  BY <1>2, <1>3, <1>12, <1>13, <1>15 DEF RevTypes, Rest
<1>17. SessionInv'
  <2>1. /\ OutcomesMatchTheBook' /\ NoReviewIsAbandoned'
        /\ \A n \in DOMAIN reviews' : reviews'[n].status = "created" => reviews'[n].checkpoint = NoCheckpoint
        /\ \A n \in DOMAIN reviews' :
             Resumable(reviews'[n].status) /\ reviews'[n].edition = revEdition' => n = rev.review
    BY <1>1, <1>2, <1>8, <1>9, <1>10, StatusChanges DEF Rest
  <2>2. d.edition = revEdition /\ revReturned # rev.review
    BY <1>1, <1>2 DEF RevInv, SessionInv
  <2>3. rev'.pc = "usage" /\ rev'.review = rev.review /\ Current'.status = "completed" /\ Current'.edition = revEdition'
    BY <1>2, <1>10, <1>11, <1>12, <1>15, <2>2 DEF Current, Rest
  <2>4. rev'.review \in DOMAIN reviews' /\ revReturned' # rev'.review
    BY <1>2, <1>15, <2>2, <2>3 DEF Rest
  <2>5. QED BY <2>1, <2>3, <2>4 DEF SessionInv
<1>18. InStep'
  BY <1>11, <1>12, <1>14, <1>15 DEF InStep, Current
<1>19. QED BY <1>15, <1>16, <1>17, <1>18 DEF RevInv

LEMMA ReturnReviewStep ==
    ASSUME RevInv, ReturnReview
    PROVE  RevInv'
<1>1. /\ rev.pc = "usage" /\ rev' = IdleReview /\ revReturned' = rev.review /\ Reviewing
      /\ UNCHANGED <<revEdition, reviews, revEdits, revFailures>>
  BY DEF ReturnReview, Reviewing
<1>2. /\ rev.review \in DOMAIN reviews /\ Current.status = "completed" /\ Current.edition = revEdition
      /\ SessionInv /\ DOMAIN reviews = 1..Len(reviews) /\ Len(reviews) \in Nat
  BY <1>1, CurrentIsSound DEF RevInv, SessionInv
<1>3. ~Reviewing' /\ ~AtWork' /\ rev'.pc = "idle"
  BY <1>1 DEF Reviewing, AtWork, IdleReview
<1>4. RevTypes'
  BY <1>1, <1>2 DEF RevInv, RevTypes, Sessions
<1>5. SessionInv'
  BY <1>1, <1>2, <1>3 DEF SessionInv, OutcomesMatchTheBook, NoReviewIsAbandoned, Current
<1>6. DirectoryInv'
  BY <1>1 DEF RevInv, DirectoryInv
<1>7. QED BY <1>3, <1>4, <1>5, <1>6 DEF RevInv, InStep

LEMMA DieReviewingStep ==
    ASSUME RevInv, DieReviewing
    PROVE  RevInv'
<1>1. /\ rev' = IdleReview /\ UNCHANGED <<revEdition, reviews, revReturned, revEdits>>
      /\ revFailures' \in 0..MaxRevFailures
  BY ReviewAssumption DEF DieReviewing, RevInv, RevTypes
<1>2. ~Reviewing' /\ ~AtWork' /\ rev'.pc = "idle"
  BY <1>1 DEF Reviewing, AtWork, IdleReview
<1>3. RevTypes'
  BY <1>1 DEF RevInv, RevTypes, Sessions
<1>4. SessionInv'
  BY <1>1, <1>2 DEF RevInv, SessionInv, OutcomesMatchTheBook, NoReviewIsAbandoned
<1>5. DirectoryInv'
  BY <1>1 DEF RevInv, DirectoryInv
<1>6. QED BY <1>2, <1>3, <1>4, <1>5 DEF RevInv, InStep

LEMMA FailReviewStep ==
    ASSUME RevInv, FailReview
    PROVE  RevInv'
<1>1. /\ rev' = IdleReview /\ UNCHANGED <<revEdition, revReturned, revEdits>> /\ Reviewing
      /\ revFailures' \in 0..MaxRevFailures
  BY ReviewAssumption DEF FailReview, RevInv, RevTypes
<1>2. ~Reviewing' /\ ~AtWork' /\ rev'.pc = "idle"
  BY <1>1 DEF Reviewing, AtWork, IdleReview
<1>3. CASE UNCHANGED reviews
  <2>1. RevTypes'
    BY <1>1, <1>3 DEF RevInv, RevTypes, Sessions
  <2>2. SessionInv'
    BY <1>1, <1>2, <1>3 DEF RevInv, SessionInv, OutcomesMatchTheBook, NoReviewIsAbandoned
  <2>3. DirectoryInv'
    BY <1>3 DEF RevInv, DirectoryInv
  <2>4. QED BY <1>2, <2>1, <2>2, <2>3 DEF RevInv, InStep
<1>4. CASE \E status \in {"interrupted", "failed"} : Write([Current EXCEPT !.status = status])
  <2>1. PICK status \in {"interrupted", "failed"} : Write([Current EXCEPT !.status = status])
    BY <1>4
  <2>2. PICK d, e : d = Current /\ e = [d EXCEPT !.status = status]
    OBVIOUS
  <2>3. d \in Directories /\ IsSound(d) /\ status \in {"running", "interrupted", "failed"}
    BY <1>1, <2>1, <2>2, CurrentIsSound
  <2>4. IsSound(e) /\ e \in Directories
    BY <2>2, <2>3, StatusKeeps
  <2>5. Write(e) /\ e.edition = d.edition /\ e.status # "created"
    BY <2>1, <2>2, <2>3 DEF Directories
  <2>6. /\ reviews' \in Seq(Directories) /\ Len(reviews') = Len(reviews) /\ DirectoryInv'
    BY <1>1, <2>4, <2>5, DirectoryWritten
  <2>7. RevTypes'
    BY <1>1, <2>6 DEF RevInv, RevTypes, Sessions
  <2>8. SessionInv'
    <3>1. /\ OutcomesMatchTheBook' /\ NoReviewIsAbandoned'
          /\ \A n \in DOMAIN reviews' : reviews'[n].status = "created" => reviews'[n].checkpoint = NoCheckpoint
      BY <1>1, <2>2, <2>4, <2>5, StatusChanges
    <3>2. QED BY <1>2, <3>1 DEF SessionInv, AtWork
  <2>9. QED BY <1>2, <2>6, <2>7, <2>8 DEF RevInv, InStep
<1>5. QED BY <1>3, <1>4 DEF FailReview

-----------------------------------------------------------------------------
(* ReviewSessions: the theorems                                            *)

THEOREM ReviewInvariant == RevSpec => []RevInv
<1>1. RevInit => RevInv
  <2> SUFFICES ASSUME RevInit PROVE RevInv
    OBVIOUS
  <2>1. /\ revEdition \in Editions /\ reviews = << >> /\ rev = IdleReview /\ revReturned = 0
        /\ revEdits = 0 /\ revFailures = 0
    BY DEF RevInit
  <2>2. ~Reviewing /\ ~AtWork /\ rev.pc = "idle"
    BY <2>1 DEF Reviewing, AtWork, IdleReview
  <2>3. RevTypes
    BY <2>1, ReviewAssumption DEF RevTypes, Sessions
  <2>4. SessionInv
    BY <2>1, <2>2 DEF SessionInv, OutcomesMatchTheBook, NoReviewIsAbandoned
  <2>5. DirectoryInv
    BY <2>1 DEF DirectoryInv
  <2>6. QED BY <2>2, <2>3, <2>4, <2>5 DEF RevInv, InStep
<1>2. RevInv /\ [RevNext]_revVars => RevInv'
  <2> SUFFICES ASSUME RevInv, [RevNext]_revVars PROVE RevInv'
    OBVIOUS
  <2>1. CASE RevWork
    <3>1. CASE \E p \in Paragraphs : ScanBlock(p) \/ ProposePatch(p) \/ FailPatch(p)
      BY <3>1, ScanBlockStep, ProposePatchStep, FailPatchStep
    <3>2. CASE StartReview \/ FinishScan \/ Decide \/ FinishFix
      BY <3>2, StartReviewStep, FinishScanStep, DecideStep, FinishFixStep
    <3>3. CASE ReachLimit \/ WriteCompleted \/ ReturnReview
      BY <3>3, ReachLimitStep, WriteCompletedStep, ReturnReviewStep
    <3>4. QED BY <2>1, <3>1, <3>2, <3>3 DEF RevWork
  <2>2. CASE SkipReview \/ ResumeReview \/ CreateReview
    BY <2>2, SkipReviewStep, ResumeReviewStep, CreateReviewStep
  <2>3. CASE FailReview \/ DieReviewing \/ \E e \in Editions : ChangeEdition(e)
    BY <2>3, FailReviewStep, DieReviewingStep, ChangeEditionStep
  <2>4. CASE UNCHANGED revVars
    <3>1. UNCHANGED <<revEdition, reviews, rev, revReturned, revEdits, revFailures>>
      BY <2>4 DEF revVars
    <3>2. RevTypes' /\ DirectoryInv'
      BY <3>1 DEF RevInv, RevTypes, DirectoryInv
    <3>3. SessionInv'
      BY <3>1 DEF RevInv, SessionInv, OutcomesMatchTheBook, NoReviewIsAbandoned, Reviewing, AtWork, Current
    <3>4. InStep'
      BY <3>1 DEF RevInv, InStep, AtWork, Current
    <3>5. QED BY <3>2, <3>3, <3>4 DEF RevInv
  <2>5. QED BY <2>1, <2>2, <2>3, <2>4 DEF RevNext
<1>3. QED BY <1>1, <1>2, PTL DEF RevSpec

LEMMA TypesFollow == RevInv => RevTypeOK
<1> SUFFICES ASSUME RevInv PROVE RevTypeOK
  OBVIOUS
<1>1. /\ revEdition \in Editions /\ Len(reviews) <= MaxReviews /\ reviews \in Seq(Directories)
      /\ revReturned \in 0..Len(reviews) /\ revEdits \in 0..MaxRevEdits /\ revFailures \in 0..MaxRevFailures
      /\ rev.pc \in {"idle", "create", "scan", "decide", "fix", "limit", "result", "usage"}
  BY SessionShape DEF RevInv, RevTypes
<1>2. ASSUME NEW n \in DOMAIN reviews
      PROVE  /\ reviews[n].edition \in Editions
             /\ reviews[n].status \in {"created", "running", "interrupted", "failed", "completed"}
             /\ \A b \in reviews[n].blocks : /\ b.round \in 1..MaxRounds(reviews[n].edition)
                                             /\ b.issues \subseteq IssuesAt(b.at)
             /\ \A b, d \in reviews[n].blocks : b.round = d.round /\ b.at = d.at => b = d
             /\ reviews[n].status = "completed" => reviews[n].result # NoResult
  <2>1. reviews[n] \in Directories /\ BlocksOf(reviews[n]) /\ CompletedOf(reviews[n])
    BY <1>1 DEF RevInv, DirectoryInv, IsSound
  <2>2. QED BY <2>1 DEF Directories, BlocksOf, CompletedOf, Limit
<1>3. ASSUME rev.pc \notin {"idle", "create"}
      PROVE  /\ rev.round \in 1..MaxRounds(Policy)
             /\ rev.state.overlay \in [Paragraphs -> Wordings] /\ rev.state.overlay \in rev.state.seen
             /\ rev.state.blocked \subseteq Issues /\ rev.state.fixes \in 0..Policy.fixes
             /\ \A a, b \in rev.state.active : a.at = b.at => a = b
  <2>1. PICK d, s, r : d = Current /\ s = rev.state /\ r = rev.round
    OBVIOUS
  <2>2. AtWork /\ Reviewing
    BY <1>1, <1>3 DEF AtWork, Reviewing
  <2>3. /\ d \in Directories /\ IsSound(d) /\ InStepOf(rev, d)
        /\ s \in States /\ r \in Nat \ {0}
    BY <2>1, <2>2, CurrentIsSound, SessionShape DEF RevInv
  <2>4. /\ d.edition = Policy /\ MaxRounds(Policy) = Limit(d) /\ d.edition \in Editions
        /\ d.edition.fixes \in Nat
    BY <2>1, <2>3, RoundsAreBounded DEF Policy, Limit, Directories
  <2>5. /\ Limit(d) \in Nat \ {0} /\ Position(d) \in Nat \ {0} /\ Position(d) <= Limit(d) + 1
        /\ ResumedRound(d) = (IF Position(d) <= Limit(d) THEN Position(d) ELSE Limit(d))
        /\ Saved(d) => ResumedState(d) = d.checkpoint.state /\ Position(d) = d.checkpoint.next
        /\ ResumedState(d) \in States
    BY <2>3, WhereItGoesOn DEF IsSound
  <2>6. r <= Limit(d)
    <3>1. CASE rev.pc \in {"scan", "decide", "fix"}
      <4>1. r = ResumedRound(d)
        BY <2>1, <2>3, <3>1 DEF InStepOf
      <4>2. QED BY <2>5, <4>1
    <3>2. CASE rev.pc \in {"limit", "result", "usage"}
      <4>1. Position(d) = r + 1
        BY <2>1, <2>3, <2>5, <3>2 DEF InStepOf
      <4>2. QED BY <2>3, <2>5, <4>1
    <3>3. QED BY <1>1, <1>3, <3>1, <3>2
  <2>7. s = ResumedState(d) \/ s = FixingState(d)
    BY <1>1, <2>1, <2>3 DEF InStepOf, IsFixing
  <2>8. /\ s.overlay = ResumedState(d).overlay /\ s.seen = ResumedState(d).seen
        /\ s.active = ResumedState(d).active /\ s.fixes = ResumedState(d).fixes
    BY <2>5, <2>7 DEF FixingState, States
  <2>9. ResumedState(d).overlay \in ResumedState(d).seen /\ ResumedState(d).fixes <= d.edition.fixes
    <3>1. CASE Saved(d)
      BY <2>3, <2>5, <3>1 DEF IsSound, CheckpointOf
    <3>2. CASE ~Saved(d)
      <4>1. ResumedState(d) = FreshState
        BY <3>2 DEF Saved, ResumedState
      <4>2. QED BY <2>4, <4>1 DEF FreshState
    <3>3. QED BY <3>1, <3>2
  <2>10. \A a, b \in s.active : a.at = b.at => a = b
    BY <2>3, <2>8 DEF IsSound, ActiveOf
  <2>11. s.fixes \in Nat /\ s.overlay \in [Paragraphs -> Wordings] /\ s.blocked \subseteq Issues
    BY <2>3 DEF States, Shadows
  <2>12. QED BY <2>1, <2>3, <2>4, <2>5, <2>6, <2>8, <2>9, <2>10, <2>11
<1>4. QED BY <1>1, <1>2, <1>3 DEF RevTypeOK

\* The variables of a review keep their types, with at most one block for each paragraph of
\* a round and at most one active patch for each paragraph.
THEOREM ReviewTypes == RevSpec => []RevTypeOK
BY ReviewInvariant, TypesFollow, PTL

\* Reviews go on with what was decided: the outcome of an invocation is of the book as it
\* is, no two unfinished reviews are of one edition, a finished scan is decided once and
\* the shadow never returns to a text it had, for any book and any number of failures.
THEOREM ReviewsGoOnSoundly == RevSpec => []ReviewsGoOn
<1>1. RevInv => ReviewsGoOn
  <2> SUFFICES ASSUME RevInv PROVE ReviewsGoOn
    OBVIOUS
  <2>1. OutcomesMatchTheBook /\ NoReviewIsAbandoned
    BY DEF RevInv, SessionInv
  <2>2. \A n \in DOMAIN reviews : DecidedOf(reviews[n]) /\ TriedOf(reviews[n])
    BY DEF RevInv, DirectoryInv, IsSound
  <2>3. ScansAreDecidedOnce
    BY <2>2 DEF ScansAreDecidedOnce, DecidedOf, Limit
  <2>4. ShadowsDiffer
    BY <2>2 DEF ShadowsDiffer, TriedOf
  <2>5. QED BY <2>1, <2>3, <2>4 DEF ReviewsGoOn
<1>2. QED BY <1>1, ReviewInvariant, PTL

\* As many rounds as there are, when no two of them are the same.
LEMMA DistinctRounds ==
    ASSUME NEW c \in Nat, NEW f \in [1..c -> Nat], \A i, j \in 1..c : i < j => f[i] < f[j]
    PROVE  Cardinality({f[i] : i \in 1..c}) = c
<1>1. PICK T : T = {f[i] : i \in 1..c}
  OBVIOUS
<1>2. \A i, j \in 1..c : f[i] = f[j] => i = j
  <2> SUFFICES ASSUME NEW i \in 1..c, NEW j \in 1..c, f[i] = f[j] PROVE i = j
    OBVIOUS
  <2>1. f[i] \in Nat /\ ~(f[i] < f[j]) /\ ~(f[j] < f[i])
    OBVIOUS
  <2>2. ~(i < j) /\ ~(j < i)
    BY <2>1
  <2>3. QED BY <2>2
<1>3. f \in Bijection(1..c, T)
  BY <1>1, <1>2 DEF Bijection, Injection, Surjection, IsInjective
<1>4. ExistsBijection(1..c, T)
  BY <1>3 DEF ExistsBijection
<1>5. IsFiniteSet(1..c) /\ Cardinality(1..c) = c
  BY FS_Interval
<1>6. QED BY <1>1, <1>4, <1>5, FS_Bijection

\* The last rounds of a review are those it counts as confirmations.
LastRounds(d) ==
    SubSeq(d.result.rounds, Len(d.result.rounds) - RequiredClean(d.edition) + 1, Len(d.result.rounds))
CleanIsClean(d, last) ==
    /\ d.result.issues = {} /\ Len(d.result.rounds) >= RequiredClean(d.edition)
    /\ \A k \in DOMAIN last : last[k].clean
    /\ \A b \in d.blocks : (\E k \in DOMAIN last : last[k].round = b.round) =>
         b.issues = {} /\ b.saw = d.result.overlay
    /\ \/ Cardinality({last[k].round : k \in DOMAIN last}) = RequiredClean(d.edition)
       \/ last[Len(last)].round = MaxRounds(d.edition)

\* The last c of n places.
LEMMA LastPlaces ==
    ASSUME NEW n \in Nat, NEW c \in Nat \ {0}, n >= c, NEW first, first = n - c + 1
    PROVE  first \in 1..n /\ n - first + 1 = c /\ \A k \in 1..c : first + k - 1 \in 1..n /\ first + k - 1 > n - c
<1>1. first \in 1..n /\ n - first + 1 = c
  OBVIOUS
<1>2. ASSUME NEW k \in 1..c PROVE first + k - 1 \in 1..n /\ first + k - 1 > n - c
  OBVIOUS
<1>3. QED BY <1>1, <1>2

LEMMA CleanFollows ==
    ASSUME NEW d \in Directories, CompletedOf(d), d.status = "completed",
           d.result.termination = "clean_confirmed",
           NEW last, last = LastRounds(d)
    PROVE  CleanIsClean(d, last)
<1>1. PICK rounds, n, c, limit : /\ rounds = d.result.rounds /\ n = Len(rounds)
                                 /\ c = RequiredClean(d.edition) /\ limit = MaxRounds(d.edition)
  OBVIOUS
<1>2. /\ d.result # NoResult /\ d.result.issues = {} /\ n >= c
      /\ \A k \in DOMAIN rounds : k > n - c => Confirms(d, rounds[k], d.result.overlay)
      /\ \A k \in DOMAIN rounds : rounds[k].round \in 1..limit
      /\ \A k, m \in DOMAIN rounds : k < m => rounds[k].round < rounds[m].round \/ rounds[m].round = limit
  BY <1>1 DEF CompletedOf, Limit
<1>3. rounds \in Seq(Summaries)
  BY <1>1, <1>2 DEF Directories, Results
<1>4. n \in Nat /\ DOMAIN rounds = 1..n /\ c \in Nat \ {0} /\ limit \in Nat \ {0}
  BY <1>1, <1>3, RoundsAreBounded DEF Directories
<1>5. PICK first : first = n - c + 1
  OBVIOUS
<1>6. first \in 1..n /\ n - first + 1 = c /\ \A k \in 1..c : first + k - 1 \in 1..n /\ first + k - 1 > n - c
  BY <1>2, <1>4, <1>5, LastPlaces
<1>7. Len(last) = c /\ DOMAIN last = 1..c /\ \A k \in 1..c : last[k] = rounds[first + k - 1]
  <2>1. last = SubSeq(rounds, first, n)
    BY <1>1, <1>5 DEF LastRounds
  <2>2. \A i \in first..n : rounds[i] \in Summaries
    BY <1>3, <1>4, <1>6
  <2>3. first \in Int /\ n \in Int /\ first <= n
    BY <1>4, <1>6
  <2>4. /\ last \in Seq(Summaries) /\ Len(last) = n - first + 1
        /\ \A k \in 1..(n - first + 1) : last[k] = rounds[first + k - 1]
    <3>1. /\ SubSeq(rounds, first, n) \in Seq(Summaries)
          /\ Len(SubSeq(rounds, first, n)) = IF first <= n THEN n - first + 1 ELSE 0
          /\ \A i \in 1..n - first + 1 : SubSeq(rounds, first, n)[i] = rounds[first + i - 1]
      BY <2>2, <2>3, SubSeqProperties
    <3>2. QED BY <2>1, <2>3, <3>1
  <2>5. QED BY <1>6, <2>4
<1>8. \A k \in 1..c : Confirms(d, last[k], d.result.overlay) /\ last[k].round \in 1..limit
  BY <1>2, <1>4, <1>6, <1>7
<1>9. /\ \A k \in DOMAIN last : last[k].clean
      /\ \A b \in d.blocks : (\E k \in DOMAIN last : last[k].round = b.round) =>
           b.issues = {} /\ b.saw = d.result.overlay
  BY <1>7, <1>8 DEF Confirms
<1>10. ASSUME last[c].round # limit PROVE Cardinality({last[k].round : k \in DOMAIN last}) = c
  <2>1. ASSUME NEW i \in 1..c, NEW j \in 1..c, i < j PROVE last[i].round < last[j].round \/ last[j].round = limit
    <3>1. PICK a \in 1..n, b \in 1..n : a = first + i - 1 /\ b = first + j - 1
      BY <1>6
    <3>2. a < b /\ last[i] = rounds[a] /\ last[j] = rounds[b]
      <4>1. last[i] = rounds[a] /\ last[j] = rounds[b]
        BY <1>7, <3>1
      <4>2. a < b
        BY <1>4, <1>6, <2>1, <3>1
      <4>3. QED BY <4>1, <4>2
    <3>3. QED BY <1>2, <1>4, <3>2
  <2>2. c \in 1..c
    BY <1>4
  <2>3. ASSUME NEW j \in 1..c PROVE last[j].round # limit
    <3>1. CASE j = c
      BY <1>10, <3>1
    <3>2. CASE j < c
      <4>1. last[j].round < last[c].round
        BY <1>10, <2>1, <2>2, <3>2
      <4>2. PICK x, y : x = last[j].round /\ y = last[c].round
        OBVIOUS
      <4>3. x \in 1..limit /\ y \in 1..limit /\ x < y
        BY <1>8, <2>2, <4>1, <4>2
      <4>4. x # limit
        BY <1>4, <4>3
      <4>5. QED BY <4>2, <4>4
    <3>3. j = c \/ j < c
      BY <1>4
    <3>4. QED BY <3>1, <3>2, <3>3
  <2>4. PICK f : f = [k \in 1..c |-> last[k].round]
    OBVIOUS
  <2>5. f \in [1..c -> Nat] /\ \A i, j \in 1..c : i < j => f[i] < f[j]
    <3>1. \A i \in 1..c : f[i] = last[i].round /\ last[i].round \in Nat
      BY <1>4, <1>8, <2>4
    <3>2. f \in [1..c -> Nat]
      BY <2>4, <3>1
    <3>3. \A i, j \in 1..c : i < j => last[i].round < last[j].round
      BY <2>1, <2>3
    <3>4. QED BY <3>1, <3>2, <3>3
  <2>6. Cardinality({f[i] : i \in 1..c}) = c
    BY <1>4, <2>5, DistinctRounds
  <2>7. {f[i] : i \in 1..c} = {last[k].round : k \in DOMAIN last}
    BY <1>7, <2>4
  <2>8. QED BY <2>6, <2>7
<1>11. QED BY <1>1, <1>2, <1>7, <1>9, <1>10 DEF CleanIsClean

\* What a completed review says is supported by its scans: a failed fix is reported unless
\* a later scan released it, and a clean verdict has as many clean scans of the final text
\* as the configuration asks for, unless the last round was gone through again.
THEOREM ReviewVerdictsSupported == RevSpec => []VerdictsAreSupported
<1>1. RevInv => VerdictsAreSupported
  <2> SUFFICES ASSUME RevInv PROVE VerdictsAreSupported
    OBVIOUS
  <2>1. ASSUME NEW n \in CompletedReviews
        PROVE  reviews[n] \in Directories /\ CompletedOf(reviews[n]) /\ reviews[n].status = "completed"
    BY DEF CompletedReviews, RevInv, RevTypes, DirectoryInv, IsSound
  <2>2. FailedFixesAreReported
    BY <2>1 DEF FailedFixesAreReported, CompletedOf, Released
  <2>3. CleanIsConfirmed
    <3>1. ASSUME NEW n \in CompletedReviews, reviews[n].result.termination = "clean_confirmed"
          PROVE  CleanIsClean(reviews[n], LastRounds(reviews[n]))
      BY <2>1, <3>1, CleanFollows
    <3>2. QED BY <3>1 DEF CleanIsConfirmed, CleanIsClean, LastRounds
  <2>4. QED BY <2>2, <2>3 DEF VerdictsAreSupported
<1>2. QED BY <1>1, ReviewInvariant, PTL

===============================================================================
