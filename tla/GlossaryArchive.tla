--------------------------- MODULE GlossaryArchive ---------------------------
(***************************************************************************)
(* The versions of the glossary that a precision run keeps for replay:     *)
(* PrecisionArchive.glossary and _revision                                 *)
(* (storage/precision_archive.py).  A version is named by the hash of its  *)
(* ordered terms, here by the terms themselves, and holds either all of    *)
(* them or what has changed since its parent; head.json names the last one *)
(* captured.  Captures run under the state lock of the book; each write is *)
(* atomic, and a death may separate the version from the head.             *)
(***************************************************************************)
EXTENDS Naturals, Sequences, Functions

CONSTANTS
    ArchivedGlossaries,  \* those to capture: sequences of terms, a source and what it says
    MaxEdges,            \* 31: versions between one that is complete and its last descendant
    MaxCaptures,         \* bound: captures
    MaxArchiveFailures   \* bound: deaths between two writes

Sources(terms) == [n \in DOMAIN terms |-> terms[n].source]

\* A glossary is a sequence with one term per source.
ASSUME ArchiveAssumption ==
    /\ \A terms \in ArchivedGlossaries : terms \in Seq(Range(terms)) /\ IsInjective(Sources(terms))
    /\ {MaxEdges, MaxCaptures, MaxArchiveFailures} \subseteq Nat

VARIABLES
    versions,         \* name -> record
    archiveHead,      \* head.json: the name, with its terms in their order
    archiveWork,      \* a capture between its two writes: the name, or nothing
    captures, archiveFailures

archiveVars == <<versions, archiveHead, archiveWork, captures, archiveFailures>>

Nothing == [name |-> "none"]
NoCapture == [pc |-> "idle"]

ArchiveTypeOK ==
    /\ DOMAIN versions \subseteq ArchivedGlossaries
    /\ \A name \in DOMAIN versions :
         /\ versions[name].depth \in 0..MaxEdges
         /\ versions[name].depth # 0 => versions[name].parent \in DOMAIN versions
    /\ archiveHead # Nothing => archiveHead.name \in ArchivedGlossaries
    /\ archiveWork.pc \in {"idle", "head"}
    /\ captures \in 0..MaxCaptures /\ archiveFailures \in 0..MaxArchiveFailures

ArchiveInit ==
    /\ versions = [name \in {} |-> Nothing]
    /\ archiveHead = Nothing /\ archiveWork = NoCapture
    /\ captures = 0 /\ archiveFailures = 0

-----------------------------------------------------------------------------
(* Reading a version                                                       *)

Excluding(sources, removed) == SelectSeq(sources, LAMBDA s : s \notin removed)

\* _revision: a version over the terms of its parent.
Apply(record, previous) ==
    LET changed(s) == {t \in record.changed : t.source = s}
        old(s) == {t \in Range(previous) : t.source = s}
        term(s) == CHOOSE t \in IF changed(s) # {} THEN changed(s) ELSE old(s) : TRUE
        order == IF record.natural
                 THEN Excluding(Sources(previous), record.removed) \o record.appended
                 ELSE record.order IN
    [n \in DOMAIN order |-> term(order[n])]

Revision ==
    LET terms[name \in DOMAIN versions] ==
            IF versions[name].depth = 0 THEN versions[name].base
            ELSE Apply(versions[name], terms[versions[name].parent]) IN
    terms

\* The records read for it, which `seen` bounds.
Edges ==
    LET edges[name \in DOMAIN versions] ==
            IF versions[name].depth = 0 THEN 0 ELSE edges[versions[name].parent] + 1 IN
    edges

-----------------------------------------------------------------------------
(* Capturing one                                                           *)

\* What _glossary verifies of a head before it builds on it.
HeadIsValid ==
    archiveHead # Nothing =>
        /\ archiveHead.name \in DOMAIN versions
        /\ versions[archiveHead.name].depth \in 0..MaxEdges
        /\ archiveHead.terms = archiveHead.name
        /\ archiveHead.terms = Revision[archiveHead.name]

FullVersion(terms) == [depth |-> 0, base |-> terms]

\* An order of its own is recorded for a version whose terms are not in the natural one.
Change(terms, previous) ==
    LET removed == Range(Sources(previous)) \ Range(Sources(terms))
        appended == Excluding(Sources(terms), Range(Sources(previous)))
        natural == Excluding(Sources(previous), removed) \o appended IN
    [depth |-> versions[archiveHead.name].depth + 1,
     parent |-> archiveHead.name,
     changed |-> Range(terms) \ Range(previous),
     removed |-> removed,
     appended |-> appended,
     natural |-> Sources(terms) = natural,
     order |-> Sources(terms)]

NewRecord(terms) ==
    IF archiveHead = Nothing \/ versions[archiveHead.name].depth >= MaxEdges
    THEN FullVersion(terms) ELSE Change(terms, Revision[archiveHead.name])

\* A version that is there is kept as it is, whatever its parent.
StoreVersion(terms) ==
    /\ archiveWork = NoCapture /\ HeadIsValid
    /\ captures < MaxCaptures /\ captures' = captures + 1
    /\ versions' = [name \in DOMAIN versions \cup {terms} |->
                       IF name \in DOMAIN versions THEN versions[name] ELSE NewRecord(terms)]
    /\ archiveWork' = [pc |-> "head", name |-> terms]
    /\ UNCHANGED <<archiveHead, archiveFailures>>

\* The terms and their order go into head.json with the name.
MoveHead ==
    /\ archiveWork.pc = "head"
    /\ archiveHead' = [name |-> archiveWork.name, terms |-> archiveWork.name]
    /\ archiveWork' = NoCapture
    /\ UNCHANGED <<versions, captures, archiveFailures>>

DieCapturing ==
    /\ archiveWork # NoCapture
    /\ archiveFailures < MaxArchiveFailures /\ archiveFailures' = archiveFailures + 1
    /\ archiveWork' = NoCapture
    /\ UNCHANGED <<versions, archiveHead, captures>>

ArchiveNext ==
    \/ \E terms \in ArchivedGlossaries : StoreVersion(terms)
    \/ MoveHead \/ DieCapturing

ArchiveSpec == ArchiveInit /\ [][ArchiveNext]_archiveVars

-----------------------------------------------------------------------------
(* Properties                                                              *)

\* Every version ever named by a receipt reads as the terms it was captured with, in their
\* order, through whatever parents a stale head has given it.
VersionsReplay ==
    \A name \in DOMAIN versions : Revision[name] = name /\ Edges[name] = versions[name].depth

\* A death between the writes does not leave a head on which the next capture fails.
HeadStaysValid == HeadIsValid

\* The archive can be read and goes on growing.
ArchiveIsSound == VersionsReplay /\ HeadStaysValid

=============================================================================
