--------------------------- MODULE RunStorageProofs ---------------------------
(***************************************************************************)
(* Theorems of what a project is stored with, and of the composition of    *)
(* its parts (ProjectStorage): the ledgers of its usage (UsageLedger), for *)
(* any number of clients, threads, Reviews, calls, faults and invocations, *)
(* over files and over databases; the preparation of a directory of files  *)
(* (RunInitialization); the corrections a review publishes in the chapters *)
(* (ReviewAutofix); the versions of a glossary (GlossaryArchive); and the  *)
(* library of projects (ProjectLibrary), for any number of sources,        *)
(* passages, reviews, versions, projects, requests, crashes and failures.  *)
(***************************************************************************)
EXTENDS ProjectStorage, FiniteSetTheorems, WellFoundedInduction, NaturalsInduction, TLAPS

-----------------------------------------------------------------------------
(* The ledgers of usage: types.                                             *)

\* A failing operation stays within the bound.
LEMMA FaultKeepsBound ==
    ASSUME faults \in 0..MaxFaults, faults < MaxFaults, faults' = faults + 1
    PROVE  faults' \in 0..MaxFaults
BY UsageAssumption

\* One more unit per call of the increment.
LEMMA MergedType ==
    ASSUME NEW contents \in Contents, NEW calls
    PROVE  /\ Merged(contents, calls) \in Contents
           /\ \A k \in Call : Merged(contents, calls).billed[k] =
                 IF k \in calls THEN contents.billed[k] + 1 ELSE contents.billed[k]
BY DEF Merged, Contents

LEMMA BookIsLedger == Book \in Ledgers /\ Review \subseteq Ledgers /\ {Book} \in Targets
BY DEF Ledgers, Targets

LEMMA TargetsAreLedgers == \A into \in Targets : into \subseteq Ledgers /\ Book \in into
BY DEF Ledgers, Targets

LEMMA EmptyTypes == EmptyStore \in Stores /\ NoJournal \in Journals
BY DEF EmptyStore, NoJournal, Missing, Zero, Stores, Journals, Contents

LEMMA IdleType == IdleFlush \in Flushes
BY BookIsLedger DEF IdleFlush, Flushes, Pcs, Phases

\* A thread that moves on keeps the fields of its flush.
LEMMA MoveType ==
    ASSUME TypeOK, NEW t \in Thread, NEW pc \in Pcs, MoveTo(t, pc)
    PROVE  flush' \in [Thread -> Flushes]
BY DEF MoveTo, TypeOK, Flushes

LEMMA ReturnType ==
    ASSUME TypeOK, NEW t \in Thread, Return(t)
    PROVE  flush' \in [Thread -> Flushes]
BY IdleType DEF Return, TypeOK

LEMMA WriteType ==
    ASSUME TypeOK, NEW next \in Stores, Write(next)
    PROVE  durable' \in Stores /\ working' \in Stores
BY DEF Write, TypeOK

\* Each action keeps the types.
LEMMA TypeStep ==
    ASSUME TypeOK, [Next]_vars
    PROVE  TypeOK'
<1> USE DEF store, budget
<1>1. CASE EndRun
  <2>1. deaths' \in 0..MaxDeaths
    BY <1>1, UsageAssumption DEF EndRun, TypeOK
  <2>2. QED BY <1>1, <2>1, IdleType DEF EndRun, Rollback, TypeOK
<1>2. ASSUME NEW c \in Client, NEW k \in Call, Record(c, k) PROVE TypeOK'
  BY <1>2 DEF Record, TypeOK
<1>3. ASSUME NEW t \in Thread, OpenRun(t) \/ BeginFlush(t) PROVE TypeOK'
  <2>1. \A into \in Targets : \A phase \in {"open", "prepare"} :
           [pc |-> "waiting", phase |-> phase, into |-> into, current |-> {}, todo |-> {}]
              \in Flushes
    BY DEF Flushes, Pcs, Phases
  <2>2. CASE OpenRun(t)
    BY <2>1, <2>2, BookIsLedger DEF OpenRun, TypeOK
  <2>3. CASE BeginFlush(t)
    BY <2>1, <2>3 DEF BeginFlush, TypeOK
  <2>4. QED BY <1>3, <2>2, <2>3
<1>4. ASSUME NEW t \in Thread, TakeStateLock(t) PROVE TypeOK'
  <2>1. flush' \in [Thread -> Flushes]
    BY <1>4, MoveType DEF TakeStateLock, Pcs, StateLockPcs
  <2>2. QED BY <1>4, <2>1 DEF TakeStateLock, TypeOK
<1>5. ASSUME NEW t \in Thread, NoPendingJournal(t) PROVE TypeOK'
  <2>1. flush[t].phase \in Phases
    BY DEF TypeOK, Flushes
  <2>2. flush' \in [Thread -> Flushes]
    BY <1>5, <2>1, MoveType, ReturnType
       DEF NoPendingJournal, Recovered, Pcs, StateLockPcs, Phases
  <2>3. QED BY <1>5, <2>1, <2>2 DEF NoPendingJournal, Recovered, Phases, TypeOK
<1>6. ASSUME NEW t \in Thread, CheckJournal(t) PROVE TypeOK'
  <2>1. CASE Raise(t)
    BY <1>6, <2>1, ReturnType DEF CheckJournal, Raise, Rollback, TypeOK
  <2>2. CASE ~Raise(t)
    <3>1. flush' \in [Thread -> Flushes]
      BY <1>6, <2>2 DEF CheckJournal, TypeOK, Flushes, Stores, Journals, Pcs, StateLockPcs
    <3>2. QED BY <1>6, <2>2, <3>1 DEF CheckJournal, TypeOK
  <2>3. QED BY <2>1, <2>2
<1>7. ASSUME NEW t \in Thread, WriteLedger(t) PROVE TypeOK'
  <2>1. PICK l \in flush[t].todo :
           /\ Write(Published(working, l))
           /\ flush' = [flush EXCEPT ![t] =
                  [pc |-> "writing", phase |-> @.phase, into |-> @.into,
                   current |-> @.current, todo |-> @.todo \ {l}]]
    BY <1>7 DEF WriteLedger
  <2>2. l \in Ledgers
    BY DEF TypeOK, Flushes
  <2>3. Published(working, l) \in Stores
    BY <2>2 DEF Published, TypeOK, Stores, Journals
  <2>4. durable' \in Stores /\ working' \in Stores
    BY <2>1, <2>3, WriteType
  <2>5. flush' \in [Thread -> Flushes]
    BY <2>1 DEF TypeOK, Flushes, Pcs, StateLockPcs
  <2>6. QED BY <1>7, <2>4, <2>5 DEF WriteLedger, TypeOK
<1>8. ASSUME NEW t \in Thread, UnlinkJournal(t) PROVE TypeOK'
  <2>1. Unlinked(working) \in Stores
    BY EmptyTypes DEF Unlinked, TypeOK, Stores
  <2>2. durable' \in Stores /\ working' \in Stores
    BY <1>8, <2>1, WriteType DEF UnlinkJournal
  <2>3. flush' \in [Thread -> Flushes]
    BY <1>8, MoveType DEF UnlinkJournal, Pcs, StateLockPcs
  <2>4. QED BY <1>8, <2>2, <2>3 DEF UnlinkJournal, TypeOK
<1>9. ASSUME NEW t \in Thread, NothingToBill(t) PROVE TypeOK'
  <2>1. working' \in Stores
    BY <1>9, MergedType DEF NothingToBill, WithReview, TypeOK, Stores
  <2>2. QED BY <1>9, <2>1, ReturnType DEF NothingToBill, TypeOK
<1>10. ASSUME NEW t \in Thread, Prepare(t) PROVE TypeOK'
  <2> DEFINE value == [l \in Ledgers |->
                          Merged(working.ledger[l], Increment(ClientOf[t]))]
  <2>1. flush[t].into \subseteq Ledgers /\ recorded[ClientOf[t]] \subseteq Call
    BY UsageAssumption, TargetsAreLedgers DEF TypeOK, Flushes
  <2>2. value \in [Ledgers -> Contents]
    BY MergedType DEF TypeOK, Stores
  <2>3. Journaled(working, flush[t].into, Increment(ClientOf[t])) \in Stores
    BY <2>1, <2>2 DEF Journaled, TypeOK, Stores, Journals
  <2>4. durable' \in Stores /\ working' \in Stores
    BY <1>10, <2>3, WriteType DEF Prepare
  <2>5. flush' \in [Thread -> Flushes]
    BY <1>10, <2>1 DEF Prepare, TypeOK, Flushes, Pcs, StateLockPcs
  <2>6. QED BY <1>10, <2>4, <2>5 DEF Prepare, TypeOK
<1>11. ASSUME NEW t \in Thread, CommitJournal(t) PROVE TypeOK'
  BY <1>11, MoveType DEF CommitJournal, Commit, TypeOK, Pcs
<1>12. ASSUME NEW t \in Thread, AdvanceCheckpoint(t) PROVE TypeOK'
  BY <1>12, UsageAssumption DEF AdvanceCheckpoint, TypeOK, Flushes, Pcs, Phases
<1>13. ASSUME NEW t \in Thread, FinishFlush(t) PROVE TypeOK'
  BY <1>13, ReturnType DEF FinishFlush, Commit, TypeOK
<1>14. ASSUME NEW t \in Thread, StorageFails(t) PROVE TypeOK'
  BY <1>14, ReturnType, FaultKeepsBound DEF StorageFails, Rollback, TypeOK
<1>15. ASSUME NEW t \in Thread, CommitReplyLost(t) PROVE TypeOK'
  BY <1>15, ReturnType, FaultKeepsBound DEF CommitReplyLost, Commit, TypeOK
<1>16. CASE UNCHANGED vars
  BY <1>16 DEF vars, TypeOK
<1>17. QED
  BY <1>1, <1>2, <1>3, <1>4, <1>5, <1>6, <1>7, <1>8, <1>9, <1>10, <1>11, <1>12, <1>13,
     <1>14, <1>15, <1>16 DEF Next, FlushStep

\* Every variable keeps its type at every step of every flush.
THEOREM TypeCorrect == Spec => []TypeOK
<1>1. Init => TypeOK
  <2> SUFFICES ASSUME Init PROVE TypeOK
    OBVIOUS
  <2>1. faults \in 0..MaxFaults /\ deaths \in 0..MaxDeaths
    BY UsageAssumption DEF Init
  <2>2. durable \in Stores /\ working \in Stores /\ flush \in [Thread -> Flushes]
    BY EmptyTypes, IdleType DEF Init
  <2>3. /\ recorded \in [Client -> SUBSET Call] /\ checkpoint \in [Client -> SUBSET Call]
        /\ made \in SUBSET Call /\ open \in BOOLEAN
    BY DEF Init
  <2>4. QED BY <2>1, <2>2, <2>3 DEF TypeOK
<1>2. QED BY <1>1, TypeStep, PTL DEF Spec

-----------------------------------------------------------------------------
(* Locks.                                                                   *)

LocksInv == StateLockExclusive /\ CoordinatorExclusive

ThreadStep(t) ==
    OpenRun(t) \/ BeginFlush(t) \/ FlushStep(t) \/ StorageFails(t) \/ CommitReplyLost(t)

\* A step of a thread moves that thread alone, and takes no lock but a free one.
LEMMA OneThreadMoves ==
    ASSUME TypeOK, NEW t \in Thread, ThreadStep(t)
    PROVE  /\ \A u \in Thread \ {t} : flush'[u] = flush[u]
           /\ flush'[t].pc \in StateLockPcs => HoldsState(t) \/ StateLockFree
           /\ flush'[t].pc # "idle" => ~Idle(t) \/ CoordinatorFree(ClientOf[t])
<1> USE DEF TypeOK, StateLockPcs, HoldsState, Idle, MoveTo, Return, IdleFlush
<1>1. CASE OpenRun(t)
  BY <1>1 DEF OpenRun, CoordinatorFree
<1>2. CASE BeginFlush(t)
  BY <1>2 DEF BeginFlush
<1>3. CASE TakeStateLock(t)
  BY <1>3 DEF TakeStateLock
<1>4. CASE NoPendingJournal(t)
  BY <1>4 DEF NoPendingJournal, Recovered
<1>5. CASE CheckJournal(t)
  BY <1>5 DEF CheckJournal, Raise
<1>6. CASE WriteLedger(t)
  BY <1>6 DEF WriteLedger
<1>7. CASE UnlinkJournal(t)
  BY <1>7 DEF UnlinkJournal
<1>8. CASE NothingToBill(t)
  BY <1>8 DEF NothingToBill
<1>9. CASE Prepare(t)
  BY <1>9 DEF Prepare
<1>10. CASE CommitJournal(t)
  BY <1>10 DEF CommitJournal
<1>11. CASE AdvanceCheckpoint(t)
  BY <1>11 DEF AdvanceCheckpoint
<1>12. CASE FinishFlush(t)
  BY <1>12 DEF FinishFlush
<1>13. CASE StorageFails(t)
  BY <1>13 DEF StorageFails
<1>14. CASE CommitReplyLost(t)
  BY <1>14 DEF CommitReplyLost
<1>15. QED
  BY <1>1, <1>2, <1>3, <1>4, <1>5, <1>6, <1>7, <1>8, <1>9, <1>10, <1>11, <1>12, <1>13, <1>14
     DEF ThreadStep, FlushStep

\* One thread at a time is in the store, and one in each coordinator.
THEOREM LocksCorrect == Spec => []LocksInv
<1>1. Init => LocksInv
  BY DEF Init, LocksInv, StateLockExclusive, CoordinatorExclusive, HoldsState, StateLockPcs,
         Idle, IdleFlush
<1>2. TypeOK /\ LocksInv /\ [Next]_vars => LocksInv'
  <2> SUFFICES ASSUME TypeOK, LocksInv, [Next]_vars PROVE LocksInv'
    OBVIOUS
  <2> USE DEF LocksInv, StateLockExclusive, CoordinatorExclusive, HoldsState, Idle
  <2>1. CASE EndRun
    BY <2>1 DEF EndRun, StateLockPcs, IdleFlush
  <2>2. CASE UNCHANGED flush
    BY <2>2
  <2>3. ASSUME NEW t \in Thread, ThreadStep(t) PROVE LocksInv'
    BY <2>3, OneThreadMoves DEF StateLockFree, CoordinatorFree
  <2>4. QED BY <2>1, <2>2, <2>3 DEF Next, Record, ThreadStep, vars
<1>3. QED BY <1>1, <1>2, TypeCorrect, PTL DEF Spec

-----------------------------------------------------------------------------
(* One store: what a write of a flush or of a recovery does to it.          *)

SameAccounts(s, s2) == \A l \in Ledgers : Effective(s2, l) = Effective(s, l)

LEMMA StoreTypes ==
    ASSUME NEW s \in Stores
    PROVE  /\ s.ledger \in [Ledgers -> Contents]
           /\ s.journal.of \subseteq Ledgers
           /\ s.journal.before \in [Ledgers -> Contents]
           /\ s.journal.value \in [Ledgers -> Contents]
           /\ \A l \in Ledgers : Effective(s, l) \in Contents
BY DEF Stores, Journals, Effective

LEMMA BilledType ==
    ASSUME NEW contents \in Contents, NEW k \in Call
    PROVE  contents.billed[k] \in Nat
BY DEF Contents

\* Publishing one ledger, the book before any Review, changes no account.
LEMMA PublishKeepsAccounts ==
    ASSUME NEW s \in Stores, WellFormed(s), NEW l \in s.journal.of,
           l = Book \/ s.ledger[Book] = s.journal.value[Book],
           NEW s2, s2 = Published(s, l)
    PROVE  /\ WellFormed(s2)
           /\ SameAccounts(s, s2)
           /\ \A m \in Ledgers : s2.ledger[m] =
                 IF m = l THEN s.journal.value[l] ELSE s.ledger[m]
           /\ \A m \in Ledgers : \A k \in Call :
                 s.ledger[m].billed[k] <= s2.ledger[m].billed[k]
<1>1. l \in Ledgers /\ Book \in Ledgers /\ Review \subseteq Ledgers
  BY StoreTypes, BookIsLedger
<1>2. /\ s2.journal = s.journal
      /\ \A m \in Ledgers : s2.ledger[m] = IF m = l THEN s.journal.value[l] ELSE s.ledger[m]
  BY <1>1, StoreTypes DEF Published
<1>3. SameAccounts(s, s2)
  BY <1>1, <1>2 DEF SameAccounts, Effective
<1>4. \A k \in Call : s.ledger[l].billed[k] <= s.journal.value[l].billed[k]
  <2>1. s.ledger[l] \in {s.journal.before[l], s.journal.value[l]}
    BY DEF WellFormed, Applies
  <2>2. \A k \in Call : s.journal.value[l].billed[k] \in Nat
    BY <1>1, StoreTypes, BilledType
  <2>3. QED BY <2>1, <2>2 DEF WellFormed
<1>5. \A m \in Ledgers : \A k \in Call :
         /\ s.ledger[m].billed[k] \in Nat
         /\ s.journal.value[m].billed[k] \in Nat
  BY StoreTypes, BilledType
<1>6. \A m \in Ledgers : \A k \in Call :
         s.ledger[m].billed[k] <= s2.ledger[m].billed[k]
  BY <1>2, <1>4, <1>5
<1>7. \A r \in Review : \A k \in Call :
         s2.ledger[r].billed[k] <= s2.ledger[Book].billed[k]
  <2> SUFFICES ASSUME NEW r \in Review, NEW k \in Call
               PROVE  s2.ledger[r].billed[k] <= s2.ledger[Book].billed[k]
    OBVIOUS
  <2>1. s.ledger[r].billed[k] <= s.ledger[Book].billed[k]
    BY DEF WellFormed
  <2>2. r # Book /\ r \in Ledgers
    BY <1>1, UsageAssumption
  <2>3. CASE l = Book
    BY <1>1, <1>2, <1>4, <1>5, <2>1, <2>2, <2>3
  <2>4. CASE l # Book /\ l # r
    BY <1>1, <1>2, <2>1, <2>2, <2>4
  <2>5. CASE l # Book /\ l = r
    <3>1. Book \in s.journal.of
      BY DEF WellFormed, HasJournal
    <3>2. Effective(s, r) = s.journal.value[r] /\ Effective(s, Book) = s.journal.value[Book]
      BY <2>5, <3>1 DEF Effective
    <3>3. s.journal.value[r].billed[k] <= s.journal.value[Book].billed[k]
      BY <3>2 DEF WellFormed
    <3>4. QED BY <1>1, <1>2, <2>2, <2>5, <3>3
  <2>6. QED BY <2>3, <2>4, <2>5
<1>8. WellFormed(s2)
  <2>1. /\ HasJournal(s2) => Book \in s2.journal.of
        /\ \A m \in s2.journal.of : \A k \in Call :
              s2.journal.before[m].billed[k] <= s2.journal.value[m].billed[k]
    BY <1>2 DEF WellFormed, HasJournal
  <2>2. Applies(s2)
    BY <1>2, StoreTypes DEF WellFormed, Applies
  <2>3. \A r \in Review : \A k \in Call :
           Effective(s2, r).billed[k] <= Effective(s2, Book).billed[k]
    BY <1>1, <1>3 DEF SameAccounts, WellFormed
  <2>4. QED BY <1>7, <2>1, <2>2, <2>3 DEF WellFormed
<1>9. QED BY <1>2, <1>3, <1>6, <1>8

\* A journal whose ledgers have all been written is no longer needed.
LEMMA UnlinkKeepsAccounts ==
    ASSUME NEW s \in Stores, WellFormed(s),
           \A l \in s.journal.of : s.ledger[l] = s.journal.value[l],
           NEW s2, s2 = Unlinked(s)
    PROVE  /\ WellFormed(s2)
           /\ SameAccounts(s, s2)
           /\ ~HasJournal(s2)
<1>1. s2.ledger = s.ledger /\ s2.journal.of = {}
  BY DEF Unlinked, NoJournal
<1>2. \A l \in Ledgers : Effective(s2, l) = s.ledger[l] /\ Effective(s, l) = s.ledger[l]
  BY <1>1 DEF Effective
<1>3. QED
  BY <1>1, <1>2, BookIsLedger DEF WellFormed, Applies, HasJournal, SameAccounts

\* A journal adds the increment to the ledgers it names.
LEMMA PrepareBillsIncrement ==
    ASSUME NEW s \in Stores, WellFormed(s), ~HasJournal(s),
           NEW into \in Targets, NEW calls,
           NEW s2, s2 = Journaled(s, into, calls)
    PROVE  /\ WellFormed(s2)
           /\ \A l \in Ledgers : Effective(s2, l) =
                 IF l \in into THEN Merged(Effective(s, l), calls) ELSE Effective(s, l)
<1>1. into \subseteq Ledgers /\ Book \in into /\ Book \in Ledgers /\ Review \subseteq Ledgers
  BY TargetsAreLedgers, BookIsLedger
<1>2. /\ s2.ledger = s.ledger
      /\ s2.journal.of = into /\ s2.journal.before = s.ledger
      /\ \A l \in Ledgers : s2.journal.value[l] = Merged(s.ledger[l], calls)
  BY DEF Journaled
<1>3. \A l \in Ledgers : Effective(s, l) = s.ledger[l]
  BY DEF Effective, HasJournal
<1>4. \A l \in Ledgers : Effective(s2, l) =
         IF l \in into THEN Merged(Effective(s, l), calls) ELSE Effective(s, l)
  BY <1>2, <1>3 DEF Effective
<1>5. \A l \in Ledgers : \A k \in Call :
         /\ s.ledger[l].billed[k] \in Nat
         /\ Merged(s.ledger[l], calls).billed[k] =
               IF k \in calls THEN s.ledger[l].billed[k] + 1 ELSE s.ledger[l].billed[k]
  BY StoreTypes, BilledType, MergedType
<1>6. Applies(s2)
  BY <1>1, <1>2 DEF Applies
<1>7. \A l \in into : \A k \in Call :
         s2.journal.before[l].billed[k] <= s2.journal.value[l].billed[k]
  BY <1>1, <1>2, <1>5
<1>8. \A r \in Review : \A k \in Call :
         /\ s2.ledger[r].billed[k] <= s2.ledger[Book].billed[k]
         /\ Effective(s2, r).billed[k] <= Effective(s2, Book).billed[k]
  <2> SUFFICES ASSUME NEW r \in Review, NEW k \in Call
               PROVE  /\ s2.ledger[r].billed[k] <= s2.ledger[Book].billed[k]
                      /\ Effective(s2, r).billed[k] <= Effective(s2, Book).billed[k]
    OBVIOUS
  <2>1. s.ledger[r].billed[k] <= s.ledger[Book].billed[k]
    BY DEF WellFormed
  <2>2. /\ Effective(s2, Book).billed[k] =
              IF k \in calls THEN s.ledger[Book].billed[k] + 1 ELSE s.ledger[Book].billed[k]
        /\ Effective(s2, r).billed[k] =
              IF k \in calls /\ r \in into THEN s.ledger[r].billed[k] + 1
                                          ELSE s.ledger[r].billed[k]
    BY <1>1, <1>3, <1>4, <1>5
  <2>3. s.ledger[r].billed[k] \in Nat /\ s.ledger[Book].billed[k] \in Nat
    BY <1>1, <1>5
  <2>4. QED BY <1>2, <2>1, <2>2, <2>3
<1>9. WellFormed(s2)
  BY <1>1, <1>2, <1>6, <1>7, <1>8 DEF WellFormed
<1>10. QED BY <1>4, <1>9

\* Creating an empty Review ledger bills nothing.
LEMMA EmptyReviewBillsNothing ==
    ASSUME NEW s \in Stores, WellFormed(s), ~HasJournal(s), NEW into,
           NEW s2, s2 = WithReview(s, into)
    PROVE  /\ WellFormed(s2)
           /\ \A l \in Ledgers : \A k \in Call :
                 /\ s2.ledger[l].billed[k] = s.ledger[l].billed[k]
                 /\ Effective(s2, l).billed[k] = Effective(s, l).billed[k]
<1>1. s2.journal = s.journal /\ s.journal.of = {}
  BY DEF WithReview, HasJournal
<1>2. \A l \in Ledgers : \A k \in Call : s2.ledger[l].billed[k] = s.ledger[l].billed[k]
  BY StoreTypes, MergedType DEF WithReview
<1>3. \A l \in Ledgers : Effective(s2, l) = s2.ledger[l] /\ Effective(s, l) = s.ledger[l]
  BY <1>1 DEF Effective
<1>4. WellFormed(s2)
  BY <1>1, <1>2, <1>3, BookIsLedger DEF WellFormed, Applies, HasJournal
<1>5. QED BY <1>2, <1>3, <1>4

-----------------------------------------------------------------------------
(* The stages of a flush.                                                   *)

AccountsGrow == \A l \in Ledgers : \A k \in Call :
    Effective(durable, l).billed[k] <= Effective(durable', l).billed[k]

\* What a step of thread t must keep, its own stage included.
StepKeeps(t) == StoreInv' /\ Stage(t)' /\ AccountsGrow

LEMMA AccountType ==
    ASSUME NEW s \in Stores, NEW l \in Ledgers, NEW k \in Call
    PROVE  Effective(s, l).billed[k] \in Nat
BY StoreTypes, BilledType

LEMMA SameAccountsGrow ==
    ASSUME TypeOK, SameAccounts(durable, durable')
    PROVE  AccountsGrow
BY AccountType DEF SameAccounts, AccountsGrow, TypeOK

\* Between its steps in the store, a flush only has its calls to look after.
LEMMA OutsideStage ==
    ASSUME NEW t \in Thread, flush'[t].pc \in {"idle", "waiting"}
    PROVE  Stage(t)'
BY DEF Stage, StateLockPcs

\* Steps outside the store, and the acquisition of its lock.
LEMMA QuietKeeps ==
    ASSUME TypeOK, LocksInv, StoreInv, NEW t \in Thread, ThreadStep(t), UNCHANGED store,
           ~HoldsState(t), flush'[t].pc \in {"idle", "waiting"}
    PROVE  StepKeeps(t)
<1>1. StateLockFree' => StateLockFree
  BY OneThreadMoves DEF StateLockFree, HoldsState
<1>2. StoreInv'
  BY <1>1 DEF StoreInv, store, WellFormed, HasJournal, Applies, Effective
<1>3. AccountsGrow
  BY SameAccountsGrow DEF SameAccounts, store
<1>4. QED BY <1>2, <1>3, OutsideStage DEF StepKeeps

LEMMA TakeKeeps ==
    ASSUME TypeOK, LocksInv, StoreInv, NEW t \in Thread, TakeStateLock(t)
    PROVE  StepKeeps(t)
<1>1. durable' = durable /\ working' = working /\ durable = working
  BY DEF TakeStateLock, store, StoreInv
<1>2. StoreInv'
  BY <1>1 DEF StoreInv, WellFormed, HasJournal, Applies, Effective
<1>3. AccountsGrow
  BY <1>1, SameAccountsGrow DEF SameAccounts
<1>4. flush'[t].pc = "checking"
  BY DEF TakeStateLock, MoveTo, TypeOK
<1>5. Stage(t)'
  BY <1>1, <1>4 DEF Stage, Effective
<1>6. QED BY <1>2, <1>3, <1>5 DEF StepKeeps

\* A write that leaves the accounts as they were, under the lock.
LEMMA WriteKeeps ==
    ASSUME TypeOK, StoreInv, NEW t \in Thread, HoldsState(t), flush[t].pc # "prepared", Stage(t),
           NEW next \in Stores, Write(next), WellFormed(next), SameAccounts(working, next),
           HoldsState(t)'
    PROVE  StoreInv' /\ SameAccounts(durable', working') /\ AccountsGrow
<1>1. SameAccounts(durable, working)
  BY DEF Stage, HoldsState, SameAccounts
<1>2. working' = next /\ (Transactional => durable' = durable)
         /\ (~Transactional => durable' = next)
  BY UsageAssumption DEF Write
<1>3. SameAccounts(durable, durable') /\ SameAccounts(durable', working')
  <2>1. CASE Transactional
    BY <1>1, <1>2, <2>1 DEF SameAccounts
  <2>2. CASE ~Transactional
    BY <1>1, <1>2, <2>2 DEF SameAccounts
  <2>3. QED BY <2>1, <2>2
<1>4. ~StateLockFree'
  BY DEF StateLockFree
<1>5. WellFormed(durable') /\ WellFormed(working')
  BY <1>2 DEF StoreInv
<1>6. StoreInv'
  BY <1>2, <1>4, <1>5 DEF StoreInv, WellFormed, HasJournal, Applies, Effective
<1>7. QED BY <1>3, <1>6, SameAccountsGrow

\* A flush that leaves the store, with its transaction committed or undone.
LEMMA LeaveKeeps ==
    ASSUME TypeOK, NEW t \in Thread, WellFormed(durable'),
           durable' = working', AccountsGrow, flush'[t].pc \in {"idle", "waiting"}
    PROVE  StepKeeps(t)
BY OutsideStage DEF StepKeeps, StoreInv, WellFormed, HasJournal, Applies, Effective

LEMMA NoPendingJournalKeeps ==
    ASSUME TypeOK, LocksInv, StoreInv, NEW t \in Thread, Stage(t), NoPendingJournal(t)
    PROVE  StepKeeps(t)
<1>1. /\ flush[t].pc = "checking" /\ HoldsState(t) /\ working' = working
      /\ ~HasJournal(working) /\ SameAccounts(durable, working)
  BY DEF NoPendingJournal, HoldsState, StateLockPcs, Stage, SameAccounts
<1>2. CASE durable' = working /\ Return(t)
  <2>1. WellFormed(durable') /\ AccountsGrow
    BY <1>1, <1>2, SameAccountsGrow DEF StoreInv, SameAccounts
  <2>2. QED BY <1>1, <1>2, <2>1, LeaveKeeps DEF Return, IdleFlush, TypeOK
<1>3. CASE durable' = durable /\ (MoveTo(t, "merging") \/ MoveTo(t, "logging"))
  <2>1. flush'[t].pc \in {"merging", "logging"}
    BY <1>3 DEF MoveTo, TypeOK
  <2>2. ~StateLockFree'
    BY <2>1 DEF StateLockFree, HoldsState, StateLockPcs
  <2>3. StoreInv'
    <3>1. UsageAssumption /\ (~Transactional => durable = working)
      BY UsageAssumption DEF StoreInv
    <3>2. QED BY <1>1, <1>3, <2>2, <3>1
                 DEF StoreInv, WellFormed, HasJournal, Applies, Effective
  <2>4. Stage(t)'
    BY <1>1, <1>3, <2>1 DEF Stage, HasJournal, Effective, SameAccounts
  <2>5. QED BY <1>3, <2>3, <2>4, SameAccountsGrow DEF StepKeeps, SameAccounts
<1>4. QED BY <1>2, <1>3 DEF NoPendingJournal, Recovered

LEMMA CheckJournalKeeps ==
    ASSUME TypeOK, StoreInv, NEW t \in Thread, Stage(t), CheckJournal(t)
    PROVE  StepKeeps(t)
<1>1. /\ flush[t].pc = "checking" /\ HoldsState(t) /\ SameAccounts(durable, working)
      /\ durable' = durable /\ working' = working
      /\ flush' = [flush EXCEPT ![t] =
             [pc |-> "writing", phase |-> @.phase, into |-> @.into, current |-> @.current,
              todo |-> working.journal.of]]
  BY DEF CheckJournal, StoreInv, WellFormed, HoldsState, StateLockPcs, Stage, SameAccounts, store
<1>2. flush'[t].pc = "writing" /\ flush'[t].todo = working.journal.of
  BY <1>1 DEF TypeOK
<1>3. ~StateLockFree' /\ ~StateLockFree
  BY <1>1, <1>2 DEF StateLockFree, HoldsState, StateLockPcs
<1>4. StoreInv'
  BY <1>1, <1>3 DEF StoreInv, WellFormed, HasJournal, Applies, Effective
<1>5. Stage(t)'
  BY <1>1, <1>2 DEF Stage, Effective, SameAccounts
<1>6. QED BY <1>1, <1>4, <1>5, SameAccountsGrow DEF StepKeeps, SameAccounts

LEMMA WriteLedgerKeeps ==
    ASSUME TypeOK, StoreInv, NEW t \in Thread, Stage(t), WriteLedger(t)
    PROVE  StepKeeps(t)
<1>1. PICK l \in flush[t].todo :
         /\ Book \in flush[t].todo => l = Book
         /\ Write(Published(working, l))
         /\ flush' = [flush EXCEPT ![t] =
                [pc |-> "writing", phase |-> @.phase, into |-> @.into, current |-> @.current,
                 todo |-> @.todo \ {l}]]
  BY DEF WriteLedger
<1>0. PICK next : next = Published(working, l)
  OBVIOUS
<1>2. /\ flush[t].pc = "writing" /\ HoldsState(t)
      /\ flush[t].todo \subseteq working.journal.of
      /\ \A m \in working.journal.of \ flush[t].todo :
            working.ledger[m] = working.journal.value[m]
  BY DEF WriteLedger, HoldsState, StateLockPcs, Stage
<1>3. l \in working.journal.of /\ (l = Book \/ working.ledger[Book] = working.journal.value[Book])
  BY <1>1, <1>2 DEF StoreInv, WellFormed, HasJournal
<1>4. working \in Stores /\ WellFormed(working)
  BY DEF TypeOK, StoreInv
<1>5. /\ WellFormed(next) /\ SameAccounts(working, next)
      /\ \A m \in Ledgers : next.ledger[m] =
            IF m = l THEN working.journal.value[l] ELSE working.ledger[m]
  BY <1>0, <1>3, <1>4, PublishKeepsAccounts
<1>6. next \in Stores
  BY <1>0, <1>3, <1>4, StoreTypes DEF Published, Stores
<1>7. flush'[t].pc = "writing" /\ flush'[t].todo = flush[t].todo \ {l}
  BY <1>1 DEF TypeOK
<1>8. HoldsState(t)'
  BY <1>7 DEF HoldsState, StateLockPcs
<1>9. StoreInv' /\ SameAccounts(durable', working') /\ AccountsGrow
  BY <1>0, <1>1, <1>2, <1>5, <1>6, <1>8, WriteKeeps
<1>10. working' = next /\ working'.journal = working.journal
  BY <1>0, <1>1 DEF Write, Published
<1>11. Stage(t)'
  <2>1. working.journal.of \subseteq Ledgers
    BY <1>4, StoreTypes
  <2>2. flush'[t].todo \subseteq working'.journal.of
    BY <1>2, <1>7, <1>10
  <2>3. \A m \in working'.journal.of \ flush'[t].todo :
           working'.ledger[m] = working'.journal.value[m]
    BY <1>2, <1>5, <1>7, <1>10, <2>1
  <2>4. QED BY <1>7, <1>9, <2>2, <2>3 DEF Stage, SameAccounts
<1>12. QED BY <1>9, <1>11 DEF StepKeeps

LEMMA UnlinkJournalKeeps ==
    ASSUME TypeOK, StoreInv, NEW t \in Thread, Stage(t), UnlinkJournal(t)
    PROVE  StepKeeps(t)
<1>0. PICK next : next = Unlinked(working)
  OBVIOUS
<1>1. /\ flush[t].pc = "writing" /\ HoldsState(t) /\ Write(next)
      /\ \A m \in working.journal.of : working.ledger[m] = working.journal.value[m]
  BY <1>0 DEF UnlinkJournal, HoldsState, StateLockPcs, Stage
<1>2. WellFormed(next) /\ SameAccounts(working, next)
  BY <1>0, <1>1, UnlinkKeepsAccounts DEF TypeOK, StoreInv
<1>3. next \in Stores
  BY <1>0, EmptyTypes DEF Unlinked, TypeOK, Stores
<1>4. flush'[t].pc = "checking"
  BY DEF UnlinkJournal, MoveTo, TypeOK
<1>5. HoldsState(t)'
  BY <1>4 DEF HoldsState, StateLockPcs
<1>6. StoreInv' /\ SameAccounts(durable', working') /\ AccountsGrow
  BY <1>1, <1>2, <1>3, <1>5, WriteKeeps
<1>7. QED BY <1>4, <1>6 DEF StepKeeps, Stage, SameAccounts

LEMMA NothingToBillKeeps ==
    ASSUME TypeOK, StoreInv, NEW t \in Thread, Stage(t), NothingToBill(t)
    PROVE  StepKeeps(t)
<1>1. flush[t].pc = "merging" /\ ~HasJournal(working) /\ SameAccounts(durable, working)
  BY DEF NothingToBill, Stage, SameAccounts, StateLockPcs
<1>2. working \in Stores /\ WellFormed(working) /\ durable' = working'
  BY DEF TypeOK, StoreInv, NothingToBill
<1>3. /\ WellFormed(working')
      /\ \A l \in Ledgers : \A k \in Call :
            Effective(working', l).billed[k] = Effective(working, l).billed[k]
  <2>1. PICK next : next = working'
    OBVIOUS
  <2>2. next = WithReview(working, flush[t].into)
    BY <2>1 DEF NothingToBill
  <2>3. QED BY <1>1, <1>2, <2>1, <2>2, EmptyReviewBillsNothing
<1>4. AccountsGrow
  BY <1>1, <1>2, <1>3, AccountType DEF AccountsGrow, SameAccounts
<1>5. flush'[t].pc = "idle"
  BY DEF NothingToBill, Return, IdleFlush, TypeOK
<1>6. QED BY <1>2, <1>3, <1>4, <1>5, LeaveKeeps

\* What a flush has recorded and checkpointed is of its own client.
LEMMA ClientTypes ==
    ASSUME TypeOK, NEW t \in Thread
    PROVE  /\ ClientOf[t] \in Client
           /\ recorded[ClientOf[t]] \subseteq Call
           /\ flush[t].current \subseteq Call
           /\ flush[t].into \in Targets
BY UsageAssumption DEF TypeOK, Flushes

\* Under the lock the journaled accounts are the durable ones plus the increment.
LEMMA PrepareKeeps ==
    ASSUME TypeOK, StoreInv, ClientsInv, CheckpointIsDurable,
           NEW t \in Thread, Stage(t), Prepare(t)
    PROVE  StepKeeps(t)
<1> DEFINE c == ClientOf[t]
           into == flush[t].into
<1>1. /\ flush[t].pc = "merging" /\ HoldsState(t) /\ ~HasJournal(working)
      /\ SameAccounts(durable, working)
  BY DEF Prepare, HoldsState, StateLockPcs, Stage, SameAccounts
<1>2. /\ c \in Client /\ recorded[c] \subseteq Call /\ into \in Targets
      /\ Book \in into /\ Book \in Ledgers /\ checkpoint[c] \subseteq recorded[c]
      /\ checkpoint' = checkpoint /\ recorded' = recorded
  BY ClientTypes, TargetsAreLedgers, BookIsLedger DEF ClientsInv, Prepare
<1>3. PICK next : next = Journaled(working, into, Increment(c))
  OBVIOUS
<1>4. working \in Stores /\ WellFormed(working)
  BY DEF TypeOK, StoreInv
<1>5. /\ WellFormed(next)
      /\ \A l \in Ledgers : Effective(next, l) =
            IF l \in into THEN Merged(Effective(durable, l), Increment(c)) ELSE Effective(durable, l)
  BY <1>1, <1>2, <1>3, <1>4, PrepareBillsIncrement DEF SameAccounts
<1>6. working' = next /\ (Transactional => durable' = durable)
         /\ (~Transactional => durable' = next)
  BY <1>3, UsageAssumption DEF Prepare, Write
<1>7. /\ flush'[t].pc = "prepared" /\ flush'[t].into = into
      /\ flush'[t].current = recorded[c]
  BY DEF Prepare, TypeOK
<1>8. ~StateLockFree'
  BY <1>7 DEF StateLockFree, HoldsState, StateLockPcs
<1>9. \A l \in Ledgers : \A k \in Call :
         /\ Effective(next, l).billed[k] =
               IF l \in into /\ k \in Increment(c) THEN Effective(durable, l).billed[k] + 1
                                                ELSE Effective(durable, l).billed[k]
         /\ Effective(durable, l).billed[k] \in Nat
  <2>1. \A l \in Ledgers : Effective(durable, l) \in Contents
    BY StoreTypes DEF TypeOK
  <2>2. QED BY <1>5, <2>1, MergedType, BilledType
<1>10. StoreInv'
  <2>1. WellFormed(durable') /\ WellFormed(working')
    BY <1>5, <1>6 DEF StoreInv
  <2>2. ~Transactional => durable' = working'
    BY <1>6
  <2>3. QED BY <1>8, <2>1, <2>2 DEF StoreInv, WellFormed, HasJournal, Applies, Effective
<1>11. AccountsGrow
  BY <1>6, <1>9 DEF AccountsGrow
<1>12. Stage(t)'
  <2>1. \A k \in recorded[c] : Effective(next, Book).billed[k] >= 1
    <3> SUFFICES ASSUME NEW k \in recorded[c] PROVE Effective(next, Book).billed[k] >= 1
      OBVIOUS
    <3>1. CASE k \in checkpoint[c]
      <4>1. Effective(durable, Book).billed[k] >= 1
        BY <1>2, <3>1 DEF CheckpointIsDurable
      <4>2. QED BY <1>2, <1>9, <4>1
    <3>2. CASE k \notin checkpoint[c]
      BY <1>2, <1>9, <3>2 DEF Increment
    <3>3. QED BY <3>1, <3>2
  <2>2. Transactional => \A l \in Ledgers :
           Effective(next, l).billed = IF l \in into
              THEN Merged(Effective(durable, l), recorded[c] \ checkpoint[c]).billed
              ELSE Effective(durable, l).billed
    BY <1>5 DEF Increment
  <2>3. QED
    BY <1>2, <1>6, <1>7, <2>1, <2>2 DEF Stage, StateLockPcs
<1>13. QED BY <1>10, <1>11, <1>12 DEF StepKeeps

\* The first transaction ends and nothing but the journal has been added.
LEMMA PreparedGrows ==
    ASSUME TypeOK, StoreInv, NEW t \in Thread, Stage(t), flush[t].pc = "prepared"
    PROVE  \A l \in Ledgers : \A k \in Call :
              /\ Effective(durable, l).billed[k] <= Effective(working, l).billed[k]
              /\ Effective(durable, l).billed[k] \in Nat
              /\ Effective(working, l).billed[k] \in Nat
<1>1. \A l \in Ledgers : Effective(durable, l) \in Contents /\ Effective(working, l) \in Contents
  BY StoreTypes DEF TypeOK
<1>2. \A l \in Ledgers : \A k \in Call :
         Effective(durable, l).billed[k] \in Nat /\ Effective(working, l).billed[k] \in Nat
  BY <1>1, BilledType
<1>3. CASE Transactional
  <2>1. \A l \in Ledgers : Effective(working, l).billed =
           IF l \in flush[t].into
           THEN Merged(Effective(durable, l), flush[t].current \ checkpoint[ClientOf[t]]).billed
           ELSE Effective(durable, l).billed
    BY <1>3 DEF Stage
  <2>2. QED BY <1>1, <1>2, <2>1, MergedType
<1>4. CASE ~Transactional
  BY <1>2, <1>4 DEF StoreInv
<1>5. QED BY <1>3, <1>4

LEMMA CommitJournalKeeps ==
    ASSUME TypeOK, StoreInv, NEW t \in Thread, Stage(t), CommitJournal(t)
    PROVE  StepKeeps(t)
<1>1. /\ flush[t].pc = "prepared" /\ durable' = working /\ working' = working
      /\ recorded' = recorded /\ checkpoint' = checkpoint
  BY DEF CommitJournal, Commit
<1>2. /\ flush'[t].pc = "committed" /\ flush'[t].current = flush[t].current
  BY DEF CommitJournal, MoveTo, TypeOK
<1>3. AccountsGrow
  BY <1>1, PreparedGrows DEF AccountsGrow
<1>4. StoreInv'
  BY <1>1 DEF StoreInv, WellFormed, HasJournal, Applies, Effective
<1>5. Stage(t)'
  BY <1>1, <1>2 DEF Stage, StateLockPcs, Effective
<1>6. QED BY <1>3, <1>4, <1>5 DEF StepKeeps

LEMMA FinishFlushKeeps ==
    ASSUME TypeOK, StoreInv, NEW t \in Thread, Stage(t), FinishFlush(t)
    PROVE  StepKeeps(t)
<1>1. durable' = working /\ working' = working /\ SameAccounts(durable, working)
  BY DEF FinishFlush, Commit, Stage, StateLockPcs, SameAccounts
<1>2. flush'[t].pc = "idle"
  BY DEF FinishFlush, Return, IdleFlush, TypeOK
<1>3. WellFormed(durable') /\ AccountsGrow
  BY <1>1, SameAccountsGrow DEF StoreInv, SameAccounts
<1>4. QED BY <1>1, <1>2, <1>3, LeaveKeeps

LEMMA FailureKeeps ==
    ASSUME TypeOK, LocksInv, StoreInv, NEW t \in Thread, Stage(t),
           StorageFails(t) \/ CommitReplyLost(t)
    PROVE  StepKeeps(t)
<1>1. flush'[t].pc = "idle"
  BY DEF StorageFails, CommitReplyLost, Return, IdleFlush, TypeOK
<1>2. CASE StorageFails(t) /\ flush[t].pc = "waiting"
  BY <1>1, <1>2, QuietKeeps DEF StorageFails, ThreadStep, HoldsState, StateLockPcs
<1>3. CASE StorageFails(t) /\ flush[t].pc # "waiting"
  <2>1. durable' = durable /\ working' = durable
    BY <1>3 DEF StorageFails, Rollback
  <2>2. WellFormed(durable') /\ AccountsGrow
    BY <2>1, SameAccountsGrow DEF StoreInv, SameAccounts
  <2>3. QED BY <1>1, <2>1, <2>2, LeaveKeeps
<1>4. CASE CommitReplyLost(t)
  <2>1. durable' = working /\ working' = working /\ flush[t].pc \in {"prepared", "logging"}
    BY <1>4 DEF CommitReplyLost, Commit
  <2>2. AccountsGrow
    <3>1. CASE flush[t].pc = "prepared"
      BY <2>1, <3>1, PreparedGrows DEF AccountsGrow
    <3>2. CASE flush[t].pc = "logging"
      BY <2>1, <3>2, SameAccountsGrow DEF Stage, StateLockPcs, SameAccounts
    <3>3. QED BY <2>1, <3>1, <3>2
  <2>3. QED BY <1>1, <2>1, <2>2, LeaveKeeps DEF StoreInv
<1>5. QED BY <1>2, <1>3, <1>4

LEMMA AdvanceCheckpointKeeps ==
    ASSUME TypeOK, LocksInv, StoreInv, NEW t \in Thread, AdvanceCheckpoint(t)
    PROVE  StepKeeps(t)
<1>1. ~HoldsState(t) /\ UNCHANGED store
  BY DEF AdvanceCheckpoint, HoldsState, StateLockPcs
<1>2. flush'[t].pc = "waiting"
  BY DEF AdvanceCheckpoint, TypeOK
<1>3. QED BY <1>1, <1>2, QuietKeeps DEF ThreadStep, FlushStep

LEMMA ThreadKeepsStage ==
    ASSUME TypeOK, LocksInv, LedgerInv, NEW t \in Thread, ThreadStep(t)
    PROVE  StepKeeps(t)
<1>1. StoreInv /\ Stage(t) /\ ClientsInv /\ CheckpointIsDurable
  BY DEF LedgerInv
<1>2. CASE OpenRun(t) \/ BeginFlush(t)
  <2>1. ~HoldsState(t) /\ UNCHANGED store
    BY <1>2 DEF OpenRun, BeginFlush, CoordinatorFree, Idle, HoldsState, StateLockPcs
  <2>2. flush'[t].pc = "waiting"
    BY <1>2 DEF OpenRun, BeginFlush, TypeOK
  <2>3. QED BY <1>1, <2>1, <2>2, QuietKeeps
<1>3. QED
  BY <1>1, <1>2, TakeKeeps, NoPendingJournalKeeps, CheckJournalKeeps, WriteLedgerKeeps,
     UnlinkJournalKeeps, NothingToBillKeeps, PrepareKeeps, CommitJournalKeeps,
     AdvanceCheckpointKeeps, FinishFlushKeeps, FailureKeeps DEF ThreadStep, FlushStep

\* Only the holder of the state lock writes; only AdvanceCheckpoint moves a checkpoint.
LEMMA WhoWrites ==
    ASSUME TypeOK, NEW t \in Thread, ThreadStep(t)
    PROVE  /\ HoldsState(t) \/ UNCHANGED store
           /\ AdvanceCheckpoint(t) \/ UNCHANGED checkpoint
           /\ UNCHANGED <<recorded, made>>
<1> USE DEF HoldsState, StateLockPcs, store
<1>1. CASE OpenRun(t) \/ BeginFlush(t) \/ TakeStateLock(t) \/ AdvanceCheckpoint(t)
  BY <1>1 DEF OpenRun, BeginFlush, TakeStateLock, AdvanceCheckpoint
<1>2. CASE NoPendingJournal(t) \/ CheckJournal(t) \/ WriteLedger(t) \/ UnlinkJournal(t)
  BY <1>2 DEF NoPendingJournal, CheckJournal, WriteLedger, UnlinkJournal
<1>3. CASE NothingToBill(t) \/ Prepare(t) \/ CommitJournal(t) \/ FinishFlush(t)
  BY <1>3 DEF NothingToBill, Prepare, CommitJournal, FinishFlush
<1>4. CASE StorageFails(t) \/ CommitReplyLost(t)
  BY <1>4 DEF StorageFails, CommitReplyLost
<1>5. QED BY <1>1, <1>2, <1>3, <1>4 DEF ThreadStep, FlushStep

LEMMA OthersKeepStage ==
    ASSUME TypeOK, LocksInv, LedgerInv, NEW t \in Thread, ThreadStep(t), NEW u \in Thread \ {t}
    PROVE  Stage(u)'
<1>1. Stage(u) /\ flush'[u] = flush[u] /\ UNCHANGED recorded
  BY OneThreadMoves, WhoWrites DEF LedgerInv
<1>2. CASE HoldsState(t)
  <2>1. ~HoldsState(u) /\ UNCHANGED checkpoint
    BY <1>2, WhoWrites DEF LocksInv, StateLockExclusive, AdvanceCheckpoint, HoldsState,
                           StateLockPcs
  <2>2. AccountsGrow
    BY ThreadKeepsStage DEF StepKeeps
  <2>3. \A k \in flush[u].current : flush[u].pc = "committed" =>
           Effective(durable', Book).billed[k] >= 1
    <3>1. flush[u].current \subseteq Call /\ Book \in Ledgers
      BY ClientTypes, BookIsLedger
    <3>2. durable' \in Stores
      BY TypeStep DEF TypeOK, Next, ThreadStep
    <3>3. QED BY <1>1, <2>2, <3>1, <3>2, AccountType DEF Stage, AccountsGrow, TypeOK
  <2>4. QED BY <1>1, <2>1, <2>3 DEF Stage, HoldsState, StateLockPcs
<1>3. CASE ~HoldsState(t) /\ ~(AdvanceCheckpoint(t) /\ ClientOf[u] = ClientOf[t])
  <2>1. UNCHANGED store
    BY <1>3, WhoWrites
  <2>2. checkpoint'[ClientOf[u]] = checkpoint[ClientOf[u]]
    BY <1>3, WhoWrites, ClientTypes DEF AdvanceCheckpoint, TypeOK
  <2>3. QED BY <1>1, <2>1, <2>2 DEF Stage, store, Effective, HasJournal
<1>4. CASE AdvanceCheckpoint(t) /\ ClientOf[u] = ClientOf[t]
  <2>1. Idle(u)
    BY <1>4 DEF LocksInv, CoordinatorExclusive, AdvanceCheckpoint, Idle
  <2>2. QED BY <1>1, <2>1, OutsideStage DEF Idle
<1>5. QED BY <1>2, <1>3, <1>4

\* A checkpoint moves to what its flush has journaled.
LEMMA ThreadKeepsCheckpoints ==
    ASSUME TypeOK, TypeOK', LedgerInv, NEW t \in Thread, ThreadStep(t), AccountsGrow
    PROVE  ClientsInv' /\ CheckpointIsDurable'
<1>1. ClientsInv /\ CheckpointIsDurable /\ Stage(t) /\ UNCHANGED <<recorded, made>>
  BY WhoWrites DEF LedgerInv
<1>2. CASE UNCHANGED checkpoint
  <2>1. ClientsInv'
    BY <1>1, <1>2 DEF ClientsInv
  <2>2. CheckpointIsDurable'
    <3> SUFFICES ASSUME NEW c \in Client, NEW k \in checkpoint[c]
                 PROVE  Effective(durable', Book).billed[k] >= 1
      BY <1>2 DEF CheckpointIsDurable
    <3>1. k \in Call /\ Book \in Ledgers /\ Effective(durable, Book).billed[k] >= 1
      BY <1>1, BookIsLedger DEF TypeOK, CheckpointIsDurable
    <3>2. QED BY <3>1, AccountType DEF AccountsGrow, TypeOK
  <2>3. QED BY <2>1, <2>2
<1>3. CASE AdvanceCheckpoint(t)
  <2>1. /\ flush[t].pc = "committed" /\ UNCHANGED store
        /\ checkpoint' = [checkpoint EXCEPT ![ClientOf[t]] = flush[t].current]
    BY <1>3 DEF AdvanceCheckpoint
  <2>2. /\ flush[t].current \subseteq recorded[ClientOf[t]]
        /\ \A k \in flush[t].current : Effective(durable, Book).billed[k] >= 1
    BY <1>1, <2>1 DEF Stage
  <2>3. ClientsInv'
    BY <1>1, <2>1, <2>2, ClientTypes DEF ClientsInv, TypeOK
  <2>4. CheckpointIsDurable'
    BY <1>1, <2>1, <2>2, ClientTypes DEF CheckpointIsDurable, TypeOK, store, Effective
  <2>5. QED BY <2>3, <2>4
<1>4. QED BY <1>2, <1>3, WhoWrites

-----------------------------------------------------------------------------
(* The ledgers.                                                             *)

\* An empty store has nothing to lose.
LEMMA LedgerInit == Init => LedgerInv
<1> SUFFICES ASSUME Init PROVE LedgerInv
  OBVIOUS
<1>1. WellFormed(EmptyStore)
  <2>1. EmptyStore.journal.of = {}
    BY DEF EmptyStore, NoJournal
  <2>2. \A l \in Ledgers : \A k \in Call : EmptyStore.ledger[l].billed[k] = 0
    BY DEF EmptyStore, Missing, Zero
  <2>3. \A l \in Ledgers : Effective(EmptyStore, l) = EmptyStore.ledger[l]
    BY <2>1 DEF Effective
  <2>4. QED BY <2>1, <2>2, <2>3, BookIsLedger DEF WellFormed, Applies, HasJournal
<1>2. durable = EmptyStore /\ working = EmptyStore
  BY DEF Init
<1>3. StoreInv
  BY <1>1, <1>2 DEF StoreInv
<1>4. \A t \in Thread : Stage(t)
  BY DEF Init, Stage, IdleFlush, StateLockPcs
<1>5. ClientsInv /\ CheckpointIsDurable
  BY DEF Init, ClientsInv, CheckpointIsDurable
<1>6. QED BY <1>3, <1>4, <1>5 DEF LedgerInv

\* The end of a process rolls the store back and forgets the rest.
LEMMA EndRunKeeps ==
    ASSUME TypeOK, LedgerInv, EndRun
    PROVE  LedgerInv'
<1>1. durable' = durable /\ working' = durable /\ WellFormed(durable)
  BY DEF EndRun, Rollback, LedgerInv, StoreInv
<1>2. \A t \in Thread : flush'[t].pc = "idle"
  BY DEF EndRun, IdleFlush
<1>3. StoreInv'
  BY <1>1 DEF StoreInv, WellFormed, HasJournal, Applies, Effective
<1>4. \A t \in Thread : Stage(t)'
  BY <1>2, OutsideStage
<1>5. ClientsInv' /\ CheckpointIsDurable'
  BY DEF EndRun, ClientsInv, CheckpointIsDurable
<1>6. QED BY <1>3, <1>4, <1>5 DEF LedgerInv

\* A call no client had: every checkpoint and every flush stays as it is.
LEMMA RecordKeeps ==
    ASSUME TypeOK, LedgerInv, NEW c \in Client, NEW k \in Call, Record(c, k)
    PROVE  LedgerInv'
<1>1. /\ UNCHANGED <<store, flush, checkpoint>>
      /\ k \notin made /\ made' = made \cup {k}
      /\ recorded'[c] = recorded[c] \cup {k}
      /\ \A d \in Client \ {c} : recorded'[d] = recorded[d]
  BY DEF Record, TypeOK
<1>2. StoreInv'
  BY <1>1 DEF LedgerInv, StoreInv, WellFormed, HasJournal, Applies, Effective, store,
              StateLockFree, HoldsState
<1>3. ASSUME NEW t \in Thread PROVE Stage(t)'
  <2>1. recorded[ClientOf[t]] \subseteq recorded'[ClientOf[t]]
    BY <1>1, ClientTypes
  <2>2. Stage(t)
    BY DEF LedgerInv
  <2>3. QED BY <1>1, <2>1, <2>2 DEF Stage, HasJournal, Effective, store
<1>4. ClientsInv'
  BY <1>1 DEF LedgerInv, ClientsInv
<1>5. CheckpointIsDurable'
  BY <1>1 DEF LedgerInv, CheckpointIsDurable, Effective, store
<1>6. QED BY <1>2, <1>3, <1>4, <1>5 DEF LedgerInv

LEMMA LedgerStep ==
    ASSUME TypeOK, LocksInv, LedgerInv, [Next]_vars
    PROVE  LedgerInv'
<1>1. CASE EndRun
  BY <1>1, EndRunKeeps
<1>2. ASSUME NEW c \in Client, NEW k \in Call, Record(c, k) PROVE LedgerInv'
  BY <1>2, RecordKeeps
<1>3. ASSUME NEW t \in Thread, ThreadStep(t) PROVE LedgerInv'
  <2>1. TypeOK'
    BY TypeStep
  <2>2. StepKeeps(t)
    BY <1>3, ThreadKeepsStage
  <2>3. \A u \in Thread \ {t} : Stage(u)'
    BY <1>3, OthersKeepStage
  <2>4. ClientsInv' /\ CheckpointIsDurable'
    BY <1>3, <2>1, <2>2, ThreadKeepsCheckpoints DEF StepKeeps
  <2>5. QED BY <2>2, <2>3, <2>4 DEF StepKeeps, LedgerInv
<1>4. CASE UNCHANGED vars
  <2>1. UNCHANGED <<store, flush, recorded, checkpoint, made>>
    BY <1>4 DEF vars
  <2>2. StoreInv'
    BY <2>1 DEF LedgerInv, StoreInv, WellFormed, HasJournal, Applies, Effective, store,
                StateLockFree, HoldsState
  <2>3. ASSUME NEW t \in Thread PROVE Stage(t)'
    <3>1. Stage(t)
      BY DEF LedgerInv
    <3>2. QED BY <2>1, <3>1 DEF Stage, HasJournal, Effective, store
  <2>4. ClientsInv' /\ CheckpointIsDurable'
    BY <2>1 DEF LedgerInv, ClientsInv, CheckpointIsDurable, Effective, store
  <2>5. QED BY <2>2, <2>3, <2>4 DEF LedgerInv
<1>5. QED BY <1>1, <1>2, <1>3, <1>4 DEF Next, ThreadStep

\* At every stage of every flush, and after any fault or crash, the store is
\* well formed and holds whatever a checkpoint covers.
THEOREM LedgerCorrect == Spec => []LedgerInv
BY LedgerInit, LedgerStep, TypeCorrect, LocksCorrect, PTL DEF Spec

\* What a coordinator will not bill again survives any crash.
THEOREM CheckpointsAreDurable == Spec => []CheckpointIsDurable
<1>1. LedgerInv => CheckpointIsDurable
  BY DEF LedgerInv
<1>2. QED BY <1>1, LedgerCorrect, PTL

\* recover_usage never has to refuse a journal.
THEOREM JournalsApply == Spec => []JournalApplies
<1>1. LedgerInv => JournalApplies
  BY DEF LedgerInv, StoreInv, WellFormed, JournalApplies
<1>2. QED BY <1>1, LedgerCorrect, PTL

\* A Review charge is in the book before it is in the Review's own ledger.
THEOREM ReviewsWithinBook == Spec => []ReviewWithinBook
<1>1. LedgerInv => ReviewWithinBook
  BY DEF LedgerInv, StoreInv, WellFormed, ReviewWithinBook
<1>2. QED BY <1>1, LedgerCorrect, PTL

-----------------------------------------------------------------------------
(* Billing once, where no reply to a COMMIT is lost.                        *)

\* The calls of a flush that has not journaled them are in no journal.
LEMMA NotInFlight ==
    ASSUME TypeOK, LocksInv, NEW t \in Thread, flush[t].pc \notin {"idle", "committed"},
           Transactional \/ flush[t].pc # "prepared", NEW k
    PROVE  ~InFlight(ClientOf[t], k)
BY DEF InFlight, LocksInv, CoordinatorExclusive, Idle

LEMMA OnceTypes ==
    ASSUME TypeOK, NEW c \in Client
    PROVE  recorded[c] \subseteq Call /\ checkpoint[c] \subseteq Call
BY DEF TypeOK

\* A step that bills each of these calls to each of these ledgers.
Bills(into, calls) == \A l \in Ledgers : \A k \in Call :
    Effective(durable', l).billed[k] = IF l \in into /\ k \in calls
                                       THEN Effective(durable, l).billed[k] + 1
                                       ELSE Effective(durable, l).billed[k]

\* What is neither checkpointed nor journaled is in no ledger.
LEMMA UnjournaledIsUnbilled ==
    ASSUME TypeOK, LedgerInv, OnceInv, NEW c \in Client, NEW k \in recorded[c] \ checkpoint[c],
           ~InFlight(c, k)
    PROVE  \A l \in Ledgers : Effective(durable, l).billed[k] = 0
<1> SUFFICES ASSUME NEW l \in Ledgers PROVE Effective(durable, l).billed[k] = 0
  OBVIOUS
<1>1. k \in Call /\ Book \in Ledgers /\ Ledgers = {Book} \cup Review
  BY OnceTypes, BookIsLedger DEF Ledgers
<1>2. Effective(durable, Book).billed[k] = 0
  BY DEF OnceInv
<1>3. l # Book => Effective(durable, l).billed[k] <= Effective(durable, Book).billed[k]
  BY <1>1 DEF LedgerInv, StoreInv, WellFormed
<1>4. Effective(durable, l).billed[k] \in Nat
  BY <1>1, AccountType DEF TypeOK
<1>5. QED BY <1>2, <1>3, <1>4

\* A step that journals calls nobody has journaled bills each of them once.
LEMMA BillIncrement ==
    ASSUME TypeOK, TypeOK', LedgerInv, LedgerInv', OnceInv, NEW t \in Thread, NEW into, NEW calls,
           calls \subseteq recorded[ClientOf[t]] \ checkpoint[ClientOf[t]],
           \A k \in Call : ~InFlight(ClientOf[t], k),
           \A k \in calls : InFlight(ClientOf[t], k)',
           Bills(into, calls),
           UNCHANGED <<recorded, checkpoint, made>>,
           \A u \in Thread \ {t} : flush'[u] = flush[u]
    PROVE  OnceInv'
<1>1. /\ ClientOf[t] \in Client /\ calls \subseteq Call /\ calls \subseteq made
      /\ Book \in Ledgers /\ Ledgers = {Book} \cup Review
  BY ClientTypes, BookIsLedger DEF LedgerInv, ClientsInv, Ledgers
<1>2. \A l \in Ledgers : \A k \in Call : Effective(durable, l).billed[k] \in Nat
  BY AccountType DEF TypeOK
<1>3. \A k \in calls : \A l \in Ledgers : Effective(durable, l).billed[k] = 0
  BY <1>1, UnjournaledIsUnbilled
<1>4. BilledOnce'
  <2> SUFFICES ASSUME NEW l \in Ledgers, NEW k \in Call
               PROVE  Effective(durable', l).billed[k] <= 1
    BY DEF BilledOnce
  <2>1. Effective(durable, l).billed[k] <= 1
    BY DEF OnceInv, BilledOnce
  <2>2. QED BY <1>2, <1>3, <2>1 DEF Bills
<1>5. \A k \in Call \ made' : Effective(durable', Book).billed[k] = 0
  BY <1>1 DEF OnceInv, Bills
<1>6. ASSUME NEW d \in Client, NEW k \in recorded'[d] \ checkpoint'[d], ~InFlight(d, k)'
      PROVE  Effective(durable', Book).billed[k] = 0
  <2>1. k \in Call /\ k \in recorded[d] \ checkpoint[d]
    BY OnceTypes
  <2>2. k \notin calls
    BY <1>1, <1>6 DEF LedgerInv, ClientsInv
  <2>3. ~InFlight(d, k)
    <3>1. CASE d = ClientOf[t]
      BY <2>1, <3>1
    <3>2. CASE d # ClientOf[t]
      BY <1>6, <3>2 DEF InFlight
    <3>3. QED BY <3>1, <3>2
  <2>4. QED BY <1>1, <2>1, <2>2, <2>3 DEF OnceInv, Bills
<1>7. QED BY <1>4, <1>5, <1>6 DEF OnceInv

BillsNothing == \A l \in Ledgers : \A k \in Call :
    Effective(durable', l).billed[k] = Effective(durable, l).billed[k]

\* A step that bills nothing, and forgets a journaled call only into a checkpoint.
LEMMA NothingBilledTwice ==
    ASSUME TypeOK, OnceInv, BillsNothing, UNCHANGED <<recorded, made>>,
           \A c \in Client : checkpoint[c] \subseteq checkpoint'[c],
           \A c \in Client : \A k \in recorded[c] \ checkpoint'[c] :
              InFlight(c, k) => InFlight(c, k)'
    PROVE  OnceInv'
<1>1. BilledOnce' /\ Book \in Ledgers
  BY BookIsLedger DEF OnceInv, BilledOnce, BillsNothing
<1>2. \A k \in Call \ made' : Effective(durable', Book).billed[k] = 0
  BY <1>1 DEF OnceInv, BillsNothing
<1>3. ASSUME NEW c \in Client, NEW k \in recorded'[c] \ checkpoint'[c], ~InFlight(c, k)'
      PROVE  Effective(durable', Book).billed[k] = 0
  <2>1. k \in Call /\ k \in recorded[c] \ checkpoint[c] /\ ~InFlight(c, k)
    BY <1>3, OnceTypes
  <2>2. QED BY <1>1, <2>1 DEF OnceInv, BillsNothing
<1>4. QED BY <1>1, <1>2, <1>3 DEF OnceInv

\* With files the journal bills at once, in a database when it commits.
LEMMA PrepareBills ==
    ASSUME TypeOK, LedgerInv, NEW t \in Thread, Prepare(t)
    PROVE  IF Transactional THEN BillsNothing
                            ELSE Bills(flush[t].into, Increment(ClientOf[t]))
<1> DEFINE c == ClientOf[t]
           into == flush[t].into
<1>1. /\ flush[t].pc = "merging" /\ ~HasJournal(working) /\ SameAccounts(durable, working)
      /\ working \in Stores /\ WellFormed(working) /\ into \in Targets
  BY ClientTypes DEF Prepare, LedgerInv, StoreInv, Stage, StateLockPcs, SameAccounts, TypeOK
<1>2. PICK next : next = Journaled(working, into, Increment(c))
  OBVIOUS
<1>3. (Transactional => durable' = durable) /\ (~Transactional => durable' = next)
  BY <1>2, UsageAssumption DEF Prepare, Write
<1>4. \A l \in Ledgers : Effective(next, l) =
         IF l \in into THEN Merged(Effective(durable, l), Increment(c)) ELSE Effective(durable, l)
  BY <1>1, <1>2, PrepareBillsIncrement DEF SameAccounts
<1>5. \A l \in Ledgers : Effective(durable, l) \in Contents
  BY StoreTypes DEF TypeOK
<1>6. ~Transactional => Bills(into, Increment(c))
  BY <1>3, <1>4, <1>5, MergedType DEF Bills
<1>7. Transactional => BillsNothing
  BY <1>3 DEF BillsNothing
<1>8. QED BY <1>6, <1>7

LEMMA CommitBills ==
    ASSUME TypeOK, LedgerInv, NEW t \in Thread, CommitJournal(t)
    PROVE  IF Transactional
           THEN Bills(flush[t].into, flush[t].current \ checkpoint[ClientOf[t]])
           ELSE BillsNothing
<1> DEFINE into == flush[t].into
           calls == flush[t].current \ checkpoint[ClientOf[t]]
<1>1. flush[t].pc = "prepared" /\ durable' = working /\ Stage(t) /\ StoreInv
  BY DEF CommitJournal, Commit, LedgerInv
<1>2. Transactional => \A l \in Ledgers : Effective(working, l).billed =
         IF l \in into THEN Merged(Effective(durable, l), calls).billed
                       ELSE Effective(durable, l).billed
  BY <1>1 DEF Stage
<1>3. \A l \in Ledgers : Effective(durable, l) \in Contents
  BY StoreTypes DEF TypeOK
<1>4. Transactional => Bills(into, calls)
  BY <1>1, <1>2, <1>3, MergedType DEF Bills
<1>5. ~Transactional => BillsNothing
  BY <1>1 DEF StoreInv, BillsNothing
<1>6. QED BY <1>4, <1>5

LEMMA PrepareBillsOnce ==
    ASSUME TypeOK, TypeOK', LocksInv, LedgerInv, LedgerInv', OnceInv, NEW t \in Thread, Prepare(t)
    PROVE  OnceInv'
<1> DEFINE c == ClientOf[t]
<1>1. /\ flush[t].pc = "merging" /\ UNCHANGED <<recorded, checkpoint, made>>
      /\ flush'[t].pc = "prepared" /\ flush'[t].current = recorded[c]
      /\ \A u \in Thread \ {t} : flush'[u] = flush[u]
  BY DEF Prepare, TypeOK
<1>2. CASE Transactional
  <2>1. BillsNothing
    BY <1>2, PrepareBills
  <2>2. \A d \in Client : \A k : InFlight(d, k) => InFlight(d, k)'
    BY <1>1, <1>2 DEF InFlight
  <2>3. QED BY <1>1, <2>1, <2>2, NothingBilledTwice
<1>3. CASE ~Transactional
  <2>1. Bills(flush[t].into, Increment(c))
    BY <1>3, PrepareBills
  <2>2. \A k \in Call : ~InFlight(c, k)
    BY <1>1, NotInFlight
  <2>3. \A k \in Increment(c) : InFlight(c, k)'
    BY <1>1, <1>3 DEF InFlight, Increment
  <2>4. Increment(c) \subseteq recorded[c] \ checkpoint[c]
    BY DEF Increment
  <2>5. QED BY <1>1, <2>1, <2>2, <2>3, <2>4, BillIncrement
<1>4. QED BY <1>2, <1>3

LEMMA CommitBillsOnce ==
    ASSUME TypeOK, TypeOK', LocksInv, LedgerInv, LedgerInv', OnceInv, NEW t \in Thread,
           CommitJournal(t)
    PROVE  OnceInv'
<1> DEFINE c == ClientOf[t]
           calls == flush[t].current \ checkpoint[c]
<1>1. /\ flush[t].pc = "prepared" /\ UNCHANGED <<recorded, checkpoint, made>>
      /\ flush'[t].pc = "committed" /\ flush'[t].current = flush[t].current
      /\ \A u \in Thread \ {t} : flush'[u] = flush[u]
  BY DEF CommitJournal, MoveTo, TypeOK
<1>2. CASE Transactional
  <2>1. Bills(flush[t].into, calls)
    BY <1>2, CommitBills
  <2>2. \A k \in Call : ~InFlight(c, k)
    BY <1>1, <1>2, NotInFlight
  <2>3. \A k \in calls : InFlight(c, k)'
    BY <1>1 DEF InFlight
  <2>4. calls \subseteq recorded[c] \ checkpoint[c]
    BY <1>1 DEF LedgerInv, Stage
  <2>5. QED BY <1>1, <2>1, <2>2, <2>3, <2>4, BillIncrement
<1>3. CASE ~Transactional
  <2>1. BillsNothing
    BY <1>3, CommitBills
  <2>2. \A d \in Client : \A k : InFlight(d, k) => InFlight(d, k)'
    BY <1>1 DEF InFlight
  <2>3. QED BY <1>1, <2>1, <2>2, NothingBilledTwice
<1>4. QED BY <1>2, <1>3

\* Every other step of a flush leaves each account as it was.
LEMMA OthersBillNothing ==
    ASSUME TypeOK, LocksInv, LedgerInv, NEW t \in Thread, ThreadStep(t),
           ~Prepare(t), ~CommitJournal(t), ~CommitReplyLost(t)
    PROVE  BillsNothing
<1>1. StoreInv /\ Stage(t)
  BY DEF LedgerInv
<1>2. CASE durable' = durable
  BY <1>2 DEF BillsNothing
<1>3. CASE durable' = working /\ (NoPendingJournal(t) \/ FinishFlush(t))
  BY <1>1, <1>3 DEF BillsNothing, Stage, StateLockPcs, NoPendingJournal, FinishFlush
<1>4. CASE WriteLedger(t)
  <2>1. PICK l \in flush[t].todo : Write(Published(working, l))
                                   /\ (Book \in flush[t].todo => l = Book)
    BY <1>4 DEF WriteLedger
  <2>2. PICK next : next = Published(working, l)
    OBVIOUS
  <2>3. /\ l \in working.journal.of /\ SameAccounts(durable, working)
        /\ l = Book \/ working.ledger[Book] = working.journal.value[Book]
    BY <1>1, <1>4, <2>1 DEF WriteLedger, Stage, StateLockPcs, SameAccounts, StoreInv, WellFormed,
                            HasJournal
  <2>4. SameAccounts(working, next)
    BY <1>1, <2>2, <2>3, PublishKeepsAccounts DEF TypeOK, StoreInv
  <2>5. durable' \in {durable, next}
    BY <2>1, <2>2 DEF Write
  <2>6. QED BY <2>3, <2>4, <2>5 DEF SameAccounts, BillsNothing
<1>5. CASE UnlinkJournal(t)
  <2>1. PICK next : next = Unlinked(working)
    OBVIOUS
  <2>2. /\ \A m \in working.journal.of : working.ledger[m] = working.journal.value[m]
        /\ SameAccounts(durable, working)
    BY <1>1, <1>5 DEF UnlinkJournal, Stage, StateLockPcs, SameAccounts
  <2>3. SameAccounts(working, next)
    BY <1>1, <2>1, <2>2, UnlinkKeepsAccounts DEF TypeOK, StoreInv
  <2>4. durable' \in {durable, next}
    BY <1>5, <2>1 DEF UnlinkJournal, Write
  <2>5. QED BY <2>2, <2>3, <2>4 DEF SameAccounts, BillsNothing
<1>6. CASE NothingToBill(t)
  <2>1. PICK next : next = WithReview(working, flush[t].into)
    OBVIOUS
  <2>2. ~HasJournal(working) /\ SameAccounts(durable, working) /\ durable' = next
    BY <1>1, <1>6, <2>1 DEF NothingToBill, Stage, StateLockPcs, SameAccounts
  <2>3. \A l \in Ledgers : \A k \in Call :
           Effective(next, l).billed[k] = Effective(working, l).billed[k]
    BY <1>1, <2>1, <2>2, EmptyReviewBillsNothing DEF TypeOK, StoreInv
  <2>4. QED BY <2>2, <2>3 DEF SameAccounts, BillsNothing
<1>7. QED
  <2>1. CASE OpenRun(t) \/ BeginFlush(t) \/ TakeStateLock(t) \/ AdvanceCheckpoint(t)
    BY <1>2, <2>1 DEF OpenRun, BeginFlush, TakeStateLock, AdvanceCheckpoint, store
  <2>2. CASE NoPendingJournal(t) \/ FinishFlush(t)
    BY <1>2, <1>3, <2>2 DEF NoPendingJournal, Recovered, FinishFlush, Commit
  <2>3. CASE CheckJournal(t) \/ StorageFails(t)
    BY <1>2, <2>3 DEF CheckJournal, Raise, Rollback, StorageFails, store
  <2>4. QED BY <1>4, <1>5, <1>6, <2>1, <2>2, <2>3 DEF ThreadStep, FlushStep

\* Only the checkpoint takes a journaled call out of flight.
LEMMA OthersKeepFlight ==
    ASSUME TypeOK, LocksInv, LedgerInv, NEW t \in Thread, ThreadStep(t),
           ~CommitJournal(t), ~CommitReplyLost(t), ~Prepare(t)
    PROVE  /\ \A c \in Client : checkpoint[c] \subseteq checkpoint'[c]
           /\ \A c \in Client : \A k \in recorded[c] \ checkpoint'[c] :
                 InFlight(c, k) => InFlight(c, k)'
<1>1. \A u \in Thread \ {t} : flush'[u] = flush[u]
  BY OneThreadMoves
<1>2. CASE AdvanceCheckpoint(t)
  <2>1. /\ checkpoint' = [checkpoint EXCEPT ![ClientOf[t]] = flush[t].current]
        /\ checkpoint[ClientOf[t]] \subseteq flush[t].current
    BY <1>2 DEF AdvanceCheckpoint, LedgerInv, Stage
  <2>2. QED BY <1>1, <2>1, ClientTypes DEF InFlight, TypeOK
<1>3. CASE ~AdvanceCheckpoint(t)
  <2>1. UNCHANGED checkpoint
    BY <1>3, WhoWrites
  <2>2. flush[t].pc \notin {"committed"} \cup (IF Transactional THEN {} ELSE {"prepared"})
    <3>1. CASE OpenRun(t) \/ BeginFlush(t)
      BY <3>1 DEF OpenRun, BeginFlush, CoordinatorFree, Idle
    <3>2. CASE StorageFails(t)
      BY <3>2 DEF StorageFails
    <3>3. CASE FlushStep(t)
      BY <1>3, <3>3 DEF FlushStep, TakeStateLock, NoPendingJournal, CheckJournal, WriteLedger,
                        UnlinkJournal, NothingToBill, FinishFlush
    <3>4. QED BY <3>1, <3>2, <3>3 DEF ThreadStep
  <2>3. QED BY <1>1, <2>1, <2>2 DEF InFlight
<1>4. QED BY <1>2, <1>3

LEMMA OnceStep ==
    ASSUME ~LostReplies, TypeOK, TypeOK', LocksInv, LedgerInv, LedgerInv', OnceInv, [Next]_vars
    PROVE  OnceInv'
<1>1. CASE EndRun
  <2>1. durable' = durable /\ made' = made /\ \A c \in Client : recorded'[c] = {}
    BY <1>1 DEF EndRun, Rollback
  <2>2. QED BY <2>1 DEF OnceInv, BilledOnce
<1>2. ASSUME NEW c \in Client, NEW k \in Call, Record(c, k) PROVE OnceInv'
  <2>1. /\ UNCHANGED <<store, flush, checkpoint>> /\ k \notin made /\ made' = made \cup {k}
        /\ recorded'[c] = recorded[c] \cup {k}
        /\ \A d \in Client \ {c} : recorded'[d] = recorded[d]
    BY <1>2 DEF Record, TypeOK
  <2>2. Effective(durable, Book).billed[k] = 0
    BY <2>1 DEF OnceInv
  <2>3. \A d \in Client : \A j : InFlight(d, j)' = InFlight(d, j)
    BY <2>1 DEF InFlight
  <2>4. QED BY <2>1, <2>2, <2>3 DEF OnceInv, BilledOnce, store
<1>3. ASSUME NEW t \in Thread, ThreadStep(t) PROVE OnceInv'
  <2>1. CASE Prepare(t)
    BY <2>1, PrepareBillsOnce
  <2>2. CASE CommitJournal(t)
    BY <2>2, CommitBillsOnce
  <2>3. CASE ~Prepare(t) /\ ~CommitJournal(t)
    <3>1. ~CommitReplyLost(t)
      BY DEF CommitReplyLost
    <3>2. QED BY <1>3, <2>3, <3>1, OthersBillNothing, OthersKeepFlight, WhoWrites, NothingBilledTwice
  <2>4. QED BY <2>1, <2>2, <2>3
<1>4. CASE UNCHANGED vars
  BY <1>4 DEF vars, store, OnceInv, BilledOnce, InFlight
<1>5. QED BY <1>1, <1>2, <1>3, <1>4 DEF Next, ThreadStep

\* Whatever no checkpoint and no journal covers is in no ledger.
THEOREM OnceCorrect ==
    ASSUME ~LostReplies
    PROVE  Spec => []OnceInv
<1>1. Init => OnceInv
  <2> SUFFICES ASSUME Init PROVE OnceInv
    OBVIOUS
  <2>1. \A l \in Ledgers : \A k \in Call : Effective(durable, l).billed[k] = 0
    BY DEF Init, EmptyStore, Effective, NoJournal, Missing, Zero
  <2>2. QED BY <2>1, BookIsLedger DEF OnceInv, BilledOnce, Init
<1>2. TypeOK /\ TypeOK' /\ LocksInv /\ LedgerInv /\ LedgerInv' /\ OnceInv /\ [Next]_vars => OnceInv'
  BY OnceStep
<1>3. QED BY <1>1, <1>2, TypeCorrect, LocksCorrect, LedgerCorrect, PTL DEF Spec

\* As long as a COMMIT that takes effect is reported, no call is ever billed
\* twice, in the book or in a Review: not by a retry, not by two coordinators,
\* not by the recovery of a crashed invocation.
THEOREM BillsOnce ==
    ASSUME ~LostReplies
    PROVE  Spec => []BilledOnce
<1>1. OnceInv => BilledOnce
  BY DEF OnceInv
<1>2. QED BY <1>1, OnceCorrect, PTL

-----------------------------------------------------------------------------
(* The abstract accounts.                                                   *)

accounts == [l \in Ledgers |-> Effective(durable, l).billed]

\* Calls nobody has journaled, added to the ledgers of one flush, are one Bill.
LEMMA BillsOneIncrement ==
    ASSUME TypeOK, LedgerInv, OnceInv, NEW t \in Thread, NEW calls,
           calls \subseteq recorded[ClientOf[t]] \ checkpoint[ClientOf[t]],
           \A k \in Call : ~InFlight(ClientOf[t], k),
           TypeOK', Bills(flush[t].into, calls)
    PROVE  Accounts!Next \/ accounts' = accounts
<1> DEFINE into == flush[t].into
<1>1. calls \in SUBSET Call /\ into \in Targets /\ ClientOf[t] \in Client
  BY ClientTypes
<1>2. \A k \in calls : \A l \in Ledgers : Effective(durable, l).billed[k] = 0
  BY <1>1, UnjournaledIsUnbilled
<1>3. \A l \in Ledgers : /\ Effective(durable, l).billed \in [Call -> Nat]
                         /\ Effective(durable', l).billed \in [Call -> Nat]
  BY StoreTypes DEF TypeOK, Contents
<1>4. ASSUME NEW l \in Ledgers
      PROVE  accounts'[l] = IF l \in into
                THEN [k \in Call |-> IF k \in calls THEN 1 ELSE accounts[l][k]]
                ELSE accounts[l]
  <2>1. accounts'[l] = Effective(durable', l).billed /\ accounts[l] = Effective(durable, l).billed
    BY DEF accounts
  <2>2. \A k \in Call : accounts'[l][k] =
           IF l \in into /\ k \in calls THEN 1 ELSE accounts[l][k]
    BY <1>2, <2>1 DEF Bills
  <2>3. accounts'[l] \in [Call -> Nat] /\ accounts[l] \in [Call -> Nat]
    BY <1>3, <2>1
  <2>4. CASE l \in into
    BY <2>2, <2>3, <2>4
  <2>5. CASE l \notin into
    BY <2>2, <2>3, <2>5
  <2>6. QED BY <2>4, <2>5
<1>5. CASE calls = {}
  <2>1. \A l \in Ledgers : accounts'[l] = accounts[l]
    <3> SUFFICES ASSUME NEW l \in Ledgers PROVE accounts'[l] = accounts[l]
      OBVIOUS
    <3>1. accounts[l] \in [Call -> Nat]
      BY <1>3 DEF accounts
    <3>2. QED BY <1>4, <1>5, <3>1
  <2>2. QED BY <2>1 DEF accounts
<1>6. CASE calls # {}
  <2>1. \A k \in calls : \A l \in Ledgers : accounts[l][k] = 0
    BY <1>2 DEF accounts
  <2>2. accounts' = [l \in Ledgers |->
           IF l \in into THEN [k \in Call |-> IF k \in calls THEN 1 ELSE accounts[l][k]]
                         ELSE accounts[l]]
    BY <1>4 DEF accounts
  <2>3. Accounts!Bill(calls, into)
    BY <1>6, <2>1, <2>2 DEF Accounts!Bill, Accounts!Unbilled, accounts
  <2>4. QED BY <1>1, <2>3 DEF Accounts!Next
<1>7. QED BY <1>5, <1>6

\* Every step is one Bill, or none.
LEMMA AccountsStep ==
    ASSUME ~LostReplies, TypeOK, TypeOK', LocksInv, LedgerInv, OnceInv, [Next]_vars
    PROVE  Accounts!Next \/ accounts' = accounts
<1>1. CASE BillsNothing
  <2>1. \A l \in Ledgers : /\ Effective(durable, l).billed \in [Call -> Nat]
                           /\ Effective(durable', l).billed \in [Call -> Nat]
    BY StoreTypes DEF TypeOK, Contents
  <2>2. \A l \in Ledgers : Effective(durable', l).billed = Effective(durable, l).billed
    BY <1>1, <2>1 DEF BillsNothing
  <2>3. QED BY <2>2 DEF accounts
<1>2. CASE EndRun \/ UNCHANGED vars \/ \E c \in Client, k \in Call : Record(c, k)
  BY <1>1, <1>2 DEF EndRun, Rollback, Record, vars, store, BillsNothing
<1>3. ASSUME NEW t \in Thread, ThreadStep(t) PROVE Accounts!Next \/ accounts' = accounts
  <2>1. CASE Prepare(t) /\ ~Transactional
    <3>1. Bills(flush[t].into, Increment(ClientOf[t]))
      BY <2>1, PrepareBills
    <3>2. \A k \in Call : ~InFlight(ClientOf[t], k)
      BY <2>1, NotInFlight DEF Prepare
    <3>3. Increment(ClientOf[t]) \subseteq recorded[ClientOf[t]] \ checkpoint[ClientOf[t]]
      BY DEF Increment
    <3>4. QED BY <3>1, <3>2, <3>3, BillsOneIncrement
  <2>2. CASE CommitJournal(t) /\ Transactional
    <3>1. Bills(flush[t].into, flush[t].current \ checkpoint[ClientOf[t]])
      BY <2>2, CommitBills
    <3>2. \A k \in Call : ~InFlight(ClientOf[t], k)
      BY <2>2, NotInFlight DEF CommitJournal
    <3>3. flush[t].current \ checkpoint[ClientOf[t]]
             \subseteq recorded[ClientOf[t]] \ checkpoint[ClientOf[t]]
      BY <2>2 DEF CommitJournal, LedgerInv, Stage
    <3>4. QED BY <3>1, <3>2, <3>3, BillsOneIncrement
  <2>3. CASE ~(Prepare(t) /\ ~Transactional) /\ ~(CommitJournal(t) /\ Transactional)
    <3>1. ~CommitReplyLost(t)
      BY DEF CommitReplyLost
    <3>2. BillsNothing
      BY <1>3, <2>3, <3>1, PrepareBills, CommitBills, OthersBillNothing
    <3>3. QED BY <1>1, <3>2
  <2>4. QED BY <2>1, <2>2, <2>3
<1>4. QED BY <1>2, <1>3 DEF Next, ThreadStep

\* All the stages of a flush and every recovery come to one addition to the
\* book and to at most one Review, done once.
THEOREM ImplementsBook ==
    ASSUME ~LostReplies
    PROVE  Spec => ImplementsUsageBook
<1>1. Init => Accounts!Init
  <2> SUFFICES ASSUME Init PROVE Accounts!Init
    OBVIOUS
  <2>1. \A l \in Ledgers : Effective(durable, l).billed = [k \in Call |-> 0]
    BY DEF Init, EmptyStore, Effective, NoJournal, Missing, Zero
  <2>2. QED BY <2>1 DEF Accounts!Init
<1>2. TypeOK /\ TypeOK' /\ LocksInv /\ LedgerInv /\ OnceInv /\ [Next]_vars
         => [Accounts!Next]_accounts
  BY AccountsStep
<1>3. QED
  BY <1>1, <1>2, TypeCorrect, LocksCorrect, LedgerCorrect, OnceCorrect, PTL
     DEF Spec, ImplementsUsageBook, Accounts!Spec, accounts

-----------------------------------------------------------------------------
(* Totals never shrink.                                                     *)

AtMost(s, s2) == \A l \in Ledgers : \A k \in Call : s.ledger[l].billed[k] <= s2.ledger[l].billed[k]

\* A transaction never holds less than what it would roll back to.
Ascends == AtMost(durable, working)

LEMMA AtMostIsTransitive ==
    ASSUME NEW s1 \in Stores, NEW s2 \in Stores, NEW s3 \in Stores, AtMost(s1, s2), AtMost(s2, s3)
    PROVE  AtMost(s1, s3)
<1> SUFFICES ASSUME NEW l \in Ledgers, NEW k \in Call
             PROVE  s1.ledger[l].billed[k] <= s3.ledger[l].billed[k]
  BY DEF AtMost
<1>1. /\ s1.ledger[l].billed[k] \in Nat /\ s2.ledger[l].billed[k] \in Nat
      /\ s3.ledger[l].billed[k] \in Nat
  BY StoreTypes, BilledType
<1>2. QED BY <1>1 DEF AtMost

LEMMA AtMostItself ==
    ASSUME NEW s \in Stores
    PROVE  AtMost(s, s)
BY StoreTypes, BilledType DEF AtMost

\* A write, an end of transaction, or neither.
LEMMA WriteAscends ==
    ASSUME TypeOK, Ascends, NEW next \in Stores, AtMost(working, next),
           working' = next, durable' \in {durable, next}
    PROVE  Ascends' /\ AtMost(durable, durable')
BY AtMostIsTransitive, AtMostItself DEF Ascends, TypeOK

LEMMA EndAscends ==
    ASSUME TypeOK, Ascends, Commit \/ Rollback \/ UNCHANGED store
    PROVE  Ascends' /\ AtMost(durable, durable')
BY AtMostItself DEF Ascends, TypeOK, Commit, Rollback, store

LEMMA AscendStep ==
    ASSUME TypeOK, TypeOK', LedgerInv, Ascends, [Next]_vars
    PROVE  Ascends' /\ AtMost(durable, durable')
<1>1. CASE EndRun \/ UNCHANGED vars \/ \E c \in Client, k \in Call : Record(c, k)
  BY <1>1, EndAscends DEF EndRun, Record, vars
<1>2. ASSUME NEW t \in Thread, ThreadStep(t) PROVE Ascends' /\ AtMost(durable, durable')
  <2>1. StoreInv /\ Stage(t) /\ working \in Stores /\ working' \in Stores
    BY DEF LedgerInv, TypeOK
  <2>2. CASE WriteLedger(t)
    <3>1. PICK l \in flush[t].todo : Write(Published(working, l))
                                     /\ (Book \in flush[t].todo => l = Book)
      BY <2>2 DEF WriteLedger
    <3>2. PICK next : next = Published(working, l)
      OBVIOUS
    <3>3. l \in working.journal.of
          /\ (l = Book \/ working.ledger[Book] = working.journal.value[Book])
      BY <2>1, <2>2, <3>1 DEF WriteLedger, Stage, StoreInv, WellFormed, HasJournal
    <3>4. AtMost(working, next)
      BY <2>1, <3>2, <3>3, PublishKeepsAccounts DEF StoreInv, AtMost
    <3>5. working' = next /\ durable' \in {durable, next}
      BY <3>1, <3>2 DEF Write
    <3>6. QED BY <2>1, <3>4, <3>5, WriteAscends
  <2>3. CASE UnlinkJournal(t) \/ Prepare(t)
    <3>1. working'.ledger = working.ledger /\ durable' \in {durable, working'}
      BY <2>3 DEF UnlinkJournal, Prepare, Write, Unlinked, Journaled
    <3>2. AtMost(working, working')
      BY <2>1, <3>1, AtMostItself DEF AtMost
    <3>3. QED BY <2>1, <3>1, <3>2, WriteAscends
  <2>4. CASE NothingToBill(t)
    <3>1. PICK next : next = WithReview(working, flush[t].into)
      OBVIOUS
    <3>2. working' = next /\ durable' = next /\ ~HasJournal(working)
      BY <2>1, <2>4, <3>1 DEF NothingToBill, Stage
    <3>3. AtMost(working, next)
      <4>1. \A l \in Ledgers : \A k \in Call :
               /\ next.ledger[l].billed[k] = working.ledger[l].billed[k]
               /\ working.ledger[l].billed[k] \in Nat
        BY <2>1, <3>1, <3>2, EmptyReviewBillsNothing, StoreTypes, BilledType DEF StoreInv
      <4>2. QED BY <4>1 DEF AtMost
    <3>4. QED BY <2>1, <3>2, <3>3, WriteAscends
  <2>5. CASE ~WriteLedger(t) /\ ~UnlinkJournal(t) /\ ~Prepare(t) /\ ~NothingToBill(t)
    <3>1. Commit \/ Rollback \/ UNCHANGED store
      BY <1>2, <2>5 DEF ThreadStep, FlushStep, OpenRun, BeginFlush, TakeStateLock,
         NoPendingJournal, Recovered, CheckJournal, Raise, CommitJournal, AdvanceCheckpoint,
         FinishFlush, StorageFails, CommitReplyLost, Commit, Rollback, store
    <3>2. QED BY <3>1, EndAscends
  <2>6. QED BY <2>2, <2>3, <2>4, <2>5
<1>3. QED BY <1>1, <1>2 DEF Next, ThreadStep

\* What a ledger on disk says of a call is never taken back, whatever fails.
THEOREM TotalsOnlyGrow == Spec => TotalsNeverShrink
<1>1. Init => Ascends
  BY EmptyTypes, AtMostItself DEF Init, Ascends
<1>2. TypeOK /\ TypeOK' /\ LedgerInv /\ Ascends /\ [Next]_vars => Ascends' /\ AtMost(durable, durable')
  BY AscendStep
<1>3. AtMost(durable, durable') =>
         [\A l \in Ledgers : \A k \in Call :
             durable.ledger[l].billed[k] <= durable'.ledger[l].billed[k]]_vars
  BY DEF AtMost
<1>4. QED BY <1>1, <1>2, <1>3, TypeCorrect, LedgerCorrect, PTL DEF Spec, TotalsNeverShrink

-----------------------------------------------------------------------------
(* What a flush that returns has done.                                      *)

\* In the store of one that is about to return, no journal stands between the
\* book and the calls its client will not bill again.
LEMMA BookIsPublished ==
    ASSUME TypeOK, LedgerInv, NEW t \in Thread, flush[t].pc \in {"merging", "logging"},
           NEW k \in checkpoint[ClientOf[t]]
    PROVE  working.ledger[Book].billed[k] >= 1
<1>1. ClientOf[t] \in Client /\ Book \in Ledgers
  BY UsageAssumption, BookIsLedger
<1>2. Effective(durable, Book).billed[k] >= 1
  BY <1>1 DEF LedgerInv, CheckpointIsDurable
<1>3. ~HasJournal(working) /\ Effective(working, Book) = Effective(durable, Book)
  BY <1>1 DEF LedgerInv, Stage, StateLockPcs
<1>4. QED BY <1>2, <1>3 DEF HasJournal, Effective

\* A flush returns with its client's calls in the book that is read, whatever
\* other clients, recoveries and failures did between its two transactions.
THEOREM FlushesPublish == Spec => ReturnsPublished
<1> DEFINE Settles(t) == (FinishFlush(t) \/ NothingToBill(t)) =>
       \A k \in checkpoint'[ClientOf[t]] : durable'.ledger[Book].billed[k] >= 1
<1>1. ASSUME TypeOK, LedgerInv, NEW t \in Thread PROVE Settles(t)
  <2> SUFFICES ASSUME FinishFlush(t) \/ NothingToBill(t), NEW k \in checkpoint'[ClientOf[t]]
               PROVE  durable'.ledger[Book].billed[k] >= 1
    OBVIOUS
  <2>1. flush[t].pc \in {"merging", "logging"} /\ k \in checkpoint[ClientOf[t]]
    BY DEF FinishFlush, NothingToBill
  <2>2. working.ledger[Book].billed[k] >= 1
    BY <1>1, <2>1, BookIsPublished
  <2>3. CASE FinishFlush(t)
    BY <2>2, <2>3 DEF FinishFlush, Commit
  <2>4. CASE NothingToBill(t)
    <3>1. working \in Stores /\ WellFormed(working) /\ ~HasJournal(working)
      BY <1>1, <2>4 DEF NothingToBill, TypeOK, LedgerInv, StoreInv, Stage
    <3>2. PICK next : next = WithReview(working, flush[t].into)
      OBVIOUS
    <3>3. durable' = next
      BY <2>4, <3>2 DEF NothingToBill
    <3>4. k \in Call
      BY <1>1, <2>1, UsageAssumption DEF TypeOK
    <3>5. next.ledger[Book].billed[k] = working.ledger[Book].billed[k]
      BY <3>1, <3>2, <3>4, EmptyReviewBillsNothing, BookIsLedger
    <3>6. QED BY <2>2, <3>3, <3>5
  <2>5. QED BY <2>3, <2>4
<1>2. TypeOK /\ LedgerInv => [\A t \in Thread : Settles(t)]_vars
  BY <1>1
<1>3. QED BY <1>2, TypeCorrect, LedgerCorrect, PTL DEF ReturnsPublished

-----------------------------------------------------------------------------
(* The directory of a book.                                                *)

PreparationPcs == {"idle", "begin", "discard", "marker", "parse", "detect", "contexts", "chapters",
                   "analyze", "cache", "journal", "publish", "analysis", "manifest", "finish"}
RemainNames == {"recover", "journal", "usage", "events"} \cup DerivedFiles
Preparations ==
    [pc : PreparationPcs, source : BookSources, parsed : BOOLEAN, todo : Seq(RemainNames),
     unbilled : Nat, next : {"idle", "analysis"}]

PreparationTyped ==
    /\ PreparationTypeOK
    /\ initWork \in Preparations \cup {IdlePreparation}

\* The source whose directory it is.
Owner == IF initMarker # NoSource THEN initMarker ELSE initManifest

\* The directory holds nothing of anybody else, whichever of its two totals is read.
OneOwner ==
    /\ initMarker # NoSource /\ initManifest # NoSource => initMarker = initManifest
    /\ \A f \in DerivedFiles : initFiles[f] \in {Owner, NoSource}
    /\ initEvents \subseteq {Owner}
    /\ \A s \in BookSources \ {Owner} : initUsage[s] = 0 /\ Durable[s] = 0
    /\ initManifest # NoSource => \A f \in DerivedFiles : initFiles[f] = initManifest

\* What has been removed already, for the source the preparation is of.
Cleared ==
    LET todo == Range(initWork.todo) IN
    /\ IF initMarker = Prepared THEN {"journal", "usage"} \cap todo = {} ELSE "recover" \notin todo
    /\ \A f \in DerivedFiles \ todo : initFiles[f] = NoSource
    /\ initMarker # Prepared =>
          /\ "events" \notin todo => initEvents = {}
          /\ "journal" \notin todo => initJournal = NoPending
          /\ "usage" \notin todo => initUsage = NoCalls

Continues == initWork.pc \in {"journal", "publish"} /\ initWork.next = "analysis"

\* What a preparation has achieved where it stands.
StageReached ==
    /\ initWork.pc \in {"begin", "parse", "discard", "marker"} => initManifest = NoSource
    /\ initWork.pc \in {"discard", "marker"} => Cleared
    /\ initWork.pc = "marker" => initWork.todo = << >>
    /\ initWork.pc = "finish" => initMarker = Prepared /\ initManifest = Prepared
    /\ initWork.pc \in {"journal", "publish"} => Owner = Prepared
    /\ Continues => initMarker = Prepared /\ initManifest = NoSource
    /\ Continues \/ initWork.pc \in {"chapters", "analyze", "cache", "analysis", "manifest"} =>
          initFiles["contexts"] = Prepared
    /\ Continues \/ initWork.pc \in {"analyze", "cache", "analysis", "manifest"} =>
          initFiles["chapters"] = Prepared
    /\ initWork.pc = "manifest" => initFiles["analysis"] = Prepared

\* A call is billed from the moment it is made until it is in the totals.
Unbilled(s) == IF Preparing /\ Prepared = s THEN initWork.unbilled ELSE 0
BilledInv ==
    \A s \in BookSources : initUsage[s] <= Durable[s] /\ Durable[s] + Unbilled(s) <= initSpent[s]

PreparationInv == PreparationTyped /\ OneOwner /\ StageReached /\ BilledInv


\* A journal is told from none.
LEMMA JournalIsSomething ==
    \A totals \in [BookSources -> Nat], s \in BookSources : totals # NoPending
<1> SUFFICES ASSUME NEW totals \in [BookSources -> Nat], NEW s \in BookSources
             PROVE  totals # NoPending
  OBVIOUS
<1>1. s \in DOMAIN totals
  OBVIOUS
<1>2. DOMAIN NoPending = {}
  BY DEF NoPending
<1>3. QED BY <1>1, <1>2

LEMMA DurableType == PreparationTypeOK => Durable \in [BookSources -> Nat]
BY DEF PreparationTypeOK, Durable

LEMMA AtWork ==
    ASSUME PreparationTyped, Preparing
    PROVE  initWork \in Preparations /\ Prepared \in BookSources
BY DEF PreparationTyped, Preparing, Prepared, IdlePreparation, Preparations

\* A removal leaves the rest of the list.
LEMMA RestOfList ==
    ASSUME NEW S, NEW todo \in Seq(S), todo # << >>
    PROVE  /\ Head(todo) \in S /\ Tail(todo) \in Seq(S)
           /\ Range(todo) = Range(Tail(todo)) \cup {Head(todo)}
<1>1. /\ Len(todo) \in Nat /\ Len(todo) >= 1
      /\ Head(todo) = todo[1] /\ DOMAIN todo = 1..Len(todo)
  OBVIOUS
<1>2. /\ Tail(todo) \in Seq(S) /\ DOMAIN Tail(todo) = 1..(Len(todo) - 1)
      /\ \A n \in 1..(Len(todo) - 1) : Tail(todo)[n] = todo[n + 1]
  OBVIOUS
<1>3. \A n \in 1..Len(todo) : n = 1 \/ (n - 1 \in 1..(Len(todo) - 1) /\ Tail(todo)[n - 1] = todo[n])
  BY <1>1, <1>2
<1>4. \A n \in 1..(Len(todo) - 1) : n + 1 \in 1..Len(todo) /\ Tail(todo)[n] = todo[n + 1]
  BY <1>1, <1>2
<1>5. ASSUME NEW e \in Range(todo) PROVE e \in Range(Tail(todo)) \cup {Head(todo)}
  <2>1. PICK n \in 1..Len(todo) : e = todo[n]
    BY <1>1 DEF Range
  <2>2. CASE n = 1
    BY <1>1, <2>1, <2>2
  <2>3. CASE n # 1
    BY <1>2, <1>3, <2>1, <2>3 DEF Range
  <2>4. QED BY <2>2, <2>3
<1>6. ASSUME NEW e \in Range(Tail(todo)) \cup {Head(todo)} PROVE e \in Range(todo)
  <2>1. CASE e = Head(todo)
    <3>1. 1 \in DOMAIN todo
      BY <1>1
    <3>2. QED BY <1>1, <2>1, <3>1 DEF Range
  <2>2. CASE e \in Range(Tail(todo))
    <3>1. PICK n \in 1..(Len(todo) - 1) : e = Tail(todo)[n]
      BY <1>2, <2>2 DEF Range
    <3>2. QED BY <1>1, <1>4, <3>1 DEF Range
  <2>3. QED BY <2>1, <2>2
<1>7. QED BY <1>1, <1>2, <1>5, <1>6

LEMMA ListOfRemains ==
    /\ Remains \in Seq(RemainNames)
    /\ DerivedFiles \subseteq Range(Remains)
    /\ initMarker # Prepared =>
          {"journal", "usage", "events"} \subseteq Range(Remains) /\ "recover" \notin Range(Remains)
    /\ initMarker = Prepared => {"journal", "usage"} \cap Range(Remains) = {}
<1>1. CASE initMarker = Prepared
  <2>1. Remains = <<"recover", "chapters", "analysis", "contexts">>
    BY <1>1 DEF Remains
  <2>2. Remains \in Seq(RemainNames)
    BY <2>1 DEF RemainNames, DerivedFiles
  <2>3. /\ DOMAIN Remains = 1..4 /\ Remains[1] = "recover" /\ Remains[2] = "chapters"
        /\ Remains[3] = "analysis" /\ Remains[4] = "contexts"
    BY <2>1
  <2>4. QED BY <1>1, <2>2, <2>3 DEF Range, DerivedFiles
<1>2. CASE initMarker # Prepared
  <2>1. Remains = <<"journal", "usage", "chapters", "analysis", "contexts", "events">>
    BY <1>2 DEF Remains
  <2>2. Remains \in Seq(RemainNames)
    BY <2>1 DEF RemainNames, DerivedFiles
  <2>3. /\ DOMAIN Remains = 1..6 /\ Remains[1] = "journal" /\ Remains[2] = "usage"
        /\ Remains[3] = "chapters" /\ Remains[4] = "analysis" /\ Remains[5] = "contexts"
        /\ Remains[6] = "events"
    BY <2>1
  <2>4. QED BY <1>2, <2>2, <2>3 DEF Range, DerivedFiles
<1>3. QED BY <1>1, <1>2

directory == <<initMarker, initManifest, initFiles, initEvents, initCached, initLedger, initSpent>>

\* The directory is somebody's as long as nobody touches it.
LEMMA UntouchedStaysOwned ==
    ASSUME OneOwner, UNCHANGED directory
    PROVE  OneOwner'
BY DEF directory, initLedger, OneOwner, Owner, Durable

\* What a preparation has to begin with.
LEMMA StartStep ==
    ASSUME PreparationInv, NEW s \in BookSources, StartPreparation(s)
    PROVE  PreparationInv'
<1> USE DEF PreparationInv, StartPreparation, initLedger
<1>1. OneOwner'
  BY UntouchedStaysOwned DEF directory
<1>2. initWork' \in Preparations /\ initWork'.pc \in {"begin", "parse"} /\ initWork'.unbilled = 0
  BY DEF Preparations, PreparationPcs
<1>3. PreparationTyped'
  BY <1>2 DEF PreparationTyped, PreparationTypeOK
<1>4. StageReached'
  BY <1>2 DEF StageReached, Continues
<1>5. BilledInv'
  <2>1. \A q \in BookSources : Unbilled(q) \in Nat /\ Unbilled(q)' = 0
    BY <1>2 DEF Unbilled, Preparing
  <2>2. \A q \in BookSources : Unbilled(q) = 0
    BY DEF Unbilled
  <2>3. QED BY <2>1, <2>2 DEF BilledInv, Durable
<1>6. QED BY <1>1, <1>3, <1>4, <1>5


LEMMA BeginStep ==
    ASSUME PreparationInv, ParseBook \/ BeginInitialization
    PROVE  PreparationInv'
<1> USE DEF PreparationInv, initLedger
<1>1. initWork \in Preparations /\ Prepared \in BookSources
      /\ initWork.pc \in {"parse", "begin"} /\ initManifest = NoSource
  BY AtWork DEF ParseBook, BeginInitialization, Preparing, StageReached
<1>2. UNCHANGED directory /\ UNCHANGED initFailures
  BY DEF ParseBook, BeginInitialization, directory
<1>3. OneOwner'
  BY <1>2, UntouchedStaysOwned
<1>4. /\ initWork' \in Preparations /\ initWork'.source = initWork.source
      /\ initWork'.unbilled = initWork.unbilled
      /\ \/ initWork'.pc = "begin"
         \/ initWork'.pc = "discard" /\ initWork'.todo = Remains
  BY <1>1, ListOfRemains DEF ParseBook, BeginInitialization, Preparations, PreparationPcs
<1>5. PreparationTyped'
  BY <1>2, <1>4 DEF PreparationTyped, PreparationTypeOK, directory
<1>6. StageReached'
  <2>1. initWork'.pc = "discard" => Cleared'
    BY <1>2, <1>4, ListOfRemains DEF Cleared, directory, Prepared
  <2>2. QED BY <1>1, <1>2, <1>4, <2>1 DEF StageReached, Continues, directory
<1>7. BilledInv'
  BY <1>1, <1>2, <1>4 DEF BilledInv, Unbilled, Preparing, Prepared, Durable, directory
<1>8. QED BY <1>3, <1>5, <1>6, <1>7

\* What a removal, or the recovery, leaves of the totals of each source.
LEMMA TotalsAfterRemoval ==
    ASSUME PreparationInv, DiscardRemains, initWork.todo # << >>, NEW s \in BookSources
    PROVE  /\ initUsage'[s] \in {initUsage[s], Durable[s], 0}
           /\ Durable'[s] \in {initUsage[s], Durable[s], 0}
           /\ initUsage'[s] <= Durable'[s]
           /\ Head(initWork.todo) \notin {"journal", "usage"} => Durable'[s] = Durable[s]
<1> DEFINE file == Head(initWork.todo)
<1>1. /\ initUsage \in [BookSources -> Nat] /\ Durable \in [BookSources -> Nat]
      /\ initUsage[s] <= Durable[s] /\ NoCalls[s] = 0
      /\ initUsage[s] \in Nat /\ Durable[s] \in Nat
  BY DurableType DEF PreparationInv, PreparationTyped, PreparationTypeOK, BilledInv, NoCalls
<1>2. /\ initJournal' = IF file \in {"journal", "recover"} THEN NoPending ELSE initJournal
      /\ initUsage' = IF file = "recover" THEN Durable
                      ELSE IF file = "usage" THEN NoCalls ELSE initUsage
  BY DEF DiscardRemains
<1>3. CASE file = "recover"
  <2>1. initUsage' = Durable /\ Durable' = Durable
    BY <1>2, <1>3 DEF Durable
  <2>2. QED BY <1>1, <1>3, <2>1
<1>4. CASE file = "journal"
  <2>1. initUsage' = initUsage /\ Durable' = initUsage
    BY <1>2, <1>4 DEF Durable
  <2>2. QED BY <1>1, <1>4, <2>1
<1>5. CASE file = "usage"
  <2>1. initUsage' = NoCalls /\ Durable' \in {Durable, NoCalls}
    BY <1>2, <1>5 DEF Durable
  <2>2. QED BY <1>1, <1>5, <2>1
<1>6. CASE file \notin {"recover", "journal", "usage"}
  <2>1. initUsage' = initUsage /\ Durable' = Durable
    BY <1>2, <1>6 DEF Durable
  <2>2. QED BY <1>1, <1>6, <2>1
<1>7. QED BY <1>3, <1>4, <1>5, <1>6

\* One more of what another source has left is gone, and nothing is anybody else's.
LEMMA DiscardStep ==
    ASSUME PreparationInv, DiscardRemains
    PROVE  PreparationInv'
<1> USE DEF PreparationInv
<1>1. initWork \in Preparations /\ Prepared \in BookSources /\ initWork.pc = "discard"
      /\ initManifest = NoSource /\ Cleared
  BY AtWork DEF DiscardRemains, Preparing, StageReached
<1>2. UNCHANGED <<initMarker, initManifest, initCached, initSpent, initFailures>>
  BY DEF DiscardRemains
<1>3. CASE initWork.todo = << >>
  <2>1. UNCHANGED directory
    BY <1>3 DEF DiscardRemains, directory, initLedger
  <2>2. OneOwner'
    BY <2>1, UntouchedStaysOwned
  <2>3. /\ initWork' \in Preparations /\ initWork'.pc = "marker"
        /\ initWork'.source = initWork.source /\ initWork'.todo = initWork.todo
        /\ initWork'.unbilled = initWork.unbilled
    BY <1>1, <1>3 DEF DiscardRemains, PreparationGoes, Preparations, PreparationPcs
  <2>4. PreparationTyped'
    BY <1>2, <2>1, <2>3 DEF PreparationTyped, PreparationTypeOK, directory, initLedger
  <2>5. StageReached'
    BY <1>1, <1>3, <2>1, <2>3
       DEF StageReached, Continues, Cleared, Prepared, directory, initLedger
  <2>6. BilledInv'
    BY <1>1, <2>1, <2>3 DEF BilledInv, Unbilled, Preparing, Prepared, Durable, directory, initLedger
  <2>7. QED BY <2>2, <2>4, <2>5, <2>6
<1>4. CASE initWork.todo # << >>
  <2> DEFINE todo == initWork.todo
             file == Head(todo)
  <2>1. /\ initWork' \in Preparations /\ initWork'.pc = "discard"
        /\ initWork'.source = initWork.source /\ initWork'.todo = Tail(todo)
        /\ initWork'.unbilled = initWork.unbilled
    <3>1. Tail(todo) \in Seq(RemainNames)
      BY <1>1, <1>4, RestOfList DEF Preparations
    <3>2. initWork' = [initWork EXCEPT !.todo = Tail(todo)]
      BY <1>4 DEF DiscardRemains
    <3>3. QED BY <1>1, <3>1, <3>2 DEF Preparations
  <2>2. Range(todo) = Range(Tail(todo)) \cup {file}
    BY <1>1, <1>4, RestOfList DEF Preparations
  <2>3. /\ initFiles' = [f \in DerivedFiles |-> IF f = file THEN NoSource ELSE initFiles[f]]
        /\ initEvents' = IF file = "events" THEN {} ELSE initEvents
        /\ initJournal' = IF file \in {"journal", "recover"} THEN NoPending ELSE initJournal
        /\ initUsage' = IF file = "recover" THEN Durable
                        ELSE IF file = "usage" THEN NoCalls ELSE initUsage
    BY <1>4 DEF DiscardRemains
  <2>4. \A s \in BookSources :
           /\ initUsage'[s] \in {initUsage[s], Durable[s], 0}
           /\ Durable'[s] \in {initUsage[s], Durable[s], 0}
           /\ initUsage'[s] <= Durable'[s]
    BY <1>4, TotalsAfterRemoval
  <2>5. \A s \in BookSources :
           /\ initUsage[s] \in Nat /\ Durable[s] \in Nat /\ initSpent[s] \in Nat
           /\ initUsage[s] <= Durable[s] /\ Durable[s] + Unbilled(s) <= initSpent[s]
           /\ Unbilled(s) \in Nat
    BY <1>1, DurableType
       DEF PreparationTyped, PreparationTypeOK, BilledInv, Unbilled, Preparations
  <2>6. PreparationTyped'
    <3>1. NoCalls \in [BookSources -> Nat] /\ Durable \in [BookSources -> Nat]
      BY DurableType DEF PreparationTyped, NoCalls
    <3>2. QED BY <1>2, <2>1, <2>3, <3>1 DEF PreparationTyped, PreparationTypeOK
  <2>7. OneOwner'
    <3>1. Owner' = Owner /\ initManifest' = NoSource
      BY <1>1, <1>2 DEF Owner
    <3>2. \A s \in BookSources \ {Owner} : initUsage'[s] = 0 /\ Durable'[s] = 0
      BY <2>4 DEF OneOwner
    <3>3. QED BY <2>3, <3>1, <3>2 DEF OneOwner
  <2>8. StageReached'
    <3>1. Cleared'
      BY <1>1, <1>2, <2>1, <2>2, <2>3 DEF Cleared, Prepared
    <3>2. QED BY <1>1, <1>2, <2>1, <3>1 DEF StageReached, Continues
  <2>9. BilledInv'
    <3>1. \A s \in BookSources : Unbilled(s)' = Unbilled(s)
      BY <1>1, <2>1 DEF Unbilled, Preparing, Prepared
    <3>2. QED BY <1>2, <2>4, <2>5, <3>1 DEF BilledInv
  <2>10. QED BY <2>6, <2>7, <2>8, <2>9
<1>5. QED BY <1>3, <1>4

\* The marker names the source when nothing of another one is left.
LEMMA MarkStep ==
    ASSUME PreparationInv, MarkSource
    PROVE  PreparationInv'
<1> USE DEF PreparationInv
<1>1. /\ initWork \in Preparations /\ Prepared \in BookSources /\ initWork.pc = "marker"
      /\ initManifest = NoSource /\ Cleared /\ initWork.todo = << >>
  BY AtWork DEF MarkSource, Preparing, StageReached
<1>2. /\ UNCHANGED <<initManifest, initFiles, initEvents, initCached, initUsage, initJournal,
                     initSpent, initFailures>>
      /\ initMarker' = Prepared
  BY DEF MarkSource, initLedger
<1>3. /\ initWork' \in Preparations /\ initWork'.pc \in {"detect", "parse"}
      /\ initWork'.source = initWork.source /\ initWork'.unbilled = initWork.unbilled
  BY <1>1 DEF MarkSource, PreparationGoes, Preparations, PreparationPcs
<1>4. PreparationTyped'
  BY <1>1, <1>2, <1>3 DEF PreparationTyped, PreparationTypeOK, Prepared
<1>5. OneOwner'
  <2>1. Range(initWork.todo) = {}
    BY <1>1 DEF Range
  <2>2. \A f \in DerivedFiles : initFiles[f] = NoSource
    BY <1>1, <2>1 DEF Cleared
  <2>3. initMarker # Prepared => initEvents = {} /\ initUsage = NoCalls /\ initJournal = NoPending
    BY <1>1, <2>1 DEF Cleared
  <2>4. Owner' = Prepared /\ (initMarker = Prepared => Owner = Prepared)
    BY <1>1, <1>2, InitializationAssumption DEF Owner
  <2>5. CASE initMarker = Prepared
    BY <1>1, <1>2, <2>2, <2>4, <2>5 DEF OneOwner, Durable
  <2>6. CASE initMarker # Prepared
    BY <1>1, <1>2, <2>2, <2>3, <2>4, <2>6 DEF OneOwner, Durable, NoCalls
  <2>7. QED BY <2>5, <2>6
<1>6. StageReached'
  BY <1>1, <1>2, <1>3 DEF StageReached, Continues
<1>7. BilledInv'
  BY <1>1, <1>2, <1>3 DEF BilledInv, Unbilled, Preparing, Prepared, Durable
<1>8. QED BY <1>4, <1>5, <1>6, <1>7


\* A call, or none, before the preparation goes on.
LEMMA CallMoves ==
    ASSUME initWork \in Preparations, NEW pc \in PreparationPcs,
           \/ Spend(pc)
           \/ PreparationGoes(pc) /\ UNCHANGED <<initSpent, initEvents>>
    PROVE  /\ initWork' \in Preparations /\ initWork'.source = initWork.source
           /\ \/ initWork'.unbilled = initWork.unbilled /\ initSpent' = initSpent
                 /\ initEvents' = initEvents
              \/ initWork'.unbilled = initWork.unbilled + 1
                 /\ initSpent' = [initSpent EXCEPT ![Prepared] = @ + 1]
                 /\ initEvents' = initEvents \cup {Prepared}
<1>1. CASE Spend(pc)
  <2>1. initWork.unbilled + 1 \in Nat
    BY DEF Preparations
  <2>2. initWork' = [initWork EXCEPT !.pc = pc, !.unbilled = initWork.unbilled + 1]
    BY <1>1 DEF Spend
  <2>3. initWork' \in Preparations /\ initWork'.source = initWork.source
        /\ initWork'.unbilled = initWork.unbilled + 1
    BY <2>1, <2>2 DEF Preparations
  <2>4. QED BY <1>1, <2>3 DEF Spend
<1>2. CASE PreparationGoes(pc) /\ UNCHANGED <<initSpent, initEvents>>
  BY <1>2 DEF PreparationGoes, Preparations
<1>3. QED BY <1>1, <1>2

\* Everything a preparation makes goes into a directory that is its own.
LEMMA MakeStep ==
    ASSUME PreparationInv,
           DetectLanguage \/ StageContexts \/ StageChapters \/ AnalyzeStyle \/ CacheAnalysis
              \/ SaveAnalysis
    PROVE  PreparationInv'
<1> USE DEF PreparationInv
<1>1. /\ initWork \in Preparations /\ Prepared \in BookSources
      /\ initWork.pc \in {"detect", "contexts", "chapters", "analyze", "cache", "analysis"}
      /\ initMarker = Prepared /\ initManifest = NoSource /\ Owner = Prepared
  <2>1. initWork.pc \in {"detect", "contexts", "chapters", "analyze", "cache", "analysis"}
    BY DEF DetectLanguage, StageContexts, StageChapters, AnalyzeStyle, CacheAnalysis,
           SaveAnalysis, StageFile
  <2>2. initMarker = Prepared /\ initManifest = NoSource
    BY <2>1 DEF PreparationTyped, PreparationTypeOK
  <2>3. initWork \in Preparations /\ Prepared \in BookSources
    BY <2>1, AtWork DEF Preparing
  <2>4. QED BY <2>1, <2>2, <2>3, InitializationAssumption DEF Owner
<1>2. UNCHANGED <<initMarker, initManifest, initUsage, initJournal, initFailures>>
  BY DEF DetectLanguage, StageContexts, StageChapters, AnalyzeStyle, CacheAnalysis, SaveAnalysis,
         StageFile, initLedger
<1>3. /\ initWork' \in Preparations /\ initWork'.source = initWork.source
      /\ \/ initWork'.unbilled = initWork.unbilled /\ initSpent' = initSpent
            /\ initEvents' = initEvents
         \/ initWork'.unbilled = initWork.unbilled + 1
            /\ initSpent' = [initSpent EXCEPT ![Prepared] = @ + 1]
            /\ initEvents' = initEvents \cup {Prepared}
  <2> USE <1>1 DEF PreparationPcs
  <2>1. CASE DetectLanguage
    BY <2>1, CallMoves DEF DetectLanguage
  <2>2. CASE AnalyzeStyle
    <3>1. \E pc \in PreparationPcs :
             \/ Spend(pc)
             \/ PreparationGoes(pc) /\ UNCHANGED <<initSpent, initEvents>>
      BY <2>2 DEF AnalyzeStyle
    <3>2. QED BY <3>1, CallMoves
  <2>3. CASE StageContexts \/ StageChapters \/ SaveAnalysis
    BY <2>3 DEF StageContexts, StageChapters, SaveAnalysis, StageFile, PreparationGoes, Preparations
  <2>4. CASE CacheAnalysis
    BY <2>4 DEF CacheAnalysis, Preparations
  <2>5. QED BY <2>1, <2>2, <2>3, <2>4
<1>4. /\ initFiles \in [DerivedFiles -> BookSources \cup {NoSource}]
      /\ initUsage \in [BookSources -> Nat] /\ initSpent \in [BookSources -> Nat]
      /\ Durable \in [BookSources -> Nat]
  BY DurableType DEF PreparationTyped, PreparationTypeOK
<1>5. /\ initFiles' \in [DerivedFiles -> BookSources \cup {NoSource}]
      /\ initCached' \subseteq BookSources
      /\ \A f \in DerivedFiles : initFiles'[f] \in {initFiles[f], Prepared}
      /\ CASE initWork.pc = "detect" -> initWork'.pc = "contexts"
           [] initWork.pc = "contexts" ->
                 initWork'.pc = "chapters" /\ initFiles'["contexts"] = Prepared
           [] initWork.pc = "chapters" ->
                 initWork'.pc = "analyze" /\ initFiles'["chapters"] = Prepared
                    /\ initFiles'["contexts"] = initFiles["contexts"]
           [] initWork.pc = "analyze" ->
                 initWork'.pc \in {"cache", "analysis"} /\ initFiles' = initFiles
           [] initWork.pc = "cache" ->
                 initWork'.pc = "journal" /\ initWork'.next = "analysis" /\ initFiles' = initFiles
           [] initWork.pc = "analysis" ->
                 initWork'.pc = "manifest" /\ initFiles'["analysis"] = Prepared
                    /\ initFiles'["chapters"] = initFiles["chapters"]
                    /\ initFiles'["contexts"] = initFiles["contexts"]
  <2> USE <1>1, <1>4 DEF PreparationGoes, Preparations, DerivedFiles
  <2>0. initCached \subseteq BookSources
    BY DEF PreparationTyped, PreparationTypeOK
  <2>1. CASE DetectLanguage
    BY <2>0, <2>1 DEF DetectLanguage, Spend
  <2>2. CASE AnalyzeStyle
    BY <2>0, <2>2 DEF AnalyzeStyle, Spend
  <2>3. CASE StageContexts
    BY <2>0, <2>3 DEF StageContexts, StageFile
  <2>4. CASE StageChapters
    BY <2>0, <2>4 DEF StageChapters, StageFile
  <2>5. CASE SaveAnalysis
    BY <2>0, <2>5 DEF SaveAnalysis, StageFile
  <2>6. CASE CacheAnalysis
    BY <2>0, <2>6 DEF CacheAnalysis
  <2>7. QED BY <2>1, <2>2, <2>3, <2>4, <2>5, <2>6
<1>6. Durable' = Durable
  BY <1>2 DEF Durable
<1>7. PreparationTyped'
  <2>1. initSpent' \in [BookSources -> Nat] /\ initEvents' \subseteq BookSources
    BY <1>1, <1>3, <1>4 DEF PreparationTyped, PreparationTypeOK
  <2>2. initWork'.pc \in {"contexts", "chapters", "analyze", "cache", "analysis", "manifest", "journal"}
    BY <1>1, <1>5
  <2>3. QED BY <1>1, <1>2, <1>3, <1>5, <2>1, <2>2
       DEF PreparationTyped, PreparationTypeOK, Prepared
<1>8. OneOwner'
  <2>1. Owner' = Owner
    BY <1>2 DEF Owner
  <2>2. QED BY <1>1, <1>2, <1>3, <1>5, <1>6, <2>1 DEF OneOwner
<1>9. StageReached'
  <2>1. Prepared' = Prepared /\ Owner' = Prepared
    BY <1>1, <1>2, <1>3 DEF Prepared, Owner
  <2>2. \/ initWork'.pc \in {"contexts", "chapters", "analyze", "cache", "analysis", "manifest"}
        \/ initWork'.pc = "journal" /\ initWork'.next = "analysis"
    BY <1>1, <1>5
  <2>3. QED BY <1>1, <1>2, <1>5, <2>1, <2>2 DEF StageReached, Continues
<1>10. BilledInv'
  <2>1. initWork.unbilled \in Nat /\ initWork'.pc # "idle" /\ initWork.pc # "idle"
    BY <1>1, <1>5 DEF Preparations
  <2>2. \A s \in BookSources :
           Unbilled(s)' = IF s = Prepared THEN initWork'.unbilled ELSE 0
    BY <1>3, <2>1 DEF Unbilled, Preparing, Prepared
  <2>3. \A s \in BookSources :
           /\ initUsage[s] <= Durable[s]
           /\ Durable[s] + (IF s = Prepared THEN initWork.unbilled ELSE 0) <= initSpent[s]
    BY <2>1 DEF BilledInv, Unbilled, Preparing, Prepared
  <2>4. CASE initWork'.unbilled = initWork.unbilled /\ initSpent' = initSpent
    BY <1>2, <1>6, <2>2, <2>3, <2>4 DEF BilledInv
  <2>5. CASE initWork'.unbilled = initWork.unbilled + 1
             /\ initSpent' = [initSpent EXCEPT ![Prepared] = @ + 1]
    <3>1. \A s \in BookSources :
             initSpent'[s] = IF s = Prepared THEN initSpent[s] + 1 ELSE initSpent[s]
      BY <1>4, <2>5
    <3>2. QED BY <1>1, <1>2, <1>4, <1>6, <2>1, <2>2, <2>3, <2>5, <3>1 DEF BilledInv
  <2>6. QED BY <1>3, <2>4, <2>5
<1>11. QED BY <1>7, <1>8, <1>9, <1>10

\* The manifest, and then the end of the marker.
LEMMA CommitStep ==
    ASSUME PreparationInv, CommitManifest \/ FinishInitialization
    PROVE  PreparationInv'
<1> USE DEF PreparationInv
<1>1. /\ initWork \in Preparations /\ Prepared \in BookSources
      /\ initWork.pc \in {"manifest", "finish"} /\ initMarker = Prepared
      /\ initManifest \in {Prepared, NoSource} /\ Owner = Prepared
  <2>1. initWork.pc \in {"manifest", "finish"}
    BY DEF CommitManifest, FinishInitialization
  <2>2. initWork \in Preparations /\ Prepared \in BookSources
    BY <2>1, AtWork DEF Preparing
  <2>3. initMarker = Prepared /\ initManifest \in {Prepared, NoSource}
    BY <2>1 DEF PreparationTyped, PreparationTypeOK, StageReached
  <2>4. QED BY <2>1, <2>2, <2>3, InitializationAssumption DEF Owner
<1>2. UNCHANGED <<initFiles, initEvents, initCached, initUsage, initJournal, initSpent,
                  initFailures>>
  BY DEF CommitManifest, FinishInitialization, initLedger
<1>3. /\ initWork' \in Preparations /\ initWork'.source = initWork.source
      /\ initWork'.unbilled = initWork.unbilled
      /\ initManifest' = Prepared
      /\ \/ initWork.pc = "manifest" /\ initWork'.pc = "finish" /\ initMarker' = Prepared
         \/ initWork'.pc = "journal" /\ initWork'.next = "idle" /\ initMarker' = NoSource
  <2>1. CASE CommitManifest
    BY <1>1, <2>1 DEF CommitManifest, PreparationGoes, Preparations, PreparationPcs
  <2>2. CASE FinishInitialization
    <3>1. initManifest = Prepared
      BY <2>2 DEF FinishInitialization, StageReached
    <3>2. QED BY <1>1, <2>2, <3>1 DEF FinishInitialization, Preparations, PreparationPcs
  <2>3. QED BY <2>1, <2>2
<1>4. PreparationTyped'
  BY <1>1, <1>2, <1>3 DEF PreparationTyped, PreparationTypeOK
<1>5. Prepared' = Prepared /\ Owner' = Prepared /\ Durable' = Durable
  BY <1>1, <1>2, <1>3, InitializationAssumption DEF Prepared, Owner, Durable
<1>6. OneOwner'
  <2>1. \A f \in DerivedFiles : initFiles[f] = Prepared
    <3>1. CASE initManifest = NoSource
      <4>1. initWork.pc = "manifest"
        BY <1>1, <3>1, InitializationAssumption DEF StageReached
      <4>2. QED BY <4>1 DEF StageReached, DerivedFiles
    <3>2. CASE initManifest = Prepared
      BY <1>1, <3>2, InitializationAssumption DEF OneOwner
    <3>3. QED BY <1>1, <3>1, <3>2
  <2>2. QED BY <1>1, <1>2, <1>3, <1>5, <2>1 DEF OneOwner
<1>7. StageReached'
  BY <1>1, <1>2, <1>3, <1>5 DEF StageReached, Continues
<1>8. BilledInv'
  BY <1>1, <1>2, <1>3, <1>5 DEF BilledInv, Unbilled, Preparing, Prepared
<1>9. QED BY <1>4, <1>6, <1>7, <1>8


\* The journal, and its totals.
LEMMA BillStep ==
    ASSUME PreparationInv, JournalCalls \/ PublishCalls
    PROVE  PreparationInv' /\ \A s \in BookSources : Durable[s] <= Durable'[s]
<1> USE DEF PreparationInv
<1>1. /\ initWork \in Preparations /\ Prepared \in BookSources
      /\ initWork.pc \in {"journal", "publish"} /\ Owner = Prepared
      /\ initWork.unbilled \in Nat /\ initWork.next \in {"idle", "analysis"}
  <2>1. initWork.pc \in {"journal", "publish"}
    BY DEF JournalCalls, PublishCalls
  <2>2. QED BY <2>1, AtWork DEF Preparing, StageReached, Preparations
<1>2. /\ UNCHANGED <<initMarker, initManifest, initFiles, initEvents, initCached, initSpent,
                     initFailures>>
      /\ initUsage' = Durable
  BY DEF JournalCalls, PublishCalls
<1>3. /\ initUsage \in [BookSources -> Nat] /\ initSpent \in [BookSources -> Nat]
      /\ Durable \in [BookSources -> Nat]
      /\ \A s \in BookSources :
            Durable[s] + (IF s = Prepared THEN initWork.unbilled ELSE 0) <= initSpent[s]
  <2>1. initWork.pc # "idle"
    BY <1>1
  <2>2. QED BY <2>1, DurableType
       DEF PreparationTyped, PreparationTypeOK, BilledInv, Unbilled, Preparing, Prepared
<1> DEFINE totals == [Durable EXCEPT ![Prepared] = @ + initWork.unbilled]
<1>4. /\ totals \in [BookSources -> Nat] /\ totals # NoPending
      /\ \A s \in BookSources :
            totals[s] = IF s = Prepared THEN Durable[s] + initWork.unbilled ELSE Durable[s]
  <2>1. totals \in [BookSources -> Nat]
    BY <1>1, <1>3
  <2>2. totals # NoPending
    BY <1>1, <2>1, JournalIsSomething
  <2>3. QED BY <1>1, <1>3, <2>1, <2>2
<1> HIDE DEF totals
<1>5. /\ initWork' \in Preparations /\ initWork'.source = initWork.source
      /\ initWork'.next = initWork.next
      /\ \/ /\ initWork'.pc = initWork.next /\ initWork'.unbilled = initWork.unbilled
            /\ initJournal' = NoPending
         \/ /\ initWork'.pc = "publish" /\ initWork'.unbilled = 0
            /\ initJournal' = totals
  <2> USE <1>1 DEF PreparationGoes, Preparations, PreparationPcs
  <2>1. CASE PublishCalls
    BY <2>1 DEF PublishCalls
  <2>2. CASE JournalCalls /\ initWork.unbilled = 0
    BY <2>2 DEF JournalCalls
  <2>3. CASE JournalCalls /\ initWork.unbilled # 0
    <3>1. initJournal' = totals /\ initWork' = [initWork EXCEPT !.pc = "publish", !.unbilled = 0]
      BY <2>3 DEF JournalCalls, totals
    <3>2. QED BY <3>1
  <2>4. QED BY <2>1, <2>2, <2>3
<1>6. /\ initJournal' = NoPending => Durable' = Durable
      /\ initJournal' = totals => Durable' = totals
  BY <1>2, <1>4 DEF Durable
<1>7. Prepared' = Prepared /\ Owner' = Prepared
  BY <1>1, <1>2, <1>5 DEF Prepared, Owner
<1>8. \A s \in BookSources :
         /\ Durable'[s] \in Nat /\ Durable[s] <= Durable'[s]
         /\ s # Prepared => Durable'[s] = Durable[s]
         /\ Durable'[s] + (IF s = Prepared THEN initWork'.unbilled ELSE 0) <= initSpent[s]
  <2>1. CASE initJournal' = NoPending /\ initWork'.unbilled = initWork.unbilled
    BY <1>1, <1>3, <1>6, <2>1
  <2>2. CASE initJournal' = totals /\ initWork'.unbilled = 0
    BY <1>1, <1>3, <1>4, <1>6, <2>2
  <2>3. QED BY <1>5, <2>1, <2>2
<1>9. PreparationTyped'
  <2>1. initJournal' # NoPending => initJournal' \in [BookSources -> Nat]
    BY <1>4, <1>5
  <2>2. initWork'.pc \in {"idle", "analysis", "publish"}
    BY <1>1, <1>5
  <2>3. initWork'.pc = "analysis" => initMarker = Prepared /\ initManifest = NoSource
    BY <1>1, <1>5 DEF StageReached, Continues
  <2>4. QED BY <1>2, <1>3, <1>5, <1>7, <2>1, <2>2, <2>3 DEF PreparationTyped, PreparationTypeOK
<1>10. OneOwner'
  <2>1. \A s \in BookSources \ {Owner} : Durable[s] = 0
    BY DEF OneOwner
  <2>2. QED BY <1>1, <1>2, <1>7, <1>8, <2>1 DEF OneOwner
<1>11. StageReached'
  <2>1. initWork'.pc \in {"idle", "analysis", "publish"}
        /\ (initWork'.pc \in {"analysis", "publish"} /\ initWork'.next = "analysis" => Continues)
        /\ (initWork'.pc = "analysis" => Continues)
    BY <1>1, <1>5 DEF Continues
  <2>2. QED BY <1>2, <1>7, <2>1 DEF StageReached, Continues
<1>12. BilledInv'
  <2>1. \A s \in BookSources :
           Unbilled(s)' \in {0, IF s = Prepared THEN initWork'.unbilled ELSE 0}
    BY <1>7 DEF Unbilled
  <2>2. \A s \in BookSources :
           Durable'[s] + 0 <= Durable'[s] + (IF s = Prepared THEN initWork'.unbilled ELSE 0)
    BY <1>1, <1>5, <1>8 DEF Preparations
  <2>3. \A s \in BookSources : initUsage'[s] <= Durable'[s] /\ initSpent'[s] = initSpent[s]
    BY <1>2, <1>8
  <2>4. \A s \in BookSources : Unbilled(s)' <= IF s = Prepared THEN initWork'.unbilled ELSE 0
    BY <1>5, <2>1 DEF Preparations
  <2>5. initWork'.unbilled \in Nat
    BY <1>5 DEF Preparations
  <2>6. \A s \in BookSources : initSpent[s] \in Nat /\ Durable'[s] \in Nat /\ Unbilled(s)' \in Nat
    BY <1>3, <1>8, <2>1, <2>5
  <2>7. \A s \in BookSources : Durable'[s] + Unbilled(s)' <= initSpent'[s]
    BY <1>8, <2>1, <2>3, <2>4, <2>5, <2>6
  <2>8. QED BY <2>3, <2>7 DEF BilledInv
<1>13. QED BY <1>8, <1>9, <1>10, <1>11, <1>12

\* An exception, or a death, leaves the directory to its owner.
LEMMA FailureStep ==
    ASSUME PreparationInv, PreparationFails \/ DiePreparing
    PROVE  PreparationInv'
<1> USE DEF PreparationInv
<1>1. initWork \in Preparations /\ Prepared \in BookSources /\ Preparing
  BY AtWork DEF PreparationFails, DiePreparing
<1>2. UNCHANGED directory /\ initFailures' \in 0..MaxInitFailures
  BY InitializationAssumption
     DEF PreparationFails, DiePreparing, directory, PreparationTyped, PreparationTypeOK
<1>3. OneOwner'
  BY <1>2, UntouchedStaysOwned
<1>4. \/ initWork' = IdlePreparation
      \/ /\ initWork' \in Preparations /\ initWork'.source = initWork.source
         /\ initWork'.unbilled = initWork.unbilled
         /\ initWork'.pc = "journal" /\ initWork'.next = "idle"
         /\ initWork.pc \in {"detect", "contexts", "chapters", "analyze", "cache", "analysis",
                             "manifest", "finish"}
  BY <1>1 DEF PreparationFails, DiePreparing, Preparations, PreparationPcs
<1>5. PreparationTyped'
  BY <1>2, <1>4 DEF PreparationTyped, PreparationTypeOK, directory, initLedger, IdlePreparation
<1>6. StageReached'
  <2>1. CASE initWork' = IdlePreparation
    BY <2>1 DEF StageReached, Continues, IdlePreparation
  <2>2. CASE initWork'.pc = "journal"
    <3>1. /\ initWork'.source = initWork.source /\ initWork'.next = "idle"
          /\ initMarker = Prepared
      BY <1>4, <2>2 DEF IdlePreparation, StageReached, PreparationTyped, PreparationTypeOK
    <3>2. Owner' = Prepared /\ Prepared' = Prepared
      BY <1>1, <1>2, <3>1, InitializationAssumption DEF Owner, Prepared, directory
    <3>3. QED BY <2>2, <3>1, <3>2 DEF StageReached, Continues
  <2>3. QED BY <1>4, <2>1, <2>2
<1>7. BilledInv'
  <2>1. \A s \in BookSources :
           /\ Unbilled(s) = IF s = Prepared THEN initWork.unbilled ELSE 0
           /\ Unbilled(s)' \in {0, Unbilled(s)}
    BY <1>1, <1>4 DEF Unbilled, Preparing, Prepared, IdlePreparation
  <2>2. Durable' = Durable /\ initUsage' = initUsage /\ initSpent' = initSpent
    BY <1>2 DEF directory, initLedger, Durable
  <2>3. \A s \in BookSources :
           Unbilled(s) \in Nat /\ initSpent[s] \in Nat /\ Durable[s] \in Nat
    <3>1. initWork.unbilled \in Nat
      BY <1>1 DEF Preparations
    <3>2. Durable \in [BookSources -> Nat] /\ initSpent \in [BookSources -> Nat]
      BY DurableType DEF PreparationTyped, PreparationTypeOK
    <3>3. QED BY <2>1, <3>1, <3>2
  <2>4. \A s \in BookSources : initUsage[s] <= Durable[s] /\ Durable[s] + Unbilled(s) <= initSpent[s]
    BY DEF BilledInv
  <2>5. \A s \in BookSources : Durable[s] + Unbilled(s)' <= initSpent[s]
    BY <2>1, <2>3, <2>4
  <2>6. \A s \in BookSources : initUsage'[s] <= Durable'[s] /\ Durable'[s] + Unbilled(s)' <= initSpent'[s]
    BY <2>2, <2>4, <2>5
  <2>7. QED BY <2>6 DEF BilledInv
<1>8. QED BY <1>3, <1>5, <1>6, <1>7

LEMMA PreparationStep ==
    ASSUME PreparationInv, [PreparationNext]_initVars
    PROVE  PreparationInv'
<1>1. CASE UNCHANGED initVars
  <2>1. UNCHANGED directory /\ initWork' = initWork /\ initFailures' = initFailures
    BY <1>1 DEF initVars, directory, initLedger
  <2>2. OneOwner'
    BY <2>1, UntouchedStaysOwned DEF PreparationInv
  <2>3. PreparationTyped'
    BY <2>1 DEF directory, initLedger, PreparationInv, PreparationTyped, PreparationTypeOK, Prepared
  <2>4. StageReached'
    BY <2>1
       DEF directory, initLedger, PreparationInv, StageReached, Cleared, Continues, Owner, Prepared
  <2>5. BilledInv'
    BY <2>1 DEF directory, initLedger, PreparationInv, BilledInv, Unbilled, Preparing, Prepared, Durable
  <2>6. QED BY <2>2, <2>3, <2>4, <2>5 DEF PreparationInv
<1>2. QED
  BY <1>1, StartStep, BeginStep, DiscardStep, MarkStep, MakeStep, CommitStep, BillStep, FailureStep
     DEF PreparationNext

LEMMA PreparationStart == PreparationInit => PreparationInv
<1> SUFFICES ASSUME PreparationInit PROVE PreparationInv
  OBVIOUS
<1> USE DEF PreparationInit
<1>1. NoCalls \in [BookSources -> Nat] /\ (\A s \in BookSources : NoCalls[s] = 0)
      /\ Durable = NoCalls
  BY DEF NoCalls, Durable
<1>2. PreparationTyped
  <2>1. initFailures \in 0..MaxInitFailures
    BY InitializationAssumption
  <2>2. QED BY <1>1, <2>1 DEF PreparationTyped, PreparationTypeOK, IdlePreparation
<1>3. OneOwner
  BY <1>1 DEF OneOwner
<1>4. StageReached /\ BilledInv
  BY <1>1 DEF StageReached, Continues, IdlePreparation, BilledInv, Unbilled, Preparing
<1>5. QED BY <1>2, <1>3, <1>4 DEF PreparationInv

LEMMA PreparationCorrect == PreparationSpec => []PreparationInv
BY PreparationStart, PreparationStep, PTL DEF PreparationSpec

\* While calls are made for a source, the marker names it and no manifest is there.
THEOREM DirectoryTyped == PreparationSpec => []PreparationTypeOK
BY PreparationCorrect, PTL DEF PreparationInv, PreparationTyped

\* A directory holds one source's book, of which every part is its own, at any moment of any
\* preparation and after any death; no call is billed twice.
THEOREM BooksStayApart == PreparationSpec => []SourcesStayApart
<1>1. PreparationInv => SourcesStayApart
  <2> SUFFICES ASSUME PreparationInv PROVE SourcesStayApart
    OBVIOUS
  <2>1. BookIsOfOneSource
    BY DEF BookIsOfOneSource, PreparationInv, OneOwner, Owner
  <2>2. MarkerTellsTheSource
    BY DEF MarkerTellsTheSource, PreparationInv, OneOwner, Owner
  <2>3. CallsAreBilledOnce
    <3>1. \A s \in BookSources :
             Durable[s] \in Nat /\ Unbilled(s) \in Nat /\ initSpent[s] \in Nat
      BY DurableType
         DEF PreparationInv, PreparationTyped, PreparationTypeOK, Unbilled, Preparing, Preparations,
             IdlePreparation
    <3>2. QED BY <3>1 DEF CallsAreBilledOnce, PreparationInv, BilledInv
  <2>4. QED BY <2>1, <2>2, <2>3 DEF SourcesStayApart
<1>2. QED BY <1>1, PreparationCorrect, PTL

\* What a source has been billed is lost only to the preparation of another one.
THEOREM BillsStay == PreparationSpec => BillsAreKept
<1> DEFINE Kept == \A s \in BookSources : Durable'[s] < Durable[s] => initMarker = s /\ Prepared # s
<1>1. ASSUME PreparationInv, PreparationNext PROVE Kept
  <2>1. Durable \in [BookSources -> Nat]
    BY <1>1, DurableType DEF PreparationInv, PreparationTyped
  <2>2. CASE JournalCalls \/ PublishCalls
    <3>1. \A s \in BookSources : Durable[s] <= Durable'[s] /\ Durable'[s] \in Nat
      <4>1. PreparationInv' /\ \A s \in BookSources : Durable[s] <= Durable'[s]
        BY <1>1, <2>2, BillStep
      <4>2. Durable' \in [BookSources -> Nat]
        BY <4>1, DurableType DEF PreparationInv, PreparationTyped, PreparationTypeOK, Durable
      <4>3. QED BY <4>1, <4>2
    <3>2. QED BY <2>1, <3>1
  <2>3. CASE DiscardRemains
    <3> SUFFICES ASSUME NEW s \in BookSources, Durable'[s] < Durable[s]
                 PROVE  initMarker = s /\ Prepared # s
      OBVIOUS
    <3>1. initWork.todo # << >> /\ Head(initWork.todo) \in {"journal", "usage"}
      <4>1. initWork.todo # << >>
        <5>1. initWork.todo = << >> => Durable' = Durable
          BY <2>3 DEF DiscardRemains, initLedger, Durable
        <5>2. QED BY <2>1, <5>1
      <4>2. QED BY <1>1, <2>1, <2>3, <4>1, TotalsAfterRemoval
    <3>2. /\ initWork \in Preparations /\ Cleared /\ initManifest = NoSource
      BY <1>1, <2>3, AtWork DEF DiscardRemains, Preparing, PreparationInv, StageReached
    <3>3. Head(initWork.todo) \in Range(initWork.todo)
      BY <3>1, <3>2, RestOfList DEF Preparations
    <3>4. initMarker # Prepared
      BY <3>1, <3>2, <3>3 DEF Cleared
    <3>5. Durable[s] > 0
      <4>1. Durable'[s] \in Nat
        <5>1. Durable'[s] \in {initUsage[s], Durable[s], 0}
          BY <1>1, <2>3, <3>1, TotalsAfterRemoval
        <5>2. QED BY <1>1, <2>1, <5>1 DEF PreparationInv, PreparationTyped, PreparationTypeOK
      <4>2. QED BY <2>1, <4>1
    <3>6. Owner = s
      BY <1>1, <3>5 DEF PreparationInv, OneOwner
    <3>7. initMarker = s
      BY <3>2, <3>6, InitializationAssumption DEF Owner
    <3>8. QED BY <3>4, <3>7
  <2>4. CASE ~(JournalCalls \/ PublishCalls) /\ ~DiscardRemains
    <3>1. UNCHANGED <<initUsage, initJournal>>
      BY <1>1, <2>4
         DEF PreparationNext, StartPreparation, ParseBook, BeginInitialization, MarkSource,
             DetectLanguage, StageContexts, StageChapters, StageFile, AnalyzeStyle, CacheAnalysis,
             SaveAnalysis, CommitManifest, FinishInitialization, PreparationFails, DiePreparing,
             initLedger
    <3>2. QED BY <2>1, <3>1 DEF Durable
  <2>5. QED BY <2>2, <2>3, <2>4
<1>2. PreparationInv /\ [PreparationNext]_initVars => [Kept]_initVars
  BY <1>1
<1>3. QED BY <1>2, PreparationCorrect, PTL DEF PreparationSpec, BillsAreKept

-----------------------------------------------------------------------------
(* What a publication keeps.                                               *)

RowStatuses == {"pending", "applied", "no_net_change", "failed"}
Rows == [before : Renderings, target : Renderings, status : RowStatuses, aligned : BOOLEAN]
Indexes == [status : {"applying", "completed", "partial"},
            rows : UNION {[planned -> Rows] : planned \in SUBSET Passages}]
TraceAnswers == Renderings \cup {NoRendering, "failed", "dismissed"}
Reviews == [text : [Passages -> Renderings], status : {"unfinished", "completed"},
            changes : [Passages -> Renderings], open : SUBSET Passages,
            traces : [Passages -> TraceAnswers], index : Indexes \cup {NoIndex},
            summary : {"none", "completed", "partial"}, touched : SUBSET Passages]

Invocations ==
    {IdleAutofix}
    \cup [pc : {"session", "plan", "finish"}, review : Nat]
    \cup [pc : {"apply"}, review : Nat, rows : UNION {[planned -> Rows] : planned \in SUBSET Passages},
          todo : SUBSET Nat]
    \cup [pc : {"align"}, review : Nat, rows : UNION {[planned -> Rows] : planned \in SUBSET Passages},
          todo : SUBSET Nat, positions : SUBSET Passages]

AfTyped ==
    /\ afText \in [Passages -> Renderings] /\ afAligned \in [Passages -> Renderings]
    /\ afReviews \in Seq(Reviews) /\ Len(afReviews) <= MaxAfReviews
    /\ af \in Invocations
    /\ InvokedAutofix => af.review \in DOMAIN afReviews
    /\ afEdits \in 0..MaxAfEdits /\ afFailures \in 0..MaxAfFailures

\* A row, on disk or in memory, of a passage of review r: where nobody else has changed the
\* text, it is what the review has read or what the plan wants.
RowIsTrue(r, p, row) ==
    /\ row.before = r.text[p]
    /\ row.status = "failed" => p \in r.touched
    /\ p \notin r.touched =>
          /\ afText[p] \in {row.before, row.target}
          /\ row.status = "applied" => afText[p] = row.target
          /\ row.aligned => afText[p] = row.target /\ afAligned[p] = afText[p]

RowsAreTrue(r, rows) == \A p \in DOMAIN rows : RowIsTrue(r, p, rows[p])

\* What has become of a passage is known.
Settled(row) == row.status # "pending" /\ (row.status = "applied" => row.aligned)

\* A review on disk.
ReviewIsTrue(r) ==
    /\ \A p \in Passages :
          r.traces[p] # NoRendering => p \in r.open /\ r.status = "completed"
    /\ r.index # NoIndex =>
          /\ r.status = "completed"
          /\ RowsAreTrue(r, r.index.rows)
          /\ r.index.status # "applying" => \A p \in DOMAIN r.index.rows : Settled(r.index.rows[p])
          /\ r.index.status = "completed" =>
                \A p \in DOMAIN r.index.rows : r.index.rows[p].status # "failed"
    /\ r.summary # "none" => r.index # NoIndex /\ r.index.status = r.summary

\* The invocation, and what it has reached.
InvocationIsTrue ==
    /\ af.pc = "session" => CurrentReview.status = "unfinished"
    /\ af.pc \in {"session", "plan"} => CurrentReview.text = afText /\ CurrentReview.index = NoIndex
    /\ af.pc = "plan" => CurrentReview.status = "completed"
    /\ af.pc \in {"apply", "align"} =>
          /\ CurrentReview.status = "completed"
          /\ CurrentReview.index # NoIndex /\ CurrentReview.index.status = "applying"
          /\ RowsAreTrue(CurrentReview, af.rows)
          /\ DOMAIN af.rows = DOMAIN CurrentReview.index.rows
          /\ \A p \in DOMAIN af.rows : af.rows[p].target = CurrentReview.index.rows[p].target
          /\ \A p \in DOMAIN af.rows :
                \/ ChapterOf[p] \in af.todo
                \/ Settled(af.rows[p])
                \/ af.pc = "align" /\ p \in af.positions
    /\ af.pc = "align" =>
          \A p \in af.positions : p \in DOMAIN af.rows /\ af.rows[p].status = "applied"
    /\ af.pc = "finish" => CurrentReview.index # NoIndex
                           /\ CurrentReview.index.status \in {"completed", "partial"}

AutofixInv ==
    /\ AfTyped
    /\ \A n \in DOMAIN afReviews : ReviewIsTrue(afReviews[n])
    /\ InvocationIsTrue

-----------------------------------------------------------------------------
(* Records, and sequences of them.                                         *)

LEMMA UpdateType ==
    ASSUME NEW reviews \in Seq(Reviews), NEW n \in DOMAIN reviews, NEW review \in Reviews
    PROVE  LET changed == [reviews EXCEPT ![n] = review] IN
           /\ changed \in Seq(Reviews) /\ Len(changed) = Len(reviews)
           /\ DOMAIN changed = DOMAIN reviews
           /\ changed[n] = review
           /\ \A m \in DOMAIN reviews \ {n} : changed[m] = reviews[m]
OBVIOUS

\* Elsewhere a change is only remembered.
LEMMA TouchedType ==
    ASSUME NEW n, NEW passages \in SUBSET Passages, afReviews \in Seq(Reviews),
           NEW touched, touched = TouchedBut(n, passages)
    PROVE  /\ touched \in Seq(Reviews) /\ Len(touched) = Len(afReviews)
           /\ DOMAIN touched = DOMAIN afReviews
           /\ \A m \in DOMAIN afReviews :
                 touched[m] \in Reviews /\ touched[m].text = afReviews[m].text
                 /\ touched[m].status = afReviews[m].status
                 /\ touched[m].index = afReviews[m].index
                 /\ touched[m].open = afReviews[m].open /\ touched[m].traces = afReviews[m].traces
                 /\ touched[m].summary = afReviews[m].summary
                 /\ touched[m].touched = IF m = n THEN afReviews[m].touched
                                         ELSE afReviews[m].touched \cup passages
<1>1. \A m \in DOMAIN afReviews : afReviews[m] \in Reviews
  OBVIOUS
<1>2. \A r \in Reviews : [r EXCEPT !.touched = @ \cup passages] \in Reviews
  BY DEF Reviews
<1>3. DOMAIN touched = DOMAIN afReviews
      /\ \A m \in DOMAIN afReviews :
            touched[m] = IF m = n THEN afReviews[m]
                         ELSE [afReviews[m] EXCEPT !.touched = @ \cup passages]
  BY DEF TouchedBut
<1>4. \A m \in DOMAIN afReviews : touched[m] \in Reviews
  BY <1>1, <1>2, <1>3
<1>5. touched \in Seq(Reviews) /\ Len(touched) = Len(afReviews)
  <2>1. DOMAIN afReviews = 1..Len(afReviews) /\ Len(afReviews) \in Nat
    OBVIOUS
  <2>2. touched = [m \in 1..Len(afReviews) |-> touched[m]]
    BY <1>3, <2>1 DEF TouchedBut
  <2>3. QED BY <1>4, <2>1, <2>2
<1>6. \A m \in DOMAIN afReviews :
         touched[m].text = afReviews[m].text
         /\ touched[m].status = afReviews[m].status
         /\ touched[m].index = afReviews[m].index
         /\ touched[m].open = afReviews[m].open /\ touched[m].traces = afReviews[m].traces
         /\ touched[m].summary = afReviews[m].summary
         /\ touched[m].touched = IF m = n THEN afReviews[m].touched
                                 ELSE afReviews[m].touched \cup passages
  BY Zenon, <1>1, <1>3 DEF Reviews
<1>7. QED BY <1>3, <1>4, <1>5, <1>6

LEMMA IndexStatus ==
    /\ \A index \in Indexes : index # NoIndex /\ index.status # "none"
    /\ NoIndex.status = "none"
BY DEF Indexes, NoIndex

\* An invocation has a review, and rows to publish if it publishes.
LEMMA AtReview ==
    ASSUME AfTyped, InvokedAutofix
    PROVE  /\ af.review \in DOMAIN afReviews /\ CurrentReview \in Reviews /\ af.review \in Nat
           /\ af.pc \in {"session", "plan", "apply", "align", "finish"}
           /\ af.pc \in {"apply", "align"} =>
                 /\ DOMAIN af.rows \in SUBSET Passages /\ af.rows \in [DOMAIN af.rows -> Rows]
                 /\ af.todo \in SUBSET Nat
           /\ af.pc = "align" => af.positions \in SUBSET Passages
<1>1. af.review \in DOMAIN afReviews /\ afReviews \in Seq(Reviews)
  BY DEF AfTyped
<1>2. CurrentReview \in Reviews /\ af.review \in Nat
  BY <1>1 DEF CurrentReview
<1>3. af \in Invocations /\ af # IdleAutofix
  BY DEF AfTyped, InvokedAutofix, IdleAutofix
<1>4. QED BY <1>1, <1>2, <1>3 DEF Invocations, IdleAutofix

\* A review that is written again is still true if it was written so.
LEMMA UpdateKeeps ==
    ASSUME AutofixInv, InvokedAutofix, NEW review \in Reviews, UpdateReview(review),
           ReviewIsTrue(review), UNCHANGED <<afText, afAligned>>
    PROVE  /\ afReviews' \in Seq(Reviews) /\ Len(afReviews') = Len(afReviews)
           /\ DOMAIN afReviews' = DOMAIN afReviews
           /\ afReviews'[af.review] = review
           /\ \A n \in DOMAIN afReviews' : ReviewIsTrue(afReviews[n])'
<1>1. af.review \in DOMAIN afReviews /\ afReviews \in Seq(Reviews)
  BY AtReview DEF AutofixInv, AfTyped
<1>2. /\ afReviews' \in Seq(Reviews) /\ Len(afReviews') = Len(afReviews)
      /\ DOMAIN afReviews' = DOMAIN afReviews
      /\ afReviews'[af.review] = review
      /\ \A m \in DOMAIN afReviews \ {af.review} : afReviews'[m] = afReviews[m]
  BY <1>1, UpdateType DEF UpdateReview
<1>3. ASSUME NEW n \in DOMAIN afReviews' PROVE ReviewIsTrue(afReviews[n])'
  <2>1. PICK r : r = afReviews'[n] /\ ReviewIsTrue(r)
    BY <1>2 DEF AutofixInv
  <2>2. ReviewIsTrue(r)'
    BY <2>1 DEF ReviewIsTrue, RowsAreTrue, RowIsTrue
  <2>3. QED BY <2>1, <2>2 DEF ReviewIsTrue, RowsAreTrue, RowIsTrue
<1>4. QED BY <1>2, <1>3


\* What changes a text is remembered by every other review.
LEMMA TouchedKeeps ==
    ASSUME AutofixInv, NEW n \in Nat, NEW passages \in SUBSET Passages,
           afReviews' = TouchedBut(n, passages), UNCHANGED afAligned,
           \A p \in Passages \ passages : afText'[p] = afText[p],
           NEW m \in DOMAIN afReviews, m # n
    PROVE  ReviewIsTrue(afReviews[m])'
<1>1. PICK r : r = afReviews[m]
  OBVIOUS
<1>2. r \in Reviews /\ ReviewIsTrue(r)
  BY <1>1 DEF AutofixInv, AfTyped
<1>3. PICK t : t = afReviews'[m]
  OBVIOUS
<1>4. /\ t \in Reviews /\ t.text = r.text /\ t.status = r.status /\ t.index = r.index
      /\ t.open = r.open /\ t.traces = r.traces /\ t.summary = r.summary
      /\ t.touched = r.touched \cup passages
  <2>1. t = [r EXCEPT !.touched = @ \cup passages]
    BY <1>1, <1>3 DEF TouchedBut
  <2>2. QED BY <1>2, <2>1 DEF Reviews
<1>5. ASSUME NEW p \in Passages, NEW row \in Rows, RowIsTrue(r, p, row)
      PROVE  RowIsTrue(t, p, row)'
  BY <1>4, <1>5 DEF RowIsTrue
<1>6. ASSUME t.index # NoIndex
      PROVE  RowsAreTrue(t, t.index.rows)'
  <2>1. t.index.rows \in UNION {[planned -> Rows] : planned \in SUBSET Passages}
    BY <1>4, <1>6 DEF Reviews, Indexes
  <2>2. RowsAreTrue(r, t.index.rows)
    BY <1>2, <1>4, <1>6 DEF ReviewIsTrue
  <2>3. QED BY <1>5, <2>1, <2>2 DEF RowsAreTrue
<1>7. ReviewIsTrue(t)'
  BY <1>2, <1>4, <1>6 DEF ReviewIsTrue
<1>8. QED BY <1>3, <1>7 DEF ReviewIsTrue, RowsAreTrue, RowIsTrue

\* Nothing is written.
LEMMA ReviewsStay ==
    ASSUME AutofixInv, UNCHANGED <<afText, afAligned, afReviews>>
    PROVE  \A n \in DOMAIN afReviews' : ReviewIsTrue(afReviews[n])'
BY DEF AutofixInv, ReviewIsTrue, RowsAreTrue, RowIsTrue

\* Nobody is at work.
LEMMA IdleIsTrue ==
    ASSUME af' = IdleAutofix
    PROVE  (af \in Invocations)' /\ ~InvokedAutofix' /\ InvocationIsTrue'
BY DEF IdleAutofix, Invocations, InvokedAutofix, InvocationIsTrue

-----------------------------------------------------------------------------
(* One step per action.                                                    *)

LEMMA EditStep ==
    ASSUME AutofixInv, NEW p \in Passages, NEW rendering \in Renderings, EditPassage(p, rendering)
    PROVE  AutofixInv'
<1>1. af' = IdleAutofix
  BY DEF AutofixInv, AfTyped, EditPassage, Invocations, InvokedAutofix, IdleAutofix
<1>2. /\ afReviews' \in Seq(Reviews) /\ Len(afReviews') = Len(afReviews)
      /\ DOMAIN afReviews' = DOMAIN afReviews
  BY TouchedType DEF AutofixInv, AfTyped, EditPassage
<1>3. AfTyped'
  <2>1. afEdits' \in 0..MaxAfEdits /\ afFailures' \in 0..MaxAfFailures
    BY AutofixAssumption DEF AutofixInv, AfTyped, EditPassage
  <2>2. afText' \in [Passages -> Renderings] /\ afAligned' \in [Passages -> Renderings]
    BY DEF AutofixInv, AfTyped, EditPassage
  <2>3. Len(afReviews') <= MaxAfReviews
    BY <1>2 DEF AutofixInv, AfTyped
  <2>4. QED BY <1>1, <1>2, <2>1, <2>2, <2>3, IdleIsTrue DEF AfTyped
<1>4. \A m \in DOMAIN afReviews' : ReviewIsTrue(afReviews[m])'
  <2>1. \A m \in DOMAIN afReviews : m # 0
    BY DEF AutofixInv, AfTyped
  <2>2. \A q \in Passages \ {p} : afText'[q] = afText[q]
    BY DEF AutofixInv, AfTyped, EditPassage
  <2>3. afReviews' = TouchedBut(0, {p}) /\ UNCHANGED afAligned
    BY DEF EditPassage
  <2>4. ASSUME NEW m \in DOMAIN afReviews
        PROVE  ReviewIsTrue(afReviews[m])'
    <3>1. m # 0 /\ {p} \in SUBSET Passages /\ 0 \in Nat
      BY <2>1
    <3>2. QED BY <2>2, <2>3, <3>1, TouchedKeeps
  <2>5. QED BY <1>2, <2>4
<1>5. QED BY <1>1, <1>3, <1>4, IdleIsTrue DEF AutofixInv

LEMMA ResumeIndexStep ==
    ASSUME AutofixInv, ResumeIndex
    PROVE  AutofixInv'
<1>1. PICK n \in DOMAIN afReviews :
         StatusOf(n) = "applying" /\ StartApplying(n, afReviews[n].index.rows)
  BY DEF ResumeIndex, PendingIndex
<1>2. PICK r : r = afReviews[n]
  OBVIOUS
<1>3. r \in Reviews /\ ReviewIsTrue(r) /\ n \in Nat /\ r.index.status = "applying"
  BY <1>1, <1>2 DEF AutofixInv, AfTyped, StatusOf
<1>4. r.index # NoIndex /\ r.index \in Indexes
  BY <1>3 DEF NoIndex, Reviews
<1>5. PICK rows : rows = r.index.rows
  OBVIOUS
<1>6. rows \in UNION {[planned -> Rows] : planned \in SUBSET Passages}
  BY <1>4, <1>5 DEF Indexes
<1>7. /\ ChaptersOf(rows) \in SUBSET Nat
      /\ \A p \in DOMAIN rows : ChapterOf[p] \in ChaptersOf(rows)
  BY <1>6, AutofixAssumption DEF ChaptersOf
<1>8. af' = [pc |-> "apply", review |-> n, rows |-> rows, todo |-> ChaptersOf(rows)]
  BY <1>1, <1>2, <1>5 DEF StartApplying
<1>9. af' \in Invocations
  BY <1>3, <1>6, <1>7, <1>8 DEF Invocations
<1>10. AfTyped'
  BY <1>8, <1>9 DEF AutofixInv, AfTyped, ResumeIndex
<1>11. \A m \in DOMAIN afReviews' : ReviewIsTrue(afReviews[m])'
  BY ReviewsStay DEF ResumeIndex
<1>12. RowsAreTrue(r, rows) /\ r.status = "completed"
  BY <1>3, <1>4, <1>5 DEF ReviewIsTrue
<1>13. RowsAreTrue(r, rows)'
  BY <1>12 DEF RowsAreTrue, RowIsTrue, ResumeIndex
<1>14. CurrentReview' = r
  BY <1>2, <1>8 DEF CurrentReview, ResumeIndex
<1>15. RowsAreTrue(CurrentReview, af.rows)'
  BY <1>8, <1>13, <1>14 DEF RowsAreTrue, RowIsTrue
<1>16. InvocationIsTrue'
  BY <1>3, <1>4, <1>5, <1>7, <1>8, <1>12, <1>14, <1>15 DEF InvocationIsTrue
<1>17. QED BY <1>10, <1>11, <1>16 DEF AutofixInv


\* An invocation that begins at a review without rows.
LEMMA BeginTyped ==
    ASSUME NEW pc \in {"session", "plan", "finish"}, NEW n \in Nat, Begin(pc, n)
    PROVE  af' \in Invocations /\ af'.pc = pc /\ af'.review = n
BY DEF Begin, Invocations

LEMMA ResumeSummaryStep ==
    ASSUME AutofixInv, ResumeSummary
    PROVE  AutofixInv'
<1>1. PICK n \in DOMAIN afReviews :
         StatusOf(n) \in {"completed", "partial"} /\ Begin("finish", n)
  BY DEF ResumeSummary, PendingSummary
<1>2. n \in Nat /\ afReviews[n] \in Reviews
  BY DEF AutofixInv, AfTyped
<1>3. af' \in Invocations /\ af'.pc = "finish" /\ af'.review = n
  BY <1>1, <1>2, BeginTyped
<1>4. AfTyped'
  BY <1>3 DEF AutofixInv, AfTyped, ResumeSummary
<1>5. \A m \in DOMAIN afReviews' : ReviewIsTrue(afReviews[m])'
  BY ReviewsStay DEF ResumeSummary
<1>6. PICK r : r = afReviews[n]
  OBVIOUS
<1>7. CurrentReview' = r /\ r.index.status \in {"completed", "partial"}
  BY <1>1, <1>3, <1>6 DEF CurrentReview, ResumeSummary, StatusOf
<1>8. r.index # NoIndex
  BY <1>7 DEF NoIndex
<1>9. InvocationIsTrue'
  BY <1>3, <1>7, <1>8 DEF InvocationIsTrue
<1>10. QED BY <1>4, <1>5, <1>9 DEF AutofixInv

\* What OpenSession begins with when no review is of this text.
FreshReview ==
    [text |-> afText, status |-> "unfinished", changes |-> afText, open |-> {},
     traces |-> [p \in Passages |-> NoRendering], index |-> NoIndex, summary |-> "none",
     touched |-> {}]

LEMMA FreshIsTrue ==
    ASSUME AfTyped
    PROVE  FreshReview \in Reviews /\ ReviewIsTrue(FreshReview)
<1>1. FreshReview \in Reviews
  BY DEF FreshReview, Reviews, TraceAnswers, AfTyped
<1>2. ReviewIsTrue(FreshReview)
  BY DEF FreshReview, ReviewIsTrue
<1>3. QED BY <1>1, <1>2

LEMMA OpenStep ==
    ASSUME AutofixInv, OpenSession
    PROVE  AutofixInv'
<1>1. CASE Skips # {}
  <2>1. /\ Newest \in DOMAIN afReviews /\ afReviews[Newest].status = "completed"
        /\ afReviews[Newest].text = afText
    BY <1>1 DEF Skips
  <2>2. PICK r : r = afReviews[Newest]
    OBVIOUS
  <2>3. r \in Reviews /\ ReviewIsTrue(r) /\ Newest \in Nat
    BY <2>1, <2>2 DEF AutofixInv, AfTyped
  <2>4. PICK pc \in {"plan", "finish"} :
           pc = (IF StatusOf(Newest) = "none" THEN "plan" ELSE "finish")
    OBVIOUS
  <2>5. Begin(pc, Newest) /\ UNCHANGED <<afText, afAligned, afReviews, afEdits, afFailures>>
    BY <1>1, <2>4 DEF OpenSession
  <2>6. PICK n : n = Newest
    OBVIOUS
  <2>7. af' \in Invocations /\ af'.pc = pc /\ af'.review = n
    BY <2>3, <2>5, <2>6, BeginTyped
  <2>8. AfTyped'
    BY <2>1, <2>5, <2>6, <2>7 DEF AutofixInv, AfTyped
  <2>9. CurrentReview' = r
    BY <2>2, <2>5, <2>6, <2>7 DEF CurrentReview
  <2>10. r.index.status # "applying"
         /\ (r.index.status \in {"completed", "partial"} => r.summary # "none")
    BY <2>1, <2>2 DEF OpenSession, PendingIndex, PendingSummary, StatusOf
  <2>11. r.index.status = "none" => r.index = NoIndex
    BY <2>3, IndexStatus DEF Reviews
  <2>12. r.index.status # "none" => r.index # NoIndex /\ r.index.status \in {"completed", "partial"}
    BY <2>3, <2>10, IndexStatus DEF Reviews, Indexes
  <2>13. pc = "plan" <=> r.index.status = "none"
    BY <2>2, <2>4 DEF StatusOf
  <2>14. InvocationIsTrue'
    BY <2>1, <2>2, <2>5, <2>7, <2>9, <2>11, <2>12, <2>13 DEF InvocationIsTrue
  <2>15. \A m \in DOMAIN afReviews' : ReviewIsTrue(afReviews[m])'
    BY <2>5, ReviewsStay
  <2>16. QED BY <2>8, <2>14, <2>15 DEF AutofixInv
<1>2. CASE Skips = {} /\ Resumes # {}
  <2>1. PICK n \in DOMAIN afReviews :
           afReviews[n].status = "unfinished" /\ afReviews[n].text = afText /\ Begin("session", n)
    BY <1>2 DEF OpenSession, Resumes
  <2>2. UNCHANGED <<afText, afAligned, afReviews, afEdits, afFailures>>
    BY <1>2 DEF OpenSession
  <2>3. PICK r : r = afReviews[n]
    OBVIOUS
  <2>4. r \in Reviews /\ ReviewIsTrue(r) /\ n \in Nat
    BY <2>3 DEF AutofixInv, AfTyped
  <2>5. af' \in Invocations /\ af'.pc = "session" /\ af'.review = n
    BY <2>1, <2>4, BeginTyped
  <2>6. AfTyped'
    BY <2>2, <2>5 DEF AutofixInv, AfTyped
  <2>7. CurrentReview' = r
    BY <2>2, <2>3, <2>5 DEF CurrentReview
  <2>8. r.index = NoIndex
    BY <2>1, <2>3, <2>4 DEF ReviewIsTrue
  <2>9. InvocationIsTrue'
    BY <2>1, <2>2, <2>3, <2>5, <2>7, <2>8 DEF InvocationIsTrue
  <2>10. \A m \in DOMAIN afReviews' : ReviewIsTrue(afReviews[m])'
    BY <2>2, ReviewsStay
  <2>11. QED BY <2>6, <2>9, <2>10 DEF AutofixInv
<1>3. CASE Skips = {} /\ Resumes = {}
  <2>1. /\ Len(afReviews) < MaxAfReviews
        /\ afReviews' = Append(afReviews, FreshReview)
        /\ Begin("session", Newest + 1)
        /\ UNCHANGED <<afText, afAligned, afEdits, afFailures>>
    BY <1>3 DEF OpenSession, FreshReview
  <2>2. PICK r : r = FreshReview
    OBVIOUS
  <2>3. r \in Reviews /\ ReviewIsTrue(r)
    BY <2>2, FreshIsTrue DEF AutofixInv
  <2>4. PICK n : n = Len(afReviews) + 1
    OBVIOUS
  <2>5. /\ n \in Nat /\ afReviews' \in Seq(Reviews) /\ Len(afReviews') = n
        /\ DOMAIN afReviews' = DOMAIN afReviews \cup {n}
        /\ afReviews'[n] = r /\ \A m \in DOMAIN afReviews : afReviews'[m] = afReviews[m]
    BY <2>1, <2>2, <2>3, <2>4 DEF AutofixInv, AfTyped
  <2>6. Begin("session", n)
    BY <2>1, <2>4 DEF Newest
  <2>7. af' \in Invocations /\ af'.pc = "session" /\ af'.review = n
    BY <2>5, <2>6, BeginTyped
  <2>8. Len(afReviews') <= MaxAfReviews
    BY <2>1, <2>4, <2>5, AutofixAssumption DEF AutofixInv, AfTyped
  <2>9. AfTyped'
    BY <2>1, <2>5, <2>7, <2>8 DEF AutofixInv, AfTyped
  <2>10. CurrentReview' = r
    BY <2>5, <2>7 DEF CurrentReview
  <2>11. r.status = "unfinished" /\ r.text = afText /\ r.index = NoIndex
    BY <2>2 DEF FreshReview
  <2>12. InvocationIsTrue'
    BY <2>1, <2>7, <2>10, <2>11 DEF InvocationIsTrue
  <2>13. ASSUME NEW m \in DOMAIN afReviews'
         PROVE  ReviewIsTrue(afReviews[m])'
    <3>1. PICK s : s = afReviews'[m] /\ ReviewIsTrue(s)
      BY <2>3, <2>5 DEF AutofixInv
    <3>2. ReviewIsTrue(s)'
      BY <2>1, <3>1 DEF ReviewIsTrue, RowsAreTrue, RowIsTrue
    <3>3. QED BY <3>1, <3>2 DEF ReviewIsTrue, RowsAreTrue, RowIsTrue
  <2>14. QED BY <2>9, <2>12, <2>13 DEF AutofixInv
<1>4. QED BY <1>1, <1>2, <1>3


LEMMA StopStep ==
    ASSUME AutofixInv, StopAutofix
    PROVE  AutofixInv'
<1>1. af' = IdleAutofix
  BY DEF StopAutofix
<1>2. afFailures' \in 0..MaxAfFailures
  BY AutofixAssumption DEF AutofixInv, AfTyped, StopAutofix
<1>3. AfTyped'
  BY <1>1, <1>2, IdleIsTrue DEF AutofixInv, AfTyped, StopAutofix
<1>4. \A m \in DOMAIN afReviews' : ReviewIsTrue(afReviews[m])'
  BY ReviewsStay DEF StopAutofix
<1>5. QED BY <1>1, <1>3, <1>4, IdleIsTrue DEF AutofixInv

LEMMA CompleteStep ==
    ASSUME AutofixInv, CompleteReview
    PROVE  AutofixInv'
<1>1. InvokedAutofix /\ af.pc = "session"
  BY DEF CompleteReview, InvokedAutofix
<1>2. PICK r : r = CurrentReview
  OBVIOUS
<1>3. r \in Reviews /\ ReviewIsTrue(r) /\ af.review \in Nat
  BY <1>1, <1>2, AtReview DEF AutofixInv, CurrentReview
<1>4. r.text = afText /\ r.index = NoIndex
  BY <1>1, <1>2 DEF AutofixInv, InvocationIsTrue
<1>5. PICK changes \in [Passages -> Renderings], issues \in SUBSET Passages :
         UpdateReview([CurrentReview EXCEPT !.status = "completed", !.changes = changes, !.open = issues])
  BY DEF CompleteReview
<1>6. PICK review : review = [r EXCEPT !.status = "completed", !.changes = changes, !.open = issues]
  OBVIOUS
<1>7. /\ review \in Reviews /\ review.text = r.text /\ review.status = "completed"
      /\ review.index = r.index /\ review.traces = r.traces /\ review.summary = r.summary
  BY <1>3, <1>6 DEF Reviews
<1>8. ReviewIsTrue(review)
  <2>1. r.status = "unfinished"
    BY <1>1, <1>2 DEF AutofixInv, InvocationIsTrue
  <2>2. \A p \in Passages : r.traces[p] = NoRendering
    BY <1>3, <2>1 DEF ReviewIsTrue
  <2>3. QED BY <1>3, <1>4, <1>7, <2>2 DEF ReviewIsTrue
<1>9. UpdateReview(review) /\ UNCHANGED <<afText, afAligned>>
  BY <1>2, <1>5, <1>6 DEF CompleteReview
<1>10. /\ afReviews' \in Seq(Reviews) /\ Len(afReviews') = Len(afReviews)
       /\ DOMAIN afReviews' = DOMAIN afReviews
       /\ afReviews'[af.review] = review
       /\ \A n \in DOMAIN afReviews' : ReviewIsTrue(afReviews[n])'
  BY <1>1, <1>7, <1>8, <1>9, UpdateKeeps
<1>11. PICK n : n = af.review
  OBVIOUS
<1>12. af' \in Invocations /\ af'.pc = "plan" /\ af'.review = n
  BY <1>3, <1>11, BeginTyped DEF CompleteReview
<1>13. n \in DOMAIN afReviews
  BY <1>1, <1>11, AtReview DEF AutofixInv
<1>14. AfTyped'
  BY <1>10, <1>12, <1>13 DEF AutofixInv, AfTyped, CompleteReview
<1>15. CurrentReview' = review
  BY <1>10, <1>11, <1>12 DEF CurrentReview
<1>16. InvocationIsTrue'
  BY <1>4, <1>7, <1>9, <1>12, <1>15 DEF InvocationIsTrue
<1>17. QED BY <1>10, <1>14, <1>16 DEF AutofixInv

LEMMA FixStep ==
    ASSUME AutofixInv, NEW p \in Passages, FixPassage(p)
    PROVE  AutofixInv'
<1>1. InvokedAutofix /\ af.pc = "plan" /\ p \in CurrentReview.open
  BY DEF FixPassage, InvokedAutofix
<1>2. PICK r : r = CurrentReview
  OBVIOUS
<1>3. r \in Reviews /\ ReviewIsTrue(r) /\ af.review \in DOMAIN afReviews
  BY <1>1, <1>2, AtReview DEF AutofixInv, CurrentReview
<1>4. r.text = afText /\ r.index = NoIndex /\ r.status = "completed"
  BY <1>1, <1>2 DEF AutofixInv, InvocationIsTrue
<1>5. PICK answer \in (Renderings \ {CurrentReview.changes[p]}) \cup {"failed", "dismissed"} :
         UpdateReview([CurrentReview EXCEPT !.traces[p] = answer])
  BY DEF FixPassage
<1>6. PICK review : review = [r EXCEPT !.traces[p] = answer]
  OBVIOUS
<1>7. /\ review \in Reviews /\ review.text = r.text /\ review.status = "completed"
      /\ review.index = r.index /\ review.open = r.open /\ review.summary = r.summary
      /\ \A q \in Passages \ {p} : review.traces[q] = r.traces[q]
  BY <1>3, <1>4, <1>5, <1>6 DEF Reviews, TraceAnswers
<1>8. ReviewIsTrue(review)
  BY <1>1, <1>2, <1>3, <1>4, <1>7 DEF ReviewIsTrue
<1>9. UpdateReview(review) /\ UNCHANGED <<afText, afAligned, af, afEdits, afFailures>>
  BY <1>2, <1>5, <1>6 DEF FixPassage
<1>10. /\ afReviews' \in Seq(Reviews) /\ Len(afReviews') = Len(afReviews)
       /\ DOMAIN afReviews' = DOMAIN afReviews
       /\ afReviews'[af.review] = review
       /\ \A n \in DOMAIN afReviews' : ReviewIsTrue(afReviews[n])'
  BY <1>1, <1>7, <1>8, <1>9, UpdateKeeps
<1>11. AfTyped'
  BY <1>9, <1>10 DEF AutofixInv, AfTyped, InvokedAutofix
<1>12. CurrentReview' = review
  BY <1>9, <1>10 DEF CurrentReview
<1>13. InvocationIsTrue'
  BY <1>1, <1>4, <1>7, <1>9, <1>12 DEF InvocationIsTrue
<1>14. QED BY <1>10, <1>11, <1>13 DEF AutofixInv

LEMMA FinishStep ==
    ASSUME AutofixInv, FinishSummary
    PROVE  AutofixInv'
<1>1. InvokedAutofix /\ af.pc = "finish"
  BY DEF FinishSummary, InvokedAutofix
<1>2. PICK r : r = CurrentReview
  OBVIOUS
<1>3. r \in Reviews /\ ReviewIsTrue(r) /\ af.review \in DOMAIN afReviews
  BY <1>1, <1>2, AtReview DEF AutofixInv, CurrentReview
<1>4. r.index # NoIndex /\ r.index.status \in {"completed", "partial"}
  BY <1>1, <1>2 DEF AutofixInv, InvocationIsTrue
<1>5. PICK review : review = [r EXCEPT !.summary = r.index.status]
  OBVIOUS
<1>6. /\ review \in Reviews /\ review.status = r.status /\ review.text = r.text
      /\ review.index = r.index /\ review.open = r.open /\ review.traces = r.traces
      /\ review.touched = r.touched /\ review.summary = r.index.status
  BY <1>3, <1>4, <1>5 DEF Reviews
<1>7. ReviewIsTrue(review)
  <2>1. \A rows : RowsAreTrue(r, rows) => RowsAreTrue(review, rows)
    BY <1>6 DEF RowsAreTrue, RowIsTrue
  <2>2. QED BY <1>3, <1>4, <1>6, <2>1 DEF ReviewIsTrue
<1>8. UpdateReview(review) /\ UNCHANGED <<afText, afAligned>>
  BY <1>2, <1>5 DEF FinishSummary
<1>9. /\ afReviews' \in Seq(Reviews) /\ Len(afReviews') = Len(afReviews)
      /\ \A n \in DOMAIN afReviews' : ReviewIsTrue(afReviews[n])'
  BY <1>1, <1>6, <1>7, <1>8, UpdateKeeps
<1>10. af' = IdleAutofix
  BY DEF FinishSummary
<1>11. AfTyped'
  BY <1>9, <1>10, IdleIsTrue DEF AutofixInv, AfTyped, FinishSummary
<1>12. QED BY <1>9, <1>10, <1>11, IdleIsTrue DEF AutofixInv


\* The rows of a plan begin with the text of the review.
LEMMA PlanIsTrue ==
    ASSUME AutofixInv, af.pc = "plan",
           NEW rows, rows = [p \in Overridden |-> [before |-> afText[p], target |-> Planned(p),
                                                   status |-> "pending", aligned |-> FALSE]]
    PROVE  /\ DOMAIN rows \in SUBSET Passages /\ rows \in [DOMAIN rows -> Rows]
           /\ \A p \in DOMAIN rows : /\ rows[p].before = CurrentReview.text[p]
                                     /\ rows[p].before = afText[p]
                                     /\ rows[p].status = "pending" /\ rows[p].aligned = FALSE
<1>1. InvokedAutofix
  BY DEF InvokedAutofix
<1>2. CurrentReview \in Reviews
  BY <1>1, AtReview DEF AutofixInv
<1>3. CurrentReview.text = afText
  BY DEF AutofixInv, InvocationIsTrue
<1>4. \A p \in Passages : Planned(p) \in Renderings /\ afText[p] \in Renderings
  BY <1>2 DEF Planned, Reviews, AutofixInv, AfTyped
<1>5. Overridden \in SUBSET Passages
  BY DEF Overridden
<1>6. \A p \in Overridden : [before |-> afText[p], target |-> Planned(p),
                             status |-> "pending", aligned |-> FALSE] \in Rows
  BY <1>4, <1>5 DEF Rows, RowStatuses
<1>7. DOMAIN rows = Overridden /\ rows \in [Overridden -> Rows]
  BY <1>6
<1>8. QED BY <1>3, <1>5, <1>7

LEMMA PlanStep ==
    ASSUME AutofixInv, SavePlan
    PROVE  AutofixInv'
<1>1. InvokedAutofix /\ af.pc = "plan"
  BY DEF SavePlan, InvokedAutofix
<1>2. PICK r, n : r = CurrentReview /\ n = af.review
  OBVIOUS
<1>3. r \in Reviews /\ ReviewIsTrue(r) /\ n \in DOMAIN afReviews /\ n \in Nat
  BY <1>1, <1>2, AtReview DEF AutofixInv, CurrentReview
<1>4. r.text = afText /\ r.index = NoIndex /\ r.status = "completed"
  BY <1>1, <1>2 DEF AutofixInv, InvocationIsTrue
<1>5. PICK rows : rows = [p \in Overridden |-> [before |-> afText[p], target |-> Planned(p),
                                                status |-> "pending", aligned |-> FALSE]]
  OBVIOUS
<1>6. /\ DOMAIN rows \in SUBSET Passages /\ rows \in [DOMAIN rows -> Rows]
      /\ \A p \in DOMAIN rows : /\ rows[p].before = r.text[p]
                                /\ rows[p].before = afText[p]
                                /\ rows[p].status = "pending" /\ rows[p].aligned = FALSE
  BY <1>1, <1>2, <1>5, PlanIsTrue
<1>7. /\ UpdateReview([CurrentReview EXCEPT !.index = [status |-> "applying", rows |-> rows],
                                            !.touched = {}])
      /\ StartApplying(af.review, rows)
      /\ UNCHANGED <<afText, afAligned, afEdits, afFailures>>
  BY <1>5 DEF SavePlan
<1>8. PICK index : index = [status |-> "applying", rows |-> rows]
  OBVIOUS
<1>9. index \in Indexes /\ index.status = "applying" /\ index.rows = rows /\ index # NoIndex
  <2>1. rows \in UNION {[planned -> Rows] : planned \in SUBSET Passages}
    BY <1>6
  <2>2. index \in Indexes /\ index.status = "applying" /\ index.rows = rows
    BY <1>8, <2>1 DEF Indexes
  <2>3. QED BY <2>2 DEF NoIndex
<1>10. PICK review : review = [r EXCEPT !.index = index, !.touched = {}]
  OBVIOUS
<1>11. /\ review \in Reviews /\ review.text = r.text /\ review.status = "completed"
       /\ review.index = index /\ review.open = r.open /\ review.traces = r.traces
       /\ review.summary = r.summary /\ review.touched = {}
  BY <1>3, <1>4, <1>9, <1>10 DEF Reviews
<1>12. RowsAreTrue(review, rows)
  BY <1>6, <1>11 DEF RowsAreTrue, RowIsTrue
<1>13. r.summary = "none"
  BY <1>3, <1>4 DEF ReviewIsTrue
<1>14. ReviewIsTrue(review)
  BY <1>3, <1>9, <1>11, <1>12, <1>13 DEF ReviewIsTrue
<1>15. UpdateReview(review)
  BY <1>2, <1>7, <1>8, <1>10
<1>16. /\ afReviews' \in Seq(Reviews) /\ Len(afReviews') = Len(afReviews)
       /\ DOMAIN afReviews' = DOMAIN afReviews
       /\ afReviews'[n] = review
       /\ \A m \in DOMAIN afReviews' : ReviewIsTrue(afReviews[m])'
  BY <1>1, <1>2, <1>7, <1>11, <1>14, <1>15, UpdateKeeps
<1>17. /\ ChaptersOf(rows) \in SUBSET Nat
       /\ \A p \in DOMAIN rows : ChapterOf[p] \in ChaptersOf(rows)
  BY <1>6, AutofixAssumption DEF ChaptersOf
<1>18. af' = [pc |-> "apply", review |-> n, rows |-> rows, todo |-> ChaptersOf(rows)]
  BY <1>2, <1>7 DEF StartApplying
<1>19. af' \in Invocations
  BY <1>3, <1>6, <1>17, <1>18 DEF Invocations
<1>20. AfTyped'
  BY <1>3, <1>7, <1>16, <1>18, <1>19 DEF AutofixInv, AfTyped
<1>21. CurrentReview' = review
  BY <1>16, <1>18 DEF CurrentReview
<1>22. RowsAreTrue(review, rows)'
  BY <1>7, <1>12 DEF RowsAreTrue, RowIsTrue
<1>23. RowsAreTrue(CurrentReview, af.rows)'
  BY <1>18, <1>21, <1>22 DEF RowsAreTrue, RowIsTrue
<1>24. InvocationIsTrue'
  BY <1>9, <1>11, <1>17, <1>18, <1>21, <1>23 DEF InvocationIsTrue
<1>25. QED BY <1>16, <1>20, <1>24 DEF AutofixInv

\* The review and the rows of a publication under way.
LEMMA AtPublication ==
    ASSUME AutofixInv, af.pc \in {"apply", "align"}, NEW r, r = CurrentReview
    PROVE  /\ InvokedAutofix /\ r \in Reviews /\ ReviewIsTrue(r)
           /\ af.review \in DOMAIN afReviews /\ af.review \in Nat
           /\ r.status = "completed" /\ r.index \in Indexes /\ r.index.status = "applying"
           /\ RowsAreTrue(r, af.rows)
           /\ DOMAIN af.rows = DOMAIN r.index.rows
           /\ \A p \in DOMAIN af.rows : af.rows[p].target = r.index.rows[p].target
           /\ DOMAIN af.rows \in SUBSET Passages /\ af.rows \in [DOMAIN af.rows -> Rows]
           /\ af.todo \in SUBSET Nat
           /\ r.summary = "none"
<1>1. InvokedAutofix
  BY DEF InvokedAutofix
<1>2. /\ r \in Reviews /\ ReviewIsTrue(r) /\ af.review \in DOMAIN afReviews /\ af.review \in Nat
      /\ DOMAIN af.rows \in SUBSET Passages /\ af.rows \in [DOMAIN af.rows -> Rows]
      /\ af.todo \in SUBSET Nat
  BY <1>1, AtReview DEF AutofixInv, CurrentReview
<1>3. /\ r.status = "completed" /\ r.index # NoIndex /\ r.index.status = "applying"
      /\ RowsAreTrue(r, af.rows)
      /\ DOMAIN af.rows = DOMAIN r.index.rows
      /\ \A p \in DOMAIN af.rows : af.rows[p].target = r.index.rows[p].target
  BY DEF AutofixInv, InvocationIsTrue
<1>4. r.index \in Indexes
  BY <1>2, <1>3 DEF Reviews
<1>5. r.summary = "none"
  BY <1>2, <1>3 DEF ReviewIsTrue, Reviews
<1>6. QED BY <1>1, <1>2, <1>3, <1>4, <1>5


\* The index is written with the rows in memory.
LEMMA IndexIsWritten ==
    ASSUME AutofixInv, af.pc \in {"apply", "align"}, NEW status \in {"applying", "completed", "partial"},
           UpdateReview([CurrentReview EXCEPT !.index = [status |-> status, rows |-> af.rows]]),
           UNCHANGED <<afText, afAligned>>,
           status # "applying" => \A p \in DOMAIN af.rows : Settled(af.rows[p]),
           status = "completed" => \A p \in DOMAIN af.rows : af.rows[p].status # "failed"
    PROVE  /\ afReviews' \in Seq(Reviews) /\ Len(afReviews') = Len(afReviews)
           /\ DOMAIN afReviews' = DOMAIN afReviews
           /\ afReviews'[af.review].status = "completed"
           /\ afReviews'[af.review].index = [status |-> status, rows |-> af.rows]
           /\ afReviews'[af.review].text = CurrentReview.text
           /\ afReviews'[af.review].touched = CurrentReview.touched
           /\ \A m \in DOMAIN afReviews' : ReviewIsTrue(afReviews[m])'
<1>1. PICK r : r = CurrentReview
  OBVIOUS
<1>2. /\ InvokedAutofix /\ r \in Reviews /\ ReviewIsTrue(r) /\ r.status = "completed"
      /\ r.summary = "none" /\ RowsAreTrue(r, af.rows)
      /\ DOMAIN af.rows \in SUBSET Passages /\ af.rows \in [DOMAIN af.rows -> Rows]
  BY <1>1, AtPublication
<1>3. PICK rows : rows = af.rows
  OBVIOUS
<1>4. PICK index : index = [status |-> status, rows |-> rows]
  OBVIOUS
<1>5. index \in Indexes /\ index.status = status /\ index.rows = rows /\ index # NoIndex
  <2>1. rows \in UNION {[planned -> Rows] : planned \in SUBSET Passages}
    BY <1>2, <1>3
  <2>2. index \in Indexes /\ index.status = status /\ index.rows = rows
    BY <1>4, <2>1 DEF Indexes
  <2>3. QED BY <2>2 DEF NoIndex
<1>6. PICK review : review = [r EXCEPT !.index = index]
  OBVIOUS
<1>7. /\ review \in Reviews /\ review.text = r.text /\ review.status = "completed"
      /\ review.index = index /\ review.open = r.open /\ review.traces = r.traces
      /\ review.summary = r.summary /\ review.touched = r.touched
  BY <1>2, <1>5, <1>6 DEF Reviews
<1>8. RowsAreTrue(review, rows)
  BY <1>2, <1>3, <1>7 DEF RowsAreTrue, RowIsTrue
<1>9. ReviewIsTrue(review)
  BY <1>2, <1>3, <1>5, <1>7, <1>8 DEF ReviewIsTrue
<1>10. UpdateReview(review)
  BY <1>1, <1>3, <1>4, <1>6
<1>11. /\ afReviews' \in Seq(Reviews) /\ Len(afReviews') = Len(afReviews)
       /\ DOMAIN afReviews' = DOMAIN afReviews
       /\ afReviews'[af.review] = review
       /\ \A m \in DOMAIN afReviews' : ReviewIsTrue(afReviews[m])'
  BY <1>2, <1>7, <1>9, <1>10, UpdateKeeps
<1>12. QED BY <1>1, <1>3, <1>4, <1>7, <1>11

LEMMA WriteStep ==
    ASSUME AutofixInv, WriteRows
    PROVE  AutofixInv'
<1>1. af.pc = "align" /\ af.positions = {}
  BY DEF WriteRows
<1>2. PICK n, rows, todo, r : n = af.review /\ rows = af.rows /\ todo = af.todo /\ r = CurrentReview
  OBVIOUS
<1>3. /\ InvokedAutofix /\ r \in Reviews /\ n \in DOMAIN afReviews /\ n \in Nat
      /\ DOMAIN rows \in SUBSET Passages /\ rows \in [DOMAIN rows -> Rows]
      /\ todo \in SUBSET Nat /\ RowsAreTrue(r, rows)
  BY <1>1, <1>2, AtPublication
<1>4. /\ UpdateReview([CurrentReview EXCEPT !.index = [status |-> "applying", rows |-> af.rows]])
      /\ af' = [pc |-> "apply", review |-> n, rows |-> rows, todo |-> todo]
      /\ UNCHANGED <<afText, afAligned, afEdits, afFailures>>
  BY <1>2 DEF WriteRows
<1>5. /\ afReviews' \in Seq(Reviews) /\ Len(afReviews') = Len(afReviews)
      /\ DOMAIN afReviews' = DOMAIN afReviews
      /\ afReviews'[n].status = "completed"
      /\ afReviews'[n].index = [status |-> "applying", rows |-> rows]
      /\ afReviews'[n].text = r.text /\ afReviews'[n].touched = r.touched
      /\ \A m \in DOMAIN afReviews' : ReviewIsTrue(afReviews[m])'
  BY <1>1, <1>2, <1>4, IndexIsWritten
<1>6. PICK review : review = afReviews'[n]
  OBVIOUS
<1>7. CurrentReview' = review
  BY <1>4, <1>6 DEF CurrentReview
<1>8. af' \in Invocations
  <2>1. rows \in UNION {[planned -> Rows] : planned \in SUBSET Passages}
    BY <1>3
  <2>2. QED BY <1>3, <1>4, <2>1 DEF Invocations
<1>9. AfTyped'
  BY <1>3, <1>4, <1>5, <1>8 DEF AutofixInv, AfTyped
<1>10. RowsAreTrue(review, rows)'
  BY <1>3, <1>4, <1>5, <1>6 DEF RowsAreTrue, RowIsTrue
<1>11. RowsAreTrue(CurrentReview, af.rows)'
  BY <1>4, <1>7, <1>10 DEF RowsAreTrue, RowIsTrue
<1>12. \A p \in DOMAIN rows : ChapterOf[p] \in todo \/ Settled(rows[p])
  BY <1>1, <1>2 DEF AutofixInv, InvocationIsTrue
<1>13. review.index # NoIndex /\ review.index.status = "applying" /\ review.index.rows = rows
  BY <1>5, <1>6 DEF NoIndex
<1>14. InvocationIsTrue'
  BY <1>4, <1>5, <1>6, <1>7, <1>11, <1>12, <1>13 DEF InvocationIsTrue
<1>15. QED BY <1>5, <1>9, <1>14 DEF AutofixInv

LEMMA CloseStep ==
    ASSUME AutofixInv, CloseIndex
    PROVE  AutofixInv'
<1>1. af.pc = "apply" /\ af.todo = {}
  BY DEF CloseIndex
<1>2. PICK n, rows, status : n = af.review /\ rows = af.rows /\ status = Outcome(af.rows)
  OBVIOUS
<1>3. InvokedAutofix /\ n \in DOMAIN afReviews /\ n \in Nat
  BY <1>1, <1>2, AtPublication
<1>4. \A p \in DOMAIN rows : Settled(rows[p])
  BY <1>1, <1>2 DEF AutofixInv, InvocationIsTrue
<1>5. /\ status \in {"completed", "partial"}
      /\ status = "completed" => \A p \in DOMAIN rows : rows[p].status # "failed"
  BY <1>2 DEF Outcome
<1>6. /\ UpdateReview([CurrentReview EXCEPT !.index = [status |-> status, rows |-> af.rows]])
      /\ Begin("finish", n)
      /\ UNCHANGED <<afText, afAligned, afEdits, afFailures>>
  BY <1>2 DEF CloseIndex
<1>7. /\ afReviews' \in Seq(Reviews) /\ Len(afReviews') = Len(afReviews)
      /\ DOMAIN afReviews' = DOMAIN afReviews
      /\ afReviews'[n].index = [status |-> status, rows |-> rows]
      /\ \A m \in DOMAIN afReviews' : ReviewIsTrue(afReviews[m])'
  BY <1>1, <1>2, <1>4, <1>5, <1>6, IndexIsWritten
<1>8. af' \in Invocations /\ af'.pc = "finish" /\ af'.review = n
  BY <1>3, <1>6, BeginTyped
<1>9. AfTyped'
  BY <1>3, <1>6, <1>7, <1>8 DEF AutofixInv, AfTyped
<1>10. PICK review : review = afReviews'[n]
  OBVIOUS
<1>11. review.index # NoIndex /\ review.index.status \in {"completed", "partial"}
  BY <1>5, <1>7, <1>10 DEF NoIndex
<1>12. CurrentReview' = review
  BY <1>8, <1>10 DEF CurrentReview
<1>13. InvocationIsTrue'
  BY <1>8, <1>11, <1>12 DEF InvocationIsTrue
<1>14. QED BY <1>7, <1>9, <1>13 DEF AutofixInv


\* Offsets that are computed for the text as it is make no row untrue.
LEMMA AlignKeeps ==
    ASSUME AutofixInv, NEW p \in Passages, UNCHANGED <<afText, afReviews>>,
           afAligned' = [afAligned EXCEPT ![p] = afText[p]]
    PROVE  /\ afAligned' \in [Passages -> Renderings] /\ afAligned'[p] = afText[p]
           /\ \A q \in Passages \ {p} : afAligned'[q] = afAligned[q]
           /\ \A r, q, row : q \in Passages /\ RowIsTrue(r, q, row) => RowIsTrue(r, q, row)'
           /\ \A m \in DOMAIN afReviews' : ReviewIsTrue(afReviews[m])'
<1>1. /\ afAligned' \in [Passages -> Renderings] /\ afAligned'[p] = afText[p]
      /\ \A q \in Passages \ {p} : afAligned'[q] = afAligned[q]
  BY DEF AutofixInv, AfTyped
<1>2. ASSUME NEW r, NEW q \in Passages, NEW row, RowIsTrue(r, q, row)
      PROVE  RowIsTrue(r, q, row)'
  BY <1>1, <1>2 DEF RowIsTrue
<1>3. ASSUME NEW m \in DOMAIN afReviews'
      PROVE  ReviewIsTrue(afReviews[m])'
  <2>1. PICK r : r = afReviews[m]
    OBVIOUS
  <2>2. r \in Reviews /\ ReviewIsTrue(r)
    BY <2>1 DEF AutofixInv, AfTyped
  <2>3. ASSUME r.index # NoIndex
        PROVE  RowsAreTrue(r, r.index.rows)'
    <3>1. PICK rows : rows = r.index.rows
      OBVIOUS
    <3>2. DOMAIN rows \in SUBSET Passages
      BY <2>2, <2>3, <3>1 DEF Reviews, Indexes
    <3>3. RowsAreTrue(r, rows)
      BY <2>2, <2>3, <3>1 DEF ReviewIsTrue
    <3>4. RowsAreTrue(r, rows)'
      BY <1>2, <3>2, <3>3 DEF RowsAreTrue
    <3>5. QED BY <3>1, <3>4
  <2>4. ReviewIsTrue(r)'
    BY <2>2, <2>3 DEF ReviewIsTrue
  <2>5. r = afReviews'[m]
    BY <2>1
  <2>6. QED BY <2>4, <2>5 DEF ReviewIsTrue, RowsAreTrue, RowIsTrue
<1>4. QED BY <1>1, <1>2, <1>3

LEMMA AlignStep ==
    ASSUME AutofixInv, AlignPassage
    PROVE  AutofixInv'
<1>1. af.pc = "align"
  BY DEF AlignPassage
<1>2. PICK p \in af.positions :
         /\ afAligned' = [afAligned EXCEPT ![p] = afText[p]]
         /\ af' = [af EXCEPT !.positions = @ \ {p}, !.rows[p].aligned = TRUE]
  BY DEF AlignPassage
<1>3. UNCHANGED <<afText, afReviews, afEdits, afFailures>>
  BY DEF AlignPassage
<1>4. PICK n, old, todo, r : n = af.review /\ old = af.rows /\ todo = af.todo /\ r = CurrentReview
  OBVIOUS
<1>5. /\ InvokedAutofix /\ r \in Reviews /\ n \in DOMAIN afReviews /\ n \in Nat
      /\ DOMAIN old \in SUBSET Passages /\ old \in [DOMAIN old -> Rows]
      /\ todo \in SUBSET Nat /\ RowsAreTrue(r, old)
      /\ r.status = "completed" /\ r.index \in Indexes /\ r.index.status = "applying"
      /\ DOMAIN old = DOMAIN r.index.rows
      /\ \A q \in DOMAIN old : old[q].target = r.index.rows[q].target
  BY <1>1, <1>4, AtPublication
<1>6. PICK positions : positions = af.positions
  OBVIOUS
<1>7. positions \in SUBSET DOMAIN old /\ \A q \in positions : old[q].status = "applied"
  BY <1>1, <1>4, <1>6 DEF AutofixInv, InvocationIsTrue
<1>8. p \in DOMAIN old /\ p \in Passages /\ p \in positions /\ old[p].status = "applied"
  BY <1>2, <1>5, <1>6, <1>7
<1>9. PICK row : row = [old[p] EXCEPT !.aligned = TRUE]
  OBVIOUS
<1>10. /\ row \in Rows /\ row.before = old[p].before /\ row.target = old[p].target
       /\ row.status = "applied" /\ row.aligned = TRUE
  BY <1>5, <1>8, <1>9 DEF Rows
<1>11. PICK rows : rows = [old EXCEPT ![p] = row]
  OBVIOUS
<1>12. /\ DOMAIN rows = DOMAIN old /\ rows \in [DOMAIN old -> Rows] /\ rows[p] = row
       /\ \A q \in DOMAIN old \ {p} : rows[q] = old[q]
  BY <1>5, <1>8, <1>10, <1>11
<1>13. af' = [pc |-> "align", review |-> n, rows |-> rows, todo |-> todo,
              positions |-> positions \ {p}]
  <2>1. af \in Invocations
    BY DEF AutofixInv, AfTyped
  <2>2. af = [pc |-> "align", review |-> n, rows |-> old, todo |-> todo, positions |-> positions]
    BY <1>1, <1>4, <1>6, <2>1 DEF Invocations, IdleAutofix
  <2>3. QED BY <1>2, <1>9, <1>11, <2>2
<1>14. af' \in Invocations
  <2>1. rows \in UNION {[planned -> Rows] : planned \in SUBSET Passages}
    BY <1>5, <1>12
  <2>2. positions \ {p} \in SUBSET Passages
    BY <1>5, <1>7
  <2>3. QED BY <1>5, <1>13, <2>1, <2>2 DEF Invocations
<1>15. /\ afAligned' \in [Passages -> Renderings] /\ afAligned'[p] = afText[p]
       /\ \A q, w : q \in Passages /\ RowIsTrue(r, q, w) => RowIsTrue(r, q, w)'
       /\ \A m \in DOMAIN afReviews' : ReviewIsTrue(afReviews[m])'
  BY <1>2, <1>3, <1>8, AlignKeeps
<1>16. AfTyped'
  BY <1>3, <1>5, <1>13, <1>14, <1>15 DEF AutofixInv, AfTyped
<1>17. RowsAreTrue(r, rows)'
  <2>1. ASSUME NEW q \in DOMAIN rows, q # p
        PROVE  RowIsTrue(r, q, rows[q])'
    BY <1>5, <1>12, <1>15, <2>1 DEF RowsAreTrue
  <2>2. RowIsTrue(r, p, old[p])
    BY <1>5, <1>8 DEF RowsAreTrue
  <2>3. RowIsTrue(r, p, row)'
    BY <1>3, <1>8, <1>10, <1>15, <2>2 DEF RowIsTrue
  <2>4. QED BY <1>12, <2>1, <2>3 DEF RowsAreTrue
<1>18. CurrentReview' = r
  BY <1>3, <1>4, <1>13 DEF CurrentReview
<1>19. RowsAreTrue(CurrentReview, af.rows)'
  BY <1>13, <1>17, <1>18 DEF RowsAreTrue, RowIsTrue
<1>20. \A q \in DOMAIN rows : rows[q].target = r.index.rows[q].target
  BY <1>5, <1>8, <1>10, <1>12
<1>21. \A q \in DOMAIN rows :
          ChapterOf[q] \in todo \/ Settled(rows[q]) \/ q \in positions \ {p}
  <2>1. \A q \in DOMAIN old : ChapterOf[q] \in todo \/ Settled(old[q]) \/ q \in positions
    BY <1>1, <1>4, <1>6 DEF AutofixInv, InvocationIsTrue
  <2>2. Settled(row)
    BY <1>10 DEF Settled
  <2>3. QED BY <1>12, <2>1, <2>2
<1>22. \A q \in positions \ {p} : q \in DOMAIN rows /\ rows[q].status = "applied"
  BY <1>7, <1>12
<1>23. r.index # NoIndex
  BY <1>5, IndexStatus
<1>24. InvocationIsTrue'
  BY <1>5, <1>12, <1>13, <1>18, <1>19, <1>20, <1>21, <1>22, <1>23 DEF InvocationIsTrue
<1>25. QED BY <1>15, <1>16, <1>24 DEF AutofixInv


\* What ApplyChapter makes of a row and of its passage: the text changes only where it was
\* what the plan began with, to what the plan wants.
LEMMA RowIsApplied ==
    ASSUME NEW old \in Rows, NEW current \in Renderings,
           NEW row, row = ApplyRow(old, current)
    PROVE  /\ row \in Rows /\ row.before = old.before /\ row.target = old.target
           /\ row.aligned = old.aligned /\ row.status \in {"applied", "no_net_change", "failed"}
           /\ row.status = "failed" => current \notin {row.before, row.target}
           /\ row.status = "applied" => current \in {row.before, row.target}
           /\ row.status = "applied" /\ current = row.before => row.target # row.before
<1>1. CASE current = old.target
  BY <1>1 DEF ApplyRow, Rows, RowStatuses
<1>2. CASE current # old.target /\ current = old.before
  BY <1>2 DEF ApplyRow, Rows, RowStatuses
<1>3. CASE current # old.target /\ current # old.before
  <2>1. row = [old EXCEPT !.status = "failed"]
    BY <1>3 DEF ApplyRow
  <2>2. QED BY <1>3, <2>1 DEF Rows, RowStatuses
<1>4. QED BY <1>1, <1>2, <1>3

LEMMA ApplyStep ==
    ASSUME AutofixInv, ApplyChapter
    PROVE  /\ AutofixInv'
           /\ \A p \in Passages : afText'[p] # afText[p] => afText[p] = CurrentReview.text[p]
<1>1. af.pc = "apply"
  BY DEF ApplyChapter
<1>2. PICK n, old, todo, r : n = af.review /\ old = af.rows /\ todo = af.todo /\ r = CurrentReview
  OBVIOUS
<1>3. /\ InvokedAutofix /\ r \in Reviews /\ ReviewIsTrue(r) /\ n \in DOMAIN afReviews /\ n \in Nat
      /\ DOMAIN old \in SUBSET Passages /\ old \in [DOMAIN old -> Rows]
      /\ todo \in SUBSET Nat /\ RowsAreTrue(r, old)
      /\ r.status = "completed" /\ r.index \in Indexes /\ r.index.status = "applying"
      /\ DOMAIN old = DOMAIN r.index.rows
      /\ \A q \in DOMAIN old : old[q].target = r.index.rows[q].target
  BY <1>1, <1>2, AtPublication
<1>4. \A q \in DOMAIN old : ChapterOf[q] \in todo \/ Settled(old[q])
  BY <1>1, <1>2 DEF AutofixInv, InvocationIsTrue
<1>5. PICK c, rows, changed :
         /\ c \in todo
         /\ rows = [p \in DOMAIN old |-> IF p \in InChapter(c) THEN ApplyRow(old[p], afText[p])
                                         ELSE old[p]]
         /\ changed = {p \in InChapter(c) : rows[p].status = "applied" /\ afText[p] = rows[p].before}
         /\ afText' = [p \in Passages |-> IF p \in changed THEN rows[p].target ELSE afText[p]]
         /\ afReviews' = TouchedBut(n, changed)
         /\ af' = [pc |-> "align", review |-> n, rows |-> rows, todo |-> todo \ {c},
                   positions |-> Unaligned(rows, c)]
  BY <1>2 DEF ApplyChapter
<1>6. UNCHANGED <<afAligned, afEdits, afFailures>>
  BY DEF ApplyChapter
<1>7. PICK chapter, positions : chapter = InChapter(c) /\ positions = Unaligned(rows, c)
  OBVIOUS
<1>8. /\ chapter = {p \in DOMAIN old : ChapterOf[p] = c}
      /\ positions = {p \in chapter : rows[p].status = "applied" /\ ~rows[p].aligned}
  BY <1>2, <1>7 DEF InChapter, Unaligned
<1>9. \A p \in Passages : afText[p] \in Renderings
  BY DEF AutofixInv, AfTyped
<1>10. ASSUME NEW p \in DOMAIN old
       PROVE  /\ rows[p] \in Rows /\ rows[p].before = old[p].before /\ rows[p].target = old[p].target
              /\ rows[p].aligned = old[p].aligned
              /\ p \notin chapter => rows[p] = old[p]
              /\ p \in chapter =>
                    /\ rows[p].status \in {"applied", "no_net_change", "failed"}
                    /\ rows[p].status = "failed" => afText[p] \notin {rows[p].before, rows[p].target}
                    /\ rows[p].status = "applied" => afText[p] \in {rows[p].before, rows[p].target}
                    /\ rows[p].status = "applied" /\ afText[p] = rows[p].before
                         => rows[p].target # rows[p].before
  <2>1. old[p] \in Rows /\ afText[p] \in Renderings
    BY <1>3, <1>9
  <2>2. CASE p \in chapter
    <3>1. PICK row : row = rows[p]
      OBVIOUS
    <3>2. row = ApplyRow(old[p], afText[p])
      BY <1>5, <1>7, <2>2, <3>1
    <3>3. QED BY <2>1, <2>2, <3>1, <3>2, RowIsApplied
  <2>3. CASE p \notin chapter
    BY <1>5, <1>7, <2>1, <2>3
  <2>4. QED BY <2>2, <2>3
<1>11. DOMAIN rows = DOMAIN old /\ rows \in [DOMAIN old -> Rows]
  <2>1. \A p \in DOMAIN old : rows[p] \in Rows
    BY <1>10
  <2>2. DOMAIN rows = DOMAIN old /\ rows = [p \in DOMAIN old |-> rows[p]]
    BY <1>5
  <2>3. QED BY <2>1, <2>2
<1>12. changed \in SUBSET Passages /\ positions \in SUBSET Passages /\ changed \subseteq chapter
  BY Zenon, <1>3, <1>5, <1>7, <1>8
<1>13. \A p \in DOMAIN old : rows[p].before = r.text[p]
  BY <1>3, <1>10 DEF RowsAreTrue, RowIsTrue
<1>14. \A p \in Passages : /\ p \in changed => afText'[p] = rows[p].target /\ afText[p] = rows[p].before
                                              /\ rows[p].target # rows[p].before
                           /\ p \notin changed => afText'[p] = afText[p]
  BY <1>5, <1>8, <1>10, <1>12
<1>15. afText' \in [Passages -> Renderings]
  <2>1. \A p \in Passages : afText'[p] \in Renderings
    BY <1>8, <1>9, <1>10, <1>12, <1>14 DEF Rows
  <2>2. QED BY <1>5, <2>1
<1>16. /\ afReviews' \in Seq(Reviews) /\ Len(afReviews') = Len(afReviews)
       /\ DOMAIN afReviews' = DOMAIN afReviews
  BY <1>5, <1>12, TouchedType DEF AutofixInv, AfTyped
<1>17. afReviews'[n] = r
  BY <1>2, <1>3, <1>5 DEF TouchedBut, CurrentReview
<1>18. CurrentReview' = r
  BY <1>5, <1>17 DEF CurrentReview
<1>19. af' \in Invocations
  <2>1. rows \in UNION {[planned -> Rows] : planned \in SUBSET Passages}
    BY <1>3, <1>11
  <2>2. todo \ {c} \in SUBSET Nat
    BY <1>3
  <2>3. QED BY Zenon, <1>3, <1>5, <1>7, <1>12, <2>1, <2>2 DEF Invocations
<1>20. AfTyped'
  <2>1. Len(afReviews') <= MaxAfReviews
    BY <1>16 DEF AutofixInv, AfTyped
  <2>2. af'.review \in DOMAIN afReviews'
    BY Zenon, <1>3, <1>5, <1>16
  <2>3. afAligned' \in [Passages -> Renderings] /\ afEdits' \in 0..MaxAfEdits
        /\ afFailures' \in 0..MaxAfFailures
    BY <1>6 DEF AutofixInv, AfTyped
  <2>4. QED BY <1>15, <1>16, <1>19, <2>1, <2>2, <2>3 DEF AfTyped
\* The rows of this publication in memory, and as they are on disk.
<1>21. RowsAreTrue(r, rows)'
  <2>1. ASSUME NEW p \in DOMAIN old
        PROVE  RowIsTrue(r, p, rows[p])'
    <3>1. RowIsTrue(r, p, old[p]) /\ p \in Passages
      BY <1>3 DEF RowsAreTrue
    <3>2. CASE p \in chapter
      <4>1. rows[p].before = r.text[p]
        BY <1>13
      <4>2. rows[p].status = "failed" => p \in r.touched
        BY <1>10, <3>1, <3>2 DEF RowIsTrue
      <4>3. ASSUME p \notin r.touched
            PROVE  /\ afText'[p] \in {rows[p].before, rows[p].target}
                   /\ rows[p].status = "applied" => afText'[p] = rows[p].target
                   /\ rows[p].aligned => afText'[p] = rows[p].target /\ afAligned'[p] = afText'[p]
        <5>1. /\ afText[p] \in {rows[p].before, rows[p].target}
              /\ rows[p].aligned => afText[p] = rows[p].target /\ afAligned[p] = afText[p]
          BY <1>10, <3>1, <4>3 DEF RowIsTrue
        <5>2. CASE p \in changed
          BY <1>6, <1>14, <3>1, <5>1, <5>2
        <5>3. CASE p \notin changed
          <6>1. afText'[p] = afText[p]
            BY <1>14, <3>1, <5>3
          <6>2. rows[p].status = "applied" => afText[p] = rows[p].target
            BY <1>5, <1>7, <1>10, <3>2, <5>3
          <6>3. QED BY <1>6, <5>1, <6>1, <6>2
        <5>4. QED BY <5>2, <5>3
      <4>4. QED BY <4>1, <4>2, <4>3 DEF RowIsTrue
    <3>3. CASE p \notin chapter
      <4>1. rows[p] = old[p] /\ afText'[p] = afText[p]
        BY <1>10, <1>12, <1>14, <3>1, <3>3
      <4>2. QED BY <1>6, <3>1, <4>1 DEF RowIsTrue
    <3>4. QED BY <3>2, <3>3
  <2>2. QED BY <1>11, <2>1 DEF RowsAreTrue
<1>22. RowsAreTrue(r, r.index.rows)'
  <2>1. PICK disk : disk = r.index.rows
    OBVIOUS
  <2>2. RowsAreTrue(r, disk) /\ DOMAIN disk = DOMAIN old
    BY <1>3, <2>1, IndexStatus DEF ReviewIsTrue
  <2>3. ASSUME NEW p \in DOMAIN disk
        PROVE  RowIsTrue(r, p, disk[p])'
    <3>1. RowIsTrue(r, p, disk[p]) /\ p \in Passages /\ p \in DOMAIN old
      BY <1>3, <2>2 DEF RowsAreTrue
    <3>2. disk[p].target = rows[p].target /\ disk[p].before = rows[p].before
      BY <1>3, <1>10, <1>13, <2>1, <3>1 DEF RowIsTrue
    <3>3. CASE p \in changed
      <4>1. afText'[p] = disk[p].target /\ afText[p] # disk[p].target
        BY <1>14, <3>1, <3>2, <3>3
      <4>2. QED BY <3>1, <4>1 DEF RowIsTrue
    <3>4. CASE p \notin changed
      <4>1. afText'[p] = afText[p]
        BY <1>14, <3>1, <3>4
      <4>2. QED BY <1>6, <3>1, <4>1 DEF RowIsTrue
    <3>5. QED BY <3>3, <3>4
  <2>4. QED BY <2>1, <2>3 DEF RowsAreTrue
<1>23. ReviewIsTrue(r)'
  BY <1>3, <1>22 DEF ReviewIsTrue
<1>24. \A m \in DOMAIN afReviews' : ReviewIsTrue(afReviews[m])'
  <2>1. ASSUME NEW m \in DOMAIN afReviews, m # n
        PROVE  ReviewIsTrue(afReviews[m])'
    <3>1. \A p \in Passages \ changed : afText'[p] = afText[p]
      BY <1>14
    <3>2. QED BY Zenon, <1>3, <1>5, <1>6, <1>12, <2>1, <3>1, TouchedKeeps
  <2>2. ReviewIsTrue(afReviews[n])'
    BY <1>17, <1>23 DEF ReviewIsTrue, RowsAreTrue, RowIsTrue
  <2>3. QED BY <1>16, <2>1, <2>2
<1>25. \A q \in DOMAIN rows : ChapterOf[q] \in todo \ {c} \/ Settled(rows[q]) \/ q \in positions
  <2>1. ASSUME NEW q \in DOMAIN old, q \in chapter
        PROVE  Settled(rows[q]) \/ q \in positions
    <3>1. rows[q] \in Rows /\ rows[q].status \in {"applied", "no_net_change", "failed"}
      BY <1>10, <2>1
    <3>2. QED BY <1>8, <2>1, <3>1 DEF Settled
  <2>2. ASSUME NEW q \in DOMAIN old, q \notin chapter
        PROVE  ChapterOf[q] \in todo \ {c} \/ Settled(rows[q])
    BY <1>4, <1>8, <1>10, <2>2
  <2>3. QED BY <1>11, <2>1, <2>2
<1>26. \A q \in positions : q \in DOMAIN rows /\ rows[q].status = "applied"
  BY <1>8, <1>11
<1>27. RowsAreTrue(CurrentReview, af.rows)'
  BY <1>5, <1>18, <1>21 DEF RowsAreTrue, RowIsTrue
<1>28. \A q \in DOMAIN rows : rows[q].target = r.index.rows[q].target
  BY <1>3, <1>10, <1>11
<1>29. r.index # NoIndex
  BY <1>3, IndexStatus
<1>30. InvocationIsTrue'
  <2>1. af'.pc = "align" /\ af'.rows = rows /\ af'.todo = todo \ {c} /\ af'.positions = positions
    BY <1>5, <1>7
  <2>2. QED BY <1>3, <1>11, <1>18, <1>25, <1>26, <1>27, <1>28, <1>29, <2>1 DEF InvocationIsTrue
<1>31. \A p \in Passages : afText'[p] # afText[p] => afText[p] = CurrentReview.text[p]
  BY <1>2, <1>8, <1>12, <1>13, <1>14
<1>32. QED BY <1>20, <1>24, <1>30, <1>31 DEF AutofixInv


-----------------------------------------------------------------------------
(* The theorems.                                                           *)

LEMMA AutofixInit ==
    ASSUME AfInit
    PROVE  AutofixInv
<1>1. af = IdleAutofix /\ afReviews = << >>
  BY DEF AfInit
<1>2. af \in Invocations /\ ~InvokedAutofix /\ InvocationIsTrue
  BY <1>1 DEF IdleAutofix, Invocations, InvokedAutofix, InvocationIsTrue
<1>3. afReviews \in Seq(Reviews) /\ Len(afReviews) = 0 /\ DOMAIN afReviews = {}
  BY <1>1
<1>4. MaxAfReviews \in Nat /\ MaxAfEdits \in Nat /\ MaxAfFailures \in Nat
  BY AutofixAssumption
<1>5. AfTyped
  BY <1>2, <1>3, <1>4, AutofixAssumption DEF AfInit, AfTyped
<1>6. QED BY <1>2, <1>3, <1>5 DEF AutofixInv

LEMMA AutofixStep ==
    ASSUME AutofixInv, [AfNext]_afVars
    PROVE  AutofixInv'
<1>1. CASE AfWork
  BY <1>1, CompleteStep, PlanStep, ApplyStep, AlignStep, WriteStep, CloseStep, FinishStep, FixStep
     DEF AfWork
<1>2. CASE ResumeIndex \/ ResumeSummary \/ OpenSession \/ StopAutofix
  BY <1>2, ResumeIndexStep, ResumeSummaryStep, OpenStep, StopStep
<1>3. CASE \E p \in Passages, r \in Renderings : EditPassage(p, r)
  BY <1>3, EditStep
<1>4. CASE UNCHANGED afVars
  BY <1>4 DEF AutofixInv, AfTyped, ReviewIsTrue, RowsAreTrue, RowIsTrue, InvocationIsTrue,
              InvokedAutofix, CurrentReview, afVars
<1>5. QED BY <1>1, <1>2, <1>3, <1>4 DEF AfNext

\* What the index says of each passage, and what the invocation may still do to it, holds
\* wherever a publication was interrupted.
THEOREM AutofixCorrect == AfSpec => []AutofixInv
<1>1. AfInit => AutofixInv
  BY AutofixInit
<1>2. AutofixInv /\ [AfNext]_afVars => AutofixInv'
  BY AutofixStep
<1>3. QED BY <1>1, <1>2, PTL DEF AfSpec

\* Every variable of the autofix keeps its type.
THEOREM AutofixTyped == AfSpec => []AfTypeOK
<1>1. ASSUME AutofixInv PROVE AfTypeOK
  <2>1. ASSUME NEW n \in DOMAIN afReviews
        PROVE  LET r == afReviews[n] IN
                 /\ r.status \in {"unfinished", "completed"}
                 /\ r.index.status \in {"none", "applying", "completed", "partial"}
                 /\ r.index # NoIndex =>
                      /\ r.status = "completed"
                      /\ \A p \in DOMAIN r.index.rows : r.index.rows[p].target \in Renderings
                 /\ r.summary \in {"none", "completed", "partial"}
                 /\ \A p \in Passages : r.traces[p] # NoRendering => p \in r.open
    <3>1. PICK r : r = afReviews[n]
      OBVIOUS
    <3>2. r \in Reviews /\ ReviewIsTrue(r)
      BY <1>1, <3>1 DEF AutofixInv, AfTyped
    <3>3. r.status \in {"unfinished", "completed"} /\ r.summary \in {"none", "completed", "partial"}
          /\ r.index \in Indexes \cup {NoIndex}
      BY <3>2 DEF Reviews
    <3>4. r.index.status \in {"none", "applying", "completed", "partial"}
      BY <3>3 DEF Indexes, NoIndex
    <3>5. r.index # NoIndex =>
             \A p \in DOMAIN r.index.rows : r.index.rows[p].target \in Renderings
      BY <3>3 DEF Indexes, Rows
    <3>6. QED BY <3>1, <3>2, <3>3, <3>4, <3>5 DEF ReviewIsTrue
  <2>2. af.pc \in {"idle", "session", "plan", "apply", "align", "finish"}
    BY <1>1 DEF AutofixInv, AfTyped, Invocations, IdleAutofix
  <2>3. QED BY <1>1, <2>1, <2>2 DEF AutofixInv, AfTyped, AfTypeOK
<1>2. QED BY <1>1, AutofixCorrect, PTL

\* The index of a publication and the summary in the result of its review tell what became
\* of each passage: what is said to be published is in the book, aligned once the index is
\* closed; what failed was changed by somebody else; and a summary is that of settled rows.
THEOREM IndexIsTrue == AfSpec => []IndexTellsTheTruth
<1>1. ASSUME AutofixInv PROVE IndexTellsTheTruth
  <2>1. ASSUME NEW n \in DOMAIN afReviews, NEW r, r = afReviews[n], r.index # NoIndex,
               NEW p \in DOMAIN r.index.rows, NEW row, row = r.index.rows[p]
        PROVE  /\ row.status = "failed" => p \in r.touched
               /\ p \notin r.touched /\ row.status = "applied" =>
                     /\ afText[p] = row.target
                     /\ r.index.status # "applying" => afAligned[p] = afText[p]
               /\ r.index.status # "applying" => row.status # "pending"
               /\ r.index.status = "completed" => row.status # "failed"
    <3>1. ReviewIsTrue(r)
      BY <1>1, <2>1 DEF AutofixInv
    <3>2. RowIsTrue(r, p, row)
      BY <2>1, <3>1 DEF ReviewIsTrue, RowsAreTrue
    <3>3. r.index.status # "applying" => Settled(row)
      BY <2>1, <3>1 DEF ReviewIsTrue
    <3>4. r.index.status = "completed" => row.status # "failed"
      BY <2>1, <3>1 DEF ReviewIsTrue
    <3>5. QED BY <3>2, <3>3, <3>4 DEF RowIsTrue, Settled
  <2>2. ASSUME NEW n \in DOMAIN afReviews, NEW r, r = afReviews[n], r.summary # "none"
        PROVE  r.index # NoIndex /\ r.index.status = r.summary
               /\ r.index.status \in {"completed", "partial"}
    <3>1. ReviewIsTrue(r) /\ r \in Reviews
      BY <1>1, <2>2 DEF AutofixInv, AfTyped
    <3>2. QED BY <2>2, <3>1 DEF ReviewIsTrue, Reviews
  <2>3. PublishedTextIsAligned
    BY <2>1 DEF PublishedTextIsAligned
  <2>4. FailuresAreForeign
    BY <2>1 DEF FailuresAreForeign
  <2>5. SummariesAreTrue
    BY <2>1, <2>2 DEF SummariesAreTrue
  <2>6. QED BY <2>3, <2>4, <2>5 DEF IndexTellsTheTruth
<1>2. QED BY <1>1, AutofixCorrect, PTL

\* A publication replaces the very text its review has read, never what the user or a later
\* review wrote since.
THEOREM ReviewedTextIsReplaced == AfSpec => OnlyReviewedTextIsReplaced
<1>1. ASSUME AutofixInv, [AfNext]_afVars
      PROVE  [InvokedAutofix => \A p \in Passages :
                 afText'[p] # afText[p] => afText[p] = CurrentReview.text[p]]_afVars
  <2>1. CASE ApplyChapter
    BY <1>1, <2>1, ApplyStep
  <2>2. CASE \E p \in Passages, r \in Renderings : EditPassage(p, r)
    BY <2>2 DEF EditPassage
  <2>3. CASE UNCHANGED afText
    BY <2>3
  <2>4. QED
    BY <1>1, <2>1, <2>2, <2>3
       DEF AfNext, AfWork, CompleteReview, SavePlan, AlignPassage, WriteRows, CloseIndex,
           FinishSummary, FixPassage, ResumeIndex, ResumeSummary, OpenSession, StopAutofix, afVars
<1>2. QED BY <1>1, AutofixCorrect, PTL DEF AfSpec, OnlyReviewedTextIsReplaced

-----------------------------------------------------------------------------
(* The archive of glossaries.                                               *)

\* A version reads as the function that its record gives from what its parent reads as.
ReadBy(terms) == [name \in DOMAIN versions |->
    IF versions[name].depth = 0 THEN versions[name].base
    ELSE Apply(versions[name], terms[versions[name].parent])]
CountedBy(edges) == [name \in DOMAIN versions |->
    IF versions[name].depth = 0 THEN 0 ELSE edges[versions[name].parent] + 1]

LEMMA RevisionIsRead == ASSUME NEW f, f = ReadBy(f) PROVE Revision = ReadBy(Revision)
<1>1. Revision = CHOOSE terms : terms = ReadBy(terms)
  BY DEF Revision, ReadBy
<1>2. QED BY <1>1

LEMMA EdgesAreCounted == ASSUME NEW f, f = CountedBy(f) PROVE Edges = CountedBy(Edges)
<1>1. Edges = CHOOSE edges : edges = CountedBy(edges)
  BY DEF Edges, CountedBy
<1>2. QED BY <1>1

\* Every version is complete, or a change of a version that is there and one edge nearer.
VersionsAreBuilt == \A name \in DOMAIN versions :
    /\ name \in ArchivedGlossaries /\ versions[name].depth \in 0..MaxEdges
    /\ versions[name].depth = 0 => versions[name].base = name
    /\ versions[name].depth # 0 =>
          /\ versions[name].parent \in DOMAIN versions
          /\ versions[name].depth = versions[versions[name].parent].depth + 1
          /\ Apply(versions[name], versions[name].parent) = name

\* The head names a version that is there, as does a capture before it moves the head.
HeadIsThere ==
    /\ archiveHead # Nothing => archiveHead.name \in DOMAIN versions
                                /\ archiveHead.terms = archiveHead.name
    /\ archiveWork = NoCapture \/ archiveWork.pc = "head"
    /\ archiveWork.pc = "head" => archiveWork.name \in DOMAIN versions
    /\ captures \in 0..MaxCaptures /\ archiveFailures \in 0..MaxArchiveFailures

ArchiveInv == VersionsAreBuilt /\ HeadIsThere

\* Numbers are well ordered.
LEMMA LeastDepth ==
    ASSUME NEW T \in SUBSET Nat, T # {}
    PROVE  \E m \in T : \A n \in T : m <= n
<1>1. PICK m \in T : \A n \in T : ~(<<n, m>> \in OpToRel(<, Nat))
  BY Zenon, NatLessThanWellFounded, WFMin
<1>2. \A n \in T : ~(n < m)
  BY <1>1 DEF OpToRel
<1> QED BY <1>2

\* What every complete version has, and every change hands on from its parent, all have: of
\* those without it, one of the least depth would have a parent without it.
LEMMA ParentsHandOn ==
    ASSUME VersionsAreBuilt, NEW G \in SUBSET DOMAIN versions,
           \A name \in DOMAIN versions :
              versions[name].depth = 0 \/ versions[name].parent \in G => name \in G
    PROVE  \A name \in DOMAIN versions : name \in G
<1> SUFFICES ASSUME NEW name \in DOMAIN versions, name \notin G PROVE FALSE
  OBVIOUS
<1>1. PICK T : T = {versions[bad].depth : bad \in DOMAIN versions \ G}
  OBVIOUS
<1>2. T \in SUBSET Nat /\ T # {}
  BY <1>1 DEF VersionsAreBuilt
<1>3. PICK least \in T : \A n \in T : least <= n
  BY <1>2, LeastDepth
<1>4. PICK bad \in DOMAIN versions : bad \notin G /\ versions[bad].depth = least
  BY <1>1, <1>3
<1>5. PICK parent \in DOMAIN versions :
         /\ parent = versions[bad].parent /\ parent \notin G
         /\ versions[bad].depth = versions[parent].depth + 1
  BY <1>4 DEF VersionsAreBuilt
<1>6. versions[parent].depth \in T /\ versions[parent].depth \in Nat
  BY <1>1, <1>5 DEF VersionsAreBuilt
<1>7. least <= versions[parent].depth /\ least = versions[parent].depth + 1
  BY <1>3, <1>4, <1>5, <1>6
<1>8. QED BY <1>6, <1>7

\* Read through whatever parents, a version is the terms it is named by, over as many edges as
\* its depth says.
LEMMA BuiltVersionsReplay == ASSUME VersionsAreBuilt PROVE VersionsReplay
<1>1. PICK f : f = [name \in DOMAIN versions |-> name]
  OBVIOUS
<1>2. f = ReadBy(f)
  BY <1>1 DEF ReadBy, VersionsAreBuilt
<1>3. Revision = ReadBy(Revision)
  BY <1>2, RevisionIsRead
<1>4. PICK g : g = [name \in DOMAIN versions |-> versions[name].depth]
  OBVIOUS
<1>5. g = CountedBy(g)
  BY <1>4 DEF CountedBy, VersionsAreBuilt
<1>6. Edges = CountedBy(Edges)
  BY <1>5, EdgesAreCounted
<1>7. PICK G : G = {name \in DOMAIN versions : Revision[name] = name /\ Edges[name] = versions[name].depth}
  OBVIOUS
<1>8. ASSUME NEW name \in DOMAIN versions, versions[name].depth = 0 \/ versions[name].parent \in G
      PROVE  name \in G
  <2>1. /\ Revision[name] = IF versions[name].depth = 0 THEN versions[name].base
                            ELSE Apply(versions[name], Revision[versions[name].parent])
        /\ Edges[name] = IF versions[name].depth = 0 THEN 0 ELSE Edges[versions[name].parent] + 1
    BY <1>3, <1>6 DEF ReadBy, CountedBy
  <2>2. CASE versions[name].depth = 0
    BY <1>7, <2>1, <2>2 DEF VersionsAreBuilt
  <2>3. CASE versions[name].depth # 0
    <3>1. versions[name].parent \in G
      BY <1>8, <2>3
    <3>2. QED BY <1>7, <2>1, <2>3, <3>1 DEF VersionsAreBuilt
  <2>4. QED BY <2>2, <2>3
<1>9. QED BY <1>7, <1>8, ParentsHandOn DEF VersionsReplay

-----------------------------------------------------------------------------
(* What a change says of its parent is what _revision makes of it.          *)

\* The terms of a version: whichever change or old term a source has, it has one.
LEMMA TermIsFound ==
    ASSUME NEW terms \in ArchivedGlossaries, NEW previous \in ArchivedGlossaries,
           NEW n \in DOMAIN terms,
           NEW changed, changed = {t \in Range(terms) \ Range(previous) : t.source = terms[n].source},
           NEW old, old = {t \in Range(previous) : t.source = terms[n].source}
    PROVE  (CHOOSE t \in IF changed # {} THEN changed ELSE old : TRUE) = terms[n]
<1>1. \A t \in Range(terms) : t.source = terms[n].source => t = terms[n]
  BY ArchiveAssumption DEF Range, Sources, IsInjective
<1>2. CASE changed # {}
  BY <1>1, <1>2
<1>3. CASE changed = {}
  <2>1. terms[n] \in Range(terms)
    BY DEF Range
  <2>2. terms[n] \in Range(previous) /\ terms[n] \in old
    BY <1>3, <2>1
  <2>3. \A t \in old : t = terms[n]
    BY <2>2, ArchiveAssumption DEF Range, Sources, IsInjective
  <2>4. QED BY <1>3, <2>2, <2>3
<1>4. QED BY <1>2, <1>3

LEMMA ChangesApply ==
    ASSUME NEW terms \in ArchivedGlossaries, NEW previous \in ArchivedGlossaries,
           NEW record, record.changed = Range(terms) \ Range(previous),
           \/ record.natural /\ Sources(terms) =
                 Excluding(Sources(previous), record.removed) \o record.appended
           \/ ~record.natural /\ record.order = Sources(terms)
    PROVE  Apply(record, previous) = terms
<1>1. PICK order : order = IF record.natural
                           THEN Excluding(Sources(previous), record.removed) \o record.appended
                           ELSE record.order
  OBVIOUS
<1>2. order = Sources(terms)
  BY <1>1
<1>3. DOMAIN order = DOMAIN terms /\ \A n \in DOMAIN terms : order[n] = terms[n].source
  BY <1>2 DEF Sources
<1>4. Apply(record, previous) =
        [n \in DOMAIN order |->
            CHOOSE t \in IF {x \in record.changed : x.source = order[n]} # {}
                         THEN {x \in record.changed : x.source = order[n]}
                         ELSE {x \in Range(previous) : x.source = order[n]} : TRUE]
  BY <1>1 DEF Apply
<1>5. \A n \in DOMAIN terms :
        (CHOOSE t \in IF {x \in record.changed : x.source = order[n]} # {}
                      THEN {x \in record.changed : x.source = order[n]}
                      ELSE {x \in Range(previous) : x.source = order[n]} : TRUE) = terms[n]
  <2>1. TAKE n \in DOMAIN terms
  <2>2. PICK changed : changed = {t \in Range(terms) \ Range(previous) : t.source = terms[n].source}
    OBVIOUS
  <2>3. PICK old : old = {t \in Range(previous) : t.source = terms[n].source}
    OBVIOUS
  <2>4. order[n] = terms[n].source
    BY <1>3, <2>1
  <2>5. changed = {x \in record.changed : x.source = order[n]}
    BY <2>2, <2>4
  <2>6. old = {x \in Range(previous) : x.source = order[n]}
    BY <2>3, <2>4
  <2>7. (CHOOSE t \in IF changed # {} THEN changed ELSE old : TRUE) = terms[n]
    BY <2>1, <2>2, <2>3, TermIsFound
  <2>8. QED BY <2>5, <2>6, <2>7
<1>6. terms = [n \in DOMAIN terms |-> terms[n]]
  BY ArchiveAssumption
<1>7. Apply(record, previous) = [n \in DOMAIN terms |-> terms[n]]
  BY <1>3, <1>4, <1>5
<1>8. QED BY <1>6, <1>7

LEMMA NewRecordIsBuilt ==
    ASSUME ArchiveInv, HeadIsValid, NEW terms \in ArchivedGlossaries, NEW record, record = NewRecord(terms)
    PROVE  /\ record.depth \in 0..MaxEdges
           /\ record.depth = 0 => record.base = terms
           /\ record.depth # 0 => /\ record.parent \in DOMAIN versions
                                  /\ record.depth = versions[record.parent].depth + 1
                                  /\ Apply(record, record.parent) = terms
<1>1. CASE archiveHead = Nothing \/ versions[archiveHead.name].depth >= MaxEdges
  BY <1>1, ArchiveAssumption DEF NewRecord, FullVersion
<1>2. CASE ~(archiveHead = Nothing \/ versions[archiveHead.name].depth >= MaxEdges)
  <2>1. PICK head \in DOMAIN versions :
           /\ head = archiveHead.name /\ Revision[head] = head /\ head \in ArchivedGlossaries
           /\ versions[head].depth \in 0..MaxEdges /\ ~(versions[head].depth >= MaxEdges)
    BY <1>2 DEF ArchiveInv, HeadIsThere, HeadIsValid, VersionsAreBuilt
  <2>2. record = Change(terms, head)
    BY <1>2, <2>1 DEF NewRecord
  <2>3. /\ record.depth = versions[head].depth + 1 /\ record.parent = head
        /\ record.changed = Range(terms) \ Range(head)
        /\ record.natural = (Sources(terms) =
              Excluding(Sources(head), record.removed) \o record.appended)
        /\ record.order = Sources(terms)
    BY <2>1, <2>2 DEF Change
  <2>4. Apply(record, head) = terms
    BY <2>1, <2>3, ChangesApply
  <2>5. record.depth \in 1..MaxEdges
    BY <2>1, <2>3, ArchiveAssumption
  <2>6. QED BY <2>1, <2>3, <2>4, <2>5
<1>3. QED BY <1>1, <1>2

-----------------------------------------------------------------------------
LEMMA CapturesKeepVersions ==
    ASSUME ArchiveInv, NEW terms \in ArchivedGlossaries, StoreVersion(terms)
    PROVE  ArchiveInv'
<1>1. PICK record : record = NewRecord(terms)
  OBVIOUS
<1>2. /\ record.depth \in 0..MaxEdges
      /\ record.depth = 0 => record.base = terms
      /\ record.depth # 0 => /\ record.parent \in DOMAIN versions
                             /\ record.depth = versions[record.parent].depth + 1
                             /\ Apply(record, record.parent) = terms
  BY <1>1, NewRecordIsBuilt DEF StoreVersion
<1>3. /\ DOMAIN versions' = DOMAIN versions \cup {terms}
      /\ \A name \in DOMAIN versions : versions'[name] = versions[name]
      /\ terms \notin DOMAIN versions => versions'[terms] = record
  BY <1>1 DEF StoreVersion
<1>4. ASSUME NEW name \in DOMAIN versions'
      PROVE  /\ name \in ArchivedGlossaries /\ versions'[name].depth \in 0..MaxEdges
             /\ versions'[name].depth = 0 => versions'[name].base = name
             /\ versions'[name].depth # 0 =>
                   /\ versions'[name].parent \in DOMAIN versions'
                   /\ versions'[name].depth = versions'[versions'[name].parent].depth + 1
                   /\ Apply(versions'[name], versions'[name].parent) = name
  <2>1. CASE name \in DOMAIN versions
    BY <1>3, <2>1 DEF ArchiveInv, VersionsAreBuilt
  <2>2. CASE name \notin DOMAIN versions
    <3>1. name = terms /\ versions'[name] = record
      BY <1>3, <1>4, <2>2
    <3>2. QED BY <1>2, <1>3, <3>1
  <2>3. QED BY <2>1, <2>2
<1>5. VersionsAreBuilt'
  BY <1>4 DEF VersionsAreBuilt
<1>6. /\ archiveWork'.pc = "head" /\ archiveWork'.name = terms
      /\ captures' \in 0..MaxCaptures
      /\ UNCHANGED <<archiveHead, archiveFailures>>
  BY ArchiveAssumption DEF StoreVersion, ArchiveInv, HeadIsThere
<1>7. HeadIsThere'
  BY <1>3, <1>6 DEF ArchiveInv, HeadIsThere
<1>8. QED BY <1>5, <1>7 DEF ArchiveInv

\* A version is complete or a change of its parent, through every death between a version and
\* the head (PrecisionArchive._glossary).
LEMMA ArchiveIsBuilt == ArchiveSpec => []ArchiveInv
<1>1. ArchiveInit => ArchiveInv
  BY ArchiveAssumption DEF ArchiveInit, ArchiveInv, VersionsAreBuilt, HeadIsThere, NoCapture
<1>2. ArchiveInv /\ [ArchiveNext]_archiveVars => ArchiveInv'
  <2> SUFFICES ASSUME ArchiveInv, [ArchiveNext]_archiveVars PROVE ArchiveInv'
    OBVIOUS
  <2>1. CASE \E terms \in ArchivedGlossaries : StoreVersion(terms)
    BY <2>1, CapturesKeepVersions
  <2>2. CASE MoveHead
    <3>1. VersionsAreBuilt'
      BY <2>2 DEF MoveHead, ArchiveInv, VersionsAreBuilt
    <3>2. HeadIsThere'
      BY <2>2 DEF MoveHead, ArchiveInv, HeadIsThere, NoCapture
    <3>3. QED BY <3>1, <3>2 DEF ArchiveInv
  <2>3. CASE DieCapturing
    <3>1. VersionsAreBuilt'
      BY <2>3 DEF DieCapturing, ArchiveInv, VersionsAreBuilt
    <3>2. HeadIsThere'
      BY <2>3, ArchiveAssumption DEF DieCapturing, ArchiveInv, HeadIsThere, NoCapture
    <3>3. QED BY <3>1, <3>2 DEF ArchiveInv
  <2>4. CASE UNCHANGED archiveVars
    BY <2>4 DEF archiveVars, ArchiveInv, VersionsAreBuilt, HeadIsThere
  <2>5. QED BY <2>1, <2>2, <2>3, <2>4 DEF ArchiveNext
<1>3. QED BY <1>1, <1>2, PTL DEF ArchiveSpec

\* Every variable of the archive keeps its type.
THEOREM ArchiveTyped == ArchiveSpec => []ArchiveTypeOK
<1>1. ArchiveInv => ArchiveTypeOK
  BY DEF ArchiveInv, VersionsAreBuilt, HeadIsThere, ArchiveTypeOK, NoCapture
<1>2. QED BY <1>1, ArchiveIsBuilt, PTL

\* Every version that has ever been named reads as the terms it was captured with, in their
\* order, through whatever parents a death has given it, and the head is always one to build
\* on (PrecisionArchive._revision, _glossary).
THEOREM ArchiveStaysSound == ArchiveSpec => []ArchiveIsSound
<1>1. ArchiveInv => ArchiveIsSound
  <2> SUFFICES ASSUME ArchiveInv PROVE ArchiveIsSound
    OBVIOUS
  <2>1. VersionsReplay
    BY BuiltVersionsReplay DEF ArchiveInv
  <2>2. HeadStaysValid
    BY <2>1 DEF ArchiveInv, VersionsAreBuilt, HeadIsThere, HeadStaysValid, HeadIsValid, VersionsReplay
  <2>3. QED BY <2>1, <2>2 DEF ArchiveIsSound
<1>2. QED BY <1>1, ArchiveIsBuilt, PTL

-----------------------------------------------------------------------------
(* The library of projects.  The invariant says of every project that has  *)
(* not been imported beside another request where its book is while each   *)
(* request for it is under way: a request to create or to import it is     *)
(* alone with it until its row is there; the copy of an import has an      *)
(* original on the drive or outside until it is in its place; a new source *)
(* leaves the old one alone; and the sentinel of an accepted removal stays *)
(* where a repair would find the project.                                  *)

LibrarySteps ==
    {"idle", "insert", "invalidate", "publish", "clear", "copy", "verify", "rename", "original",
     "record", "mark", "cleanup", "sentinel", "row", "erase", "unlist"}
LibraryRows == [root : {"library", "drive"}, source : Originals, deleting : BOOLEAN]
LibraryRequests ==
    [at : LibrarySteps, p : LibProjects \cup {"none"}, dir : Places \cup {"none"},
     source : Originals \cup {"none"}]

Uploading == {"invalidate", "publish"}
Copying == {"clear", "copy", "verify", "rename"}
Copied == {"original", "record"}
Importing == Copying \cup Copied \cup {"cleanup"}
Homes == {"library", "staging", "drive"}

\* What each request may name.
RequestPlaced(t) ==
    /\ request[t].at = "idle" => request[t] = NoRequest
    /\ request[t].at # "idle" => request[t].p \in LibProjects /\ request[t].dir \in Places
    /\ request[t].at = "insert" => request[t].dir \in {"library", "drive"}
    /\ request[t].at \in Importing => request[t].dir \in {"outside", "drive"}
    /\ request[t].at \in Importing \cup {"mark"} => request[t].source \in Originals
    /\ request[t].at \in Uploading \cup {"sentinel", "row", "erase", "unlist"} => request[t].dir \in Homes

LibraryShape ==
    /\ folder \in [LibProjects -> [Places -> SUBSET Files]]
    /\ expects \in [LibProjects -> Originals \cup {"none"}]
    /\ catalogRow \in [LibProjects -> LibraryRows \cup {Nowhere}]
    /\ request \in [LibThreads -> LibraryRequests]
    /\ \A t \in LibThreads : RequestPlaced(t)

Agrees(q, d, s) == s \in folder[q][d] /\ ("manifest" \in folder[q][d] => s = expects[q])
OffDrive(q) == folder[q]["library"] = {} /\ "marker" \notin folder[q]["staging"]
Marking(q) == \E t \in LibThreads : request[t].p = q /\ request[t].at = "mark"
Offered(q) == Listed(q) /\ ~catalogRow[q].deleting

IsAlone(t, q) == ~Listed(q) /\ \A x \in LibThreads \ {t} : request[x].p # q

CreateIsSafe(t, q) ==
    request[t].at = "insert" =>
        /\ IsAlone(t, q) /\ q \notin whole /\ (q \in asked => q \in loose)
        /\ folder[q][request[t].dir] = {"s1"}
        /\ \A d \in Places \ {request[t].dir} : folder[q][d] = {}

ImportIsSafe(t, q) ==
    /\ request[t].at \in Importing => IsAlone(t, q) /\ q \notin asked
    /\ request[t].at \in Copying =>
          /\ HasBook(q, request[t].dir) /\ Agrees(q, request[t].dir, request[t].source)
          /\ folder[q]["library"] = {}
    /\ request[t].at = "rename" => folder[q]["staging"] = folder[q][request[t].dir]
    /\ request[t].at \in Copied =>
          /\ folder[q]["staging"] = {}
          /\ HasBook(q, "library") /\ Agrees(q, "library", request[t].source)
    /\ request[t].at = "mark" =>
          folder[q]["staging"] = {} /\ (Listed(q) => catalogRow[q].root = "library")

UploadIsSafe(t, q) ==
    request[t].at \in Uploading =>
        /\ request[t].dir = "drive" => "marker" \notin folder[q]["staging"]
        /\ q \notin asked => "s1" \in folder[q][request[t].dir]
        /\ Listed(q) => "manifest" \notin folder[q][catalogRow[q].root]
        /\ Offered(q) =>
              /\ "s2" \in folder[q][request[t].dir]
              /\ request[t].dir = "drive" <=> catalogRow[q].root = "drive"
              /\ request[t].dir = "staging" =>
                    folder[q]["library"] = {} /\ "marker" \in folder[q]["staging"]
              /\ request[t].at = "invalidate" =>
                    catalogRow[q].source = "s1" /\ "s1" \in folder[q][request[t].dir]

RemovalIsSafe(t, q) ==
    /\ request[t].at \in {"sentinel", "row"} /\ q \notin loose =>
          /\ request[t].dir = "drive" => OffDrive(q) /\ ~Marking(q)
          /\ request[t].dir = "staging" => "marker" \in folder[q]["staging"]
    /\ request[t].at = "sentinel" /\ q \notin loose =>
          "marker" \in folder[q][request[t].dir] /\ (request[t].dir = "drive" => mounted)
    /\ request[t].at = "row" /\ q \notin loose => "sentinel" \in folder[q][request[t].dir]
    /\ request[t].at \in {"erase", "unlist"} => q \in asked /\ (Listed(q) => catalogRow[q].deleting)

RequestIsSafe(t, q) ==
    CreateIsSafe(t, q) /\ ImportIsSafe(t, q) /\ UploadIsSafe(t, q) /\ RemovalIsSafe(t, q)

\* The book of a project nobody asked to remove is somewhere; so is that of which a copy
\* was begun.
BookSurvives(q) ==
    q \in whole \ asked => \E d \in {"library", "drive", "outside"} : HasBook(q, d)
StagedFrom(q) ==
    q \notin asked /\ "marker" \in folder[q]["staging"] => HasBook(q, "drive") \/ HasBook(q, "outside")
RootIsAlone(q) == Listed(q) /\ catalogRow[q].root = "drive" => OffDrive(q)
SourceIsKept(q) ==
    Offered(q) =>
        /\ catalogRow[q].root = "drive" => catalogRow[q].source \in folder[q]["drive"]
        /\ catalogRow[q].root = "library" =>
              \/ catalogRow[q].source \in folder[q]["library"]
              \/ /\ folder[q]["library"] = {} /\ "marker" \in folder[q]["staging"]
                 /\ catalogRow[q].source \in folder[q]["staging"]
ManifestAgrees(q) ==
    Listed(q) /\ "manifest" \in folder[q][catalogRow[q].root] => catalogRow[q].source = expects[q]
SentinelStays(q) ==
    q \in asked \ loose =>
        /\ Listed(q) => catalogRow[q].deleting
        /\ \E d \in Homes : /\ "sentinel" \in folder[q][d]
                            /\ d = "drive" => OffDrive(q) /\ ~Marking(q)
                            /\ d = "staging" => "marker" \in folder[q]["staging"]
DeletingIsAsked(q) == Listed(q) /\ catalogRow[q].deleting => q \in asked

ProjectIsSafe(q) ==
    /\ BookSurvives(q) /\ StagedFrom(q) /\ RootIsAlone(q) /\ SourceIsKept(q)
    /\ ManifestAgrees(q) /\ SentinelStays(q) /\ DeletingIsAsked(q)

ManifestIsNamed(q) == \A d \in Places : "manifest" \in folder[q][d] => expects[q] # "none"
OneUpload(q) ==
    \A t, x \in LibThreads :
        /\ request[t].at \in Uploading /\ request[t].p = q
        /\ request[x].at \in Uploading /\ request[x].p = q
        => t = x

SafeFor(q) ==
    /\ ManifestIsNamed(q) /\ OneUpload(q)
    /\ q \notin raced =>
          /\ ProjectIsSafe(q)
          /\ \A t \in LibThreads : request[t].p = q => RequestIsSafe(t, q)

LibraryInv == LibraryShape /\ \A q \in LibProjects : SafeFor(q)

-----------------------------------------------------------------------------
(* Steps of a request, and projects it is not about.                       *)

\* What the operations of the model do, place by place and field by field.
Puts(q, d, files) ==
    /\ folder' \in [LibProjects -> [Places -> SUBSET Files]]
    /\ folder'[q][d] = files
    /\ \A x \in Places \ {d} : folder'[q][x] = folder[q][x]
    /\ \A o \in LibProjects \ {q} : folder'[o] = folder[o]

OthersWait(t) ==
    /\ request' \in [LibThreads -> LibraryRequests]
    /\ \A x \in LibThreads \ {t} : request'[x] = request[x]

Goes(t, at) ==
    /\ OthersWait(t)
    /\ request'[t].at = at /\ request'[t].p = request[t].p
    /\ request'[t].dir = request[t].dir /\ request'[t].source = request[t].source

Quits(t) == OthersWait(t) /\ request'[t] = NoRequest

Starts(t, at, q, d, s) ==
    /\ OthersWait(t)
    /\ request[t] = NoRequest
    /\ request'[t].at = at /\ request'[t].p = q /\ request'[t].dir = d /\ request'[t].source = s

LEMMA RequestProceeds ==
    ASSUME LibraryShape, NEW t \in LibThreads, NEW at \in LibrarySteps, Proceeds(t, at)
    PROVE  Goes(t, at)
BY DEF LibraryShape, Proceeds, LibraryRequests, Goes, OthersWait

LEMMA RequestEnds ==
    ASSUME LibraryShape, NEW t \in LibThreads, Ends(t)
    PROVE  Quits(t)
BY DEF LibraryShape, Ends, LibraryRequests, LibrarySteps, NoRequest, Quits, OthersWait

LEMMA RequestBegins ==
    ASSUME LibraryShape, NEW t \in LibThreads, NEW at \in LibrarySteps, NEW q \in LibProjects,
           NEW d \in Places, NEW s \in Originals \cup {"none"}, BeginsWith(t, at, q, d, s)
    PROVE  Starts(t, at, q, d, s)
BY DEF LibraryShape, BeginsWith, LibraryRequests, LibrarySteps, Starts, OthersWait

LEMMA FolderHolds ==
    ASSUME LibraryShape, NEW q \in LibProjects, NEW d \in Places, NEW files \in SUBSET Files,
           Holds(q, d, files)
    PROVE  Puts(q, d, files)
BY DEF LibraryShape, Holds, Puts

LEMMA FolderKeeps ==
    ASSUME LibraryShape, NEW q \in LibProjects, NEW d \in Places, folder' = folder
    PROVE  Puts(q, d, folder[q][d])
BY DEF LibraryShape, Puts

\* What has not changed for a project.
Untouched(q) ==
    /\ folder'[q] = folder[q] /\ expects'[q] = expects[q] /\ catalogRow'[q] = catalogRow[q]
    /\ q \in whole' <=> q \in whole
    /\ q \in asked' <=> q \in asked
    /\ q \in raced' <=> q \in raced
    /\ q \in loose' <=> q \in loose
    /\ \A t \in LibThreads : request[t].p = q \/ request'[t].p = q => request'[t] = request[t]

LEMMA UntouchedIsSafe ==
    ASSUME LibraryShape, NEW q \in LibProjects, SafeFor(q), Untouched(q), mounted' = mounted
    PROVE  SafeFor(q)'
<1>1. /\ Listed(q)' = Listed(q) /\ Offered(q)' = Offered(q) /\ OffDrive(q)' = OffDrive(q)
      /\ Marking(q)' = Marking(q)
  BY DEF Untouched, Listed, Offered, OffDrive, Marking
<1>2. ManifestIsNamed(q)' /\ OneUpload(q)'
  BY DEF SafeFor, ManifestIsNamed, OneUpload, Untouched
<1>3. ASSUME q \notin raced'
      PROVE  ProjectIsSafe(q)'
  BY <1>1, <1>3 DEF SafeFor, Untouched, ProjectIsSafe, BookSurvives, StagedFrom, RootIsAlone, SourceIsKept,
     ManifestAgrees, SentinelStays, DeletingIsAsked, HasBook
<1>4. ASSUME q \notin raced', NEW t \in LibThreads, request'[t].p = q
      PROVE  RequestIsSafe(t, q)'
  <2>1. RequestIsSafe(t, q) /\ request'[t] = request[t]
    BY <1>4 DEF SafeFor, Untouched
  <2>2. IsAlone(t, q) => IsAlone(t, q)'
    BY <1>1 DEF IsAlone, Untouched
  <2>3. CreateIsSafe(t, q)'
    BY <1>1, <2>1, <2>2 DEF RequestIsSafe, CreateIsSafe, Untouched
  <2>4. ImportIsSafe(t, q)'
    BY <1>1, <2>1, <2>2 DEF RequestIsSafe, ImportIsSafe, Untouched, HasBook, Agrees
  <2>5. UploadIsSafe(t, q)'
    BY <1>1, <2>1 DEF RequestIsSafe, UploadIsSafe, Untouched
  <2>6. RemovalIsSafe(t, q)'
    BY <1>1, <2>1 DEF RequestIsSafe, RemovalIsSafe, Untouched
  <2>7. QED BY <2>3, <2>4, <2>5, <2>6 DEF RequestIsSafe
<1>5. QED BY <1>2, <1>3, <1>4 DEF SafeFor

LEMMA OneProjectMoves ==
    ASSUME LibraryInv, NEW q \in LibProjects, mounted' = mounted, LibraryShape', SafeFor(q)',
           \A o \in LibProjects \ {q} : Untouched(o)
    PROVE  LibraryInv'
<1>1. \A o \in LibProjects \ {q} : SafeFor(o)'
  BY UntouchedIsSafe DEF LibraryInv
<1>2. QED BY <1>1 DEF LibraryInv

\* An import under way is alone with its project.
LEMMA ImportsGoOn ==
    ASSUME LibraryInv, NEW t \in LibThreads, request[t].at \in Importing
    PROVE  /\ request[t].p \in LibProjects /\ request[t].dir \in {"outside", "drive"}
           /\ request[t].source \in Originals
           /\ request[t].p \notin raced =>
                 /\ ~Listed(request[t].p) /\ request[t].p \notin asked
                 /\ \A x \in LibThreads \ {t} : request[x].p # request[t].p
                 /\ ImportIsSafe(t, request[t].p) /\ ProjectIsSafe(request[t].p)
           /\ ManifestIsNamed(request[t].p)
BY DEF LibraryInv, LibraryShape, RequestPlaced, SafeFor, RequestIsSafe, ImportIsSafe, IsAlone, Importing, Copying, Copied

LEMMA ImportGoesOn ==
    ASSUME LibraryInv, NEW t \in LibThreads, NEW p, p = request[t].p, request[t].at \in Importing,
           UNCHANGED <<expects, mounted, catalogRow, whole, asked, raced, loose>>,
           folder' \in [LibProjects -> [Places -> SUBSET Files]],
           \A o \in LibProjects \ {p} : folder'[o] = folder[o],
           NEW at \in Importing, Goes(t, at) \/ Quits(t),
           ManifestIsNamed(p)',
           p \notin raced => BookSurvives(p)' /\ StagedFrom(p)' /\ (Goes(t, at) => ImportIsSafe(t, p)')
    PROVE  LibraryInv'
<1>1. /\ p \in LibProjects /\ ManifestIsNamed(p) /\ request[t].dir \in {"outside", "drive"}
      /\ request[t].source \in Originals
      /\ p \notin raced =>
            /\ ~Listed(p) /\ p \notin asked /\ \A x \in LibThreads \ {t} : request[x].p # p
            /\ ImportIsSafe(t, p) /\ ProjectIsSafe(p)
  BY ImportsGoOn
<1>2. \A x \in LibThreads \ {t} : request'[x] = request[x]
  BY DEF Goes, Quits, OthersWait
<1>3. request'[t].p \in {p, "none"}
  BY DEF Goes, Quits, NoRequest
<1>4. \A o \in LibProjects \ {p} : Untouched(o)
  BY <1>1, <1>2, <1>3, LibraryAssumption DEF Untouched
<1>5. LibraryShape'
  BY <1>1, <1>2 DEF LibraryInv, LibraryShape, RequestPlaced, Goes, Quits, OthersWait, NoRequest,
     Uploading, Importing, Copying, Copied, Places
<1>6. OneUpload(p)'
  BY <1>1, <1>2 DEF LibraryInv, SafeFor, OneUpload, Goes, Quits, NoRequest, Uploading, Importing,
     Copying, Copied
<1>7. ASSUME p \notin raced' PROVE ProjectIsSafe(p)'
  BY <1>1, <1>7 DEF ProjectIsSafe, RootIsAlone, SourceIsKept, ManifestAgrees, SentinelStays,
     DeletingIsAsked, Listed, Offered
<1>8. ASSUME p \notin raced', NEW x \in LibThreads, request'[x].p = p PROVE RequestIsSafe(x, p)'
  <2>1. x = t /\ Goes(t, at)
    BY <1>1, <1>2, <1>8, LibraryAssumption DEF Quits, NoRequest
  <2>2. request'[t].at = at
    BY <2>1 DEF Goes
  <2>3. ImportIsSafe(t, p)'
    BY <1>8, <2>1
  <2>4. CreateIsSafe(t, p)' /\ UploadIsSafe(t, p)' /\ RemovalIsSafe(t, p)'
    BY <2>2 DEF CreateIsSafe, UploadIsSafe, RemovalIsSafe, Importing, Copying, Copied, Uploading
  <2>5. QED BY <2>1, <2>3, <2>4 DEF RequestIsSafe
<1>9. SafeFor(p)'
  BY <1>6, <1>7, <1>8 DEF SafeFor
<1>10. QED BY <1>1, <1>4, <1>5, <1>9, OneProjectMoves

\* As long as it copies, only the staged files change.
LEMMA CopyingGoesOn ==
    ASSUME LibraryInv, NEW t \in LibThreads, NEW p, p = request[t].p, request[t].at \in Copying,
           UNCHANGED <<expects, mounted, catalogRow, whole, asked, raced, loose>>,
           NEW at \in Copying \cup {"cleanup"}, Goes(t, at),
           NEW files \in SUBSET Files, Puts(p, "staging", files),
           files \subseteq folder[p]["staging"] \cup folder[p][request[t].dir],
           at = "rename" => files = folder[p][request[t].dir]
    PROVE  LibraryInv'
<1>1. PICK d, s : d = request[t].dir /\ s = request[t].source
  OBVIOUS
<1>2. request[t].at \in Importing /\ at \in Importing
  BY DEF Importing
<1>3. /\ p \in LibProjects /\ d \in {"outside", "drive"} /\ s \in Originals /\ ManifestIsNamed(p)
      /\ p \notin raced =>
            /\ ~Listed(p) /\ p \notin asked /\ \A x \in LibThreads \ {t} : request[x].p # p
            /\ ImportIsSafe(t, p)
  BY <1>1, <1>2, ImportsGoOn
<1>4. ManifestIsNamed(p)'
  BY <1>1, <1>3 DEF ManifestIsNamed, Puts, Places
<1>5. ASSUME p \notin raced
      PROVE  BookSurvives(p)' /\ StagedFrom(p)' /\ ImportIsSafe(t, p)'
  <2>1. /\ HasBook(p, d) /\ Agrees(p, d, s) /\ folder[p]["library"] = {} /\ ~Listed(p)
        /\ \A x \in LibThreads \ {t} : request[x].p # p
    BY <1>1, <1>3, <1>5 DEF ImportIsSafe
  <2>2. folder'[p][d] = folder[p][d] /\ folder'[p]["library"] = {} /\ folder'[p]["staging"] = files
    BY <1>3, <2>1 DEF Puts, Places
  <2>3. HasBook(p, d)' /\ Agrees(p, d, s)'
    BY <2>1, <2>2 DEF HasBook, Agrees
  <2>4. IsAlone(t, p)'
    BY <2>1 DEF IsAlone, Goes, OthersWait, Listed
  <2>5. request'[t].at = at /\ request'[t].dir = d /\ request'[t].source = s
    BY <1>1 DEF Goes
  <2>6. ImportIsSafe(t, p)'
    BY <1>1, <1>3, <1>5, <2>2, <2>3, <2>4, <2>5 DEF ImportIsSafe, Copying, Copied
  <2>7. BookSurvives(p)' /\ StagedFrom(p)'
    BY <1>3, <2>3 DEF BookSurvives, StagedFrom
  <2>8. QED BY <2>6, <2>7
<1>6. QED BY <1>2, <1>3, <1>4, <1>5, ImportGoesOn DEF Puts

LEMMA ClearsStep ==
    ASSUME LibraryInv, NEW t \in LibThreads, ImportClears(t)
    PROVE  LibraryInv'
<1>1. PICK p : p = request[t].p
  OBVIOUS
<1>2. request[t].at = "clear" /\ request[t].at \in Copying /\ request[t].at \in Importing
  BY DEF ImportClears, Importing, Copying
<1>3. p \in LibProjects /\ LibraryShape /\ folder[p]["staging"] \in SUBSET Files /\ "staging" \in Places
  BY <1>1, <1>2, ImportsGoOn DEF LibraryInv, LibraryShape, Places
<1>4. PICK at \in {"clear", "copy"}, files \in SUBSET folder[p]["staging"] :
         Goes(t, at) /\ Puts(p, "staging", files)
  <2>1. CASE Proceeds(t, "copy") /\ UNCHANGED folder
    BY <1>3, <2>1, RequestProceeds, FolderKeeps DEF LibrarySteps
  <2>2. CASE /\ \E f \in folder[p]["staging"] : Holds(p, "staging", folder[p]["staging"] \ {f})
             /\ UNCHANGED request
    <3>1. PICK files \in SUBSET folder[p]["staging"] : Holds(p, "staging", files)
      BY <2>2
    <3>2. Goes(t, "clear")
      BY <1>2, <1>3, <2>2 DEF Goes, OthersWait, LibraryShape
    <3>3. QED BY <1>3, <3>1, <3>2, FolderHolds
  <2>3. QED BY <1>1, <2>1, <2>2 DEF ImportClears
<1>5. UNCHANGED <<expects, mounted, catalogRow, whole, asked, raced, loose>>
  BY DEF ImportClears, libHistory
<1>6. at \in Copying
  BY <1>4 DEF Copying
<1>7. QED BY <1>1, <1>2, <1>3, <1>4, <1>5, <1>6, CopyingGoesOn

LEMMA CopiesStep ==
    ASSUME LibraryInv, NEW t \in LibThreads, ImportCopies(t)
    PROVE  LibraryInv'
<1>1. PICK p, d : p = request[t].p /\ d = request[t].dir
  OBVIOUS
<1>2. request[t].at = "copy" /\ request[t].at \in Copying /\ request[t].at \in Importing
  BY DEF ImportCopies, Importing, Copying
<1>3. /\ p \in LibProjects /\ LibraryShape /\ d \in Places /\ "staging" \in Places
      /\ folder[p]["staging"] \in SUBSET Files /\ folder[p][d] \in SUBSET Files
  BY SMTT(30), <1>1, <1>2, ImportsGoOn DEF LibraryInv, LibraryShape, Places
<1>4. PICK at \in {"verify", "cleanup"}, files \in SUBSET Files :
         /\ Goes(t, at) /\ Puts(p, "staging", files)
         /\ files \subseteq folder[p]["staging"] \cup folder[p][d]
  <2>1. CASE Proceeds(t, "verify") /\ Holds(p, "staging", folder[p][d])
    BY <1>3, <2>1, RequestProceeds, FolderHolds DEF LibrarySteps
  <2>2. CASE Proceeds(t, "cleanup") /\ \E some \in SUBSET folder[p][d] : Holds(p, "staging", some)
    BY <1>3, <2>2, RequestProceeds, FolderHolds DEF LibrarySteps
  <2>3. CASE Proceeds(t, "cleanup") /\ UNCHANGED folder
    BY <1>3, <2>3, RequestProceeds, FolderKeeps DEF LibrarySteps
  <2>4. QED BY <1>1, <2>1, <2>2, <2>3 DEF ImportCopies
<1>5. UNCHANGED <<expects, mounted, catalogRow, whole, asked, raced, loose>>
  BY DEF ImportCopies, libHistory
<1>6. at \in Copying \cup {"cleanup"} /\ at # "rename"
  BY <1>4 DEF Copying
<1>7. QED BY <1>1, <1>2, <1>4, <1>5, <1>6, CopyingGoesOn

LEMMA VerifiesStep ==
    ASSUME LibraryInv, NEW t \in LibThreads, ImportVerifies(t)
    PROVE  LibraryInv'
<1>1. PICK p, d : p = request[t].p /\ d = request[t].dir
  OBVIOUS
<1>2. request[t].at = "verify" /\ request[t].at \in Copying /\ request[t].at \in Importing
  BY DEF ImportVerifies, Importing, Copying
<1>3. /\ p \in LibProjects /\ LibraryShape /\ "staging" \in Places
      /\ folder[p]["staging"] \in SUBSET Files
  BY <1>1, <1>2, ImportsGoOn DEF LibraryInv, LibraryShape, Places
<1>4. UNCHANGED <<folder, expects, mounted, catalogRow, whole, asked, raced, loose>>
  BY DEF ImportVerifies, libHistory, libDisk
<1>5. Puts(p, "staging", folder[p]["staging"])
  BY <1>3, <1>4, FolderKeeps
<1>6. PICK at \in {"rename", "cleanup"} :
         Goes(t, at) /\ (at = "rename" => folder[p]["staging"] = folder[p][d])
  BY <1>1, <1>3, RequestProceeds DEF ImportVerifies, LibrarySteps
<1>7. at \in Copying \cup {"cleanup"}
  BY <1>6 DEF Copying
<1>8. QED BY <1>1, <1>2, <1>3, <1>4, <1>5, <1>6, <1>7, CopyingGoesOn

LEMMA RenamesStep ==
    ASSUME LibraryInv, NEW t \in LibThreads, ImportRenames(t)
    PROVE  LibraryInv'
<1>1. PICK p, d, s : p = request[t].p /\ d = request[t].dir /\ s = request[t].source
  OBVIOUS
<1>2. request[t].at = "rename" /\ request[t].at \in Copying /\ request[t].at \in Importing
  BY DEF ImportRenames, Importing, Copying
<1>3. /\ p \in LibProjects /\ d \in {"outside", "drive"} /\ s \in Originals /\ ManifestIsNamed(p)
      /\ p \notin raced =>
            /\ ~Listed(p) /\ p \notin asked /\ \A x \in LibThreads \ {t} : request[x].p # p
            /\ ImportIsSafe(t, p)
  BY <1>1, <1>2, ImportsGoOn
<1>4. /\ LibraryShape /\ "staging" \in Places /\ "library" \in Places
      /\ folder[p]["staging"] \in SUBSET Files
  BY <1>3 DEF LibraryInv, LibraryShape, Places
<1>5. UNCHANGED <<expects, mounted, catalogRow, whole, asked, raced, loose>>
  BY DEF ImportRenames, libHistory
<1>6. CASE Proceeds(t, "cleanup") /\ folder' = folder
  <2>1. PICK at : at = "cleanup" /\ at \in Copying \cup {"cleanup"}
    OBVIOUS
  <2>2. Goes(t, at) /\ Puts(p, "staging", folder[p]["staging"])
    BY <1>3, <1>4, <1>6, <2>1, RequestProceeds, FolderKeeps DEF LibrarySteps
  <2>3. QED BY <1>1, <1>2, <1>4, <1>5, <2>1, <2>2, CopyingGoesOn
<1>7. CASE /\ Proceeds(t, "original")
           /\ folder' = [folder EXCEPT ![p]["library"] = folder[p]["staging"], ![p]["staging"] = {}]
  <2>1. Goes(t, "original")
    BY <1>4, <1>7, RequestProceeds DEF LibrarySteps
  <2>2. /\ folder' \in [LibProjects -> [Places -> SUBSET Files]]
        /\ \A o \in LibProjects \ {p} : folder'[o] = folder[o]
        /\ folder'[p]["library"] = folder[p]["staging"] /\ folder'[p]["staging"] = {}
        /\ \A x \in Places \ {"library", "staging"} : folder'[p][x] = folder[p][x]
    BY <1>3, <1>4, <1>7 DEF LibraryShape, Places
  <2>3. ManifestIsNamed(p)'
    BY <1>3, <1>4, <1>5, <2>2 DEF ManifestIsNamed
  <2>4. ASSUME p \notin raced
        PROVE  BookSurvives(p)' /\ StagedFrom(p)' /\ ImportIsSafe(t, p)'
    <3>1. /\ HasBook(p, d) /\ Agrees(p, d, s) /\ ~Listed(p)
          /\ \A x \in LibThreads \ {t} : request[x].p # p
          /\ folder[p]["staging"] = folder[p][d]
      BY <1>1, <1>2, <1>3, <2>4 DEF ImportIsSafe
    <3>2. folder'[p]["library"] = folder[p][d]
      BY <2>2, <3>1
    <3>3. HasBook(p, "library")' /\ Agrees(p, "library", s)'
      BY <1>5, <3>1, <3>2 DEF HasBook, Agrees
    <3>4. IsAlone(t, p)'
      BY <1>5, <2>1, <3>1 DEF IsAlone, Goes, OthersWait, Listed
    <3>5. request'[t].at = "original" /\ request'[t].dir = d /\ request'[t].source = s
      BY <1>1, <2>1 DEF Goes
    <3>6. ImportIsSafe(t, p)'
      BY <1>1, <1>3, <1>5, <2>2, <2>4, <3>3, <3>4, <3>5 DEF ImportIsSafe, Copying, Copied
    <3>7. BookSurvives(p)' /\ StagedFrom(p)'
      BY <2>2, <3>3 DEF BookSurvives, StagedFrom
    <3>8. QED BY <3>6, <3>7
  <2>5. "original" \in Importing
    BY DEF Importing, Copied
  <2>6. QED BY <1>1, <1>2, <1>3, <1>5, <2>1, <2>2, <2>3, <2>4, <2>5, ImportGoesOn
<1>8. QED BY <1>1, <1>6, <1>7 DEF ImportRenames

LEMMA CleansUpStep ==
    ASSUME LibraryInv, NEW t \in LibThreads, ImportCleansUp(t)
    PROVE  LibraryInv'
<1>1. PICK p : p = request[t].p
  OBVIOUS
<1>2. request[t].at \in Importing /\ "cleanup" \in Importing
  BY DEF ImportCleansUp, Importing
<1>3. p \in LibProjects /\ ManifestIsNamed(p) /\ (p \notin raced => ProjectIsSafe(p))
  BY <1>1, <1>2, ImportsGoOn
<1>4. LibraryShape /\ "staging" \in Places /\ folder[p]["staging"] \in SUBSET Files
  BY <1>3 DEF LibraryInv, LibraryShape, Places
<1>5. PICK files \in SUBSET folder[p]["staging"] : Quits(t) /\ Puts(p, "staging", files)
  <2>1. Quits(t)
    BY <1>4, RequestEnds DEF ImportCleansUp
  <2>2. CASE Holds(p, "staging", {})
    BY <1>3, <1>4, <2>1, <2>2, FolderHolds
  <2>3. CASE UNCHANGED folder
    BY <1>3, <1>4, <2>1, <2>3, FolderKeeps
  <2>4. QED BY <1>1, <2>2, <2>3 DEF ImportCleansUp
<1>6. UNCHANGED <<expects, mounted, catalogRow, whole, asked, raced, loose>>
  BY DEF ImportCleansUp, libHistory
<1>7. ManifestIsNamed(p)'
  BY <1>3, <1>5, <1>6 DEF ManifestIsNamed, Puts, Places
<1>8. p \notin raced => BookSurvives(p)' /\ StagedFrom(p)'
  BY <1>3, <1>5, <1>6 DEF ProjectIsSafe, BookSurvives, StagedFrom, Puts, HasBook, Places
<1>9. ~Goes(t, "cleanup")
  BY <1>5 DEF Quits, Goes, NoRequest
<1>10. QED BY <1>1, <1>2, <1>5, <1>6, <1>7, <1>8, <1>9, ImportGoesOn DEF Puts

LEMMA RemovesOriginalStep ==
    ASSUME LibraryInv, NEW t \in LibThreads, ImportRemovesOriginal(t)
    PROVE  LibraryInv'
<1>1. PICK p, d, s : p = request[t].p /\ d = request[t].dir /\ s = request[t].source
  OBVIOUS
<1>2. request[t].at = "original" /\ request[t].at \in Copied /\ request[t].at \in Importing
  BY DEF ImportRemovesOriginal, Importing, Copied
<1>3. /\ p \in LibProjects /\ d \in {"outside", "drive"} /\ s \in Originals /\ ManifestIsNamed(p)
      /\ p \notin raced =>
            /\ ~Listed(p) /\ p \notin asked /\ \A x \in LibThreads \ {t} : request[x].p # p
            /\ ImportIsSafe(t, p)
  BY <1>1, <1>2, ImportsGoOn
<1>4. LibraryShape /\ d \in Places /\ folder[p][d] \in SUBSET Files
  BY <1>3 DEF LibraryInv, LibraryShape, Places
<1>5. PICK rest \in SUBSET folder[p][d] : Puts(p, d, rest)
  <2>1. CASE \E rest \in SUBSET folder[p][d] : Holds(p, d, rest)
    BY <1>3, <1>4, <2>1, FolderHolds
  <2>2. CASE UNCHANGED folder
    BY <1>3, <1>4, <2>2, FolderKeeps
  <2>3. QED BY <1>1, <2>1, <2>2 DEF ImportRemovesOriginal
<1>6. Goes(t, "record") /\ "record" \in Importing
  BY <1>4, RequestProceeds DEF ImportRemovesOriginal, LibrarySteps, Importing, Copied
<1>7. UNCHANGED <<expects, mounted, catalogRow, whole, asked, raced, loose>>
  BY DEF ImportRemovesOriginal, libHistory
<1>8. ManifestIsNamed(p)'
  BY <1>3, <1>5, <1>7 DEF ManifestIsNamed, Puts
<1>9. ASSUME p \notin raced
      PROVE  BookSurvives(p)' /\ StagedFrom(p)' /\ ImportIsSafe(t, p)'
  <2>1. /\ folder[p]["staging"] = {} /\ HasBook(p, "library") /\ Agrees(p, "library", s) /\ ~Listed(p)
        /\ \A x \in LibThreads \ {t} : request[x].p # p
    BY <1>1, <1>2, <1>3, <1>9 DEF ImportIsSafe
  <2>2. folder'[p]["library"] = folder[p]["library"] /\ folder'[p]["staging"] = folder[p]["staging"]
    BY <1>3, <1>5 DEF Puts, Places
  <2>3. HasBook(p, "library")' /\ Agrees(p, "library", s)'
    BY <1>7, <2>1, <2>2 DEF HasBook, Agrees
  <2>4. IsAlone(t, p)'
    BY <1>6, <1>7, <2>1 DEF IsAlone, Goes, OthersWait, Listed
  <2>5. request'[t].at = "record" /\ request'[t].source = s
    BY <1>1, <1>6 DEF Goes
  <2>6. ImportIsSafe(t, p)'
    BY <1>3, <1>7, <1>9, <2>1, <2>2, <2>3, <2>4, <2>5 DEF ImportIsSafe, Copying, Copied
  <2>7. BookSurvives(p)' /\ StagedFrom(p)'
    BY <2>1, <2>2, <2>3 DEF BookSurvives, StagedFrom
  <2>8. QED BY <2>6, <2>7
<1>10. QED BY <1>1, <1>2, <1>3, <1>5, <1>6, <1>7, <1>8, <1>9, ImportGoesOn DEF Puts

-----------------------------------------------------------------------------
(* The other steps.                                                         *)

\* What a row becomes.
RowBecomes(q, row) ==
    /\ catalogRow' \in [LibProjects -> LibraryRows \cup {Nowhere}]
    /\ catalogRow'[q] = row
    /\ \A o \in LibProjects \ {q} : catalogRow'[o] = catalogRow[o]

LEMMA RowIsWritten ==
    ASSUME LibraryShape, NEW q \in LibProjects, NEW row \in LibraryRows \cup {Nowhere},
           catalogRow' = [catalogRow EXCEPT ![q] = row]
    PROVE  RowBecomes(q, row)
BY DEF LibraryShape, RowBecomes

LEMMA RowIsKept ==
    ASSUME LibraryShape, NEW q \in LibProjects, catalogRow' = catalogRow
    PROVE  RowBecomes(q, catalogRow[q])
BY DEF LibraryShape, RowBecomes

\* A row that is listed, and the parts of one.
LEMMA RowIsTyped ==
    ASSUME LibraryShape, NEW q \in LibProjects
    PROVE  /\ Listed(q) => /\ catalogRow[q] \in LibraryRows
                           /\ catalogRow[q].root \in {"library", "drive"}
                           /\ catalogRow[q].source \in Originals /\ catalogRow[q].deleting \in BOOLEAN
           /\ ~Listed(q) => catalogRow[q] = Nowhere
BY DEF LibraryShape, LibraryRows, Listed

LEMMA RowsAreListed ==
    \A row \in LibraryRows : row # Nowhere
BY DEF LibraryRows, Nowhere

\* A step changes other projects in nothing.
OnlyAbout(q) ==
    \A o \in LibProjects \ {q} :
        /\ folder'[o] = folder[o] /\ expects'[o] = expects[o] /\ catalogRow'[o] = catalogRow[o]
        /\ o \in whole' <=> o \in whole
        /\ o \in asked' <=> o \in asked
        /\ o \in raced' <=> o \in raced
        /\ o \in loose' <=> o \in loose

LEMMA OneRequestMoves ==
    ASSUME LibraryInv, NEW t \in LibThreads, NEW q \in LibProjects, mounted' = mounted,
           OnlyAbout(q), OthersWait(t), request[t].p \in {q, "none"}, request'[t].p \in {q, "none"},
           folder' \in [LibProjects -> [Places -> SUBSET Files]],
           expects' \in [LibProjects -> Originals \cup {"none"}],
           catalogRow' \in [LibProjects -> LibraryRows \cup {Nowhere}],
           RequestPlaced(t)', ManifestIsNamed(q)', OneUpload(q)',
           q \notin raced' => ProjectIsSafe(q)',
           q \notin raced' /\ request'[t].p = q => RequestIsSafe(t, q)',
           \A x \in LibThreads \ {t} : q \notin raced' /\ request[x].p = q => RequestIsSafe(x, q)'
    PROVE  LibraryInv'
<1>1. \A o \in LibProjects \ {q} : Untouched(o)
  BY LibraryAssumption DEF Untouched, OnlyAbout, OthersWait
<1>2. LibraryShape'
  BY DEF LibraryInv, LibraryShape, OthersWait, RequestPlaced
<1>3. \A x \in LibThreads : q \notin raced' /\ request'[x].p = q => RequestIsSafe(x, q)'
  BY DEF OthersWait
<1>4. SafeFor(q)'
  BY <1>3 DEF SafeFor
<1>5. QED BY <1>1, <1>2, <1>4, OneProjectMoves

\* Uploads under way stay single, as long as none begins.
LEMMA NoUploadBegins ==
    ASSUME LibraryInv, NEW t \in LibThreads, NEW q \in LibProjects, OthersWait(t),
           request'[t].at \in Uploading => request[t].at \in Uploading /\ request'[t].p = request[t].p
    PROVE  OneUpload(q)'
BY DEF LibraryInv, SafeFor, OneUpload, OthersWait

LEMMA RecordsStep ==
    ASSUME LibraryInv, NEW t \in LibThreads, ImportRecords(t)
    PROVE  LibraryInv'
<1>1. PICK p, d, s : p = request[t].p /\ d = request[t].dir /\ s = request[t].source
  OBVIOUS
<1>2. request[t].at = "record" /\ request[t].at \in Copied /\ request[t].at \in Importing
  BY DEF ImportRecords, Importing, Copied
<1>3. /\ p \in LibProjects /\ d \in {"outside", "drive"} /\ s \in Originals /\ ManifestIsNamed(p)
      /\ p \notin raced =>
            /\ ~Listed(p) /\ p \notin asked /\ \A x \in LibThreads \ {t} : request[x].p # p
            /\ ImportIsSafe(t, p) /\ ProjectIsSafe(p)
  BY <1>1, <1>2, ImportsGoOn
<1>4. LibraryShape
  BY DEF LibraryInv
<1>5. UNCHANGED <<folder, expects, mounted, whole, asked, raced, loose>>
  BY DEF ImportRecords, libHistory, libDisk
<1>6. ManifestIsNamed(p)'
  BY <1>3, <1>5 DEF ManifestIsNamed
<1>7. CASE Ends(t) /\ UNCHANGED catalogRow
  <2>1. Quits(t) /\ ~Goes(t, "record") /\ "record" \in Importing
    BY <1>2, <1>4, <1>7, RequestEnds DEF Quits, Goes, NoRequest
  <2>2. p \notin raced => BookSurvives(p)' /\ StagedFrom(p)'
    BY <1>3, <1>5 DEF ProjectIsSafe, BookSurvives, StagedFrom, HasBook
  <2>3. folder' \in [LibProjects -> [Places -> SUBSET Files]]
    BY <1>4, <1>5 DEF LibraryShape
  <2>4. QED BY <1>1, <1>2, <1>5, <1>6, <1>7, <2>1, <2>2, <2>3, ImportGoesOn
<1>8. CASE /\ ~Listed(p) /\ Proceeds(t, "mark")
           /\ catalogRow' = [catalogRow EXCEPT ![p] = [root |-> "library", source |-> s, deleting |-> FALSE]]
  <2>1. PICK row : row = [root |-> "library", source |-> s, deleting |-> FALSE]
    OBVIOUS
  <2>2. row \in LibraryRows /\ row.root = "library" /\ row.source = s /\ ~row.deleting
    BY <1>3, <2>1 DEF LibraryRows
  <2>3. RowBecomes(p, row) /\ Goes(t, "mark")
    BY <1>3, <1>4, <1>8, <2>1, <2>2, RowIsWritten, RequestProceeds DEF LibrarySteps
  <2>4. OnlyAbout(p)
    BY <1>5, <2>3 DEF OnlyAbout, RowBecomes
  <2>5. RequestPlaced(t)'
    BY <1>1, <1>3, <2>3 DEF RequestPlaced, Goes, Places, Importing, Copying, Copied, Uploading
  <2>6. ASSUME p \notin raced' PROVE ProjectIsSafe(p)'
    BY <1>1, <1>2, <1>3, <1>5, <2>2, <2>3, <2>6, RowsAreListed
       DEF ProjectIsSafe, BookSurvives, StagedFrom, RootIsAlone, SourceIsKept, ManifestAgrees,
           SentinelStays, DeletingIsAsked, Listed, Offered, RowBecomes, ImportIsSafe, Copied, Agrees, HasBook
  <2>7. ASSUME p \notin raced' PROVE RequestIsSafe(t, p)'
    BY <1>1, <1>2, <1>3, <1>5, <2>2, <2>3, <2>7
       DEF RequestIsSafe, CreateIsSafe, ImportIsSafe, UploadIsSafe, RemovalIsSafe, Goes, RowBecomes,
           Importing, Copying, Copied, Uploading
  <2>8. OneUpload(p)'
    BY <1>3, <2>3, NoUploadBegins DEF Goes, Uploading
  <2>9. folder' \in [LibProjects -> [Places -> SUBSET Files]] /\ expects' \in [LibProjects -> Originals \cup {"none"}]
    BY <1>4, <1>5 DEF LibraryShape
  <2>10. QED
    BY <1>1, <1>3, <1>5, <1>6, <2>3, <2>4, <2>5, <2>6, <2>7, <2>8, <2>9, OneRequestMoves
       DEF Goes, RowBecomes
<1>9. QED BY <1>1, <1>7, <1>8 DEF ImportRecords

LEMMA MarksStep ==
    ASSUME LibraryInv, NEW t \in LibThreads, ImportMarks(t)
    PROVE  LibraryInv'
<1>1. PICK p : p = request[t].p
  OBVIOUS
<1>2. request[t].at = "mark"
  BY DEF ImportMarks
<1>3. /\ p \in LibProjects /\ LibraryShape /\ ManifestIsNamed(p) /\ Marking(p)
      /\ p \notin raced => ProjectIsSafe(p) /\ folder[p]["staging"] = {} /\ (Listed(p) => catalogRow[p].root = "library")
  BY <1>1, <1>2 DEF LibraryInv, LibraryShape, RequestPlaced, SafeFor, RequestIsSafe, ImportIsSafe, Marking
<1>4. UNCHANGED <<expects, mounted, catalogRow, whole, asked, raced, loose>> /\ Quits(t)
  BY <1>3, RequestEnds DEF ImportMarks, libHistory
<1>5. PICK found : found = Below(p, "library")
  OBVIOUS
<1>6. found \subseteq {"library", "staging"} /\ \A d \in {"library"} : d \in found <=> folder[p][d] # {}
  BY <1>5 DEF Below, Named, There
<1>7. "staging" \in found => folder[p]["staging"] # {}
  BY <1>5 DEF Below, Named, There
<1>8. /\ folder' \in [LibProjects -> [Places -> SUBSET Files]]
      /\ \A o \in LibProjects \ {p} : folder'[o] = folder[o]
      /\ \A d \in Places :
            \/ folder'[p][d] = folder[p][d]
            \/ /\ folder'[p][d] = folder[p][d] \cup {"marker"} /\ d \in {"library", "staging"}
               /\ d = "staging" => folder[p]["staging"] # {}
  <2>1. CASE found = {}
    <3>1. folder[p]["library"] = {}
      BY <1>6, <2>1
    <3>2. Cardinality(found) # 1
      BY <2>1, FS_EmptySet
    <3>3. folder' = [folder EXCEPT ![p]["library"] = {"marker"}]
      BY <1>1, <1>5, <2>1, <3>2 DEF ImportMarks
    <3>4. QED BY <1>3, <3>1, <3>3 DEF LibraryShape, Places, Files
  <2>2. CASE found # {} /\ Cardinality(found) = 1
    <3>1. folder' = [folder EXCEPT ![p] = [d \in Places |-> IF d \in found THEN folder[p][d] \cup {"marker"} ELSE folder[p][d]]]
      BY <1>1, <1>5, <2>2 DEF ImportMarks
    <3>2. QED BY <1>3, <1>6, <1>7, <3>1 DEF LibraryShape, Places, Files
  <2>3. CASE found # {} /\ Cardinality(found) # 1
    <3>1. folder' = folder
      BY <1>1, <1>5, <2>3 DEF ImportMarks
    <3>2. QED BY <1>3, <3>1 DEF LibraryShape
  <2>4. QED BY <2>1, <2>2, <2>3
<1>9. OnlyAbout(p) /\ ManifestIsNamed(p)' /\ RequestPlaced(t)'
  BY <1>3, <1>4, <1>8 DEF OnlyAbout, ManifestIsNamed, RequestPlaced, Quits, NoRequest, Importing, Copying, Copied, Uploading
<1>10. OneUpload(p)'
  BY <1>3, <1>4, NoUploadBegins DEF Quits, NoRequest, Uploading
<1>11. p \notin raced =>
         /\ folder'[p]["staging"] = {} /\ folder'[p]["drive"] = folder[p]["drive"]
         /\ folder'[p]["outside"] = folder[p]["outside"]
         /\ folder'[p]["library"] \in {folder[p]["library"], folder[p]["library"] \cup {"marker"}}
  BY <1>3, <1>8 DEF Places
<1>12. Marking(p)' => Marking(p)
  BY <1>3
<1>13. ASSUME p \notin raced' PROVE ProjectIsSafe(p)'
  BY <1>3, <1>4, <1>11, <1>12, <1>13
     DEF ProjectIsSafe, BookSurvives, StagedFrom, RootIsAlone, SourceIsKept, ManifestAgrees,
         SentinelStays, DeletingIsAsked, Listed, Offered, HasBook, Homes
<1>14. ASSUME NEW x \in LibThreads \ {t}, p \notin raced', request[x].p = p PROVE RequestIsSafe(x, p)'
  <2>1. RequestIsSafe(x, p) /\ request'[x] = request[x] /\ RequestPlaced(x)
    BY <1>3, <1>4, <1>14 DEF LibraryInv, SafeFor, Quits, OthersWait, LibraryShape
  <2>2. ~IsAlone(x, p)
    BY <1>1, <1>14 DEF IsAlone
  <2>3. request[x].at \notin Importing \cup {"insert"}
    BY <2>1, <2>2 DEF RequestIsSafe, CreateIsSafe, ImportIsSafe
  <2>4. CreateIsSafe(x, p)' /\ ImportIsSafe(x, p)'
    BY <1>3, <1>4, <1>11, <1>14, <2>1, <2>3
       DEF RequestIsSafe, CreateIsSafe, ImportIsSafe, Listed, Importing, Copying, Copied
  <2>5. UploadIsSafe(x, p)'
    BY <1>3, <1>4, <1>11, <1>14, <2>1 DEF RequestIsSafe, UploadIsSafe, Listed, Offered, RequestPlaced, Homes
  <2>6. RemovalIsSafe(x, p)'
    BY <1>3, <1>4, <1>11, <1>14, <2>1 DEF RequestIsSafe, RemovalIsSafe, Listed, RequestPlaced, Homes
  <2>7. QED BY <2>4, <2>5, <2>6 DEF RequestIsSafe
<1>15. expects' \in [LibProjects -> Originals \cup {"none"}] /\ catalogRow' \in [LibProjects -> LibraryRows \cup {Nowhere}]
  BY <1>3, <1>4 DEF LibraryShape
<1>16. request'[t].p = "none" /\ OthersWait(t)
  BY <1>4 DEF Quits, NoRequest
<1>17. QED
  BY <1>1, <1>3, <1>4, <1>8, <1>9, <1>10, <1>13, <1>14, <1>15, <1>16, LibraryAssumption, OneRequestMoves

LEMMA SavesStep ==
    ASSUME LibraryInv, NEW t \in LibThreads, NEW p \in LibProjects, NEW root \in {"library", "drive"},
           CreateSaves(t, p, root)
    PROVE  LibraryInv'
<1>1. LibraryShape /\ ManifestIsNamed(p) /\ (p \notin raced => ProjectIsSafe(p))
  BY DEF LibraryInv, SafeFor
<1>2. /\ \A d \in Places : folder[p][d] = {}
      /\ ~Listed(p) /\ p \notin whole /\ \A x \in LibThreads : request[x].p # p
  BY DEF CreateSaves, UnderWay
<1>3. Starts(t, "insert", p, root, "none") /\ Puts(p, root, {"s1"})
  BY <1>1, RequestBegins, FolderHolds DEF CreateSaves, Begins, LibrarySteps, Places, Files
<1>4. UNCHANGED <<expects, mounted, catalogRow, whole, asked, raced, loose>>
  BY DEF CreateSaves, libHistory
<1>5. OnlyAbout(p) /\ ManifestIsNamed(p)'
  BY <1>1, <1>2, <1>3, <1>4 DEF OnlyAbout, ManifestIsNamed, Puts
<1>6. RequestPlaced(t)' /\ OneUpload(p)'
  BY <1>3, NoUploadBegins DEF RequestPlaced, Starts, NoRequest, Importing, Copying, Copied, Uploading, Places
<1>7. p \notin raced /\ p \in asked => p \in loose
  BY <1>1, <1>2 DEF ProjectIsSafe, SentinelStays, Homes, Places
<1>8. ASSUME p \notin raced' PROVE ProjectIsSafe(p)'
  BY <1>1, <1>2, <1>3, <1>4, <1>7, <1>8
     DEF ProjectIsSafe, BookSurvives, StagedFrom, RootIsAlone, SourceIsKept, ManifestAgrees,
         SentinelStays, DeletingIsAsked, Listed, Offered, Puts, Places
<1>9. ASSUME p \notin raced' PROVE RequestIsSafe(t, p)'
  BY <1>2, <1>3, <1>4, <1>7, <1>9
     DEF RequestIsSafe, CreateIsSafe, ImportIsSafe, UploadIsSafe, RemovalIsSafe, IsAlone, Listed,
         Starts, OthersWait, Puts, Importing, Copying, Copied, Uploading, Places
<1>10. expects' \in [LibProjects -> Originals \cup {"none"}] /\ catalogRow' \in [LibProjects -> LibraryRows \cup {Nowhere}]
  BY <1>1, <1>4 DEF LibraryShape
<1>11. request[t].p = "none" /\ request'[t].p = p /\ OthersWait(t)
  BY <1>3 DEF Starts, NoRequest
<1>12. QED
  BY <1>2, <1>3, <1>4, <1>5, <1>6, <1>8, <1>9, <1>10, <1>11, OneRequestMoves DEF Puts

LEMMA InsertsStep ==
    ASSUME LibraryInv, NEW t \in LibThreads, CreateInserts(t)
    PROVE  LibraryInv'
<1>1. PICK p, d : p = request[t].p /\ d = request[t].dir
  OBVIOUS
<1>2. request[t].at = "insert" /\ d \in {"library", "drive"} /\ p \in LibProjects /\ LibraryShape
  BY <1>1 DEF CreateInserts, LibraryInv, LibraryShape, RequestPlaced
<1>3. ManifestIsNamed(p) /\ (p \notin raced => ProjectIsSafe(p) /\ CreateIsSafe(t, p))
  BY <1>1, <1>2 DEF LibraryInv, SafeFor, RequestIsSafe
<1>4. UNCHANGED <<expects, mounted, whole, asked, raced, loose>> /\ Quits(t)
  BY <1>2, RequestEnds DEF CreateInserts, libHistory
<1>5. PICK files \in {folder[p][d], {}}, row \in LibraryRows \cup {Nowhere} :
         /\ Puts(p, d, files) /\ RowBecomes(p, row)
         /\ \/ row \in LibraryRows /\ row.root = d /\ row.source = "s1" /\ ~row.deleting /\ files = folder[p][d]
            \/ row = catalogRow[p] /\ files = {}
  <2>1. folder[p][d] \in SUBSET Files /\ d \in Places
    BY <1>2 DEF LibraryShape, Places
  <2>2. CASE UNCHANGED folder /\ catalogRow' = [catalogRow EXCEPT ![p] = [root |-> d, source |-> "s1", deleting |-> FALSE]]
    <3>1. PICK row : row = [root |-> d, source |-> "s1", deleting |-> FALSE]
      OBVIOUS
    <3>2. row \in LibraryRows /\ row.root = d /\ row.source = "s1" /\ ~row.deleting
      BY <1>2, <3>1 DEF LibraryRows, Originals
    <3>3. QED BY <1>2, <2>1, <2>2, <3>1, <3>2, RowIsWritten, FolderKeeps
  <2>3. CASE Holds(p, d, {}) /\ UNCHANGED catalogRow
    <3>1. catalogRow[p] \in LibraryRows \cup {Nowhere}
      BY <1>2 DEF LibraryShape
    <3>2. QED BY <1>2, <2>1, <2>3, <3>1, RowIsKept, FolderHolds
  <2>4. QED BY <1>1, <2>2, <2>3 DEF CreateInserts
<1>6. OnlyAbout(p) /\ ManifestIsNamed(p)' /\ RequestPlaced(t)' /\ OneUpload(p)'
  <2>1. OnlyAbout(p)
    BY <1>2, <1>4, <1>5 DEF OnlyAbout, Puts, RowBecomes
  <2>2. ManifestIsNamed(p)'
    BY <1>2, <1>3, <1>4, <1>5 DEF ManifestIsNamed, Puts
  <2>3. RequestPlaced(t)'
    BY <1>4 DEF RequestPlaced, Quits, NoRequest, Importing, Copying, Copied, Uploading
  <2>4. OneUpload(p)'
    BY <1>2, <1>4, NoUploadBegins DEF Quits, NoRequest, Uploading
  <2>5. QED BY <2>1, <2>2, <2>3, <2>4
<1>7. ASSUME p \notin raced' PROVE ProjectIsSafe(p)'
  <2>1. /\ ~Listed(p) /\ p \notin whole /\ (p \in asked => p \in loose)
        /\ folder[p][d] = {"s1"} /\ \A x \in Places \ {d} : folder[p][x] = {}
    BY <1>1, <1>2, <1>3, <1>4, <1>7 DEF CreateIsSafe, IsAlone
  <2>2. QED
    BY <1>2, <1>3, <1>4, <1>5, <2>1, RowsAreListed
       DEF ProjectIsSafe, BookSurvives, StagedFrom, RootIsAlone, SourceIsKept, ManifestAgrees,
           SentinelStays, DeletingIsAsked, Listed, Offered, OffDrive, Puts, RowBecomes, Places
<1>8. \A x \in LibThreads \ {t} : p \notin raced' => request[x].p # p
  BY <1>1, <1>2, <1>3, <1>4 DEF CreateIsSafe, IsAlone
<1>9. request'[t].p = "none" /\ OthersWait(t) /\ expects' \in [LibProjects -> Originals \cup {"none"}]
  BY <1>2, <1>4 DEF Quits, NoRequest, LibraryShape
<1>10. QED
  BY <1>1, <1>2, <1>4, <1>5, <1>6, <1>7, <1>8, <1>9, LibraryAssumption, OneRequestMoves
     DEF Puts, RowBecomes

\* find_project finds one directory of a listed project.
LEMMA UniqueHome ==
    ASSUME LibraryShape, NEW q \in LibProjects, Listed(q), NEW d, Below(q, catalogRow[q].root) = {d}
    PROVE  /\ d \in Homes /\ d \in Places /\ folder[q][d] \in SUBSET Files /\ There(q, d)
           /\ d = "drive" <=> catalogRow[q].root = "drive"
           /\ d = "library" => "marker" \notin folder[q]["staging"]
           /\ d = "staging" => folder[q]["library"] = {} /\ "marker" \in folder[q]["staging"]
           /\ catalogRow[q].root \in {"library", "drive"} /\ catalogRow[q].source \in Originals
<1>1. catalogRow[q].root \in {"library", "drive"} /\ catalogRow[q].source \in Originals
  BY RowIsTyped
<1>2. CASE catalogRow[q].root = "drive"
  BY <1>1, <1>2 DEF Below, Named, Homes, Places, LibraryShape
<1>3. CASE catalogRow[q].root = "library"
  <2>1. {x \in {"library", "staging"} : Named(q, x)} = {d}
    BY <1>3 DEF Below
  <2>2. d \in {"library", "staging"} /\ Named(q, d)
    BY <2>1
  <2>3. \A x \in {"library", "staging"} : Named(q, x) => x = d
    BY <2>1
  <2>4. QED BY <1>1, <1>3, <2>2, <2>3 DEF Named, There, Homes, Places, LibraryShape
<1>4. QED BY <1>1, <1>2, <1>3

\* Beside a listed project there is no request that is alone with it.
LEMMA ListedIsNotAlone ==
    ASSUME LibraryInv, NEW q \in LibProjects \ raced, NEW x \in LibThreads, request[x].p = q,
           Listed(q) \/ \E t \in LibThreads \ {x} : request[t].p = q
    PROVE  /\ request[x].at \notin Importing \cup {"insert", "idle"} /\ RequestIsSafe(x, q)
           /\ RequestPlaced(x)
BY LibraryAssumption DEF LibraryInv, LibraryShape, RequestPlaced, NoRequest, SafeFor, RequestIsSafe, CreateIsSafe,
   ImportIsSafe, IsAlone

LEMMA ParseStep ==
    ASSUME LibraryInv, NEW p \in LibProjects, Parse(p)
    PROVE  LibraryInv'
<1>1. /\ LibraryShape /\ ManifestIsNamed(p) /\ OneUpload(p) /\ Listed(p) /\ ~LockedByRequest(p)
      /\ p \notin raced => ProjectIsSafe(p)
  BY DEF LibraryInv, SafeFor, Parse
<1>2. PICK d :
         /\ Below(p, catalogRow[p].root) = {d} /\ catalogRow[p].source \in folder[p][d]
         /\ \/ /\ Holds(p, d, folder[p][d] \cup {"marker", "state"})
               /\ UNCHANGED expects
            \/ /\ "state" \in folder[p][d] /\ "manifest" \notin folder[p][d]
               /\ Holds(p, d, folder[p][d] \cup {"manifest"})
               /\ expects' = [expects EXCEPT ![p] = catalogRow[p].source]
  BY DEF Parse
<1>3. /\ d \in Homes /\ d \in Places /\ folder[p][d] \in SUBSET Files
      /\ d = "drive" <=> catalogRow[p].root = "drive"
      /\ d = "library" => "marker" \notin folder[p]["staging"]
      /\ d = "staging" => folder[p]["library"] = {} /\ "marker" \in folder[p]["staging"]
      /\ catalogRow[p].root \in {"library", "drive"} /\ catalogRow[p].source \in Originals
  BY <1>1, <1>2, UniqueHome
<1>4. PICK files \in SUBSET Files :
         /\ Puts(p, d, files) /\ folder[p][d] \cup {"state"} \subseteq files
         /\ files \subseteq folder[p][d] \cup {"marker", "state", "manifest"}
         /\ expects' \in [LibProjects -> Originals \cup {"none"}]
         /\ \A o \in LibProjects \ {p} : expects'[o] = expects[o]
         /\ expects'[p] \in {expects[p], catalogRow[p].source}
         /\ expects'[p] = expects[p] \/ expects'[p] = catalogRow[p].source
         /\ "manifest" \in files =>
               \/ expects'[p] = catalogRow[p].source
               \/ "manifest" \in folder[p][d] /\ expects'[p] = expects[p]
         /\ expects'[p] = expects[p] \/ d # "library" \/ "manifest" \notin folder[p]["library"]
         /\ "marker" \in files => "marker" \in folder[p][d] \/ d # "staging"
  <2>1. CASE Holds(p, d, folder[p][d] \cup {"marker", "state"}) /\ UNCHANGED expects
    BY <1>1, <1>3, <2>1, FolderHolds DEF LibraryShape, Files
  <2>2. CASE /\ "state" \in folder[p][d] /\ "manifest" \notin folder[p][d]
             /\ Holds(p, d, folder[p][d] \cup {"manifest"})
             /\ expects' = [expects EXCEPT ![p] = catalogRow[p].source]
    BY <1>1, <1>3, <2>2, FolderHolds DEF LibraryShape, Files
  <2>3. QED BY <1>2, <2>1, <2>2
<1>5. UNCHANGED <<mounted, catalogRow, request, asked, raced, loose>> /\ whole' = whole \cup {p}
  BY DEF Parse
<1>6. \A o \in LibProjects \ {p} : Untouched(o)
  BY <1>4, <1>5 DEF Untouched, Puts
<1>7. LibraryShape'
  BY <1>1, <1>4, <1>5 DEF LibraryShape, Puts, RequestPlaced
<1>8. ManifestIsNamed(p)' /\ OneUpload(p)'
  BY <1>1, <1>3, <1>4, <1>5 DEF ManifestIsNamed, OneUpload, Puts, Originals
<1>9. ASSUME p \notin raced' PROVE ProjectIsSafe(p)'
  <2>1. ProjectIsSafe(p)
    BY <1>1, <1>5, <1>9
  <2>2. BookSurvives(p)'
    BY <1>2, <1>3, <1>4, <1>5, <2>1 DEF ProjectIsSafe, BookSurvives, StagedFrom, HasBook, Puts, Homes, Places
  <2>3. StagedFrom(p)'
    BY <1>2, <1>3, <1>4, <1>5, <2>1 DEF ProjectIsSafe, StagedFrom, HasBook, Puts, Homes, Places
  <2>4. RootIsAlone(p)' /\ DeletingIsAsked(p)'
    BY <1>3, <1>4, <1>5, <2>1 DEF ProjectIsSafe, RootIsAlone, DeletingIsAsked, Listed, OffDrive, Puts, Homes, Places
  <2>5. SourceIsKept(p)'
    BY <1>3, <1>4, <1>5, <2>1 DEF ProjectIsSafe, SourceIsKept, Offered, Listed, Puts, Homes, Places
  <2>6. ManifestAgrees(p)'
    BY <1>1, <1>3, <1>4, <1>5, <2>1 DEF ProjectIsSafe, ManifestAgrees, RootIsAlone, OffDrive, Listed, Puts, Homes, Places
  <2>7. SentinelStays(p)'
    BY <1>1, <1>2, <1>3, <1>4, <1>5, <2>1 DEF ProjectIsSafe, SentinelStays, Listed, OffDrive, Marking, Puts, Homes, Places
  <2>8. QED BY <2>2, <2>3, <2>4, <2>5, <2>6, <2>7 DEF ProjectIsSafe
<1>10. ASSUME p \notin raced', NEW x \in LibThreads, request'[x].p = p PROVE RequestIsSafe(x, p)'
  <2>1. request[x].at \notin Importing \cup {"insert", "idle"} /\ RequestIsSafe(x, p)
    BY <1>1, <1>5, <1>10, ListedIsNotAlone
  <2>2. request[x].at \notin {"invalidate", "publish", "sentinel", "row"}
    BY <1>1, <1>5, <1>10 DEF LockedByRequest
  <2>3. QED
    BY <1>3, <1>4, <1>5, <2>1, <2>2
       DEF RequestIsSafe, CreateIsSafe, ImportIsSafe, UploadIsSafe, RemovalIsSafe, Listed, Puts, Places,
           Importing, Copying, Copied, Uploading
<1>11. SafeFor(p)'
  BY <1>8, <1>9, <1>10 DEF SafeFor
<1>12. QED BY <1>5, <1>6, <1>7, <1>11, OneProjectMoves

LEMMA UploadSavesStep ==
    ASSUME LibraryInv, NEW t \in LibThreads, NEW p \in LibProjects, UploadSaves(t, p)
    PROVE  LibraryInv'
<1>1. /\ LibraryShape /\ ManifestIsNamed(p) /\ OneUpload(p) /\ Listed(p) /\ ~LockedByRequest(p)
      /\ p \notin raced => ProjectIsSafe(p)
  BY DEF LibraryInv, SafeFor, UploadSaves
<1>2. PICK d :
         /\ Below(p, catalogRow[p].root) = {d} /\ "manifest" \notin folder[p][d] /\ "s2" \notin folder[p][d]
         /\ Begins(t, "invalidate", p, d) /\ Holds(p, d, folder[p][d] \cup {"s2", "marker"})
  BY DEF UploadSaves
<1>3. /\ d \in Homes /\ d \in Places /\ folder[p][d] \in SUBSET Files /\ folder[p][d] # {}
      /\ d = "drive" <=> catalogRow[p].root = "drive"
      /\ d = "library" => "marker" \notin folder[p]["staging"]
      /\ d = "staging" => folder[p]["library"] = {} /\ "marker" \in folder[p]["staging"]
      /\ catalogRow[p].root \in {"library", "drive"} /\ catalogRow[p].source \in Originals
  BY <1>1, <1>2, UniqueHome DEF There
<1>4. Starts(t, "invalidate", p, d, "none") /\ Puts(p, d, folder[p][d] \cup {"s2", "marker"})
  BY <1>1, <1>2, <1>3, RequestBegins, FolderHolds DEF Begins, LibrarySteps, Files
<1>5. UNCHANGED <<expects, mounted, catalogRow, whole, asked, raced, loose>>
  BY DEF UploadSaves, libHistory
<1>6. OnlyAbout(p) /\ ManifestIsNamed(p)'
  BY <1>1, <1>2, <1>3, <1>4, <1>5 DEF OnlyAbout, ManifestIsNamed, Puts
<1>7. RequestPlaced(t)'
  BY <1>3, <1>4 DEF RequestPlaced, Starts, Importing, Copying, Copied, Uploading, Places
<1>8. OneUpload(p)'
  BY <1>1, <1>4 DEF OneUpload, LockedByRequest, Starts, OthersWait, Uploading
<1>9. p \notin raced /\ Offered(p) => catalogRow[p].source = "s1" /\ "s1" \in folder[p][d]
  BY <1>1, <1>2, <1>3 DEF ProjectIsSafe, SourceIsKept, Homes, Originals
<1>10. p \notin raced /\ p \notin asked => "s1" \in folder[p][d]
  BY <1>1, <1>9 DEF ProjectIsSafe, DeletingIsAsked, Offered
<1>11. Marking(p)' => Marking(p)
  BY <1>4 DEF Marking, Starts, OthersWait
<1>12. ASSUME p \notin raced' PROVE ProjectIsSafe(p)'
  <2>1. ProjectIsSafe(p)
    BY <1>1, <1>5, <1>12
  <2>2. BookSurvives(p)' /\ StagedFrom(p)'
    BY <1>3, <1>4, <1>5, <2>1 DEF ProjectIsSafe, BookSurvives, StagedFrom, HasBook, Puts, Homes, Places
  <2>3. RootIsAlone(p)' /\ DeletingIsAsked(p)'
    BY <1>3, <1>4, <1>5, <2>1 DEF ProjectIsSafe, RootIsAlone, DeletingIsAsked, Listed, OffDrive, Puts, Homes, Places
  <2>4. SourceIsKept(p)'
    BY <1>3, <1>4, <1>5, <2>1 DEF ProjectIsSafe, SourceIsKept, Offered, Listed, Puts, Homes, Places
  <2>5. ManifestAgrees(p)'
    BY <1>3, <1>4, <1>5, <2>1 DEF ProjectIsSafe, ManifestAgrees, Listed, Puts, Homes, Places
  <2>6. SentinelStays(p)'
    BY <1>1, <1>3, <1>4, <1>5, <1>11, <2>1 DEF ProjectIsSafe, SentinelStays, Listed, OffDrive, Puts, Homes, Places
  <2>7. QED BY <2>2, <2>3, <2>4, <2>5, <2>6 DEF ProjectIsSafe
<1>13. ASSUME p \notin raced' PROVE RequestIsSafe(t, p)'
  <2>1. request'[t].at = "invalidate" /\ request'[t].dir = d
    BY <1>4 DEF Starts
  <2>2. UploadIsSafe(t, p)'
    BY <1>1, <1>2, <1>3, <1>4, <1>5, <1>9, <1>10, <1>13, <2>1
       DEF UploadIsSafe, ProjectIsSafe, RootIsAlone, OffDrive, Listed, Offered, Puts, Homes, Places
  <2>3. QED
    BY <2>1, <2>2 DEF RequestIsSafe, CreateIsSafe, ImportIsSafe, RemovalIsSafe, Importing, Copying, Copied
<1>14. ASSUME NEW x \in LibThreads \ {t}, p \notin raced', request[x].p = p PROVE RequestIsSafe(x, p)'
  <2>1. request[x].at \notin Importing \cup {"insert", "idle"} /\ RequestIsSafe(x, p) /\ request'[x] = request[x]
    BY <1>1, <1>4, <1>5, <1>14, ListedIsNotAlone DEF Starts, OthersWait
  <2>2. request[x].at \notin {"invalidate", "publish", "sentinel", "row"}
    BY <1>1, <1>14 DEF LockedByRequest
  <2>3. QED
    BY <1>3, <1>4, <1>5, <2>1, <2>2
       DEF RequestIsSafe, CreateIsSafe, ImportIsSafe, UploadIsSafe, RemovalIsSafe, Listed, Puts, Places,
           Importing, Copying, Copied, Uploading
<1>15. expects' \in [LibProjects -> Originals \cup {"none"}] /\ catalogRow' \in [LibProjects -> LibraryRows \cup {Nowhere}]
  BY <1>1, <1>5 DEF LibraryShape
<1>16. request[t].p = "none" /\ request'[t].p = p /\ OthersWait(t)
  BY <1>4 DEF Starts, NoRequest
<1>17. QED
  BY <1>4, <1>5, <1>6, <1>7, <1>8, <1>12, <1>13, <1>14, <1>15, <1>16, OneRequestMoves DEF Puts

\* A request for another source or for removal, and those beside it.
LEMMA UploadsGoOn ==
    ASSUME LibraryInv, NEW t \in LibThreads, request[t].at \in Uploading
    PROVE  /\ request[t].p \in LibProjects /\ request[t].dir \in Homes
           /\ ManifestIsNamed(request[t].p) /\ OneUpload(request[t].p)
           /\ request[t].p \notin raced => ProjectIsSafe(request[t].p) /\ UploadIsSafe(t, request[t].p)
BY DEF LibraryInv, LibraryShape, RequestPlaced, SafeFor, RequestIsSafe, Uploading

LEMMA InvalidatesStep ==
    ASSUME LibraryInv, NEW t \in LibThreads, UploadInvalidates(t)
    PROVE  LibraryInv'
<1>1. PICK p, d : p = request[t].p /\ d = request[t].dir
  OBVIOUS
<1>2. request[t].at = "invalidate" /\ request[t].at \in Uploading
  BY DEF UploadInvalidates, Uploading
<1>3. /\ p \in LibProjects /\ d \in Homes /\ ManifestIsNamed(p) /\ OneUpload(p)
      /\ p \notin raced => ProjectIsSafe(p) /\ UploadIsSafe(t, p)
  BY <1>1, <1>2, UploadsGoOn
<1>4. LibraryShape /\ d \in Places /\ folder[p][d] \in SUBSET Files
  BY <1>3 DEF LibraryInv, LibraryShape, Homes, Places
<1>5. UNCHANGED <<expects, mounted, catalogRow, asked, raced, loose>>
  BY SMTT(30) DEF UploadInvalidates
<1>6. PICK files \in SUBSET folder[p][d] :
         /\ Puts(p, d, files) /\ folder[p][d] \ {"state", "s2"} \subseteq files
         /\ OthersWait(t) /\ request'[t].p \in {p, "none"}
         /\ \/ /\ Goes(t, "publish") /\ whole' = whole \ {p} /\ folder[p][d] \ {"state"} \subseteq files
            \/ Quits(t) /\ whole' = whole /\ folder[p][d] \ {"s2"} \subseteq files
  <2>1. CASE Holds(p, d, folder[p][d] \ {"state"}) /\ Proceeds(t, "publish") /\ whole' = whole \ {p}
    BY <1>1, <1>3, <1>4, <2>1, FolderHolds, RequestProceeds DEF Goes, LibrarySteps
  <2>2. CASE Holds(p, d, folder[p][d] \ {"s2"}) /\ Ends(t) /\ UNCHANGED whole
    BY <1>3, <1>4, <2>2, FolderHolds, RequestEnds DEF Quits, NoRequest
  <2>3. CASE Ends(t) /\ UNCHANGED <<folder, whole>>
    BY <1>3, <1>4, <2>3, FolderKeeps, RequestEnds DEF Quits, NoRequest
  <2>4. QED BY <1>1, <2>1, <2>2, <2>3 DEF UploadInvalidates
<1>7. OnlyAbout(p) /\ ManifestIsNamed(p)'
  BY <1>3, <1>5, <1>6 DEF OnlyAbout, ManifestIsNamed, Puts
<1>8. RequestPlaced(t)'
  BY <1>1, <1>3, <1>4, <1>6 DEF RequestPlaced, Goes, Quits, NoRequest, Importing, Copying, Copied, Uploading
<1>9. OneUpload(p)'
  BY <1>2, <1>3, <1>6, NoUploadBegins DEF Goes, Quits, NoRequest, Uploading
<1>10. Marking(p)' => Marking(p)
  BY <1>6 DEF Marking, OthersWait, Goes, Quits, NoRequest
<1>11. p \notin raced =>
         /\ d = "drive" => "marker" \notin folder[p]["staging"]
         /\ p \notin asked => "s1" \in folder[p][d]
         /\ Offered(p) =>
              /\ catalogRow[p].source = "s1" /\ "s1" \in folder[p][d]
              /\ d = "staging" => folder[p]["library"] = {} /\ "marker" \in folder[p]["staging"]
  BY <1>1, <1>2, <1>3 DEF UploadIsSafe
<1>12. ASSUME p \notin raced' PROVE ProjectIsSafe(p)'
  <2>1. ProjectIsSafe(p)
    BY <1>3, <1>5, <1>12
  <2>2. BookSurvives(p)'
    BY <1>4, <1>5, <1>6, <1>11, <1>12, <2>1 DEF ProjectIsSafe, BookSurvives, HasBook, Puts, Places, Originals
  <2>3. StagedFrom(p)'
    BY <1>3, <1>4, <1>5, <1>6, <1>11, <1>12, <2>1 DEF ProjectIsSafe, StagedFrom, HasBook, Puts, Places, Homes, Originals
  <2>4. \A x \in Places : folder'[p][x] \subseteq folder[p][x]
    BY <1>4, <1>6 DEF Puts
  <2>5. RootIsAlone(p)' /\ DeletingIsAsked(p)'
    BY <1>5, <2>1, <2>4 DEF ProjectIsSafe, RootIsAlone, DeletingIsAsked, Listed, OffDrive, Places
  <2>6. ManifestAgrees(p)'
    BY <1>3, <1>4, <1>5, <2>1, <2>4, RowIsTyped DEF ProjectIsSafe, ManifestAgrees, Listed, Places
  <2>7. SourceIsKept(p)'
    BY <1>4, <1>5, <1>6, <1>11, <1>12, <2>1 DEF ProjectIsSafe, SourceIsKept, Offered, Listed, Puts, Places
  <2>8. SentinelStays(p)'
    BY <1>4, <1>5, <1>6, <1>10, <2>1 DEF ProjectIsSafe, SentinelStays, Listed, OffDrive, Puts, Places, Homes
  <2>9. QED BY <2>2, <2>3, <2>7, <2>8, <2>5, <2>6 DEF ProjectIsSafe
<1>13. ASSUME p \notin raced', request'[t].p = p PROVE RequestIsSafe(t, p)'
  <2>1. /\ request'[t].at = "publish" /\ request'[t].dir = d /\ folder[p][d] \ {"state"} \subseteq files
    BY <1>1, <1>3, <1>6, <1>13, LibraryAssumption DEF Goes, Quits, NoRequest
  <2>2. UploadIsSafe(t, p)'
    BY <1>1, <1>2, <1>3, <1>4, <1>5, <1>6, <1>13, <2>1, RowIsTyped
       DEF UploadIsSafe, Listed, Offered, Puts, Places
  <2>3. QED
    BY <2>1, <2>2 DEF RequestIsSafe, CreateIsSafe, ImportIsSafe, RemovalIsSafe, Importing, Copying, Copied
<1>14. ASSUME NEW x \in LibThreads \ {t}, p \notin raced', request[x].p = p PROVE RequestIsSafe(x, p)'
  <2>1. /\ request[x].at \notin Importing \cup {"insert", "idle"} /\ RequestIsSafe(x, p)
        /\ RequestPlaced(x) /\ request'[x] = request[x]
    BY <1>1, <1>3, <1>5, <1>6, <1>14, ListedIsNotAlone DEF OthersWait
  <2>2. request[x].at \notin Uploading
    BY <1>1, <1>2, <1>3, <1>14 DEF OneUpload
  <2>3. CreateIsSafe(x, p)' /\ ImportIsSafe(x, p)' /\ UploadIsSafe(x, p)'
    BY <1>4, <1>5, <1>6, <1>14, <2>1, <2>2
       DEF RequestIsSafe, CreateIsSafe, ImportIsSafe, UploadIsSafe, Listed, Puts, Places, Importing, Copying, Copied
  <2>4. RemovalIsSafe(x, p)'
    BY <1>4, <1>5, <1>6, <1>10, <1>14, <2>1
       DEF RequestIsSafe, RemovalIsSafe, RequestPlaced, OffDrive, Listed, Puts, Places, Homes
  <2>5. QED BY <2>3, <2>4 DEF RequestIsSafe
<1>15. expects' \in [LibProjects -> Originals \cup {"none"}] /\ catalogRow' \in [LibProjects -> LibraryRows \cup {Nowhere}]
  BY <1>4, <1>5 DEF LibraryShape
<1>16. QED
  BY <1>1, <1>3, <1>5, <1>6, <1>7, <1>8, <1>9, <1>12, <1>13, <1>14, <1>15, OneRequestMoves DEF Puts

LEMMA PublishesStep ==
    ASSUME LibraryInv, NEW t \in LibThreads, UploadPublishes(t)
    PROVE  LibraryInv'
<1>1. PICK p, d : p = request[t].p /\ d = request[t].dir
  OBVIOUS
<1>2. request[t].at = "publish" /\ request[t].at \in Uploading
  BY DEF UploadPublishes, Uploading
<1>3. /\ p \in LibProjects /\ d \in Homes /\ ManifestIsNamed(p) /\ OneUpload(p)
      /\ p \notin raced => ProjectIsSafe(p) /\ UploadIsSafe(t, p)
  BY <1>1, <1>2, UploadsGoOn
<1>4. LibraryShape
  BY DEF LibraryInv
<1>5. UNCHANGED <<folder, expects, mounted, whole, asked, raced, loose>> /\ Quits(t)
  BY <1>4, RequestEnds DEF UploadPublishes, libDisk, libHistory
<1>6. PICK row \in LibraryRows \cup {Nowhere} :
         /\ RowBecomes(p, row)
         /\ \/ row = catalogRow[p]
            \/ /\ Listed(p) /\ row \in LibraryRows /\ row.source = "s2" /\ row.root = catalogRow[p].root
               /\ row.deleting = catalogRow[p].deleting
  <2>1. CASE catalogRow' = [catalogRow EXCEPT ![p].source = "s2"] /\ Listed(p)
    <3>1. PICK row : row = [catalogRow[p] EXCEPT !.source = "s2"]
      OBVIOUS
    <3>2. /\ row \in LibraryRows /\ row.source = "s2" /\ row.root = catalogRow[p].root
          /\ row.deleting = catalogRow[p].deleting
      BY <1>3, <1>4, <2>1, <3>1, RowIsTyped DEF LibraryRows, Originals
    <3>3. catalogRow' = [catalogRow EXCEPT ![p] = row]
      BY <1>3, <1>4, <2>1, <3>1 DEF LibraryShape
    <3>4. QED BY <1>3, <1>4, <2>1, <3>2, <3>3, RowIsWritten
  <2>2. CASE catalogRow' = catalogRow
    BY <1>3, <1>4, <2>2, RowIsKept DEF LibraryShape
  <2>3. QED BY <1>1, <2>1, <2>2 DEF UploadPublishes, NewSource
<1>7. Listed(p)' = Listed(p) /\ Offered(p)' = Offered(p)
      /\ (Listed(p) => catalogRow'[p].root = catalogRow[p].root)
      /\ (Listed(p) => catalogRow'[p].deleting = catalogRow[p].deleting)
  BY <1>6, RowsAreListed DEF RowBecomes, Listed, Offered
<1>8. OnlyAbout(p) /\ ManifestIsNamed(p)'
  BY <1>3, <1>5, <1>6 DEF OnlyAbout, ManifestIsNamed, RowBecomes
<1>9. RequestPlaced(t)'
  BY <1>5 DEF RequestPlaced, Quits, NoRequest, Importing, Copying, Copied, Uploading
<1>10. OneUpload(p)'
  BY <1>3, <1>5, NoUploadBegins DEF Quits, NoRequest, Uploading
<1>11. Marking(p)' => Marking(p)
  BY <1>5 DEF Marking, OthersWait, Quits, NoRequest
<1>12. p \notin raced =>
         /\ Listed(p) => "manifest" \notin folder[p][catalogRow[p].root]
         /\ Offered(p) =>
              /\ "s2" \in folder[p][d]
              /\ d = "drive" <=> catalogRow[p].root = "drive"
              /\ d = "staging" => folder[p]["library"] = {} /\ "marker" \in folder[p]["staging"]
  BY <1>1, <1>2, <1>3 DEF UploadIsSafe
<1>13. ASSUME p \notin raced' PROVE ProjectIsSafe(p)'
  <2>1. ProjectIsSafe(p)
    BY <1>3, <1>5, <1>13
  <2>2. BookSurvives(p)' /\ StagedFrom(p)' /\ RootIsAlone(p)' /\ DeletingIsAsked(p)'
    BY <1>5, <1>7, <2>1 DEF ProjectIsSafe, BookSurvives, StagedFrom, RootIsAlone, DeletingIsAsked, HasBook, OffDrive
  <2>3. ManifestAgrees(p)'
    BY <1>5, <1>6, <1>7, <1>12, <1>13, <2>1 DEF ProjectIsSafe, ManifestAgrees, RowBecomes
  <2>4. SourceIsKept(p)'
    BY <1>3, <1>4, <1>5, <1>6, <1>7, <1>12, <1>13, <2>1, RowIsTyped
       DEF ProjectIsSafe, SourceIsKept, Offered, RowBecomes, Homes
  <2>5. SentinelStays(p)'
    BY <1>5, <1>7, <1>11, <2>1 DEF ProjectIsSafe, SentinelStays, OffDrive
  <2>6. QED BY <2>2, <2>3, <2>4, <2>5 DEF ProjectIsSafe
<1>14. ASSUME NEW x \in LibThreads \ {t}, p \notin raced', request[x].p = p PROVE RequestIsSafe(x, p)'
  <2>1. /\ request[x].at \notin Importing \cup {"insert", "idle"} /\ RequestIsSafe(x, p)
        /\ RequestPlaced(x) /\ request'[x] = request[x]
    BY <1>1, <1>3, <1>5, <1>14, ListedIsNotAlone DEF Quits, OthersWait
  <2>2. request[x].at \notin Uploading
    BY <1>1, <1>2, <1>3, <1>14 DEF OneUpload
  <2>3. CreateIsSafe(x, p)' /\ ImportIsSafe(x, p)' /\ UploadIsSafe(x, p)'
    BY <1>5, <1>7, <2>1, <2>2
       DEF RequestIsSafe, CreateIsSafe, ImportIsSafe, UploadIsSafe, Importing, Copying, Copied
  <2>4. RemovalIsSafe(x, p)'
    BY <1>5, <1>7, <1>11, <2>1 DEF RequestIsSafe, RemovalIsSafe, OffDrive
  <2>5. QED BY <2>3, <2>4 DEF RequestIsSafe
<1>15. /\ folder' \in [LibProjects -> [Places -> SUBSET Files]] /\ expects' \in [LibProjects -> Originals \cup {"none"}]
       /\ request'[t].p = "none" /\ OthersWait(t)
  BY <1>4, <1>5 DEF LibraryShape, Quits, NoRequest
<1>16. QED
  BY <1>1, <1>3, <1>5, <1>6, <1>8, <1>9, <1>10, <1>13, <1>14, <1>15, LibraryAssumption, OneRequestMoves
     DEF RowBecomes

LEMMA ImportBeginsStep ==
    ASSUME LibraryInv, NEW t \in LibThreads, NEW p \in LibProjects, NEW d \in Places, ImportBegins(t, p, d)
    PROVE  LibraryInv'
<1>1. /\ LibraryShape /\ ManifestIsNamed(p) /\ ~Listed(p) /\ folder[p]["library"] = {} /\ d \in {"outside", "drive"}
      /\ p \notin raced => ProjectIsSafe(p)
  BY DEF LibraryInv, SafeFor, ImportBegins
<1>2. PICK s \in Matching(p, d) : BeginsWith(t, "clear", p, d, s)
  BY DEF ImportBegins
<1>3. s \in Originals /\ HasBook(p, d) /\ Agrees(p, d, s)
  BY <1>1, <1>2 DEF ImportBegins, Scans, Matching, HasBook, Agrees, ManifestIsNamed
<1>4. Starts(t, "clear", p, d, s)
  BY <1>1, <1>2, <1>3, RequestBegins DEF LibrarySteps
<1>5. /\ UNCHANGED <<folder, expects, mounted, catalogRow>>
      /\ asked' = asked \ {p} /\ loose' = loose \ {p} /\ whole' = whole \cup {p}
      /\ raced' = IF UnderWay(p) THEN raced \cup {p} ELSE raced
  BY DEF ImportBegins, libDisk
<1>6. OnlyAbout(p) /\ ManifestIsNamed(p)' /\ OthersWait(t) /\ request[t].p = "none" /\ request'[t].p = p
  BY <1>1, <1>4, <1>5 DEF OnlyAbout, ManifestIsNamed, Starts, NoRequest
<1>7. RequestPlaced(t)' /\ OneUpload(p)'
  BY <1>1, <1>3, <1>4, <1>6, NoUploadBegins DEF RequestPlaced, Starts, Importing, Copying, Copied, Uploading
<1>8. p \notin raced' => p \notin raced /\ \A x \in LibThreads : request[x].p # p
  BY <1>5 DEF UnderWay
<1>9. ASSUME p \notin raced' PROVE ProjectIsSafe(p)'
  BY <1>1, <1>3, <1>5, <1>8, <1>9
     DEF ProjectIsSafe, BookSurvives, StagedFrom, RootIsAlone, SourceIsKept, ManifestAgrees,
         SentinelStays, DeletingIsAsked, Listed, Offered, HasBook
<1>10. ASSUME p \notin raced' PROVE RequestIsSafe(t, p)'
  BY <1>1, <1>3, <1>4, <1>5, <1>6, <1>8, <1>10
     DEF RequestIsSafe, CreateIsSafe, ImportIsSafe, UploadIsSafe, RemovalIsSafe, IsAlone, Listed, HasBook, Agrees,
         Starts, OthersWait, Importing, Copying, Copied, Uploading
<1>11. /\ folder' \in [LibProjects -> [Places -> SUBSET Files]] /\ expects' \in [LibProjects -> Originals \cup {"none"}]
       /\ catalogRow' \in [LibProjects -> LibraryRows \cup {Nowhere}]
  BY <1>1, <1>5 DEF LibraryShape
<1>12. QED
  BY <1>5, <1>6, <1>7, <1>8, <1>9, <1>10, <1>11, OneRequestMoves

\* A row that is taken away.
LEMMA UnlistedIsSafe ==
    ASSUME LibraryInv, NEW t \in LibThreads, NEW p \in LibProjects, RowBecomes(p, Nowhere), OthersWait(t),
           request[t].p \in {p, "none"}, request'[t].p = "none", request'[t].at = "idle", request'[t] = NoRequest,
           Listed(p) \/ request[t].p = p,
           UNCHANGED <<folder, expects, mounted, whole, asked, raced, loose>>
    PROVE  LibraryInv'
<1>1. /\ LibraryShape /\ ManifestIsNamed(p) /\ (p \notin raced => ProjectIsSafe(p)) /\ ~Listed(p)'
  BY DEF LibraryInv, SafeFor, RowBecomes, Listed
<1>2. OnlyAbout(p) /\ ManifestIsNamed(p)'
  BY <1>1 DEF OnlyAbout, ManifestIsNamed, RowBecomes
<1>3. RequestPlaced(t)' /\ OneUpload(p)'
  BY NoUploadBegins DEF RequestPlaced, NoRequest, Importing, Copying, Copied, Uploading
<1>4. Marking(p)' => Marking(p)
  BY DEF Marking, OthersWait
<1>5. ASSUME p \notin raced' PROVE ProjectIsSafe(p)'
  BY <1>1, <1>4, <1>5
     DEF ProjectIsSafe, BookSurvives, StagedFrom, RootIsAlone, SourceIsKept, ManifestAgrees,
         SentinelStays, DeletingIsAsked, Offered, OffDrive, HasBook
<1>6. ASSUME NEW x \in LibThreads \ {t}, p \notin raced', request[x].p = p PROVE RequestIsSafe(x, p)'
  <2>1. /\ request[x].at \notin Importing \cup {"insert", "idle"} /\ RequestIsSafe(x, p)
        /\ request'[x] = request[x]
    BY <1>6, ListedIsNotAlone DEF OthersWait
  <2>2. CreateIsSafe(x, p)' /\ ImportIsSafe(x, p)' /\ UploadIsSafe(x, p)' /\ RemovalIsSafe(x, p)'
    BY <1>1, <1>4, <2>1
       DEF RequestIsSafe, CreateIsSafe, ImportIsSafe, UploadIsSafe, RemovalIsSafe, Offered, OffDrive,
           Importing, Copying, Copied
  <2>3. QED BY <2>2 DEF RequestIsSafe
<1>7. folder' \in [LibProjects -> [Places -> SUBSET Files]] /\ expects' \in [LibProjects -> Originals \cup {"none"}]
  BY <1>1 DEF LibraryShape
<1>8. QED
  BY <1>2, <1>3, <1>5, <1>6, <1>7, LibraryAssumption, OneRequestMoves DEF RowBecomes

LEMMA RemoveBeginsStep ==
    ASSUME LibraryInv, NEW t \in LibThreads, NEW p \in LibProjects, RemoveBegins(t, p)
    PROVE  LibraryInv'
<1>1. /\ LibraryShape /\ ManifestIsNamed(p) /\ Listed(p)
      /\ p \notin raced => ProjectIsSafe(p)
  BY DEF LibraryInv, SafeFor, RemoveBegins
<1>2. PICK found : found = Below(p, catalogRow[p].root)
  OBVIOUS
<1>3. UNCHANGED <<expects, mounted, whole, asked, raced, loose>>
  BY DEF RemoveBegins, libHistory
<1>4. CASE /\ request[t] = NoRequest /\ catalogRow' = [catalogRow EXCEPT ![p] = Nowhere]
           /\ UNCHANGED <<folder, request>>
  <2>1. RowBecomes(p, Nowhere)
    BY <1>1, <1>4, RowIsWritten
  <2>2. OthersWait(t) /\ request'[t] = NoRequest
    BY <1>1, <1>4 DEF OthersWait, LibraryShape
  <2>3. QED BY <1>1, <1>3, <1>4, <2>1, <2>2, UnlistedIsSafe DEF NoRequest
<1>5. ASSUME NEW d, found = {d}, NEW at \in {"erase", "sentinel"}, Begins(t, at, p, d),
             NEW files, Puts(p, d, files), UNCHANGED catalogRow,
             at = "erase" => catalogRow[p].deleting /\ files = folder[p][d],
             at = "sentinel" => ~LockedByRequest(p) /\ files = folder[p][d] \cup {"marker"}
      PROVE  LibraryInv'
  <2>1. /\ d \in Homes /\ d \in Places /\ folder[p][d] \in SUBSET Files /\ There(p, d)
        /\ d = "drive" <=> catalogRow[p].root = "drive"
        /\ d = "library" => "marker" \notin folder[p]["staging"]
        /\ d = "staging" => folder[p]["library"] = {} /\ "marker" \in folder[p]["staging"]
        /\ catalogRow[p].root \in {"library", "drive"} /\ catalogRow[p].source \in Originals
    BY <1>1, <1>2, <1>5, UniqueHome
  <2>2. Starts(t, at, p, d, "none")
    BY <1>1, <1>5, <2>1, RequestBegins DEF Begins, LibrarySteps
  <2>3. OnlyAbout(p) /\ ManifestIsNamed(p)'
    BY <1>1, <1>3, <1>5, <2>1 DEF OnlyAbout, ManifestIsNamed, Puts
  <2>4. RequestPlaced(t)' /\ OneUpload(p)'
    BY <1>5, <2>1, <2>2, NoUploadBegins
       DEF RequestPlaced, Starts, Importing, Copying, Copied, Uploading, Homes, Places
  <2>5. Marking(p)' => Marking(p)
    BY <1>5, <2>2 DEF Marking, Starts, OthersWait
  <2>6. /\ \A x \in Places : folder[p][x] \subseteq folder'[p][x] /\ folder'[p][x] \subseteq folder[p][x] \cup {"marker"}
        /\ folder[p]["library"] = {} => folder'[p]["library"] = {}
        /\ "marker" \notin folder[p]["staging"] => "marker" \notin folder'[p]["staging"]
        /\ folder[p]["staging"] = {} => folder'[p]["staging"] = {}
    BY <1>5, <2>1 DEF Puts, There, Homes, Places
  <2>7. ASSUME p \notin raced' PROVE ProjectIsSafe(p)'
    <3>1. ProjectIsSafe(p)
      BY <1>1, <1>3, <2>7
    <3>2. BookSurvives(p)' /\ StagedFrom(p)'
      BY <1>3, <2>6, <3>1 DEF ProjectIsSafe, BookSurvives, StagedFrom, HasBook, Places
    <3>3. RootIsAlone(p)' /\ DeletingIsAsked(p)' /\ ManifestAgrees(p)' /\ SourceIsKept(p)'
      BY <1>3, <1>5, <2>1, <2>6, <3>1
         DEF ProjectIsSafe, RootIsAlone, DeletingIsAsked, ManifestAgrees, SourceIsKept, Listed, Offered, OffDrive, Places
    <3>4. SentinelStays(p)'
      BY <1>3, <1>5, <2>5, <2>6, <3>1 DEF ProjectIsSafe, SentinelStays, Listed, OffDrive, Homes, Places
    <3>5. QED BY <3>2, <3>3, <3>4 DEF ProjectIsSafe
  <2>8. ASSUME NEW x \in LibThreads \ {t}, p \notin raced', request[x].p = p PROVE RequestIsSafe(x, p)'
    <3>1. /\ request[x].at \notin Importing \cup {"insert", "idle"} /\ RequestIsSafe(x, p)
          /\ RequestPlaced(x) /\ request'[x] = request[x]
      BY <1>1, <1>3, <2>2, <2>8, ListedIsNotAlone DEF Starts, OthersWait
    <3>2. CreateIsSafe(x, p)' /\ ImportIsSafe(x, p)'
      BY <1>3, <1>5, <2>6, <3>1 DEF RequestIsSafe, CreateIsSafe, ImportIsSafe, Listed, Importing, Copying, Copied
    <3>3. UploadIsSafe(x, p)'
      BY <1>3, <1>5, <2>1, <2>6, <3>1 DEF RequestIsSafe, UploadIsSafe, RequestPlaced, Listed, Offered, Homes, Places
    <3>4. RemovalIsSafe(x, p)'
      BY <1>3, <1>5, <2>5, <2>6, <3>1 DEF RequestIsSafe, RemovalIsSafe, RequestPlaced, Listed, OffDrive, Homes, Places
    <3>5. QED BY <3>2, <3>3, <3>4 DEF RequestIsSafe
  <2>9. ASSUME p \notin raced' PROVE RequestIsSafe(t, p)'
    <3>1. request'[t].at = at /\ request'[t].dir = d
      BY <2>2 DEF Starts
    <3>2. d = "drive" => OffDrive(p) /\ ~Marking(p)
      BY <1>1, <1>3, <2>1, <2>9
         DEF ProjectIsSafe, RootIsAlone, Marking, LibraryInv, SafeFor, RequestIsSafe, ImportIsSafe
    <3>3. at = "erase" => p \in asked
      BY <1>1, <1>3, <1>5, <2>9 DEF ProjectIsSafe, DeletingIsAsked
    <3>4. at = "sentinel" => "marker" \in folder'[p][d]
      BY <1>5 DEF Puts
    <3>5. OffDrive(p) => OffDrive(p)'
      BY <2>6 DEF OffDrive
    <3>6. RemovalIsSafe(t, p)'
      BY <1>3, <1>5, <2>1, <2>5, <2>6, <3>1, <3>2, <3>3, <3>4, <3>5 DEF RemovalIsSafe, There, Listed, Places
    <3>7. QED
      BY <1>5, <3>1, <3>6 DEF RequestIsSafe, CreateIsSafe, ImportIsSafe, UploadIsSafe, Importing, Copying, Copied, Uploading
  <2>10. /\ expects' \in [LibProjects -> Originals \cup {"none"}] /\ catalogRow' \in [LibProjects -> LibraryRows \cup {Nowhere}]
         /\ request[t].p = "none" /\ request'[t].p = p /\ OthersWait(t)
    BY <1>1, <1>3, <1>5, <2>2 DEF LibraryShape, Starts, NoRequest
  <2>11. QED
    BY <1>3, <1>5, <2>3, <2>4, <2>7, <2>8, <2>9, <2>10, OneRequestMoves DEF Puts
<1>6. CASE \E d \in found : found = {d} /\ catalogRow[p].deleting /\ Begins(t, "erase", p, d) /\ UNCHANGED <<folder, catalogRow>>
  <2>1. PICK d : found = {d} /\ catalogRow[p].deleting /\ Begins(t, "erase", p, d)
    BY <1>6
  <2>2. Puts(p, d, folder[p][d])
    BY <1>1, <1>2, <1>6, <2>1, UniqueHome, FolderKeeps
  <2>3. QED BY <1>5, <1>6, <2>1, <2>2
<1>7. CASE /\ ~LockedByRequest(p) /\ UNCHANGED catalogRow
           /\ \E d \in found : /\ found = {d} /\ Begins(t, "sentinel", p, d)
                               /\ Holds(p, d, folder[p][d] \cup {"marker"})
  <2>1. PICK d : /\ found = {d} /\ Begins(t, "sentinel", p, d) /\ Holds(p, d, folder[p][d] \cup {"marker"})
    BY <1>7
  <2>2. Puts(p, d, folder[p][d] \cup {"marker"})
    BY <1>1, <1>2, <2>1, UniqueHome, FolderHolds DEF Files
  <2>3. QED BY <1>5, <1>7, <2>1, <2>2
<1>8. QED BY <1>2, <1>4, <1>6, <1>7 DEF RemoveBegins

\* A removal under way.
LEMMA RemovalsGoOn ==
    ASSUME LibraryInv, NEW t \in LibThreads, request[t].at \in {"sentinel", "row", "erase", "unlist"}
    PROVE  /\ request[t].p \in LibProjects /\ request[t].dir \in Homes /\ request[t].dir \in Places
           /\ LibraryShape /\ ManifestIsNamed(request[t].p)
           /\ request[t].p \notin raced => ProjectIsSafe(request[t].p) /\ RemovalIsSafe(t, request[t].p)
BY DEF LibraryInv, LibraryShape, RequestPlaced, SafeFor, RequestIsSafe, Homes, Places

\* One that stops is no longer under way.
LEMMA RemovalStops ==
    ASSUME LibraryInv, NEW t \in LibThreads, request[t].at \in {"sentinel", "row", "erase", "unlist"}, Ends(t),
           UNCHANGED <<folder, expects, catalogRow, mounted, whole, asked, raced, loose>>
    PROVE  LibraryInv'
<1>1. PICK p : p = request[t].p
  OBVIOUS
<1>2. /\ p \in LibProjects /\ LibraryShape /\ ManifestIsNamed(p)
      /\ p \notin raced => ProjectIsSafe(p)
  BY <1>1, RemovalsGoOn
<1>3. Quits(t)
  BY <1>2, RequestEnds
<1>4. OnlyAbout(p) /\ ManifestIsNamed(p)'
  BY <1>2 DEF OnlyAbout, ManifestIsNamed
<1>5. RequestPlaced(t)' /\ OneUpload(p)'
  BY <1>2, <1>3, NoUploadBegins DEF RequestPlaced, Quits, NoRequest, Importing, Copying, Copied, Uploading
<1>6. Marking(p)' => Marking(p)
  BY <1>3 DEF Marking, Quits, OthersWait, NoRequest
<1>7. ASSUME p \notin raced' PROVE ProjectIsSafe(p)'
  BY <1>2, <1>6, <1>7
     DEF ProjectIsSafe, BookSurvives, StagedFrom, RootIsAlone, SourceIsKept, ManifestAgrees,
         SentinelStays, DeletingIsAsked, Listed, Offered, OffDrive, HasBook
<1>8. ASSUME NEW x \in LibThreads \ {t}, p \notin raced', request[x].p = p PROVE RequestIsSafe(x, p)'
  <2>1. /\ request[x].at \notin Importing \cup {"insert", "idle"} /\ RequestIsSafe(x, p)
        /\ request'[x] = request[x]
    BY <1>1, <1>2, <1>3, <1>8, ListedIsNotAlone DEF Quits, OthersWait
  <2>2. CreateIsSafe(x, p)' /\ ImportIsSafe(x, p)' /\ UploadIsSafe(x, p)' /\ RemovalIsSafe(x, p)'
    BY <1>6, <2>1
       DEF RequestIsSafe, CreateIsSafe, ImportIsSafe, UploadIsSafe, RemovalIsSafe, Listed, Offered, OffDrive,
           Importing, Copying, Copied
  <2>3. QED BY <2>2 DEF RequestIsSafe
<1>9. /\ folder' \in [LibProjects -> [Places -> SUBSET Files]] /\ expects' \in [LibProjects -> Originals \cup {"none"}]
      /\ catalogRow' \in [LibProjects -> LibraryRows \cup {Nowhere}]
      /\ OthersWait(t) /\ request'[t].p = "none"
  BY <1>2, <1>3 DEF LibraryShape, Quits, NoRequest
<1>10. QED
  BY <1>1, <1>2, <1>4, <1>5, <1>7, <1>8, <1>9, LibraryAssumption, OneRequestMoves

LEMMA SentinelStep ==
    ASSUME LibraryInv, NEW t \in LibThreads, RemoveWritesSentinel(t)
    PROVE  LibraryInv'
<1>1. PICK p, d : p = request[t].p /\ d = request[t].dir
  OBVIOUS
<1>2. request[t].at = "sentinel"
  BY DEF RemoveWritesSentinel
<1>3. /\ p \in LibProjects /\ d \in Homes /\ d \in Places /\ LibraryShape /\ ManifestIsNamed(p)
      /\ p \notin raced => ProjectIsSafe(p) /\ RemovalIsSafe(t, p)
  BY <1>1, <1>2, RemovalsGoOn
<1>4. folder[p][d] \in SUBSET Files
  BY <1>3 DEF LibraryShape
<1>5. UNCHANGED <<expects, catalogRow, mounted, whole, asked, raced, loose>>
  BY DEF RemoveWritesSentinel, libHistory
<1>6. CASE Ends(t) /\ UNCHANGED folder
  BY <1>2, <1>5, <1>6, RemovalStops
<1>7. ASSUME NEW files, Puts(p, d, files), Proceeds(t, "row"),
             \/ There(p, d) /\ files = folder[p][d] \cup {"sentinel"}
             \/ ~There(p, d) /\ files = folder[p][d]
      PROVE  LibraryInv'
  <2>1. Goes(t, "row")
    BY <1>3, <1>7, RequestProceeds DEF LibrarySteps
  <2>2. OnlyAbout(p) /\ ManifestIsNamed(p)'
    BY <1>3, <1>5, <1>7 DEF OnlyAbout, ManifestIsNamed, Puts
  <2>3. RequestPlaced(t)' /\ OneUpload(p)'
    BY <1>1, <1>3, <2>1, NoUploadBegins
       DEF RequestPlaced, Goes, Importing, Copying, Copied, Uploading
  <2>4. Marking(p)' => Marking(p)
    BY <2>1 DEF Marking, Goes, OthersWait
  <2>5. /\ \A x \in Places : folder[p][x] \subseteq folder'[p][x] /\ folder'[p][x] \subseteq folder[p][x] \cup {"sentinel"}
        /\ \A x \in Places : folder[p][x] = {} => folder'[p][x] = {}
    BY <1>7 DEF Puts, There
  <2>6. ASSUME p \notin raced' PROVE ProjectIsSafe(p)'
    <3>1. ProjectIsSafe(p)
      BY <1>3, <1>5, <2>6
    <3>2. BookSurvives(p)' /\ StagedFrom(p)'
      BY <1>5, <2>5, <3>1 DEF ProjectIsSafe, BookSurvives, StagedFrom, HasBook, Places
    <3>3. RootIsAlone(p)' /\ DeletingIsAsked(p)' /\ ManifestAgrees(p)' /\ SourceIsKept(p)'
      BY <1>3, <1>5, <2>5, <3>1, RowIsTyped
         DEF ProjectIsSafe, RootIsAlone, DeletingIsAsked, ManifestAgrees, SourceIsKept, Listed, Offered, OffDrive, Places
    <3>4. SentinelStays(p)'
      BY <1>5, <2>4, <2>5, <3>1 DEF ProjectIsSafe, SentinelStays, Listed, OffDrive, Homes, Places
    <3>5. QED BY <3>2, <3>3, <3>4 DEF ProjectIsSafe
  <2>7. ASSUME NEW x \in LibThreads \ {t}, p \notin raced', request[x].p = p PROVE RequestIsSafe(x, p)'
    <3>1. /\ request[x].at \notin Importing \cup {"insert", "idle"} /\ RequestIsSafe(x, p)
          /\ RequestPlaced(x) /\ request'[x] = request[x]
      BY <1>1, <1>3, <1>5, <2>1, <2>7, ListedIsNotAlone DEF Goes, OthersWait
    <3>2. CreateIsSafe(x, p)' /\ ImportIsSafe(x, p)'
      BY <1>5, <2>5, <3>1 DEF RequestIsSafe, CreateIsSafe, ImportIsSafe, Listed, Importing, Copying, Copied, Places
    <3>3. UploadIsSafe(x, p)'
      BY <1>3, <1>5, <2>5, <3>1, RowIsTyped DEF RequestIsSafe, UploadIsSafe, RequestPlaced, Listed, Offered, Homes, Places
    <3>4. RemovalIsSafe(x, p)'
      BY <1>5, <2>4, <2>5, <3>1 DEF RequestIsSafe, RemovalIsSafe, RequestPlaced, Listed, OffDrive, Homes, Places
    <3>5. QED BY <3>2, <3>3, <3>4 DEF RequestIsSafe
  <2>8. ASSUME p \notin raced' PROVE RequestIsSafe(t, p)'
    <3>1. request'[t].at = "row" /\ request'[t].dir = d
      BY <1>1, <2>1 DEF Goes
    <3>2. p \notin loose => There(p, d)
      BY <1>1, <1>2, <1>3, <1>5, <2>8 DEF RemovalIsSafe, There
    <3>3. p \notin loose => "sentinel" \in folder'[p][d]
      BY <1>7, <3>2 DEF Puts
    <3>4. OffDrive(p) => OffDrive(p)'
      BY <2>5 DEF OffDrive, Places
    <3>5. RemovalIsSafe(t, p)'
      BY <1>1, <1>2, <1>3, <1>5, <2>4, <2>5, <2>8, <3>1, <3>3, <3>4 DEF RemovalIsSafe, Places
    <3>6. QED
      BY <3>1, <3>5 DEF RequestIsSafe, CreateIsSafe, ImportIsSafe, UploadIsSafe, Importing, Copying, Copied, Uploading
  <2>9. /\ expects' \in [LibProjects -> Originals \cup {"none"}] /\ catalogRow' \in [LibProjects -> LibraryRows \cup {Nowhere}]
        /\ request'[t].p = p /\ OthersWait(t)
    BY <1>1, <1>3, <1>5, <2>1 DEF LibraryShape, Goes
  <2>10. QED
    BY <1>1, <1>3, <1>5, <1>7, <2>2, <2>3, <2>6, <2>7, <2>8, <2>9, OneRequestMoves DEF Puts
<1>8. CASE There(p, d) /\ Holds(p, d, folder[p][d] \cup {"sentinel"}) /\ Proceeds(t, "row")
  <2>1. Puts(p, d, folder[p][d] \cup {"sentinel"})
    BY <1>3, <1>4, <1>8, FolderHolds DEF Files
  <2>2. QED BY <1>7, <1>8, <2>1
<1>9. CASE ~There(p, d) /\ UNCHANGED folder /\ Proceeds(t, "row")
  <2>1. Puts(p, d, folder[p][d])
    BY <1>3, <1>9, FolderKeeps
  <2>2. QED BY <1>7, <1>9, <2>1
<1>10. QED BY <1>1, <1>6, <1>8, <1>9 DEF RemoveWritesSentinel, Removed

LEMMA MarksRowStep ==
    ASSUME LibraryInv, NEW t \in LibThreads, RemoveMarksRow(t)
    PROVE  LibraryInv'
<1>1. PICK p, d : p = request[t].p /\ d = request[t].dir
  OBVIOUS
<1>2. request[t].at = "row"
  BY DEF RemoveMarksRow
<1>3. /\ p \in LibProjects /\ d \in Homes /\ LibraryShape /\ ManifestIsNamed(p)
      /\ p \notin raced => ProjectIsSafe(p) /\ RemovalIsSafe(t, p)
  BY <1>1, <1>2, RemovalsGoOn
<1>4. UNCHANGED <<folder, expects, mounted, whole, raced, loose>>
  BY DEF RemoveMarksRow, libDisk
<1>5. CASE Ends(t) /\ UNCHANGED <<catalogRow, asked>>
  BY <1>2, <1>4, <1>5, RemovalStops
<1>6. CASE /\ Listed(p) /\ catalogRow' = [catalogRow EXCEPT ![p].deleting = TRUE]
           /\ asked' = asked \cup {p} /\ Proceeds(t, "erase")
  <2>1. PICK row : row = [catalogRow[p] EXCEPT !.deleting = TRUE]
    OBVIOUS
  <2>2. row \in LibraryRows /\ row.deleting /\ row.root = catalogRow[p].root /\ row.source = catalogRow[p].source
    BY <1>3, <1>6, <2>1, RowIsTyped DEF LibraryRows
  <2>3. catalogRow' = [catalogRow EXCEPT ![p] = row]
    BY <1>3, <1>6, <2>1 DEF LibraryShape
  <2>4. RowBecomes(p, row) /\ Goes(t, "erase")
    BY <1>3, <1>6, <2>2, <2>3, RowIsWritten, RequestProceeds DEF LibrarySteps
  <2>5. /\ Listed(p)' /\ ~Offered(p)' /\ catalogRow'[p].root = catalogRow[p].root
        /\ catalogRow'[p].source = catalogRow[p].source /\ catalogRow'[p].deleting
    BY <2>2, <2>4, RowsAreListed DEF RowBecomes, Listed, Offered
  <2>6. OnlyAbout(p) /\ ManifestIsNamed(p)'
    BY <1>3, <1>4, <1>6, <2>4 DEF OnlyAbout, ManifestIsNamed, RowBecomes
  <2>7. RequestPlaced(t)' /\ OneUpload(p)'
    BY <1>1, <1>3, <2>4, NoUploadBegins DEF RequestPlaced, Goes, Importing, Copying, Copied, Uploading, Homes, Places
  <2>8. Marking(p)' => Marking(p)
    BY <2>4 DEF Marking, Goes, OthersWait
  <2>9. ASSUME p \notin raced' PROVE ProjectIsSafe(p)'
    <3>1. ProjectIsSafe(p) /\ RemovalIsSafe(t, p)
      BY <1>3, <1>4, <2>9
    <3>2. /\ BookSurvives(p)' /\ StagedFrom(p)' /\ RootIsAlone(p)' /\ DeletingIsAsked(p)' /\ ManifestAgrees(p)'
          /\ SourceIsKept(p)'
      BY <1>4, <1>6, <2>5, <3>1
         DEF ProjectIsSafe, BookSurvives, StagedFrom, RootIsAlone, DeletingIsAsked, ManifestAgrees,
             SourceIsKept, OffDrive, HasBook
    <3>3. SentinelStays(p)'
      BY <1>1, <1>2, <1>3, <1>4, <2>5, <2>8, <3>1 DEF RemovalIsSafe, SentinelStays, OffDrive
    <3>4. QED BY <3>2, <3>3 DEF ProjectIsSafe
  <2>10. ASSUME NEW x \in LibThreads \ {t}, p \notin raced', request[x].p = p PROVE RequestIsSafe(x, p)'
    <3>1. /\ request[x].at \notin Importing \cup {"insert", "idle"} /\ RequestIsSafe(x, p)
          /\ request'[x] = request[x]
      BY <1>1, <1>3, <1>4, <2>4, <2>10, ListedIsNotAlone DEF Goes, OthersWait
    <3>2. CreateIsSafe(x, p)' /\ ImportIsSafe(x, p)' /\ UploadIsSafe(x, p)' /\ RemovalIsSafe(x, p)'
      BY <1>4, <1>6, <2>5, <2>8, <3>1
         DEF RequestIsSafe, CreateIsSafe, ImportIsSafe, UploadIsSafe, RemovalIsSafe, OffDrive,
             Importing, Copying, Copied
    <3>3. QED BY <3>2 DEF RequestIsSafe
  <2>11. ASSUME p \notin raced' PROVE RequestIsSafe(t, p)'
    <3>1. request'[t].at = "erase" /\ p \in asked'
      BY <1>6, <2>4 DEF Goes
    <3>2. QED
      BY <2>5, <3>1 DEF RequestIsSafe, CreateIsSafe, ImportIsSafe, UploadIsSafe, RemovalIsSafe, Importing,
         Copying, Copied, Uploading
  <2>12. /\ folder' \in [LibProjects -> [Places -> SUBSET Files]] /\ expects' \in [LibProjects -> Originals \cup {"none"}]
         /\ request'[t].p = p /\ OthersWait(t)
    BY <1>1, <1>3, <1>4, <2>4 DEF LibraryShape, Goes
  <2>13. QED
    BY <1>1, <1>3, <1>4, <2>4, <2>6, <2>7, <2>9, <2>10, <2>11, <2>12, OneRequestMoves DEF RowBecomes
<1>7. QED BY <1>1, <1>5, <1>6 DEF RemoveMarksRow, Removed

LEMMA ErasesStep ==
    ASSUME LibraryInv, NEW t \in LibThreads, RemoveErases(t)
    PROVE  LibraryInv'
<1>1. PICK p, d : p = request[t].p /\ d = request[t].dir
  OBVIOUS
<1>2. request[t].at = "erase"
  BY DEF RemoveErases
<1>3. /\ p \in LibProjects /\ d \in Homes /\ d \in Places /\ LibraryShape /\ ManifestIsNamed(p)
      /\ p \notin raced => ProjectIsSafe(p) /\ RemovalIsSafe(t, p)
  BY <1>1, <1>2, RemovalsGoOn
<1>4. folder[p][d] \in SUBSET Files
  BY <1>3 DEF LibraryShape
<1>5. UNCHANGED <<expects, catalogRow, mounted, whole, asked, raced>>
  BY DEF RemoveErases
<1>6. CASE Ends(t) /\ UNCHANGED <<folder, loose>>
  BY <1>2, <1>5, <1>6, RemovalStops
<1>7. ASSUME NEW files, Puts(p, d, files), NEW at \in {"erase", "unlist"}, Goes(t, at),
             \/ files = folder[p][d] /\ loose' = loose
             \/ files \subseteq folder[p][d] /\ loose' = loose \cup {p}
      PROVE  LibraryInv'
  <2>1. \A x \in Places : folder'[p][x] \subseteq folder[p][x]
    BY <1>7 DEF Puts
  <2>2. p \notin raced => p \in asked /\ (Listed(p) => catalogRow[p].deleting) /\ ~Offered(p)
    BY <1>1, <1>2, <1>3 DEF RemovalIsSafe, Offered
  <2>3. p \notin loose' => \A x \in Places : folder'[p][x] = folder[p][x]
    BY <1>7 DEF Puts
  <2>4. OnlyAbout(p) /\ ManifestIsNamed(p)'
    BY <1>3, <1>5, <1>7, <2>1 DEF OnlyAbout, ManifestIsNamed, Puts
  <2>5. RequestPlaced(t)' /\ OneUpload(p)'
    BY <1>1, <1>3, <1>7, NoUploadBegins DEF RequestPlaced, Goes, Importing, Copying, Copied, Uploading
  <2>6. Marking(p)' => Marking(p)
    BY <1>7 DEF Marking, Goes, OthersWait
  <2>7. p \notin loose' => p \notin loose
    BY <1>7
  <2>8. ASSUME p \notin raced' PROVE ProjectIsSafe(p)'
    <3>1. ProjectIsSafe(p)
      BY <1>3, <1>5, <2>8
    <3>2. BookSurvives(p)' /\ StagedFrom(p)' /\ DeletingIsAsked(p)' /\ SourceIsKept(p)'
      BY <1>5, <2>2, <2>8 DEF BookSurvives, StagedFrom, DeletingIsAsked, SourceIsKept, Listed, Offered
    <3>3. RootIsAlone(p)' /\ ManifestAgrees(p)'
      BY <1>3, <1>5, <2>1, <3>1, RowIsTyped DEF ProjectIsSafe, RootIsAlone, ManifestAgrees, Listed, OffDrive, Places
    <3>4. SentinelStays(p)'
      BY <1>5, <2>3, <2>6, <2>7, <3>1 DEF ProjectIsSafe, SentinelStays, Listed, OffDrive, Homes, Places
    <3>5. QED BY <3>2, <3>3, <3>4 DEF ProjectIsSafe
  <2>9. ASSUME NEW x \in LibThreads \ {t}, p \notin raced', request[x].p = p PROVE RequestIsSafe(x, p)'
    <3>1. /\ request[x].at \notin Importing \cup {"insert", "idle"} /\ RequestIsSafe(x, p)
          /\ RequestPlaced(x) /\ request'[x] = request[x]
      BY <1>1, <1>3, <1>5, <1>7, <2>9, ListedIsNotAlone DEF Goes, OthersWait
    <3>2. CreateIsSafe(x, p)' /\ ImportIsSafe(x, p)'
      BY <1>5, <2>1, <3>1 DEF RequestIsSafe, CreateIsSafe, ImportIsSafe, Listed, Importing, Copying, Copied, Places
    <3>3. UploadIsSafe(x, p)'
      BY <1>3, <1>5, <2>1, <2>2, <2>9, <3>1, RowIsTyped DEF RequestIsSafe, UploadIsSafe, Listed, Offered, Homes, Places
    <3>4. RemovalIsSafe(x, p)'
      BY <1>5, <2>3, <2>6, <2>7, <3>1 DEF RequestIsSafe, RemovalIsSafe, RequestPlaced, Listed, OffDrive, Homes, Places
    <3>5. QED BY <3>2, <3>3, <3>4 DEF RequestIsSafe
  <2>10. ASSUME p \notin raced' PROVE RequestIsSafe(t, p)'
    BY <1>5, <1>7, <2>2, <2>10
       DEF Goes, Listed, RequestIsSafe, CreateIsSafe, ImportIsSafe, UploadIsSafe, RemovalIsSafe, Importing,
           Copying, Copied, Uploading
  <2>11. /\ expects' \in [LibProjects -> Originals \cup {"none"}] /\ catalogRow' \in [LibProjects -> LibraryRows \cup {Nowhere}]
         /\ request'[t].p = p /\ OthersWait(t)
    BY <1>1, <1>3, <1>5, <1>7 DEF LibraryShape, Goes
  <2>12. QED
    BY <1>1, <1>3, <1>5, <1>7, <2>4, <2>5, <2>8, <2>9, <2>10, <2>11, OneRequestMoves DEF Puts
<1>8. CASE /\ \E f \in folder[p][d] : Holds(p, d, folder[p][d] \ {f})
           /\ loose' = loose \cup {p} /\ UNCHANGED request
  <2>1. PICK files \in SUBSET folder[p][d] : Holds(p, d, files)
    BY <1>8
  <2>2. Puts(p, d, files) /\ Goes(t, "erase")
    BY <1>2, <1>3, <1>4, <1>8, <2>1, FolderHolds DEF Goes, OthersWait, LibraryShape
  <2>3. QED BY <1>7, <1>8, <2>2
<1>9. CASE Proceeds(t, "unlist") /\ UNCHANGED <<folder, loose>>
  <2>1. Puts(p, d, folder[p][d]) /\ Goes(t, "unlist")
    BY <1>3, <1>9, FolderKeeps, RequestProceeds DEF LibrarySteps
  <2>2. QED BY <1>7, <1>9, <2>1
<1>10. QED BY <1>1, <1>6, <1>8, <1>9 DEF RemoveErases, Removed

LEMMA UnlistsStep ==
    ASSUME LibraryInv, NEW t \in LibThreads, RemoveUnlists(t)
    PROVE  LibraryInv'
<1>1. PICK p : p = request[t].p
  OBVIOUS
<1>2. request[t].at = "unlist"
  BY DEF RemoveUnlists
<1>3. p \in LibProjects /\ LibraryShape
  BY <1>1, <1>2, RemovalsGoOn
<1>4. UNCHANGED <<folder, expects, mounted, whole, asked, raced, loose>> /\ Ends(t)
  BY DEF RemoveUnlists, libDisk, libHistory, Removed
<1>5. CASE catalogRow' = [catalogRow EXCEPT ![p] = Nowhere]
  <2>1. RowBecomes(p, Nowhere) /\ Quits(t)
    BY <1>3, <1>4, <1>5, RowIsWritten, RequestEnds
  <2>2. QED BY <1>1, <1>3, <1>4, <2>1, UnlistedIsSafe DEF Quits, NoRequest
<1>6. CASE UNCHANGED catalogRow
  BY <1>2, <1>4, <1>6, RemovalStops
<1>7. QED BY <1>1, <1>5, <1>6 DEF RemoveUnlists

LEMMA CrashStep ==
    ASSUME LibraryInv, CrashEngine
    PROVE  LibraryInv'
<1>1. LibraryShape /\ \A t \in LibThreads : request'[t] = NoRequest /\ request'[t].at = "idle" /\ request'[t].p = "none"
  BY DEF LibraryInv, CrashEngine, NoRequest
<1>2. UNCHANGED <<folder, expects, catalogRow, mounted, whole, asked, raced, loose>>
  BY DEF CrashEngine, libDisk, libHistory
<1>3. request' \in [LibThreads -> LibraryRequests]
  BY DEF CrashEngine, LibraryRequests, LibrarySteps, NoRequest
<1>4. LibraryShape'
  BY <1>1, <1>2, <1>3
     DEF LibraryShape, RequestPlaced, Importing, Copying, Copied, Uploading
<1>5. ASSUME NEW q \in LibProjects PROVE SafeFor(q)'
  <2>1. SafeFor(q) /\ ~Marking(q)'
    BY <1>1 DEF LibraryInv, Marking
  <2>2. ManifestIsNamed(q)' /\ OneUpload(q)'
    BY <1>1, <1>2, <2>1 DEF SafeFor, ManifestIsNamed, OneUpload, Uploading
  <2>3. ASSUME q \notin raced' PROVE ProjectIsSafe(q)'
    BY <1>2, <2>1, <2>3
       DEF SafeFor, ProjectIsSafe, BookSurvives, StagedFrom, RootIsAlone, SourceIsKept, ManifestAgrees,
           SentinelStays, DeletingIsAsked, Listed, Offered, OffDrive, HasBook
  <2>4. \A t \in LibThreads : request'[t].p # q
    BY <1>1, LibraryAssumption
  <2>5. QED BY <2>2, <2>3, <2>4 DEF SafeFor
<1>6. QED BY <1>4, <1>5 DEF LibraryInv

LEMMA DriveStep ==
    ASSUME LibraryInv, MoveDrive
    PROVE  LibraryInv'
<1>1. UNCHANGED <<folder, expects, catalogRow, request, whole, asked, raced>>
  BY DEF MoveDrive
<1>2. /\ loose \subseteq loose'
      /\ \A t \in LibThreads : request[t].at \in {"sentinel", "row"} => request[t].p \in loose'
  BY DEF MoveDrive
<1>3. LibraryShape'
  BY <1>1 DEF LibraryInv, LibraryShape, RequestPlaced
<1>4. ASSUME NEW q \in LibProjects PROVE SafeFor(q)'
  <2>1. SafeFor(q) /\ Marking(q)' = Marking(q)
    BY <1>1 DEF LibraryInv, Marking
  <2>2. ManifestIsNamed(q)' /\ OneUpload(q)'
    BY <1>1, <2>1 DEF SafeFor, ManifestIsNamed, OneUpload
  <2>3. ASSUME q \notin raced' PROVE ProjectIsSafe(q)'
    BY <1>1, <1>2, <2>1, <2>3
       DEF SafeFor, ProjectIsSafe, BookSurvives, StagedFrom, RootIsAlone, SourceIsKept, ManifestAgrees,
           SentinelStays, DeletingIsAsked, Listed, Offered, OffDrive, HasBook
  <2>4. ASSUME NEW t \in LibThreads, q \notin raced', request'[t].p = q PROVE RequestIsSafe(t, q)'
    <3>1. RequestIsSafe(t, q)
      BY <1>1, <2>1, <2>4 DEF SafeFor
    <3>2. CreateIsSafe(t, q)' /\ ImportIsSafe(t, q)' /\ UploadIsSafe(t, q)'
      BY <1>1, <1>2, <3>1
         DEF RequestIsSafe, CreateIsSafe, ImportIsSafe, UploadIsSafe, IsAlone, Listed, Offered, HasBook, Agrees
    <3>3. RemovalIsSafe(t, q)'
      BY <1>1, <1>2, <2>4, <3>1 DEF RequestIsSafe, RemovalIsSafe, Listed
    <3>4. QED BY <3>2, <3>3 DEF RequestIsSafe
  <2>5. QED BY <2>2, <2>3, <2>4 DEF SafeFor
<1>5. QED BY <1>3, <1>4 DEF LibraryInv

\* A catalog that is written while no request is under way.
LEMMA CatalogWritten ==
    ASSUME LibraryInv, EngineIdle, UNCHANGED <<folder, expects, mounted, request, whole, asked, raced, loose>>,
           catalogRow' \in [LibProjects -> LibraryRows \cup {Nowhere}],
           \A q \in LibProjects \ raced :
               RootIsAlone(q)' /\ SourceIsKept(q)' /\ ManifestAgrees(q)' /\ DeletingIsAsked(q)'
               /\ (Listed(q)' /\ q \in asked => q \in loose)
    PROVE  LibraryInv'
<1>1. \A t \in LibThreads : request[t].at = "idle" /\ request[t].p = "none"
  BY DEF EngineIdle, NoRequest
<1>2. LibraryShape'
  BY DEF LibraryInv, LibraryShape, RequestPlaced
<1>3. ASSUME NEW q \in LibProjects PROVE SafeFor(q)'
  <2>1. SafeFor(q) /\ Marking(q)' = Marking(q)
    BY DEF LibraryInv, Marking
  <2>2. ManifestIsNamed(q)' /\ OneUpload(q)'
    BY <2>1 DEF SafeFor, ManifestIsNamed, OneUpload
  <2>3. ASSUME q \notin raced' PROVE ProjectIsSafe(q)'
    BY <2>1, <2>3 DEF SafeFor, ProjectIsSafe, BookSurvives, StagedFrom, SentinelStays, OffDrive, HasBook
  <2>4. \A t \in LibThreads : request'[t].p # q
    BY <1>1, LibraryAssumption
  <2>5. QED BY <2>2, <2>3, <2>4 DEF SafeFor
<1>4. QED BY <1>2, <1>3 DEF LibraryInv

LEMMA CatalogLostStep ==
    ASSUME LibraryInv, LoseCatalog
    PROVE  LibraryInv'
<1>1. /\ EngineIdle /\ UNCHANGED <<folder, expects, mounted, request, whole, asked, raced, loose>>
      /\ catalogRow' \in [LibProjects -> LibraryRows \cup {Nowhere}]
      /\ \A q \in LibProjects : ~Listed(q)'
  BY DEF LoseCatalog, libDisk, libHistory, Listed
<1>2. QED
  BY <1>1, CatalogWritten DEF RootIsAlone, SourceIsKept, ManifestAgrees, DeletingIsAsked, Offered

\* What a repair lists is the one directory of the project that there is: complete, with the
\* source its manifest names, and without a sentinel.
LEMMA RestoredIsThere ==
    ASSUME LibraryShape, NEW q \in LibProjects, ManifestIsNamed(q), NEW row, row = Restored(q), row # Nowhere
    PROVE  /\ row \in LibraryRows /\ ~row.deleting
           /\ \E d \in Homes :
                 /\ row.source \in folder[q][d] /\ ("manifest" \in folder[q][d] => row.source = expects[q])
                 /\ "sentinel" \notin folder[q][d]
                 /\ row.root = IF d = "drive" THEN "drive" ELSE "library"
                 /\ d # "library" => folder[q]["library"] = {}
                 /\ d # "staging" => "marker" \notin folder[q]["staging"]
                 /\ d = "staging" => "marker" \in folder[q]["staging"]
                 /\ d # "drive" => folder[q]["drive"] = {} \/ ~mounted
<1>1. PICK found : found = Below(q, "library") \cup Below(q, "drive")
  OBVIOUS
<1>2. Cardinality(found) = 1 /\ \A d \in found : Restorable(q, d)
  BY <1>1 DEF Restored
<1>3. found \in SUBSET Homes
  BY <1>1 DEF Below, Homes
<1>4. IsFiniteSet(found)
  <2>1. IsFiniteSet(Homes)
    <3>1. IsFiniteSet({}) /\ Homes = (({} \cup {"library"}) \cup {"staging"}) \cup {"drive"}
      BY FS_EmptySet DEF Homes
    <3>2. QED BY <3>1, FS_AddElement
  <2>2. QED BY <1>3, <2>1, FS_Subset
<1>5. PICK d : found = {d}
  BY <1>2, <1>4, FS_Singleton
<1>6. d \in Homes /\ Restorable(q, d)
  BY <1>2, <1>3, <1>5
<1>7. PICK home : home = CHOOSE x \in Below(q, "library") \cup Below(q, "drive") : TRUE
  OBVIOUS
<1>8. home = d
  BY <1>1, <1>5, <1>7
<1>9. IsFiniteSet(Matching(q, d)) /\ Matching(q, d) \subseteq Originals
  <2>1. IsFiniteSet(Originals)
    <3>1. IsFiniteSet({}) /\ Originals = ({} \cup {"s1"}) \cup {"s2"}
      BY FS_EmptySet DEF Originals
    <3>2. QED BY <3>1, FS_AddElement
  <2>2. Matching(q, d) \in SUBSET Originals
    BY DEF Matching
  <2>3. QED BY <2>1, <2>2, FS_Subset
<1>10. PICK s : Matching(q, d) = {s}
  BY <1>6, <1>9, FS_Singleton DEF Restorable, Scans
<1>11. PICK root : root = IF d = "drive" THEN "drive" ELSE "library"
  OBVIOUS
<1>12. s = CHOOSE x \in Matching(q, home) : TRUE
  BY <1>8, <1>10
<1>13. row = [root |-> root, source |-> s, deleting |-> FALSE]
  BY <1>1, <1>2, <1>7, <1>8, <1>11, <1>12 DEF Restored
<1>14. s \in Matching(q, d) /\ s \in Originals
  BY <1>9, <1>10
<1>15. s \in folder[q][d] /\ ("manifest" \in folder[q][d] => s = expects[q])
  BY <1>6, <1>14 DEF Matching, ManifestIsNamed, Homes, Places
<1>16. /\ d # "library" => folder[q]["library"] = {}
       /\ d # "staging" => "marker" \notin folder[q]["staging"]
       /\ d = "staging" => "marker" \in folder[q]["staging"]
       /\ d # "drive" => folder[q]["drive"] = {} \/ ~mounted
  BY <1>1, <1>5 DEF Below, Named, There
<1>17. row \in LibraryRows /\ ~row.deleting /\ row.source = s /\ row.root = root
  BY <1>11, <1>13, <1>14 DEF LibraryRows
<1>18. QED BY <1>6, <1>11, <1>15, <1>16, <1>17 DEF Restorable

LEMMA RepairStep ==
    ASSUME LibraryInv, RepairCatalog
    PROVE  LibraryInv'
<1>1. /\ EngineIdle /\ UNCHANGED <<folder, expects, mounted, request, whole, asked, raced, loose>>
      /\ catalogRow' = [q \in LibProjects |-> Restored(q)]
      /\ LibraryShape
  BY DEF LibraryInv, RepairCatalog, libDisk, libHistory
<1>2. \A q \in LibProjects : catalogRow'[q] = Restored(q) /\ ManifestIsNamed(q)
  BY <1>1 DEF LibraryInv, SafeFor
<1>3. \A q \in LibProjects : Restored(q) \in LibraryRows \cup {Nowhere}
  BY <1>1, <1>2, RestoredIsThere
<1>4. ASSUME NEW q \in LibProjects \ raced, Listed(q)'
      PROVE  RootIsAlone(q)' /\ SourceIsKept(q)' /\ ManifestAgrees(q)' /\ DeletingIsAsked(q)'
             /\ (q \in asked => q \in loose)
  <2>1. PICK row : row = Restored(q) /\ row = catalogRow'[q] /\ row # Nowhere
    BY <1>2, <1>4 DEF Listed
  <2>2. /\ row \in LibraryRows /\ ~row.deleting
        /\ \E d \in Homes :
              /\ row.source \in folder[q][d] /\ ("manifest" \in folder[q][d] => row.source = expects[q])
              /\ "sentinel" \notin folder[q][d]
              /\ row.root = IF d = "drive" THEN "drive" ELSE "library"
              /\ d # "library" => folder[q]["library"] = {}
              /\ d # "staging" => "marker" \notin folder[q]["staging"]
              /\ d = "staging" => "marker" \in folder[q]["staging"]
              /\ d # "drive" => folder[q]["drive"] = {} \/ ~mounted
    BY <1>1, <1>2, <2>1, RestoredIsThere
  <2>3. RootIsAlone(q)' /\ SourceIsKept(q)' /\ ManifestAgrees(q)' /\ DeletingIsAsked(q)'
    BY <1>1, <1>4, <2>1, <2>2
       DEF RootIsAlone, SourceIsKept, ManifestAgrees, DeletingIsAsked, Listed, Offered, OffDrive, Homes
  <2>4. q \in asked => q \in loose
    BY <1>1, <1>4, <2>2 DEF LibraryInv, SafeFor, ProjectIsSafe, SentinelStays, OffDrive, Homes
  <2>5. QED BY <2>3, <2>4
<1>5. ASSUME NEW q \in LibProjects \ raced, ~Listed(q)'
      PROVE  RootIsAlone(q)' /\ SourceIsKept(q)' /\ ManifestAgrees(q)' /\ DeletingIsAsked(q)'
  BY <1>5 DEF RootIsAlone, SourceIsKept, ManifestAgrees, DeletingIsAsked, Offered
<1>6. catalogRow' \in [LibProjects -> LibraryRows \cup {Nowhere}]
  BY <1>1, <1>3
<1>7. QED BY <1>1, <1>4, <1>5, <1>6, CatalogWritten

LEMMA LibraryKeeps ==
    ASSUME LibraryInv, [LibraryNext]_libVars
    PROVE  LibraryInv'
<1>1. CASE UNCHANGED libVars
  <2>1. UNCHANGED <<folder, expects, mounted, catalogRow, request, whole, asked, raced, loose>>
    BY <1>1 DEF libVars, libDisk, libHistory
  <2>2. \A q \in LibProjects : Untouched(q)
    BY <2>1 DEF Untouched
  <2>3. LibraryShape'
    BY <2>1 DEF LibraryInv, LibraryShape, RequestPlaced
  <2>4. QED BY <2>1, <2>2, <2>3, UntouchedIsSafe DEF LibraryInv
<1>2. ASSUME NEW t \in LibThreads, NEW p \in LibProjects,
             \/ \E root \in {"library", "drive"} : CreateSaves(t, p, root)
             \/ UploadSaves(t, p) \/ RemoveBegins(t, p)
             \/ \E d \in Places : ImportBegins(t, p, d)
      PROVE  LibraryInv'
  BY <1>2, SavesStep, UploadSavesStep, RemoveBeginsStep, ImportBeginsStep
<1>3. ASSUME NEW t \in LibThreads, CreateInserts(t) \/ UploadInvalidates(t) \/ UploadPublishes(t)
      PROVE  LibraryInv'
  BY <1>3, InsertsStep, InvalidatesStep, PublishesStep
<1>4. ASSUME NEW t \in LibThreads, ImportStep(t)
      PROVE  LibraryInv'
  BY <1>4, ClearsStep, CopiesStep, VerifiesStep, RenamesStep, CleansUpStep, RemovesOriginalStep,
     RecordsStep, MarksStep DEF ImportStep
<1>5. ASSUME NEW t \in LibThreads, RemoveStep(t)
      PROVE  LibraryInv'
  BY <1>5, SentinelStep, MarksRowStep, ErasesStep, UnlistsStep DEF RemoveStep
<1>6. CASE \E p \in LibProjects : Parse(p)
  BY <1>6, ParseStep
<1>7. CASE CrashEngine \/ MoveDrive \/ LoseCatalog \/ RepairCatalog
  BY <1>7, CrashStep, DriveStep, CatalogLostStep, RepairStep
<1>8. QED BY <1>1, <1>2, <1>3, <1>4, <1>5, <1>6, <1>7 DEF LibraryNext

LEMMA LibraryBegins ==
    ASSUME LibraryInit
    PROVE  LibraryInv
<1>1. PICK files \in {{}, {"s1", "state"}, {"s1", "state", "manifest", "marker"}} :
         /\ folder = [p \in LibProjects |-> [d \in Places |-> IF d = "outside" THEN files ELSE {}]]
         /\ expects = [p \in LibProjects |-> IF "manifest" \in files THEN "s1" ELSE "none"]
         /\ whole = IF files = {} THEN {} ELSE LibProjects
  BY DEF LibraryInit
<1>2. /\ catalogRow = [p \in LibProjects |-> Nowhere]
      /\ request = [t \in LibThreads |-> NoRequest]
      /\ asked = {} /\ raced = {} /\ loose = {}
  BY DEF LibraryInit
<1>3. \A q \in LibProjects, d \in Places : folder[q][d] = IF d = "outside" THEN files ELSE {}
  BY <1>1
<1>4. \A t \in LibThreads : request[t] = NoRequest /\ request[t].at = "idle" /\ request[t].p = "none"
  BY <1>2 DEF NoRequest
<1>5. LibraryShape
  <2>1. folder \in [LibProjects -> [Places -> SUBSET Files]]
    BY <1>1 DEF Files
  <2>2. expects \in [LibProjects -> Originals \cup {"none"}]
    BY <1>1 DEF Originals
  <2>3. catalogRow \in [LibProjects -> LibraryRows \cup {Nowhere}]
    BY <1>2
  <2>4. request \in [LibThreads -> LibraryRequests]
    BY <1>2 DEF LibraryRequests, LibrarySteps, NoRequest
  <2>5. \A t \in LibThreads : RequestPlaced(t)
    BY <1>4 DEF RequestPlaced, Importing, Copying, Copied, Uploading
  <2>6. QED BY <2>1, <2>2, <2>3, <2>4, <2>5 DEF LibraryShape
<1>6. ASSUME NEW q \in LibProjects PROVE SafeFor(q)
  <2>1. ManifestIsNamed(q)
    BY <1>1, <1>3 DEF ManifestIsNamed
  <2>2. OneUpload(q) /\ \A t \in LibThreads : request[t].p # q
    BY <1>4, LibraryAssumption DEF OneUpload, Uploading
  <2>3. ~Listed(q)
    BY <1>2 DEF Listed
  <2>4. BookSurvives(q)
    BY <1>1, <1>3 DEF BookSurvives, HasBook, Places, Originals
  <2>5. StagedFrom(q)
    BY <1>3 DEF StagedFrom, Places
  <2>6. ProjectIsSafe(q)
    BY <1>2, <2>3, <2>4, <2>5
       DEF ProjectIsSafe, RootIsAlone, SourceIsKept, ManifestAgrees, SentinelStays, DeletingIsAsked, Offered
  <2>7. QED BY <2>1, <2>2, <2>6 DEF SafeFor
<1>7. QED BY <1>5, <1>6 DEF LibraryInv

\* The histories are of projects, and the bounds hold.
LibraryRest ==
    /\ mounted \in BOOLEAN /\ removing \subseteq LibProjects
    /\ whole \subseteq LibProjects /\ asked \subseteq LibProjects
    /\ raced \subseteq LibProjects /\ loose \subseteq LibProjects
    /\ libCrashes \in 0..MaxLibCrashes /\ libFaults \in 0..MaxLibFaults

LEMMA FaultsStayBounded ==
    ASSUME LibraryRest, LibFails \/ UNCHANGED libFaults
    PROVE  libFaults' \in 0..MaxLibFaults
BY LibraryAssumption DEF LibraryRest, LibFails

LEMMA LibraryRestKept ==
    ASSUME LibraryInv, LibraryRest, [LibraryNext]_libVars
    PROVE  LibraryRest'
<1>1. \A t \in LibThreads : request[t].at # "idle" => request[t].p \in LibProjects
  BY DEF LibraryInv, LibraryShape, RequestPlaced
<1>2. CASE UNCHANGED libVars
  BY <1>2 DEF libVars, libDisk, libHistory, libBounds, LibraryRest
<1>3. ASSUME NEW t \in LibThreads, NEW p \in LibProjects,
             \/ \E root \in {"library", "drive"} : CreateSaves(t, p, root)
             \/ UploadSaves(t, p) \/ RemoveBegins(t, p)
             \/ \E d \in Places : ImportBegins(t, p, d)
      PROVE  LibraryRest'
  <2>1. CASE \E root \in {"library", "drive"} : CreateSaves(t, p, root)
    BY <2>1 DEF CreateSaves, LibraryRest, libHistory, libBounds
  <2>2. CASE UploadSaves(t, p)
    BY <2>2 DEF UploadSaves, LibraryRest, libHistory, libBounds
  <2>3. CASE RemoveBegins(t, p)
    BY <2>3 DEF RemoveBegins, LibraryRest, libHistory, libBounds
  <2>4. CASE \E d \in Places : ImportBegins(t, p, d)
    BY <2>4 DEF ImportBegins, LibraryRest, libDisk, libBounds
  <2>5. QED BY <1>3, <2>1, <2>2, <2>3, <2>4
<1>4. ASSUME NEW t \in LibThreads, CreateInserts(t) \/ UploadInvalidates(t) \/ UploadPublishes(t)
      PROVE  LibraryRest'
  <2>1. libFaults' \in 0..MaxLibFaults
    BY <1>4, FaultsStayBounded DEF CreateInserts, UploadInvalidates, UploadPublishes
  <2>2. /\ libCrashes' = libCrashes /\ mounted' = mounted /\ removing' = removing /\ whole' \subseteq whole
        /\ asked' = asked /\ raced' = raced /\ loose' = loose
    BY <1>4 DEF CreateInserts, UploadInvalidates, UploadPublishes, libDisk, libHistory
  <2>3. QED BY <2>1, <2>2 DEF LibraryRest
<1>5. ASSUME NEW t \in LibThreads, ImportStep(t)
      PROVE  LibraryRest'
  <2>1. libFaults' \in 0..MaxLibFaults
    BY Zenon, <1>5, FaultsStayBounded
       DEF ImportStep, ImportClears, ImportCopies, ImportVerifies, ImportRenames, ImportCleansUp,
           ImportRemovesOriginal, ImportRecords, ImportMarks, libBounds
  <2>2. UNCHANGED <<libCrashes, mounted, removing, whole, asked, raced, loose>>
    BY Zenon, <1>5
       DEF ImportStep, ImportClears, ImportCopies, ImportVerifies, ImportRenames, ImportCleansUp,
           ImportRemovesOriginal, ImportRecords, ImportMarks, libDisk, libHistory, libBounds
  <2>3. QED BY <2>1, <2>2 DEF LibraryRest
<1>6. ASSUME NEW t \in LibThreads, RemoveStep(t)
      PROVE  LibraryRest'
  <2>1. libFaults' \in 0..MaxLibFaults
    BY <1>6, FaultsStayBounded DEF RemoveStep, RemoveWritesSentinel, RemoveMarksRow, RemoveErases, RemoveUnlists
  <2>2. UNCHANGED <<libCrashes, mounted, whole, raced>>
    BY <1>6 DEF RemoveStep, RemoveWritesSentinel, RemoveMarksRow, RemoveErases, RemoveUnlists, libDisk, libHistory
  <2>3. removing' \subseteq removing
    BY <1>6 DEF RemoveStep, RemoveWritesSentinel, RemoveMarksRow, RemoveErases, RemoveUnlists, Removed
  <2>4. request[t].p \in LibProjects
    BY <1>1, <1>6 DEF RemoveStep, RemoveWritesSentinel, RemoveMarksRow, RemoveErases, RemoveUnlists
  <2>5. asked' \subseteq asked \cup {request[t].p} /\ loose' \subseteq loose \cup {request[t].p}
    BY <1>6 DEF RemoveStep, RemoveWritesSentinel, RemoveMarksRow, RemoveErases, RemoveUnlists, libHistory
  <2>6. QED BY <2>1, <2>2, <2>3, <2>4, <2>5 DEF LibraryRest
<1>7. CASE \E p \in LibProjects : Parse(p)
  BY <1>7 DEF Parse, LibraryRest, libBounds
<1>8. CASE CrashEngine
  <2>1. libCrashes' \in 0..MaxLibCrashes
    BY <1>8, LibraryAssumption DEF CrashEngine, LibraryRest
  <2>2. QED BY <1>8, <2>1 DEF CrashEngine, LibraryRest, libDisk, libHistory
<1>9. CASE MoveDrive
  <2>1. libFaults' \in 0..MaxLibFaults
    BY <1>9, FaultsStayBounded DEF MoveDrive
  <2>2. mounted' \in BOOLEAN /\ UNCHANGED <<removing, whole, asked, raced, libCrashes>>
    BY <1>9 DEF MoveDrive
  <2>3. loose' \subseteq LibProjects
    BY <1>1, <1>9 DEF MoveDrive, LibraryRest
  <2>4. QED BY <2>1, <2>2, <2>3 DEF LibraryRest
<1>10. CASE LoseCatalog
  <2>1. libFaults' \in 0..MaxLibFaults
    BY <1>10, FaultsStayBounded DEF LoseCatalog
  <2>2. QED BY <1>10, <2>1 DEF LoseCatalog, LibraryRest, libDisk, libHistory
<1>11. CASE RepairCatalog
  BY <1>11 DEF RepairCatalog, LibraryRest, libDisk, libHistory, libBounds
<1>12. QED
  BY <1>2, <1>3, <1>4, <1>5, <1>6, <1>7, <1>8, <1>9, <1>10, <1>11 DEF LibraryNext

LEMMA LibraryCorrect == LibrarySpec => [](LibraryInv /\ LibraryRest)
<1>1. ASSUME LibraryInit PROVE LibraryInv /\ LibraryRest
  <2>1. mounted = TRUE /\ removing = {} /\ asked = {} /\ raced = {} /\ loose = {}
    BY <1>1 DEF LibraryInit
  <2>2. libCrashes = 0 /\ libFaults = 0 /\ whole \subseteq LibProjects
    BY <1>1 DEF LibraryInit
  <2>3. 0 \in 0..MaxLibCrashes /\ 0 \in 0..MaxLibFaults
    BY LibraryAssumption
  <2>4. QED BY <1>1, <2>1, <2>2, <2>3, LibraryBegins DEF LibraryRest
<1>2. LibraryInv /\ LibraryRest /\ [LibraryNext]_libVars => (LibraryInv /\ LibraryRest)'
  BY LibraryKeeps, LibraryRestKept
<1>3. QED BY <1>1, <1>2, PTL DEF LibrarySpec

\* Type correctness of the library: directories, rows, requests and histories.
THEOREM LibraryTyped == LibrarySpec => []LibraryTypeOK
<1>1. ASSUME LibraryInv, LibraryRest PROVE LibraryTypeOK
  <2>1. LibraryShape
    BY <1>1 DEF LibraryInv
  <2>2. \A p \in LibProjects :
          /\ catalogRow[p].root \in {"none", "library", "drive"}
          /\ catalogRow[p].source \in Originals \cup {"none"} /\ catalogRow[p].deleting \in BOOLEAN
    <3>1. \A row \in LibraryRows \cup {Nowhere} :
            /\ row.root \in {"none", "library", "drive"}
            /\ row.source \in Originals \cup {"none"} /\ row.deleting \in BOOLEAN
      <4>1. \A row \in LibraryRows :
              /\ row.root \in {"none", "library", "drive"}
              /\ row.source \in Originals \cup {"none"} /\ row.deleting \in BOOLEAN
        BY DEF LibraryRows
      <4>2. /\ Nowhere.root = "none" /\ Nowhere.source = "none" /\ Nowhere.deleting = FALSE
        BY DEF Nowhere
      <4>3. FALSE \in BOOLEAN
        OBVIOUS
      <4>4. Nowhere.deleting \in BOOLEAN
        BY <4>2, <4>3
      <4>5. QED BY <4>1, <4>2, <4>4
    <3>2. QED BY <2>1, <3>1 DEF LibraryShape
  <2>3. \A t \in LibThreads :
          /\ request[t].at \in LibrarySteps
          /\ request[t].p \in LibProjects \cup {"none"} /\ request[t].dir \in Places \cup {"none"}
          /\ request[t].source \in Originals \cup {"none"}
    BY <2>1 DEF LibraryShape, LibraryRequests
  <2>4. QED BY <1>1, <2>1, <2>2, <2>3 DEF LibraryTypeOK, LibraryRest, LibraryShape, LibrarySteps
<1>2. QED BY <1>1, LibraryCorrect, PTL

\* The library of projects, for any number of projects and requests, crashes and failures:
\* the book of a project nobody asked to remove is somewhere, the row of a project names a
\* source it has and the one its manifest was made from, and what was accepted for removal
\* is not offered again (LibraryIsSound).
THEOREM LibraryStaysSound == LibrarySpec => []LibraryIsSound
<1>1. ASSUME LibraryInv, LibraryRest PROVE LibraryIsSound
  <2>1. LibraryShape /\ \A q \in LibProjects \ raced : ProjectIsSafe(q)
    BY <1>1 DEF LibraryInv, SafeFor
  <2>2. OriginalsSurvive
    BY <1>1, <2>1 DEF OriginalsSurvive, ProjectIsSafe, BookSurvives, LibraryRest
  <2>3. SourceOfRowExists
    <3>1. ASSUME NEW p \in LibProjects \ raced, Listed(p), ~catalogRow[p].deleting
          PROVE  \E d \in {"library", "staging", "drive"} :
                    /\ d = "drive" <=> catalogRow[p].root = "drive"
                    /\ catalogRow[p].source \in folder[p][d]
      BY <2>1, <3>1, RowIsTyped DEF ProjectIsSafe, SourceIsKept, Offered
    <3>2. QED BY <3>1 DEF SourceOfRowExists
  <2>4. ManifestAgreesWithRow
    BY <2>1 DEF ManifestAgreesWithRow, ProjectIsSafe, ManifestAgrees
  <2>5. RemovedStaysRemoved
    BY <1>1, <2>1 DEF RemovedStaysRemoved, ProjectIsSafe, SentinelStays, LibraryRest
  <2>6. QED BY <2>2, <2>3, <2>4, <2>5 DEF LibraryIsSound
<1>2. QED BY <1>1, LibraryCorrect, PTL

-----------------------------------------------------------------------------
(* The composition: a behaviour of it is one of each component.            *)

\* A step of the composition is a step of the component it is about, and leaves the
\* variables of the others alone.
LEMMA OwnPartMoves ==
    ASSUME [StorageNext]_storageVars
    PROVE  /\ [Next]_vars /\ [ArchiveNext]_archiveVars /\ [PreparationNext]_initVars
           /\ [LibraryNext]_libVars /\ [AfNext]_afVars
           /\ component' = component
<1>1. CASE UNCHANGED storageVars
  BY <1>1 DEF storageVars
<1>2. CASE StorageNext
  <2>1. CASE Next /\ OthersRest("usage")
    BY <1>2, <2>1 DEF OthersRest, StorageNext
  <2>2. CASE ArchiveNext /\ OthersRest("archive")
    BY <1>2, <2>2 DEF OthersRest, StorageNext
  <2>3. CASE PreparationNext /\ OthersRest("initialization")
    BY <1>2, <2>3 DEF OthersRest, StorageNext
  <2>4. CASE LibraryNext /\ OthersRest("library")
    BY <1>2, <2>4 DEF OthersRest, StorageNext
  <2>5. CASE AfNext /\ OthersRest("autofix")
    BY <1>2, <2>5 DEF OthersRest, StorageNext
  <2>6. QED BY <1>2, <2>1, <2>2, <2>3, <2>4, <2>5 DEF StorageNext
<1>3. QED BY <1>1, <1>2

\* Each component of the composition keeps its own specification.
THEOREM EveryPartKeepsItsSpecification ==
    StorageSpec => Spec /\ ArchiveSpec /\ PreparationSpec /\ LibrarySpec /\ AfSpec
<1>1. StorageInit => Init /\ ArchiveInit /\ PreparationInit /\ LibraryInit /\ AfInit
  BY DEF StorageInit
<1>2. QED
  BY <1>1, OwnPartMoves, PTL
     DEF StorageSpec, Spec, ArchiveSpec, PreparationSpec, LibrarySpec, AfSpec

\* The variables of the component a behaviour is about keep their types (StorageTypeOK).
THEOREM StorageTyped == StorageSpec => []StorageTypeOK
<1>1. TypeOK /\ ArchiveTypeOK /\ PreparationTypeOK /\ LibraryTypeOK /\ AfTypeOK => StorageTypeOK
  BY DEF StorageTypeOK
<1>2. QED
  BY <1>1, EveryPartKeepsItsSpecification, TypeCorrect, ArchiveTyped, DirectoryTyped, LibraryTyped,
     AutofixTyped, PTL

\* What is kept for a project is its own and complete (StorageIsSound): the versions of its
\* glossary, the book of its source, its originals, and the index of its corrections.
THEOREM StorageSound == StorageSpec => []StorageIsSound
<1>1. ArchiveIsSound /\ SourcesStayApart /\ LibraryIsSound /\ IndexTellsTheTruth => StorageIsSound
  BY DEF StorageIsSound
<1>2. QED
  BY <1>1, EveryPartKeepsItsSpecification, ArchiveStaysSound, BooksStayApart, LibraryStaysSound,
     IndexIsTrue, PTL

\* What a reader of the ledgers, a crash and a later invocation find, in the composition: every
\* journal applies, no Review is above its book (ReviewWithinBook), what was billed is kept
\* (BillsAreKept), and a correction replaces only the text that was reviewed.
THEOREM PartsLoseNothing ==
    StorageSpec => /\ []JournalApplies /\ []ReviewWithinBook
                   /\ BillsAreKept /\ OnlyReviewedTextIsReplaced
<1>1. StorageSpec => []JournalApplies /\ []ReviewWithinBook
  BY EveryPartKeepsItsSpecification, JournalsApply, ReviewsWithinBook, PTL
<1>2. StorageSpec => BillsAreKept
  BY EveryPartKeepsItsSpecification, BillsStay, PTL
<1>3. StorageSpec => OnlyReviewedTextIsReplaced
  BY EveryPartKeepsItsSpecification, ReviewedTextIsReplaced, PTL
<1>4. QED BY <1>1, <1>2, <1>3, PTL

\* In the composition, too, no call is ever billed twice and the ledgers implement one addition
\* per increment, as long as a COMMIT that takes effect is reported.
THEOREM PartsBillOnce ==
    ASSUME ~LostReplies
    PROVE  StorageSpec => []BilledOnce /\ ImplementsUsageBook
<1>1. Spec => []BilledOnce
  BY BillsOnce
<1>2. Spec => ImplementsUsageBook
  BY ImplementsBook
<1>3. QED BY <1>1, <1>2, EveryPartKeepsItsSpecification, PTL

=============================================================================
