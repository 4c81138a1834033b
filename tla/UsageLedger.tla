------------------------------ MODULE UsageLedger ------------------------------
(***************************************************************************)
(* Usage accounting: the coordinators of one invocation bill the calls     *)
(* their clients recorded to the book ledger and to a Review ledger, by    *)
(* way of a journal, over a store that loses nothing it has committed.     *)
(*                                                                         *)
(* A ledger gives for each call how often it has been billed; the code     *)
(* keeps the same sums per attribution slot, merged and subtracted slot by *)
(* slot, so one call here is one unit in each of its slots.  An invocation *)
(* holds the run lock, so one is open at a time.  A lock is held by the    *)
(* thread whose program counter is between its acquisition and release.    *)
(*                                                                         *)
(* With Transactional, state_lock is a database transaction (SQLite and    *)
(* PostgreSQL); without, it is a file lock and every write is durable at   *)
(* once (files).  Discarding the ledgers of another source happens before  *)
(* any call and is not modelled.                                           *)
(***************************************************************************)
EXTENDS Naturals

CONSTANTS
    Client,         \* model clients, each with its UsageCoordinator
    Thread,         \* threads that flush
    ClientOf,       \* the client of each thread
    Review,         \* Review sessions
    Call,           \* bound: the model calls that report usage
    Transactional,  \* state_lock is a database transaction
    LostReplies,    \* the reply to a COMMIT may be lost
    MaxFaults,      \* bound: failing storage operations
    MaxDeaths       \* bound: invocations that end, orderly or not

Book == "usage.json"
Ledgers == {Book} \cup Review

ASSUME UsageAssumption ==
    /\ ClientOf \in [Thread -> Client]
    /\ Book \notin Review
    /\ Transactional \in BOOLEAN /\ LostReplies \in BOOLEAN
    /\ MaxFaults \in Nat /\ MaxDeaths \in Nat

VARIABLES
    durable,     \* the store as a crash or a rollback leaves it
    working,     \* the store as the holder of the state lock sees it
    flush,       \* the flush, or the opening, each thread is in
    recorded,    \* UsageTracker: calls of each client in this invocation
    checkpoint,  \* UsageCoordinator._checkpoint
    made,        \* every call ever recorded
    open,        \* an invocation is running
    faults, deaths

store == <<durable, working>>
budget == <<faults, deaths>>
vars == <<store, flush, recorded, checkpoint, made, open, budget>>

\* What a ledger file says: absent, or the times each call was billed.
Zero == [k \in Call |-> 0]
Missing == [present |-> FALSE, billed |-> Zero]
Contents == [present : BOOLEAN, billed : [Call -> Nat]]

\* usage-pending.json; it names no ledger when the file is absent.
Journals == [of : SUBSET Ledgers, before : [Ledgers -> Contents],
             value : [Ledgers -> Contents]]
NoJournal == [of |-> {}, before |-> [l \in Ledgers |-> Missing],
              value |-> [l \in Ledgers |-> Missing]]
Stores == [ledger : [Ledgers -> Contents], journal : Journals]
EmptyStore == [ledger |-> [l \in Ledgers |-> Missing], journal |-> NoJournal]

\* The ledgers one flush bills: the book's and at most one Review's.
Targets == {{Book}} \cup {{Book, r} : r \in Review}

StateLockPcs == {"checking", "writing", "merging", "prepared", "logging"}
Pcs == StateLockPcs \cup {"idle", "waiting", "committed"}
Phases == {"open", "prepare", "publish"}
Flushes == [pc : Pcs, phase : Phases, into : Targets, current : SUBSET Call,
            todo : SUBSET Ledgers]
IdleFlush == [pc |-> "idle", phase |-> "prepare", into |-> {Book}, current |-> {}, todo |-> {}]

TypeOK ==
    /\ durable \in Stores /\ working \in Stores
    /\ flush \in [Thread -> Flushes]
    /\ recorded \in [Client -> SUBSET Call]
    /\ checkpoint \in [Client -> SUBSET Call]
    /\ made \in SUBSET Call
    /\ open \in BOOLEAN
    /\ faults \in 0..MaxFaults
    /\ deaths \in 0..MaxDeaths

Init ==
    /\ durable = EmptyStore /\ working = EmptyStore
    /\ flush = [t \in Thread |-> IdleFlush]
    /\ recorded = [c \in Client |-> {}]
    /\ checkpoint = [c \in Client |-> {}]
    /\ made = {}
    /\ open = FALSE
    /\ faults = 0 /\ deaths = 0

-----------------------------------------------------------------------------
(* Locks and the store.                                                     *)

Idle(t) == flush[t].pc = "idle"
HoldsState(t) == flush[t].pc \in StateLockPcs
StateLockFree == \A t \in Thread : ~HoldsState(t)
CoordinatorFree(c) == \A t \in Thread : ClientOf[t] = c => Idle(t)

MoveTo(t, pc) ==
    flush' = [flush EXCEPT ![t] =
        [pc |-> pc, phase |-> @.phase, into |-> @.into, current |-> @.current, todo |-> @.todo]]
Return(t) == flush' = [flush EXCEPT ![t] = IdleFlush]

\* A write under the state lock: on disk at once, or with the transaction.
Write(next) ==
    /\ working' = next
    /\ durable' = IF Transactional THEN durable ELSE next

Commit == durable' = working /\ UNCHANGED working
Rollback == working' = durable /\ UNCHANGED durable

\* An exception leaves both `with` blocks: a transaction rolls back, files keep
\* what was written.
Raise(t) == Rollback /\ Return(t)

HasJournal(s) == s.journal.of # {}

\* Every journaled ledger is as the journal found it, or already as it wants it.
Applies(s) == \A l \in s.journal.of : s.ledger[l] \in {s.journal.before[l], s.journal.value[l]}

\* usage_delta and merge_usage_summaries.
Increment(c) == recorded[c] \ checkpoint[c]
Merged(contents, calls) ==
    [present |-> TRUE,
     billed |-> [k \in Call |-> IF k \in calls THEN contents.billed[k] + 1
                                               ELSE contents.billed[k]]]

\* Writing one journaled ledger, removing the journal, writing a journal of
\* absolute totals, and creating the ledger of a Review.
Published(s, l) ==
    [ledger |-> [s.ledger EXCEPT ![l] = s.journal.value[l]], journal |-> s.journal]
Unlinked(s) == [ledger |-> s.ledger, journal |-> NoJournal]
Journaled(s, into, calls) ==
    [ledger |-> s.ledger,
     journal |-> [of |-> into, before |-> s.ledger,
                  value |-> [l \in Ledgers |-> Merged(s.ledger[l], calls)]]]
WithReview(s, into) ==
    [ledger |-> [l \in Ledgers |-> IF l \in into \ {Book} /\ ~s.ledger[l].present
                                   THEN Merged(s.ledger[l], {}) ELSE s.ledger[l]],
     journal |-> s.journal]

-----------------------------------------------------------------------------
(* An invocation: it opens the store under the run lock, recovering what    *)
(* an earlier one left, its clients make calls, and it ends or dies.  With  *)
(* files the opening needs no state lock: the run lock is held and no       *)
(* client exists yet, so that nobody else takes it.                         *)

\* storage.recover_usage() before the clients are built.
OpenRun(t) ==
    /\ ~open
    /\ \A u \in Thread : Idle(u)
    /\ flush' = [flush EXCEPT ![t] = [pc |-> "waiting", phase |-> "open", into |-> {Book},
                                      current |-> {}, todo |-> {}]]
    /\ UNCHANGED <<store, recorded, checkpoint, made, open, budget>>

\* UsageTracker.record, at any time of the invocation.
Record(c, k) ==
    /\ open
    /\ k \notin made
    /\ recorded' = [recorded EXCEPT ![c] = @ \cup {k}]
    /\ made' = made \cup {k}
    /\ UNCHANGED <<store, flush, checkpoint, open, budget>>

\* The process ends: its locks and its memory are gone, its transaction rolls back.
EndRun ==
    /\ deaths < MaxDeaths
    /\ deaths' = deaths + 1
    /\ Rollback
    /\ flush' = [t \in Thread |-> IdleFlush]
    /\ recorded' = [c \in Client |-> {}]
    /\ checkpoint' = [c \in Client |-> {}]
    /\ open' = FALSE
    /\ UNCHANGED <<made, faults>>

-----------------------------------------------------------------------------
(* UsageCoordinator.flush, and recover_usage inside it.                     *)

\* Mutant: the Review's ledger alone is billed.
FlushReviewOnly(t) ==
    /\ open
    /\ CoordinatorFree(ClientOf[t])
    /\ \E r \in Review :
          flush' = [flush EXCEPT ![t] = [pc |-> "waiting", phase |-> "prepare", into |-> {r},
                                         current |-> {}, todo |-> {}]]
    /\ UNCHANGED <<store, recorded, checkpoint, made, open, budget>>

\* Mutant: flushes of one coordinator are not serialized.
FlushUnserialized(t) ==
    /\ open
    /\ Idle(t)
    /\ \E into \in Targets :
          flush' = [flush EXCEPT ![t] = [pc |-> "waiting", phase |-> "prepare", into |-> into,
                                         current |-> {}, todo |-> {}]]
    /\ UNCHANGED <<store, recorded, checkpoint, made, open, budget>>

\* flush(): `with self._lock`, for the book alone or for a Review as well.
BeginFlush(t) ==
    /\ open
    /\ CoordinatorFree(ClientOf[t])
    /\ \E into \in Targets :
          flush' = [flush EXCEPT ![t] = [pc |-> "waiting", phase |-> "prepare", into |-> into,
                                         current |-> {}, todo |-> {}]]
    /\ UNCHANGED <<store, recorded, checkpoint, made, open, budget>>

\* Mutant: a pending journal is not recovered before the next is prepared.
MergeUnrecovered(t) ==
    /\ flush[t].pc = "waiting"
    /\ StateLockFree
    /\ MoveTo(t, IF flush[t].phase = "prepare" THEN "merging" ELSE "checking")
    /\ UNCHANGED <<store, recorded, checkpoint, made, open, budget>>

\* Mutant: the second transaction logs the event without publishing.
LogUnpublished(t) ==
    /\ flush[t].pc = "waiting"
    /\ StateLockFree
    /\ MoveTo(t, IF flush[t].phase = "publish" THEN "logging" ELSE "checking")
    /\ UNCHANGED <<store, recorded, checkpoint, made, open, budget>>

\* `with store.state_lock()`
TakeStateLock(t) ==
    /\ flush[t].pc = "waiting"
    /\ StateLockFree
    /\ MoveTo(t, "checking")
    /\ UNCHANGED <<store, recorded, checkpoint, made, open, budget>>

\* What follows recover_usage: nothing, the merge, or the usage_summary event.
Recovered(t) ==
    \/ /\ flush[t].phase = "open"
       /\ open' = TRUE
       /\ durable' = working
       /\ Return(t)
    \/ /\ flush[t].phase = "prepare"
       /\ MoveTo(t, "merging")
       /\ UNCHANGED <<durable, open>>
    \/ /\ flush[t].phase = "publish"
       /\ MoveTo(t, "logging")
       /\ UNCHANGED <<durable, open>>

NoPendingJournal(t) ==
    /\ flush[t].pc = "checking"
    /\ ~HasJournal(working)
    /\ Recovered(t)
    /\ UNCHANGED <<working, recorded, checkpoint, made, budget>>

\* Every entry is checked before the first ledger is written; one that changed
\* outside the journal refuses it.
CheckJournal(t) ==
    /\ flush[t].pc = "checking"
    /\ HasJournal(working)
    /\ IF Applies(working)
       THEN /\ flush' = [flush EXCEPT ![t] =
                   [pc |-> "writing", phase |-> @.phase, into |-> @.into,
                    current |-> @.current, todo |-> working.journal.of]]
            /\ UNCHANGED store
       ELSE Raise(t)
    /\ UNCHANGED <<recorded, checkpoint, made, open, budget>>

\* Mutant: the journaled increase is added to whatever the ledger says.
WriteByDelta(t) ==
    /\ flush[t].pc = "writing"
    /\ \E l \in flush[t].todo :
          /\ Book \in flush[t].todo => l = Book
          /\ LET increase(k) == working.journal.value[l].billed[k]
                                    - working.journal.before[l].billed[k]
             IN Write([ledger |-> [working.ledger EXCEPT ![l] =
                          [present |-> TRUE,
                           billed |-> [k \in Call |-> @.billed[k] + increase(k)]]],
                       journal |-> working.journal])
          /\ flush' = [flush EXCEPT ![t] =
                 [pc |-> "writing", phase |-> @.phase, into |-> @.into, current |-> @.current,
                  todo |-> @.todo \ {l}]]
    /\ UNCHANGED <<recorded, checkpoint, made, open, budget>>

\* Mutant: the ledgers are written in any order.
WriteUnordered(t) ==
    /\ flush[t].pc = "writing"
    /\ \E l \in flush[t].todo :
          /\ Write(Published(working, l))
          /\ flush' = [flush EXCEPT ![t] =
                 [pc |-> "writing", phase |-> @.phase, into |-> @.into, current |-> @.current,
                  todo |-> @.todo \ {l}]]
    /\ UNCHANGED <<recorded, checkpoint, made, open, budget>>

\* The absolute totals, the book's first.
WriteLedger(t) ==
    /\ flush[t].pc = "writing"
    /\ \E l \in flush[t].todo :
          /\ Book \in flush[t].todo => l = Book
          /\ Write(Published(working, l))
          /\ flush' = [flush EXCEPT ![t] =
                 [pc |-> "writing", phase |-> @.phase, into |-> @.into, current |-> @.current,
                  todo |-> @.todo \ {l}]]
    /\ UNCHANGED <<recorded, checkpoint, made, open, budget>>

UnlinkJournal(t) ==
    /\ flush[t].pc = "writing"
    /\ flush[t].todo = {}
    /\ Write(Unlinked(working))
    /\ MoveTo(t, "checking")
    /\ UNCHANGED <<recorded, checkpoint, made, open, budget>>

\* Nothing to bill: an empty Review ledger is created, and flush returns.
NothingToBill(t) ==
    /\ flush[t].pc = "merging"
    /\ Increment(ClientOf[t]) = {}
    /\ working' = WithReview(working, flush[t].into)
    /\ durable' = working'
    /\ Return(t)
    /\ UNCHANGED <<recorded, checkpoint, made, open, budget>>

\* Mutant: the increment is journaled in place of the totals.
PrepareIncrement(t) ==
    LET increment == Increment(ClientOf[t]) IN
    /\ flush[t].pc = "merging"
    /\ increment # {}
    /\ Write([ledger |-> working.ledger,
              journal |-> [of |-> flush[t].into, before |-> working.ledger,
                           value |-> [l \in Ledgers |-> Merged(Missing, increment)]]])
    /\ flush' = [flush EXCEPT ![t] =
           [pc |-> "prepared", phase |-> @.phase, into |-> @.into,
            current |-> recorded[ClientOf[t]], todo |-> {}]]
    /\ UNCHANGED <<recorded, checkpoint, made, open, budget>>

\* Mutant: the checkpoint advances inside the transaction that may roll back.
PrepareAdvancing(t) ==
    LET increment == Increment(ClientOf[t]) IN
    /\ flush[t].pc = "merging"
    /\ increment # {}
    /\ Write(Journaled(working, flush[t].into, increment))
    /\ flush' = [flush EXCEPT ![t] =
           [pc |-> "prepared", phase |-> @.phase, into |-> @.into,
            current |-> recorded[ClientOf[t]], todo |-> {}]]
    /\ checkpoint' = [checkpoint EXCEPT ![ClientOf[t]] = recorded[ClientOf[t]]]
    /\ UNCHANGED <<recorded, made, open, budget>>

\* The journal of absolute totals (prepare_usage_commit).
Prepare(t) ==
    LET increment == Increment(ClientOf[t]) IN
    /\ flush[t].pc = "merging"
    /\ increment # {}
    /\ Write(Journaled(working, flush[t].into, increment))
    /\ flush' = [flush EXCEPT ![t] =
           [pc |-> "prepared", phase |-> @.phase, into |-> @.into,
            current |-> recorded[ClientOf[t]], todo |-> {}]]
    /\ UNCHANGED <<recorded, checkpoint, made, open, budget>>

\* The first state transaction ends.
CommitJournal(t) ==
    /\ flush[t].pc = "prepared"
    /\ Commit
    /\ MoveTo(t, "committed")
    /\ UNCHANGED <<recorded, checkpoint, made, open, budget>>

\* `self._checkpoint = current`; the second transaction is still to come.
AdvanceCheckpoint(t) ==
    /\ flush[t].pc = "committed"
    /\ checkpoint' = [checkpoint EXCEPT ![ClientOf[t]] = flush[t].current]
    /\ flush' = [flush EXCEPT ![t] =
           [pc |-> "waiting", phase |-> "publish", into |-> @.into, current |-> @.current,
            todo |-> {}]]
    /\ UNCHANGED <<store, recorded, made, open, budget>>

\* log_event, and the end of the second transaction: flush returns.
FinishFlush(t) ==
    /\ flush[t].pc = "logging"
    /\ Commit
    /\ Return(t)
    /\ UNCHANGED <<recorded, checkpoint, made, open, budget>>

-----------------------------------------------------------------------------
(* Failures.                                                                *)

\* A lock, a read, a write or a COMMIT fails.  With files nothing can fail
\* between the journal and the checkpoint.
StorageFails(t) ==
    /\ faults < MaxFaults
    /\ faults' = faults + 1
    /\ flush[t].pc \in {"waiting", "checking", "writing", "merging", "logging"}
          \cup (IF Transactional THEN {"prepared"} ELSE {})
    /\ IF flush[t].pc = "waiting" THEN UNCHANGED store ELSE Rollback
    /\ Return(t)
    /\ UNCHANGED <<recorded, checkpoint, made, open, deaths>>

\* The database commits and the connection fails before it says so.
CommitReplyLost(t) ==
    /\ Transactional /\ LostReplies
    /\ faults < MaxFaults
    /\ faults' = faults + 1
    /\ flush[t].pc \in {"prepared", "logging"}
    /\ Commit
    /\ Return(t)
    /\ UNCHANGED <<recorded, checkpoint, made, open, deaths>>

-----------------------------------------------------------------------------
FlushStep(t) ==
    \/ TakeStateLock(t)
    \/ NoPendingJournal(t)
    \/ CheckJournal(t)
    \/ WriteLedger(t)
    \/ UnlinkJournal(t)
    \/ NothingToBill(t)
    \/ Prepare(t)
    \/ CommitJournal(t)
    \/ AdvanceCheckpoint(t)
    \/ FinishFlush(t)

Next ==
    \/ EndRun
    \/ \E c \in Client, k \in Call : Record(c, k)
    \/ \E t \in Thread :
          \/ OpenRun(t)
          \/ BeginFlush(t)
          \/ FlushStep(t)
          \/ StorageFails(t)
          \/ CommitReplyLost(t)

Spec == Init /\ [][Next]_vars

-----------------------------------------------------------------------------
(* Properties.                                                              *)

\* What the books come to once a pending journal has been published.
Effective(s, l) == IF l \in s.journal.of THEN s.journal.value[l] ELSE s.ledger[l]

\* No retry, no second coordinator and no recovery bills a call twice.
BilledOnce ==
    \A l \in Ledgers : \A k \in Call : Effective(durable, l).billed[k] <= 1

\* A checkpoint never runs ahead of the store: what a coordinator will not
\* bill again survives any crash, also when its flush later failed or another
\* coordinator's journal replaced its own.
CheckpointIsDurable ==
    \A c \in Client : \A k \in checkpoint[c] : Effective(durable, Book).billed[k] >= 1

\* recover_usage never finds a ledger that is neither as the journal saw it
\* nor as it wants it, wherever the last publication was interrupted.
JournalApplies == Applies(durable) /\ Applies(working)

\* A reader of the ledgers never sees a Review charge that the book lacks,
\* also in the middle of a publication or after a crash there.
ReviewWithinBook ==
    \A r \in Review : \A k \in Call :
        durable.ledger[r].billed[k] <= durable.ledger[Book].billed[k]

\* A flush that returns has put its client's calls in the book itself, where
\* load_usage reads them, not only in the journal.
ReturnsPublished ==
    [][\A t \in Thread : (FinishFlush(t) \/ NothingToBill(t)) =>
          \A k \in checkpoint'[ClientOf[t]] : durable'.ledger[Book].billed[k] >= 1]_vars

\* Totals on disk never go down, whatever fails or rolls back.
TotalsNeverShrink ==
    [][\A l \in Ledgers : \A k \in Call :
          durable.ledger[l].billed[k] <= durable'.ledger[l].billed[k]]_vars

-----------------------------------------------------------------------------
(* What every step keeps, beside the types: the strengthening under which   *)
(* the properties above are inductive.                                      *)

StateLockExclusive ==
    \A t, u \in Thread : HoldsState(t) /\ HoldsState(u) => t = u

CoordinatorExclusive ==
    \A t, u \in Thread : ClientOf[t] = ClientOf[u] /\ ~Idle(t) /\ ~Idle(u) => t = u

\* A store on its own: its journal raises the book and never a Review above it.
WellFormed(s) ==
    /\ HasJournal(s) => Book \in s.journal.of
    /\ Applies(s)
    /\ \A l \in s.journal.of : \A k \in Call :
          s.journal.before[l].billed[k] <= s.journal.value[l].billed[k]
    /\ \A r \in Review : \A k \in Call :
          /\ s.ledger[r].billed[k] <= s.ledger[Book].billed[k]
          /\ Effective(s, r).billed[k] <= Effective(s, Book).billed[k]

StoreInv ==
    /\ WellFormed(durable) /\ WellFormed(working)
    /\ ~Transactional \/ StateLockFree => durable = working

\* What a flush has established where it stands.
Stage(t) ==
    LET f == flush[t]
        c == ClientOf[t]
    IN
    /\ f.pc = "writing" =>
          /\ f.todo \subseteq working.journal.of
          /\ \A l \in working.journal.of \ f.todo : working.ledger[l] = working.journal.value[l]
    /\ f.pc \in {"merging", "logging"} => ~HasJournal(working)
    /\ f.pc \in StateLockPcs \ {"prepared"} =>
          \A l \in Ledgers : Effective(working, l) = Effective(durable, l)
    /\ f.pc = "prepared" =>
          /\ \A k \in f.current : Effective(working, Book).billed[k] >= 1
          /\ Transactional => \A l \in Ledgers :
                Effective(working, l).billed =
                    IF l \in f.into
                    THEN Merged(Effective(durable, l), f.current \ checkpoint[c]).billed
                    ELSE Effective(durable, l).billed
    /\ f.pc = "committed" => \A k \in f.current : Effective(durable, Book).billed[k] >= 1
    /\ f.pc \in {"prepared", "committed"} =>
          checkpoint[c] \subseteq f.current /\ f.current \subseteq recorded[c]

\* A call is recorded once, by one client, before any checkpoint knows it.
ClientsInv ==
    /\ \A c \in Client : checkpoint[c] \subseteq recorded[c] /\ recorded[c] \subseteq made
    /\ \A c, d \in Client : c # d => recorded[c] \cap recorded[d] = {}

LedgerInv ==
    /\ StoreInv
    /\ \A t \in Thread : Stage(t)
    /\ ClientsInv
    /\ CheckpointIsDurable

\* A call of c's journaled by a flush that has not moved the checkpoint yet.
InFlight(c, k) ==
    \E t \in Thread : /\ ClientOf[t] = c
                      /\ k \in flush[t].current
                      /\ flush[t].pc \in {"committed"}
                            \cup (IF Transactional THEN {} ELSE {"prepared"})

\* What no checkpoint and no journal covers is in no ledger.
OnceInv ==
    /\ BilledOnce
    /\ \A k \in Call \ made : Effective(durable, Book).billed[k] = 0
    /\ \A c \in Client : \A k \in recorded[c] \ checkpoint[c] :
          ~InFlight(c, k) => Effective(durable, Book).billed[k] = 0

\* Billing is atomic and happens once: all the stages of a flush, and every
\* recovery, look like one addition to the book and to at most one Review.
Accounts == INSTANCE UsageBook
    WITH billed <- [l \in Ledgers |-> Effective(durable, l).billed]
ImplementsUsageBook == Accounts!Spec

=============================================================================
