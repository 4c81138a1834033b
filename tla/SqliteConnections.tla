-------------------------- MODULE SqliteConnections --------------------------
(***************************************************************************)
(* The connections of one SqliteStorage (storage/sqlite.py): each thread   *)
(* opens its own and caches it.  Writers serialize on a mutex, readers     *)
(* count themselves under a condition variable (_connections_guard), and   *)
(* close_all, which the thread that leaves the run lock calls, drains the  *)
(* readers under the mutex and then closes what every thread has cached.   *)
(***************************************************************************)
EXTENDS Naturals, FiniteSets

CONSTANTS
    SqlThreads,
    NoThread,
    MaxOperations   \* bound: reads, transactions and closings

ASSUME SqliteAssumption ==
    IsFiniteSet(SqlThreads) /\ NoThread \notin SqlThreads /\ MaxOperations \in Nat

VARIABLES
    sqlPc,          \* what each thread does
    sqlAim,         \* whether a thread that opens a connection is to "read" or to "write"
    sqlConn,        \* _conn_local: the cached connection of each thread, or 0
    sqlOpening,     \* the connection a thread has opened and not yet cached, or 0
    sqlOpen,        \* connections that are open
    connections,    \* _connections
    readers,        \* _readers
    closing,        \* _closing
    sqlMutex,       \* owner of _mutex
    operations, opened

sqlCaches == <<sqlAim, sqlConn, sqlOpening, sqlOpen, connections, opened>>
sqlVars == <<sqlPc, sqlCaches, readers, closing, sqlMutex, operations>>

SqliteTypeOK ==
    /\ sqlPc \in [SqlThreads -> {"idle", "open", "register", "cache", "query", "endread", "begin",
                                 "write", "nested", "commit", "close", "closeall", "drain", "leave"}]
    /\ sqlAim \in [SqlThreads -> {"read", "write"}]
    /\ sqlConn \in [SqlThreads -> 0..opened] /\ sqlOpening \in [SqlThreads -> 0..opened]
    /\ connections \subseteq 1..opened /\ sqlOpen \subseteq 1..opened
    /\ readers \in 0..Cardinality(SqlThreads)
    /\ closing \in BOOLEAN
    /\ sqlMutex \in SqlThreads \cup {NoThread}
    /\ operations \in 0..MaxOperations /\ opened \in 0..MaxOperations

SqliteInit ==
    /\ sqlPc = [t \in SqlThreads |-> "idle"]
    /\ sqlAim = [t \in SqlThreads |-> "read"]
    /\ sqlConn = [t \in SqlThreads |-> 0] /\ sqlOpening = [t \in SqlThreads |-> 0]
    /\ sqlOpen = {} /\ connections = {}
    /\ readers = 0 /\ closing = FALSE /\ sqlMutex = NoThread
    /\ operations = 0 /\ opened = 0

Goes(t, pc) == sqlPc' = [sqlPc EXCEPT ![t] = pc]
Operates == operations < MaxOperations /\ operations' = operations + 1
TakeMutex(t) == sqlMutex = NoThread /\ sqlMutex' = t

-----------------------------------------------------------------------------
(* _connection                                                             *)

\* Under the schema lock, which is held for an instant.
OpenConnection(t) ==
    /\ sqlPc[t] = "open"
    /\ opened' = opened + 1
    /\ sqlOpening' = [sqlOpening EXCEPT ![t] = opened']
    /\ sqlOpen' = sqlOpen \cup {opened'}
    /\ Goes(t, "register")
    /\ UNCHANGED <<sqlAim, sqlConn, connections, readers, closing, sqlMutex, operations>>

RegisterConnection(t) ==
    /\ sqlPc[t] = "register"
    /\ connections' = connections \cup {sqlOpening[t]}
    /\ Goes(t, "cache")
    /\ UNCHANGED <<sqlAim, sqlConn, sqlOpening, sqlOpen, opened, readers, closing, sqlMutex, operations>>

CacheConnection(t) ==
    /\ sqlPc[t] = "cache"
    /\ sqlConn' = [sqlConn EXCEPT ![t] = sqlOpening[t]]
    /\ sqlOpening' = [sqlOpening EXCEPT ![t] = 0]
    /\ Goes(t, IF sqlAim[t] = "read" THEN "query" ELSE "write")
    /\ UNCHANGED <<sqlAim, sqlOpen, connections, opened, readers, closing, sqlMutex, operations>>

\* The database cannot be opened: the read, or the transaction, is over.
OpenFails(t) ==
    /\ sqlPc[t] = "open"
    /\ Goes(t, IF sqlAim[t] = "read" THEN "endread" ELSE "leave")
    /\ UNCHANGED <<sqlCaches, readers, closing, sqlMutex, operations>>

-----------------------------------------------------------------------------
(* _read_lock                                                              *)

\* Wait for a closing to end, and count.
BeginRead(t) ==
    /\ sqlPc[t] = "idle" /\ Operates
    /\ ~closing
    /\ readers' = readers + 1
    /\ sqlAim' = [sqlAim EXCEPT ![t] = "read"]
    /\ Goes(t, IF sqlConn[t] = 0 THEN "open" ELSE "query")
    /\ UNCHANGED <<sqlConn, sqlOpening, sqlOpen, connections, opened, closing, sqlMutex>>

QueryEnds(t) ==
    /\ sqlPc[t] = "query"
    /\ Goes(t, "endread")
    /\ UNCHANGED <<sqlCaches, readers, closing, sqlMutex, operations>>

\* Back into the transaction the read is nested in, if it is.
EndRead(t) ==
    /\ sqlPc[t] = "endread"
    /\ readers' = readers - 1
    /\ Goes(t, IF sqlMutex = t THEN "commit" ELSE "idle")
    /\ UNCHANGED <<sqlCaches, closing, sqlMutex, operations>>

-----------------------------------------------------------------------------
(* state_lock                                                              *)

BeginTransaction(t) ==
    /\ sqlPc[t] = "idle" /\ Operates
    /\ Goes(t, "begin")
    /\ UNCHANGED <<sqlCaches, readers, closing, sqlMutex>>

EnterTransaction(t) ==
    /\ sqlPc[t] = "begin" /\ TakeMutex(t)
    /\ sqlAim' = [sqlAim EXCEPT ![t] = "write"]
    /\ Goes(t, IF sqlConn[t] = 0 THEN "open" ELSE "write")
    /\ UNCHANGED <<sqlConn, sqlOpening, sqlOpen, connections, opened, readers, closing, operations>>

\* What is written may need a read of the same thread.
WriteState(t) ==
    /\ sqlPc[t] = "write"
    /\ Goes(t, "nested") \/ Goes(t, "commit")
    /\ UNCHANGED <<sqlCaches, readers, closing, sqlMutex, operations>>

NestedRead(t) ==
    /\ sqlPc[t] = "nested"
    /\ ~closing
    /\ readers' = readers + 1
    /\ sqlAim' = [sqlAim EXCEPT ![t] = "read"]
    /\ Goes(t, "query")
    /\ UNCHANGED <<sqlConn, sqlOpening, sqlOpen, connections, opened, closing, sqlMutex, operations>>

\* COMMIT or ROLLBACK.
EndTransaction(t) ==
    /\ sqlPc[t] = "commit"
    /\ Goes(t, "leave")
    /\ UNCHANGED <<sqlCaches, readers, closing, sqlMutex, operations>>

LeaveMutex(t) ==
    /\ sqlPc[t] = "leave"
    /\ sqlMutex' = NoThread
    /\ Goes(t, "idle")
    /\ UNCHANGED <<sqlCaches, readers, closing, operations>>

-----------------------------------------------------------------------------
(* close and close_all                                                     *)

BeginClose(t) ==
    /\ sqlPc[t] = "idle" /\ Operates
    /\ Goes(t, "close") \/ Goes(t, "closeall")
    /\ UNCHANGED <<sqlCaches, readers, closing, sqlMutex>>

CloseConnection(t) ==
    /\ sqlPc[t] = "close" /\ TakeMutex(t)
    /\ connections' = connections \ {sqlConn[t]}
    /\ sqlOpen' = sqlOpen \ {sqlConn[t]}
    /\ sqlConn' = [sqlConn EXCEPT ![t] = 0]
    /\ Goes(t, "leave")
    /\ UNCHANGED <<sqlAim, sqlOpening, opened, readers, closing, operations>>

BeginDrain(t) ==
    /\ sqlPc[t] = "closeall" /\ TakeMutex(t)
    /\ closing' = TRUE
    /\ Goes(t, "drain")
    /\ UNCHANGED <<sqlCaches, readers, operations>>

\* Mutant: the caches of the other threads are left to them.
CloseOwnCache(t) ==
    /\ sqlPc[t] = "drain"
    /\ readers = 0
    /\ sqlOpen' = sqlOpen \ connections
    /\ connections' = {}
    /\ sqlConn' = [sqlConn EXCEPT ![t] = 0]
    /\ closing' = FALSE
    /\ Goes(t, "leave")
    /\ UNCHANGED <<sqlAim, sqlOpening, opened, readers, sqlMutex, operations>>

\* When the last reader has left: the caches of all threads are replaced.
CloseConnections(t) ==
    /\ sqlPc[t] = "drain"
    /\ readers = 0
    /\ sqlOpen' = sqlOpen \ connections
    /\ connections' = {}
    /\ sqlConn' = [u \in SqlThreads |-> 0]
    /\ closing' = FALSE
    /\ Goes(t, "leave")
    /\ UNCHANGED <<sqlAim, sqlOpening, opened, readers, sqlMutex, operations>>

SqliteStep(t) ==
    \/ OpenConnection(t) \/ RegisterConnection(t) \/ CacheConnection(t) \/ OpenFails(t)
    \/ QueryEnds(t) \/ EndRead(t)
    \/ EnterTransaction(t) \/ WriteState(t) \/ NestedRead(t) \/ EndTransaction(t) \/ LeaveMutex(t)
    \/ CloseConnection(t) \/ BeginDrain(t) \/ CloseConnections(t)

SqliteNext ==
    \E t \in SqlThreads : BeginRead(t) \/ BeginTransaction(t) \/ BeginClose(t) \/ SqliteStep(t)

SqliteSpec == SqliteInit /\ [][SqliteNext]_sqlVars

\* Threads run; a mutex that is free again and again is taken.
SqliteFairness == \A t \in SqlThreads : SF_sqlVars(SqliteStep(t))
SqliteFairSpec == SqliteSpec /\ SqliteFairness

-----------------------------------------------------------------------------
(* Properties                                                              *)

\* A connection is open as long as its thread works with it: whoever closes the storage
\* waits for it.
ConnectionsOutliveTheirUse ==
    \A t \in SqlThreads :
        /\ sqlPc[t] \in {"query", "write", "nested", "commit"} => sqlConn[t] \in sqlOpen
        /\ sqlPc[t] \in {"register", "cache"} => sqlOpening[t] \in sqlOpen

\* Every open connection can be closed: it is registered, or its thread is about to do it;
\* no thread keeps one that is closed, and none is open that no thread has.
NoConnectionIsForgotten ==
    /\ \A c \in sqlOpen : c \in connections \/ \E t \in SqlThreads : sqlPc[t] = "register" /\ sqlOpening[t] = c
    /\ \A t \in SqlThreads : sqlConn[t] # 0 => sqlConn[t] \in sqlOpen
    /\ \A c \in sqlOpen : \E t \in SqlThreads : c \in {sqlConn[t], sqlOpening[t]}

\* The connections of a storage are open while they are used and closed in the end.
ConnectionsAreSound == ConnectionsOutliveTheirUse /\ NoConnectionIsForgotten

\* Every operation ends: a closing is not held up by readers that come later, and a reader
\* it waits for needs nothing the closing holds.
OperationsEnd == \A t \in SqlThreads : (sqlPc[t] # "idle") ~> (sqlPc[t] = "idle")

=============================================================================
