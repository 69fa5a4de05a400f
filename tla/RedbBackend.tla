----------------------------- MODULE RedbBackend -----------------------------
(***************************************************************************)
(* The redb backend (backend/redb.rs): a database on disk, and in memory   *)
(* the registry of the tables that builds of collections have prepared.    *)
(*                                                                         *)
(*   - redb (external) has one write transaction at a time, for all        *)
(*     namespaces; readers see what was committed when they began; a       *)
(*     commit is atomic and durable;                                       *)
(*   - the registry is behind an RwLock.  `read' and `write' hold it       *)
(*     shared from the copy of the registry to the end of the call, so     *)
(*     `write' keeps it while it waits for the write transaction (the      *)
(*     guard is a temporary of the expression that calls begin_write);     *)
(*     `prepare' takes it only once its own transaction is committed;      *)
(*   - the process may end at any time; the registry is then lost and the  *)
(*     database is opened again.                                           *)
(*                                                                         *)
(* A thread builds collections and uses those that have been built in this *)
(* process, one handle at a time, as the operations of a collection do.    *)
(***************************************************************************)
CONSTANTS
    Threads, Namespaces, Keys, Bytes, None,
    Lists       \* Lists[n]: the lists of stores that builds of namespace n prepare

VARIABLES
    disk,       \* disk[n][s]: the committed table of store s of namespace n, None if there is none
    registry,   \* registry[n]: the stores of n prepared last in this process
    txn,        \* the thread that has the write transaction, or None
    pc,         \* pc[t]: where t is in its call, or which handle it holds
    ns,         \* ns[t]: the namespace of t's call or handle, or None
    tables,     \* tables[t]: the stores of ns[t] in t's copy of the registry, or those it prepares
    data,       \* data[t]: the tables as t's transaction sees them, or None
    writerFirst \* whether a queued exclusive lock holds up new shared ones: std leaves it
                \* to the platform, so the initial state chooses and no step changes it

vars == <<disk, registry, txn, pc, ns, tables, data, writerFirst>>

(* The stores of a namespace under any of its builds. *)
Stores(n) == UNION Lists[n]

KVStore == [Keys -> Bytes \union {None}]
NoRows == [k \in Keys |-> None]

(* A namespace's tables.  table_name writes namespace and store in hex with a
   colon between them, so no two stores share a table. *)
Tables(n) == [Stores(n) -> KVStore \union {None}]

Labels == {"idle", "read_begin", "reading", "write_begin", "writing",
           "prepare_begin", "prepare_commit", "publish"}

(* A build always lists the main store. *)
ASSUME RedbAssumption ==
    /\ None \notin Threads /\ None \notin Namespaces /\ None \notin KVStore
    /\ \A n \in Namespaces :
           /\ None \notin Tables(n)
           /\ Lists[n] # {} /\ {} \notin Lists[n]

(* Threads that hold the registry's lock shared, and threads that wait to hold
   it exclusively (which `prepare' then does for one step). *)
Shared == {t \in Threads : pc[t] \in {"read_begin", "write_begin"}}
Queued == {t \in Threads : pc[t] = "publish"}

CanShare == writerFirst => Queued = {}

Goto(t, label) == pc' = [pc EXCEPT ![t] = label]

(* t has no call, no handle and no transaction any more. *)
Leave(t) ==
    /\ Goto(t, "idle")
    /\ ns' = [ns EXCEPT ![t] = None]
    /\ tables' = [tables EXCEPT ![t] = {}]
    /\ data' = [data EXCEPT ![t] = None]
    /\ txn' = IF txn = t THEN None ELSE txn

(* RedbMultiStore::create: a new database and an empty registry. *)
Init ==
    /\ disk = [n \in Namespaces |-> [s \in Stores(n) |-> None]]
    /\ registry = [n \in Namespaces |-> {}]
    /\ txn = None
    /\ pc = [t \in Threads |-> "idle"]
    /\ ns = [t \in Threads |-> None]
    /\ tables = [t \in Threads |-> {}]
    /\ data = [t \in Threads |-> None]
    /\ writerFirst \in BOOLEAN

(* The process ends, in the middle of anything, and RedbMultiStore::open opens
   the database again: what is not on disk is gone. *)
Restart ==
    /\ registry' = [n \in Namespaces |-> {}]
    /\ txn' = None
    /\ pc' = [t \in Threads |-> "idle"]
    /\ ns' = [t \in Threads |-> None]
    /\ tables' = [t \in Threads |-> {}]
    /\ data' = [t \in Threads |-> None]
    /\ UNCHANGED <<disk, writerFirst>>

-------------------------------------------------------------------------------
(* read and write *)

(* The first half of `read' and `write': the registry is copied under the
   shared lock, which the thread keeps.  A collection of n exists: its build
   has prepared n. *)
CopyRegistry(t, n, label) ==
    /\ pc[t] = "idle" /\ registry[n] # {} /\ CanShare
    /\ ns' = [ns EXCEPT ![t] = n]
    /\ tables' = [tables EXCEPT ![t] = registry[n]]
    /\ Goto(t, label)
    /\ UNCHANGED <<disk, registry, txn, data, writerFirst>>

ReadCall(t, n) == CopyRegistry(t, n, "read_begin")
WriteCall(t, n) == CopyRegistry(t, n, "write_begin")

(* begin_read, and `read' returns. *)
BeginRead(t) ==
    /\ pc[t] = "read_begin"
    /\ data' = [data EXCEPT ![t] = disk[ns[t]]]
    /\ Goto(t, "reading")
    /\ UNCHANGED <<disk, registry, txn, ns, tables, writerFirst>>

DropRead(t) ==
    /\ pc[t] = "reading"
    /\ Leave(t)
    /\ UNCHANGED <<disk, registry, writerFirst>>

(* begin_write waits for the transaction, and `write' returns. *)
BeginWrite(t) ==
    /\ pc[t] = "write_begin" /\ txn = None
    /\ txn' = t
    /\ data' = [data EXCEPT ![t] = disk[ns[t]]]
    /\ Goto(t, "writing")
    /\ UNCHANGED <<disk, registry, ns, tables, writerFirst>>

(* open_table of a write transaction creates a table that does not exist. *)
Opened(table) == IF table = None THEN NoRows ELSE table

(* open_store of a prepared store (of another one it panics: DropWrite), then
   RedbWriteStore::set, or remove when v is None, of one key. *)
Put(t, s, k, v) ==
    /\ pc[t] = "writing" /\ s \in tables[t]
    /\ data' = [data EXCEPT ![t][s] = [Opened(@) EXCEPT ![k] = v]]
    /\ UNCHANGED <<disk, registry, txn, pc, ns, tables, writerFirst>>

Commit(t) ==
    /\ pc[t] = "writing"
    /\ disk' = [disk EXCEPT ![ns[t]] = data[t]]
    /\ Leave(t)
    /\ UNCHANGED <<registry, writerFirst>>

(* The write handle is dropped: an early return of the operation, open_store's
   panic about a store that the registry's copy does not list, or a commit
   that fails. *)
DropWrite(t) ==
    /\ pc[t] = "writing"
    /\ Leave(t)
    /\ UNCHANGED <<disk, registry, writerFirst>>

-------------------------------------------------------------------------------
(* prepare *)

PrepareCall(t, n, list) ==
    /\ pc[t] = "idle"
    /\ ns' = [ns EXCEPT ![t] = n]
    /\ tables' = [tables EXCEPT ![t] = list]
    /\ Goto(t, "prepare_begin")
    /\ UNCHANGED <<disk, registry, txn, data, writerFirst>>

(* Mutant: a listed table is deleted and created again. *)
PrepareTables_Recreates(t) ==
    /\ pc[t] = "prepare_begin" /\ txn = None
    /\ txn' = t
    /\ data' = [data EXCEPT ![t] = [s \in Stores(ns[t]) |->
                   IF s \in tables[t] THEN NoRows ELSE disk[ns[t]][s]]]
    /\ Goto(t, "prepare_commit")
    /\ UNCHANGED <<disk, registry, ns, tables, writerFirst>>

(* Mutant: the registry is published before the tables are committed. *)
PrepareTables_PublishFirst(t) ==
    /\ pc[t] = "prepare_begin" /\ txn = None /\ Shared = {}
    /\ txn' = t
    /\ data' = [data EXCEPT ![t] = [s \in Stores(ns[t]) |->
                   IF s \in tables[t] THEN Opened(disk[ns[t]][s]) ELSE disk[ns[t]][s]]]
    /\ registry' = [registry EXCEPT ![ns[t]] = tables[t]]
    /\ Goto(t, "prepare_commit")
    /\ UNCHANGED <<disk, ns, tables, writerFirst>>

(* begin_write waits for the transaction; every listed table is opened in it,
   and so created if it is missing. *)
PrepareTables(t) ==
    /\ pc[t] = "prepare_begin" /\ txn = None
    /\ txn' = t
    /\ data' = [data EXCEPT ![t] = [s \in Stores(ns[t]) |->
                   IF s \in tables[t] THEN Opened(disk[ns[t]][s]) ELSE disk[ns[t]][s]]]
    /\ Goto(t, "prepare_commit")
    /\ UNCHANGED <<disk, registry, ns, tables, writerFirst>>

(* Mutant: the transaction is kept open until the registry is published. *)
PrepareCommit_KeepsTransaction(t) ==
    /\ pc[t] = "prepare_commit"
    /\ disk' = [disk EXCEPT ![ns[t]] = data[t]]
    /\ data' = [data EXCEPT ![t] = None]
    /\ Goto(t, "publish")
    /\ UNCHANGED <<registry, txn, ns, tables, writerFirst>>

(* The transaction is committed and `prepare' asks for the registry's lock.*)
PrepareCommit(t) ==
    /\ pc[t] = "prepare_commit"
    /\ disk' = [disk EXCEPT ![ns[t]] = data[t]]
    /\ data' = [data EXCEPT ![t] = None]
    /\ txn' = None
    /\ Goto(t, "publish")
    /\ UNCHANGED <<registry, ns, tables, writerFirst>>

(* Mutant: what is listed is added to what the namespace has. *)
PublishRegistry_NoRetain(t) ==
    /\ pc[t] = "publish" /\ Shared = {}
    /\ registry' = [registry EXCEPT ![ns[t]] = @ \union tables[t]]
    /\ Leave(t)
    /\ UNCHANGED <<disk, writerFirst>>

(* Mutant: handles keep the registry's lock for as long as they are open. *)
PublishRegistry_WaitsForHandles(t) ==
    /\ pc[t] = "publish" /\ Shared = {}
    /\ \A u \in Threads : pc[u] \notin {"reading", "writing"}
    /\ registry' = [registry EXCEPT ![ns[t]] = tables[t]]
    /\ Leave(t)
    /\ UNCHANGED <<disk, writerFirst>>

(* Under the exclusive lock a new registry replaces the old: the namespace's
   stores are the listed ones, other namespaces keep theirs. *)
PublishRegistry(t) ==
    /\ pc[t] = "publish" /\ Shared = {}
    /\ registry' = [registry EXCEPT ![ns[t]] = tables[t]]
    /\ Leave(t)
    /\ UNCHANGED <<disk, writerFirst>>

(* An error of begin_read, begin_write, open_table or commit ends a call of
   read, write or prepare. *)
CallFails(t) ==
    /\ pc[t] \in {"read_begin", "write_begin", "prepare_begin", "prepare_commit"}
    /\ Leave(t)
    /\ UNCHANGED <<disk, registry, writerFirst>>

-------------------------------------------------------------------------------
InCall(t) ==
    BeginRead(t) \/ BeginWrite(t) \/ PrepareTables(t) \/ PrepareCommit(t) \/ PublishRegistry(t)
EndWrite(t) == Commit(t) \/ DropWrite(t)

Next ==
    \/ Restart
    \/ \E t \in Threads :
          \/ InCall(t) \/ EndWrite(t) \/ DropRead(t) \/ CallFails(t)
          \/ \E n \in Namespaces :
                \/ ReadCall(t, n) \/ WriteCall(t, n)
                \/ \E list \in Lists[n] : PrepareCall(t, n, list)
                \/ \E s \in Stores(n), k \in Keys, v \in Bytes \union {None} :
                       ns[t] = n /\ Put(t, s, k, v)

Spec == Init /\ [][Next]_vars

(* Threads keep running inside a call, and the owner of a write handle ends
   its transaction, as every collection operation does. *)
Fairness == \A t \in Threads : WF_vars(InCall(t)) /\ WF_vars(EndWrite(t))

FairSpec == Spec /\ Fairness

-------------------------------------------------------------------------------
(* Properties *)

TypeOK ==
    /\ DOMAIN disk = Namespaces /\ DOMAIN registry = Namespaces
    /\ \A n \in Namespaces : disk[n] \in Tables(n) /\ registry[n] \in Lists[n] \union {{}}
    /\ txn \in Threads \union {None}
    /\ pc \in [Threads -> Labels]
    /\ ns \in [Threads -> Namespaces \union {None}]
    /\ DOMAIN tables = Threads /\ DOMAIN data = Threads
    /\ \A t \in Threads :
           /\ ns[t] = None => tables[t] = {} /\ data[t] = None
           /\ ns[t] # None => tables[t] \in Lists[ns[t]] /\ data[t] \in Tables(ns[t]) \union {None}
    /\ writerFirst \in BOOLEAN

(* A handle works on one build of its namespace, however builds, restarts and
   other handles interleave: the stores its copy of the registry lists are
   those of one prepare, and each of them has a table in the transaction that
   the handle began after the copy. *)
HandlesComplete ==
    \A t \in Threads :
        pc[t] \in {"reading", "writing"} =>
            /\ tables[t] \in Lists[ns[t]]
            /\ \A s \in tables[t] : data[t][s] # None

(* A thread inside a call that cannot go on by itself. *)
Blocked(t) ==
    \/ pc[t] \in {"write_begin", "prepare_begin"} /\ txn # None
    \/ pc[t] = "publish" /\ Shared # {}

(* Threads never all wait for each other, although `write' waits for the
   transaction inside the registry's lock and `prepare' needs both: while one
   is blocked, another is in the middle of something and can go on. *)
NoStandstill ==
    (\E t \in Threads : Blocked(t))
        => \E t \in Threads : pc[t] \notin {"idle", "reading"} /\ ~Blocked(t)

(* Namespace n as a collection sees it: a missing table has no rows. *)
View(d) == [s \in DOMAIN d |-> Opened(d[s])]

Writer(n) == IF txn # None /\ ns[txn] = n /\ pc[txn] = "writing" THEN txn ELSE None

(* The tables of n in the handles of a kind. *)
Handles(n, kind) ==
    [t \in Threads |-> IF ns[t] = n /\ pc[t] = kind THEN View(data[t]) ELSE None]

Abstract(n) ==
    INSTANCE MultiStore WITH
        Clients <- Threads,
        StoreNames <- Stores(n),
        committed <- View(disk[n]),
        writer <- Writer(n),
        staged <- Handles(n, "writing"),
        snapshot <- Handles(n, "reading")

(* Every namespace is a MultiStore of its own, whatever is done to the others:
   handles are stable snapshots, a transaction is exclusive and atomic, a
   prepare of any list and a restart change no committed row. *)
ImplementsMultiStore ==
    /\ \A n \in Namespaces : Abstract(n)!Init
    /\ [][\A n \in Namespaces : Abstract(n)!Next \/ UNCHANGED Abstract(n)!vars]_vars

(* Where a queued exclusive lock goes first, a prepare that has committed its
   tables publishes them, however many writers come and go and whatever other
   prepares are under way: a writer that waits inside the registry's lock gets
   the transaction that another one holds, and no others join it.  (While
   threads keep calling prepare, they may take every transaction.) *)
PrepareServed ==
    /\ writerFirst
    /\ <>[][\A t \in Threads, n \in Namespaces : \A list \in Lists[n] : ~PrepareCall(t, n, list)]_vars
    => \A t \in Threads : pc[t] = "publish" ~> pc[t] # "publish"
===============================================================================
