----------------------------- MODULE RedbProofs -----------------------------
(***************************************************************************)
(* Proofs about RedbBackend, for any number of threads and namespaces, any *)
(* lists of stores and either kind of RwLock.                              *)
(***************************************************************************)
EXTENDS RedbBackend, TLAPS

InTransaction == {"writing", "prepare_commit"}

(* Which thread has the write transaction, and what a thread holds at each
   place of its calls. *)
CallInv ==
    \A t \in Threads :
        /\ txn = t <=> pc[t] \in InTransaction
        /\ ns[t] = None <=> pc[t] = "idle"
        /\ data[t] # None <=> pc[t] \in InTransaction \union {"reading"}

(* Stores list has in d. *)
Has(d, list) == \A s \in list : d[s] # None

(* Tables that a registry lists, in memory or in some thread's copy, are on
   disk, and a transaction removes none. *)
TablesInv ==
    /\ \A n \in Namespaces : Has(disk[n], registry[n])
    /\ \A t \in Threads :
           /\ pc[t] \in {"read_begin", "write_begin", "publish"} => Has(disk[ns[t]], tables[t])
           /\ pc[t] \in InTransaction \union {"reading"} => Has(data[t], tables[t])
           /\ pc[t] \in InTransaction =>
                  \A s \in Stores(ns[t]) : disk[ns[t]][s] # None => data[t][s] # None

RedbInv == TypeOK /\ CallInv /\ TablesInv

(* A table that is opened for writing exists. *)
LEMMA OpenedType ==
    ASSUME NEW table \in KVStore \union {None}
    PROVE  Opened(table) \in KVStore /\ Opened(table) # None
  <1>1. NoRows \in KVStore
    BY DEF NoRows, KVStore
  <1> QED
    BY <1>1, RedbAssumption DEF Opened

(* The stores of a list are stores of the namespace. *)
LEMMA ListStores ==
    ASSUME NEW n \in Namespaces, NEW list \in Lists[n] \union {{}}
    PROVE  list \subseteq Stores(n)
  BY DEF Stores

(* What prepare makes of the tables d: all that are listed, and all there were. *)
LEMMA PreparedTables ==
    ASSUME NEW n \in Namespaces, NEW d \in Tables(n), NEW list \in Lists[n],
           NEW e, e = [s \in Stores(n) |-> IF s \in list THEN Opened(d[s]) ELSE d[s]]
    PROVE  e \in Tables(n) /\ Has(e, list) /\ \A s \in Stores(n) : d[s] # None => e[s] # None
  <1>1. \A s \in Stores(n) : d[s] \in KVStore \union {None}
    BY DEF Tables
  <1>2. \A s \in Stores(n) : e[s] \in KVStore \union {None}
    BY <1>1, OpenedType
  <1>3. \A s \in Stores(n) : s \in list => e[s] # None
    BY <1>1, OpenedType
  <1>4. \A s \in Stores(n) : d[s] # None => e[s] # None
    BY <1>1, OpenedType
  <1>5. e \in Tables(n)
    BY <1>2 DEF Tables
  <1> QED
    BY <1>3, <1>4, <1>5, ListStores DEF Has

(* What set and remove make of the tables d. *)
LEMMA PutTables ==
    ASSUME NEW n \in Namespaces, NEW d \in Tables(n), NEW s \in Stores(n), NEW k \in Keys,
           NEW v \in Bytes \union {None},
           NEW e, e = [d EXCEPT ![s] = [Opened(d[s]) EXCEPT ![k] = v]]
    PROVE  e \in Tables(n) /\ \A x \in Stores(n) : d[x] # None => e[x] # None
  <1> DEFINE row == [Opened(d[s]) EXCEPT ![k] = v]
  <1>1. Opened(d[s]) \in KVStore
    BY OpenedType DEF Tables
  <1>2. row \in KVStore /\ row # None
    BY <1>1, RedbAssumption DEF KVStore
  <1>3. e = [d EXCEPT ![s] = row]
    OBVIOUS
  <1> HIDE DEF row
  <1> QED
    BY <1>2, <1>3 DEF Tables

(* Disk may change to disk' in a step of t: it is t's transaction, and tables
   that exist stay. *)
DiskStep(t) ==
    \/ UNCHANGED disk
    \/ /\ txn = t
       /\ DOMAIN disk' = Namespaces
       /\ \A n \in Namespaces : disk'[n] \in Tables(n)
       /\ \A n \in Namespaces : \A s \in Stores(n) : disk[n][s] # None => disk'[n][s] # None

(* The registry may change: what it lists is on disk. *)
RegistryStep ==
    /\ DOMAIN registry' = Namespaces
    /\ \A n \in Namespaces : registry'[n] \in Lists[n] \union {{}} /\ Has(disk[n], registry'[n])

(* Thread t is left at label with namespace n, stores list and tables d. *)
ThreadStep(t, label, n, list, d) ==
    /\ pc' = [pc EXCEPT ![t] = label]
    /\ ns' = [ns EXCEPT ![t] = n]
    /\ DOMAIN tables' = Threads /\ tables'[t] = list
    /\ DOMAIN data' = Threads /\ data'[t] = d
    /\ \A u \in Threads \ {t} : tables'[u] = tables[u] /\ data'[u] = data[u]

(* This leaves t in order. *)
InOrder(t, label, n, list, d) ==
    /\ label \in Labels /\ n \in Namespaces \union {None}
    /\ txn' = txn \/ (txn = None /\ txn' = t) \/ (txn = t /\ txn' = None)
    /\ txn' = t <=> label \in InTransaction
    /\ n = None <=> label = "idle"
    /\ d # None <=> label \in InTransaction \union {"reading"}
    /\ n = None => list = {} /\ d = None
    /\ n # None => list \in Lists[n] /\ d \in Tables(n) \union {None}
    /\ label \in {"read_begin", "write_begin", "publish"} => Has(disk'[n], list)
    /\ label \in InTransaction \union {"reading"} => Has(d, list)
    /\ label \in InTransaction => \A s \in Stores(n) : disk'[n][s] # None => d[s] # None

(* A step of thread t that changes nothing of the other threads keeps the
   invariant, if t is left in order. *)
LEMMA OwnStep ==
    ASSUME RedbInv, NEW t \in Threads, NEW label, NEW n, NEW list, NEW d,
           ThreadStep(t, label, n, list, d), InOrder(t, label, n, list, d),
           DiskStep(t), RegistryStep, UNCHANGED writerFirst
    PROVE  RedbInv'
  <1> USE DEF RedbInv, TypeOK, InOrder
  <1>1. /\ pc'[t] = label /\ ns'[t] = n /\ tables'[t] = list /\ data'[t] = d
        /\ \A u \in Threads : u # t =>
               pc'[u] = pc[u] /\ ns'[u] = ns[u] /\ tables'[u] = tables[u] /\ data'[u] = data[u]
        /\ DOMAIN pc' = Threads /\ DOMAIN ns' = Threads
        /\ DOMAIN tables' = Threads /\ DOMAIN data' = Threads
    BY DEF ThreadStep
  <1>2. txn' \in Threads \union {None} /\ \A u \in Threads : u # t => (txn' = u <=> txn = u)
    BY RedbAssumption
  <1>3. DOMAIN disk' = Namespaces /\ \A m \in Namespaces : disk'[m] \in Tables(m)
    BY DEF DiskStep
  <1>4. pc' \in [Threads -> Labels] /\ ns' \in [Threads -> Namespaces \union {None}]
    BY DEF ThreadStep
  <1>5. TypeOK'
    BY <1>1, <1>2, <1>3, <1>4 DEF RegistryStep
  <1>6. CallInv'
    BY <1>1, <1>2 DEF CallInv
  <1>7. \A m \in Namespaces : \A x : x \subseteq Stores(m) /\ Has(disk[m], x) => Has(disk'[m], x)
    BY DEF DiskStep, Has
  <1>8. \A m \in Namespaces : Has(disk'[m], registry'[m])
    BY <1>7, ListStores DEF RegistryStep
  <1>9. ASSUME NEW u \in Threads, u # t
        PROVE  /\ pc'[u] \in {"read_begin", "write_begin", "publish"} => Has(disk'[ns'[u]], tables'[u])
               /\ pc'[u] \in InTransaction \union {"reading"} => Has(data'[u], tables'[u])
               /\ pc'[u] \in InTransaction =>
                      \A s \in Stores(ns'[u]) : disk'[ns'[u]][s] # None => data'[u][s] # None
    <2>1. CASE pc[u] \in {"read_begin", "write_begin", "publish"}
      <3>1. ns[u] \in Namespaces /\ tables[u] \in Lists[ns[u]]
        BY <2>1 DEF CallInv, InTransaction
      <3>2. tables[u] \subseteq Stores(ns[u])
        BY <3>1, ListStores
      <3> QED
        BY <1>1, <1>7, <1>9, <2>1, <3>1, <3>2 DEF TablesInv, InTransaction
    <2>2. CASE pc[u] = "reading"
      BY <1>1, <1>9, <2>2 DEF TablesInv, InTransaction
    <2>3. CASE pc[u] \in InTransaction
      <3>1. txn = u
        BY <2>3 DEF CallInv
      <3>2. UNCHANGED disk
        BY <1>9, <3>1 DEF DiskStep
      <3> QED
        BY <1>1, <1>9, <2>3, <3>2 DEF TablesInv, InTransaction
    <2> QED
      BY <1>1, <1>9, <2>1, <2>2, <2>3
  <1>10. TablesInv'
    BY <1>1, <1>8, <1>9 DEF TablesInv
  <1> QED
    BY <1>5, <1>6, <1>10

(* The registry stays as it is. *)
LEMMA SameRegistry ==
    ASSUME RedbInv, UNCHANGED registry
    PROVE  RegistryStep
  BY DEF RedbInv, TypeOK, TablesInv, RegistryStep

(* A thread that leaves its call or drops its handle. *)
LEMMA LeaveStep ==
    ASSUME RedbInv, NEW t \in Threads, pc[t] # "idle", Leave(t), DiskStep(t), RegistryStep,
           UNCHANGED writerFirst
    PROVE  RedbInv'
  <1>1. ThreadStep(t, "idle", None, {}, None)
    BY DEF Leave, Goto, ThreadStep, RedbInv, TypeOK
  <1>2. txn' # t /\ (txn' = txn \/ (txn = t /\ txn' = None))
    BY RedbAssumption DEF Leave
  <1>3. "idle" \in Labels /\ "idle" \notin InTransaction \union {"reading"}
    BY DEF InTransaction, Labels
  <1>4. "idle" \notin {"read_begin", "write_begin", "publish"}
    OBVIOUS
  <1>5. InOrder(t, "idle", None, {}, None)
    BY <1>1, <1>2, <1>3, <1>4 DEF InOrder
  <1> QED
    BY <1>1, <1>2, <1>3, <1>4, <1>5, OwnStep

(* Every step keeps the invariant. *)
LEMMA RedbStep ==
    ASSUME RedbInv, [Next]_vars
    PROVE  RedbInv'
  <1> USE DEF RedbInv
  <1>1. ASSUME NEW t \in Threads, NEW n \in Namespaces, ReadCall(t, n) \/ WriteCall(t, n)
        PROVE  RedbInv'
    <2>1. PICK label \in {"read_begin", "write_begin"} : CopyRegistry(t, n, label)
      BY <1>1 DEF ReadCall, WriteCall
    <2>2. pc[t] = "idle" /\ data[t] = None /\ txn # t
      BY <2>1 DEF CopyRegistry, CallInv, InTransaction
    <2>3. ThreadStep(t, label, n, registry[n], None)
      BY <2>1, <2>2 DEF CopyRegistry, Goto, ThreadStep, TypeOK
    <2>4. registry[n] \in Lists[n] /\ Has(disk[n], registry[n])
      BY <2>1 DEF CopyRegistry, TypeOK, TablesInv
    <2>5. RegistryStep /\ DiskStep(t) /\ UNCHANGED <<disk, txn, writerFirst>>
      BY <2>1, SameRegistry DEF CopyRegistry, DiskStep
    <2>6. label \in Labels /\ label # "idle" /\ label \notin InTransaction \union {"reading"}
      BY DEF Labels, InTransaction
    <2>7. n # None
      BY RedbAssumption
    <2>8. InOrder(t, label, n, registry[n], None)
      BY <2>2, <2>3, <2>4, <2>5, <2>6, <2>7 DEF InOrder
    <2> QED
      BY <2>2, <2>3, <2>4, <2>5, <2>6, <2>7, <2>8, OwnStep
  <1>2. ASSUME NEW t \in Threads, BeginRead(t) \/ BeginWrite(t) PROVE RedbInv'
    <2>1. /\ ns[t] \in Namespaces /\ tables[t] \in Lists[ns[t]] /\ Has(disk[ns[t]], tables[t])
          /\ disk[ns[t]] \in Tables(ns[t]) /\ disk[ns[t]] # None
      BY <1>2, RedbAssumption DEF BeginRead, BeginWrite, CallInv, TypeOK, TablesInv
    <2>2. PICK label \in {"reading", "writing"} :
              /\ ThreadStep(t, label, ns[t], tables[t], disk[ns[t]])
              /\ txn' = t <=> label = "writing"
              /\ txn' = txn \/ (txn = None /\ txn' = t)
      BY <1>2, RedbAssumption
         DEF BeginRead, BeginWrite, Goto, ThreadStep, TypeOK, CallInv, InTransaction
    <2>3. RegistryStep /\ DiskStep(t) /\ UNCHANGED <<disk, writerFirst>>
      BY <1>2, SameRegistry DEF BeginRead, BeginWrite, DiskStep
    <2>4. /\ label \in Labels /\ label # "idle" /\ label \in InTransaction \union {"reading"}
          /\ label \in InTransaction <=> label = "writing"
          /\ label \notin {"read_begin", "write_begin", "publish"}
      BY DEF Labels, InTransaction
    <2>5. ns[t] # None
      BY <2>1, RedbAssumption
    <2>6. InOrder(t, label, ns[t], tables[t], disk[ns[t]])
      BY <2>1, <2>2, <2>3, <2>4, <2>5 DEF InOrder
    <2> QED
      BY <2>1, <2>2, <2>3, <2>4, <2>5, <2>6, OwnStep
  <1>3. ASSUME NEW t \in Threads, DropRead(t) \/ DropWrite(t) \/ CallFails(t) PROVE RedbInv'
    <2>1. pc[t] # "idle" /\ Leave(t) /\ UNCHANGED <<disk, registry, writerFirst>>
      BY <1>3 DEF DropRead, DropWrite, CallFails
    <2> QED
      BY <2>1, LeaveStep, SameRegistry DEF DiskStep
  <1>4. ASSUME NEW t \in Threads, NEW s \in Stores(ns[t]), NEW k \in Keys,
               NEW v \in Bytes \union {None}, Put(t, s, k, v)
        PROVE  RedbInv'
    <2> DEFINE e == [data[t] EXCEPT ![s] = [Opened(data[t][s]) EXCEPT ![k] = v]]
    <2>1. /\ pc[t] = "writing" /\ txn = t /\ ns[t] \in Namespaces
          /\ tables[t] \in Lists[ns[t]] /\ data[t] \in Tables(ns[t])
      BY <1>4 DEF Put, CallInv, TypeOK, InTransaction
    <2>2. /\ e \in Tables(ns[t])
          /\ \A x \in Stores(ns[t]) : data[t][x] # None => e[x] # None
      BY <2>1, PutTables
    <2>3. data' = [data EXCEPT ![t] = e]
      BY <1>4 DEF Put
    <2> HIDE DEF e
    <2>4. ThreadStep(t, "writing", ns[t], tables[t], e)
      BY <1>4, <2>1, <2>3 DEF Put, ThreadStep, TypeOK
    <2>5. Has(e, tables[t]) /\ \A x \in Stores(ns[t]) : disk[ns[t]][x] # None => e[x] # None
      BY <2>1, <2>2, ListStores DEF TablesInv, Has, InTransaction
    <2>6. e # None /\ ns[t] # None
      BY <2>1, <2>2, RedbAssumption
    <2>7. RegistryStep /\ DiskStep(t) /\ UNCHANGED <<disk, txn, writerFirst>>
      BY <1>4, SameRegistry DEF Put, DiskStep
    <2>8. "writing" \in Labels /\ "writing" \in InTransaction
      BY DEF Labels, InTransaction
    <2>9. InOrder(t, "writing", ns[t], tables[t], e)
      BY <2>1, <2>2, <2>4, <2>5, <2>6, <2>7, <2>8 DEF InOrder
    <2> QED
      BY <2>1, <2>2, <2>4, <2>5, <2>6, <2>7, <2>8, <2>9, OwnStep
  <1>5. ASSUME NEW t \in Threads, disk' = [disk EXCEPT ![ns[t]] = data[t]], pc[t] \in InTransaction
        PROVE  /\ DiskStep(t) /\ ns[t] \in Namespaces /\ ns[t] # None /\ txn = t
               /\ tables[t] \in Lists[ns[t]] /\ Has(disk'[ns[t]], tables[t])
    <2>1. /\ txn = t /\ ns[t] \in Namespaces /\ tables[t] \in Lists[ns[t]]
          /\ data[t] \in Tables(ns[t])
      BY <1>5 DEF CallInv, TypeOK, InTransaction
    <2>2. disk'[ns[t]] = data[t] /\ Has(data[t], tables[t])
      BY <1>5, <2>1 DEF TypeOK, TablesInv
    <2>3. DiskStep(t)
      BY <1>5, <2>1, <2>2 DEF DiskStep, TypeOK, TablesInv
    <2> QED
      BY <2>1, <2>2, <2>3, RedbAssumption
  <1>6. ASSUME NEW t \in Threads, Commit(t) PROVE RedbInv'
    <2>1. DiskStep(t) /\ RegistryStep
      BY <1>5, <1>6, SameRegistry DEF Commit, InTransaction
    <2> QED
      BY <1>6, <2>1, LeaveStep DEF Commit
  <1>7. ASSUME NEW t \in Threads, NEW n \in Namespaces, NEW list \in Lists[n], PrepareCall(t, n, list)
        PROVE  RedbInv'
    <2>1. data[t] = None /\ txn # t /\ n # None
      BY <1>7, RedbAssumption DEF PrepareCall, CallInv, InTransaction
    <2>2. ThreadStep(t, "prepare_begin", n, list, None)
      BY <1>7, <2>1 DEF PrepareCall, Goto, ThreadStep, TypeOK
    <2>3. RegistryStep /\ DiskStep(t) /\ UNCHANGED <<disk, txn, writerFirst>>
      BY <1>7, SameRegistry DEF PrepareCall, DiskStep
    <2>4. /\ "prepare_begin" \in Labels /\ "prepare_begin" \notin InTransaction \union {"reading"}
          /\ "prepare_begin" \notin {"read_begin", "write_begin", "publish"}
      BY DEF Labels, InTransaction
    <2>5. InOrder(t, "prepare_begin", n, list, None)
      BY <2>1, <2>2, <2>3, <2>4 DEF InOrder
    <2> QED
      BY <2>1, <2>2, <2>3, <2>4, <2>5, OwnStep
  <1>8. ASSUME NEW t \in Threads, PrepareTables(t) PROVE RedbInv'
    <2> DEFINE n == ns[t]
               e == [s \in Stores(n) |-> IF s \in tables[t] THEN Opened(disk[n][s]) ELSE disk[n][s]]
    <2>1. n \in Namespaces /\ tables[t] \in Lists[n] /\ disk[n] \in Tables(n)
      BY <1>8 DEF PrepareTables, CallInv, TypeOK
    <2>2. e \in Tables(n) /\ Has(e, tables[t]) /\ \A s \in Stores(n) : disk[n][s] # None => e[s] # None
      BY <2>1, PreparedTables
    <2>3. data' = [data EXCEPT ![t] = e]
      BY <1>8 DEF PrepareTables
    <2> HIDE DEF e
    <2>4. ThreadStep(t, "prepare_commit", n, tables[t], e)
      BY <1>8, <2>3 DEF PrepareTables, Goto, ThreadStep, TypeOK
    <2>5. e # None /\ n # None
      BY <2>1, <2>2, RedbAssumption
    <2>6. RegistryStep /\ DiskStep(t) /\ UNCHANGED <<disk, writerFirst>> /\ txn = None /\ txn' = t
      BY <1>8, SameRegistry DEF PrepareTables, DiskStep
    <2>7. /\ "prepare_commit" \in Labels /\ "prepare_commit" \in InTransaction
          /\ "prepare_commit" \notin {"read_begin", "write_begin", "publish"}
      BY DEF Labels, InTransaction
    <2>8. InOrder(t, "prepare_commit", n, tables[t], e)
      BY <2>1, <2>2, <2>4, <2>5, <2>6, <2>7 DEF InOrder
    <2> QED
      BY <2>1, <2>2, <2>4, <2>5, <2>6, <2>7, <2>8, OwnStep
  <1>9. ASSUME NEW t \in Threads, PrepareCommit(t) PROVE RedbInv'
    <2>1. /\ DiskStep(t) /\ ns[t] \in Namespaces /\ ns[t] # None /\ txn = t
          /\ tables[t] \in Lists[ns[t]] /\ Has(disk'[ns[t]], tables[t])
      BY <1>5, <1>9 DEF PrepareCommit, InTransaction
    <2>2. ThreadStep(t, "publish", ns[t], tables[t], None)
      BY <1>9 DEF PrepareCommit, Goto, ThreadStep, TypeOK
    <2>3. RegistryStep /\ UNCHANGED writerFirst /\ txn' = None /\ txn' # t
      BY <1>9, SameRegistry, RedbAssumption DEF PrepareCommit
    <2>4. "publish" \in Labels /\ "publish" \notin InTransaction \union {"reading"}
      BY DEF Labels, InTransaction
    <2>5. InOrder(t, "publish", ns[t], tables[t], None)
      BY <2>1, <2>2, <2>3, <2>4 DEF InOrder
    <2> QED
      BY <2>1, <2>2, <2>3, <2>4, <2>5, OwnStep
  <1>10. ASSUME NEW t \in Threads, PublishRegistry(t) PROVE RedbInv'
    <2>1. ns[t] \in Namespaces /\ tables[t] \in Lists[ns[t]] /\ Has(disk[ns[t]], tables[t])
      BY <1>10 DEF PublishRegistry, CallInv, TypeOK, TablesInv
    <2>2. RegistryStep
      BY <1>10, <2>1 DEF PublishRegistry, RegistryStep, TypeOK, TablesInv
    <2> QED
      BY <1>10, <2>2, LeaveStep DEF PublishRegistry, DiskStep
  <1>11. CASE Restart
    <2>1. TypeOK'
      BY <1>11 DEF Restart, TypeOK, Labels
    <2>2. CallInv'
      BY <1>11, RedbAssumption DEF Restart, CallInv, InTransaction
    <2>3. TablesInv'
      BY <1>11 DEF Restart, TablesInv, Has, InTransaction
    <2> QED
      BY <2>1, <2>2, <2>3
  <1>12. CASE UNCHANGED vars
    BY <1>12 DEF vars, TypeOK, CallInv, TablesInv
  <1> QED
    BY <1>1, <1>2, <1>3, <1>4, <1>6, <1>7, <1>8, <1>9, <1>10, <1>11, <1>12
       DEF Next, InCall, EndWrite

(* A new database has no tables and no callers. *)
LEMMA RedbInit ==
    Init => RedbInv
  <1> SUFFICES ASSUME Init PROVE RedbInv
    OBVIOUS
  <1>1. TypeOK
    BY DEF Init, TypeOK, Tables, Labels
  <1>2. CallInv
    BY RedbAssumption DEF Init, CallInv, InTransaction
  <1>3. TablesInv
    BY DEF Init, TablesInv, Has, InTransaction
  <1> QED
    BY <1>1, <1>2, <1>3 DEF RedbInv

(* Every state of the backend is typed: in particular the registry and every
   copy of it list the stores of one build. *)
THEOREM RedbTypeCorrect ==
    Spec => []TypeOK
  <1>1. RedbInv => TypeOK
    BY DEF RedbInv
  <1> QED
    BY <1>1, RedbInit, RedbStep, PTL DEF Spec

(* The tables a handle may open exist in its transaction, however builds,
   commits, failures and restarts interleave. *)
THEOREM HandlesCompleteHolds ==
    Spec => []HandlesComplete
  <1>1. RedbInv => HandlesComplete
    BY DEF RedbInv, TypeOK, CallInv, TablesInv, Has, HandlesComplete, InTransaction
  <1> QED
    BY <1>1, RedbInit, RedbStep, PTL DEF Spec

(* The registry's lock and the write transaction never make all threads wait. *)
THEOREM RedbNoStandstill ==
    Spec => []NoStandstill
  <1>1. ASSUME RedbInv PROVE NoStandstill
    <2>1. ASSUME txn # None PROVE txn \in Threads /\ pc[txn] \in InTransaction
      BY <1>1, <2>1 DEF RedbInv, TypeOK, CallInv
    <2>2. ASSUME txn # None PROVE pc[txn] \notin {"idle", "reading"} /\ ~Blocked(txn)
      BY <2>1, <2>2 DEF Blocked, InTransaction
    <2>3. ASSUME NEW u \in Shared, txn = None
          PROVE  u \in Threads /\ pc[u] \notin {"idle", "reading"} /\ ~Blocked(u)
      BY <2>3 DEF Shared, Blocked
    <2>4. ASSUME NEW t \in Threads, Blocked(t) PROVE txn # None \/ Shared # {}
      BY <2>4 DEF Blocked
    <2> QED
      BY <2>1, <2>2, <2>3, <2>4 DEF NoStandstill
  <1> QED
    BY <1>1, RedbInit, RedbStep, PTL DEF Spec

-------------------------------------------------------------------------------
(* Every namespace implements MultiStore *)

(* A prepare that is about to commit has changed no row. *)
PreparedRows ==
    \A t \in Threads : pc[t] = "prepare_commit" => View(data[t]) = View(disk[ns[t]])

(* Steps of thread t leave the others where they are. *)
OnlyThread(t) ==
    \A u \in Threads \ {t} : pc'[u] = pc[u] /\ ns'[u] = ns[u] /\ data'[u] = data[u]

(* A prepared table has the rows it had. *)
LEMMA PrepareKeepsRows ==
    ASSUME NEW n \in Namespaces, NEW d \in Tables(n), NEW list
    PROVE  View([s \in Stores(n) |-> IF s \in list THEN Opened(d[s]) ELSE d[s]]) = View(d)
  <1>1. \A s \in Stores(n) : Opened(Opened(d[s])) = Opened(d[s])
    BY DEF Opened
  <1>2. DOMAIN d = Stores(n)
    BY DEF Tables
  <1> QED
    BY <1>1, <1>2 DEF View

(* Only the owner of the write transaction changes what is on disk. *)
LEMMA PreparedRowsStep ==
    ASSUME RedbInv, PreparedRows, [Next]_vars
    PROVE  PreparedRows'
  <1> USE DEF RedbInv, TypeOK, PreparedRows
  <1>1. ASSUME NEW t \in Threads, NEW n \in Namespaces, ReadCall(t, n) \/ WriteCall(t, n)
        PROVE  PreparedRows'
    BY <1>1 DEF ReadCall, WriteCall, CopyRegistry, Goto
  <1>2. ASSUME NEW t \in Threads, BeginRead(t) \/ BeginWrite(t) PROVE PreparedRows'
    BY <1>2 DEF BeginRead, BeginWrite, Goto
  <1>3. ASSUME NEW t \in Threads, DropRead(t) \/ DropWrite(t) \/ CallFails(t) \/ PublishRegistry(t)
        PROVE  PreparedRows'
    BY <1>3 DEF DropRead, DropWrite, CallFails, PublishRegistry, Leave, Goto
  <1>4. ASSUME NEW t \in Threads, NEW s \in Stores(ns[t]), NEW k \in Keys,
               NEW v \in Bytes \union {None}, Put(t, s, k, v)
        PROVE  PreparedRows'
    <2>1. \A u \in Threads : pc[u] = "prepare_commit" => data'[u] = data[u]
      BY <1>4 DEF Put
    <2> QED
      BY <1>4, <2>1 DEF Put
  <1>5. ASSUME NEW t \in Threads, Commit(t) \/ PrepareCommit(t) PROVE PreparedRows'
    <2>1. \A u \in Threads : pc'[u] # "prepare_commit"
      BY <1>5 DEF Commit, PrepareCommit, Leave, Goto, CallInv, InTransaction
    <2> QED
      BY <2>1
  <1>6. ASSUME NEW t \in Threads, NEW n \in Namespaces, NEW list \in Lists[n], PrepareCall(t, n, list)
        PROVE  PreparedRows'
    BY <1>6 DEF PrepareCall, Goto
  <1>7. ASSUME NEW t \in Threads, PrepareTables(t) PROVE PreparedRows'
    <2> DEFINE n == ns[t]
               e == [s \in Stores(n) |-> IF s \in tables[t] THEN Opened(disk[n][s]) ELSE disk[n][s]]
    <2>1. n \in Namespaces /\ disk[n] \in Tables(n)
      BY <1>7 DEF PrepareTables, CallInv
    <2>2. View(e) = View(disk[n])
      BY <2>1, PrepareKeepsRows
    <2>3. data' = [data EXCEPT ![t] = e]
      BY <1>7 DEF PrepareTables
    <2> HIDE DEF e
    <2> QED
      BY <1>7, <2>1, <2>2, <2>3 DEF PrepareTables, Goto
  <1>8. CASE Restart
    BY <1>8 DEF Restart
  <1>9. CASE UNCHANGED vars
    BY <1>9 DEF vars
  <1> QED
    BY <1>1, <1>2, <1>3, <1>4, <1>5, <1>6, <1>7, <1>8, <1>9 DEF Next, InCall, EndWrite

(* How the handles of one kind change in a step of thread t. *)
LEMMA HandlesStep ==
    ASSUME NEW t \in Threads, OnlyThread(t), NEW CONSTANT n, NEW CONSTANT kind
    PROVE  Handles(n, kind)' =
               [Handles(n, kind) EXCEPT ![t] =
                   IF ns'[t] = n /\ pc'[t] = kind THEN View(data'[t]) ELSE None]
  BY DEF Handles, OnlyThread, View

(* The abstract writer is the thread with a write handle of the namespace. *)
LEMMA WriterIs ==
    ASSUME RedbInv, NEW CONSTANT n \in Namespaces
    PROVE  /\ Writer(n) \in Threads \union {None}
           /\ \A t \in Threads : Writer(n) = t <=> ns[t] = n /\ pc[t] = "writing"
  BY RedbAssumption DEF RedbInv, TypeOK, CallInv, Writer, InTransaction

(* The same after a step. *)
LEMMA WriterIsNext ==
    ASSUME RedbInv', NEW CONSTANT n \in Namespaces
    PROVE  /\ Writer(n)' \in Threads \union {None}
           /\ \A t \in Threads : Writer(n)' = t <=> ns'[t] = n /\ pc'[t] = "writing"
  BY RedbAssumption DEF RedbInv, TypeOK, CallInv, Writer, InTransaction

(* t has a handle of namespace n. *)
HasHandle(t, n) == ns[t] = n /\ pc[t] \in {"reading", "writing"}

(* A step in which t neither has nor gets a handle of n, and no row of n
   changes. *)
LEMMA QuietStep ==
    ASSUME RedbInv, RedbInv', NEW t \in Threads, OnlyThread(t), NEW CONSTANT n \in Namespaces,
           View(disk'[n]) = View(disk[n]), ~HasHandle(t, n), ~HasHandle(t, n)'
    PROVE  UNCHANGED Abstract(n)!vars
  <1>1. Handles(n, "writing")' = Handles(n, "writing")
    BY DEF Handles, HasHandle, OnlyThread, View
  <1>2. Handles(n, "reading")' = Handles(n, "reading")
    BY DEF Handles, HasHandle, OnlyThread, View
  <1>3. Writer(n)' = Writer(n)
    <2>1. \A u \in Threads : Writer(n)' = u <=> Writer(n) = u
      BY WriterIs, WriterIsNext DEF OnlyThread, HasHandle
    <2> QED
      BY <2>1, WriterIs, WriterIsNext, RedbAssumption
  <1>4. View(disk[n])' = View(disk[n])
    BY DEF View
  <1> QED
    BY <1>1, <1>2, <1>3, <1>4 DEF Abstract!vars

(* What the abstract handles are for thread t. *)
LEMMA HandleOf ==
    ASSUME NEW t \in Threads, NEW CONSTANT n, NEW CONSTANT kind
    PROVE  /\ Handles(n, kind)[t] = IF ns[t] = n /\ pc[t] = kind THEN View(data[t]) ELSE None
           /\ Handles(n, kind) = [Handles(n, kind) EXCEPT ![t] = Handles(n, kind)[t]]
  BY DEF Handles

(* The view of a handle's tables is no absent handle. *)
LEMMA HandleViews ==
    ASSUME RedbInv, NEW t \in Threads, data[t] # None
    PROVE  View(data[t]) # None
  <1>1. ns[t] \in Namespaces /\ data[t] \in Tables(ns[t])
    BY DEF RedbInv, TypeOK
  <1>2. \A s \in Stores(ns[t]) : Opened(data[t][s]) \in KVStore
    BY <1>1, OpenedType DEF Tables
  <1>3. View(data[t]) \in Tables(ns[t])
    BY <1>1, <1>2 DEF View, Tables
  <1> QED
    BY <1>1, <1>3, RedbAssumption

(* What set and remove make of the rows. *)
LEMMA PutView ==
    ASSUME NEW n \in Namespaces, NEW d \in Tables(n), NEW s \in Stores(n), NEW k \in Keys,
           NEW v \in Bytes \union {None}, NEW row, row = [Opened(d[s]) EXCEPT ![k] = v],
           NEW e, e = [d EXCEPT ![s] = row]
    PROVE  View(e) = [View(d) EXCEPT ![s] = row] /\ View(d)[s] = Opened(d[s])
  <1>1. Opened(d[s]) \in KVStore
    BY OpenedType DEF Tables
  <1>2. row # None
    BY <1>1, RedbAssumption DEF KVStore
  <1>3. DOMAIN d = Stores(n)
    BY DEF Tables
  <1> QED
    BY <1>2, <1>3 DEF View, Opened

(* A step of the backend is a step of each namespace's MultiStore or leaves
   its variables alone. *)
LEMMA NamespaceStep ==
    ASSUME RedbInv, RedbInv', PreparedRows, [Next]_vars, NEW CONSTANT n \in Namespaces
    PROVE  Abstract(n)!Next \/ UNCHANGED Abstract(n)!vars
  <1> DEFINE Implemented == Abstract(n)!Next \/ UNCHANGED Abstract(n)!vars
  <1> USE DEF RedbInv, TypeOK
  <1>1. ASSUME NEW t \in Threads, NEW m \in Namespaces, ReadCall(t, m) \/ WriteCall(t, m)
        PROVE  Implemented
    <2>1. OnlyThread(t) /\ UNCHANGED disk /\ ~HasHandle(t, n) /\ ~HasHandle(t, n)'
      BY <1>1 DEF ReadCall, WriteCall, CopyRegistry, Goto, OnlyThread, HasHandle
    <2> QED
      BY <2>1, QuietStep
  <1>2. ASSUME NEW t \in Threads, NEW m \in Namespaces, NEW list \in Lists[m], PrepareCall(t, m, list)
        PROVE  Implemented
    <2>1. OnlyThread(t) /\ UNCHANGED disk /\ ~HasHandle(t, n) /\ ~HasHandle(t, n)'
      BY <1>2 DEF PrepareCall, Goto, OnlyThread, HasHandle
    <2> QED
      BY <2>1, QuietStep
  <1>3. ASSUME NEW t \in Threads, CallFails(t) \/ PublishRegistry(t) PROVE Implemented
    <2>1. OnlyThread(t) /\ UNCHANGED disk /\ ~HasHandle(t, n) /\ ~HasHandle(t, n)'
      BY <1>3 DEF CallFails, PublishRegistry, Leave, Goto, OnlyThread, HasHandle
    <2> QED
      BY <2>1, QuietStep
  <1>4. ASSUME NEW t \in Threads, PrepareTables(t) PROVE Implemented
    <2>1. OnlyThread(t) /\ UNCHANGED disk /\ ~HasHandle(t, n) /\ ~HasHandle(t, n)'
      BY <1>4 DEF PrepareTables, Goto, OnlyThread, HasHandle
    <2> QED
      BY <2>1, QuietStep
  <1>5. ASSUME NEW t \in Threads, PrepareCommit(t) PROVE Implemented
    <2>1. OnlyThread(t) /\ ~HasHandle(t, n) /\ ~HasHandle(t, n)'
      BY <1>5 DEF PrepareCommit, Goto, OnlyThread, HasHandle
    <2>2. View(disk'[n]) = View(disk[n])
      BY <1>5 DEF PrepareCommit, PreparedRows
    <2> QED
      BY <2>1, <2>2, QuietStep
  <1>6. ASSUME NEW t \in Threads, BeginRead(t), ns[t] = n PROVE Abstract(n)!Read(t)
    <2>1. OnlyThread(t) /\ UNCHANGED disk
      BY <1>6 DEF BeginRead, Goto, OnlyThread
    <2>2. Writer(n)' = Writer(n)
      BY <1>6 DEF BeginRead, Goto, Writer
    <2>3. pc[t] = "read_begin" /\ pc'[t] = "reading" /\ ns'[t] = n /\ data'[t] = disk[n]
      BY <1>6 DEF BeginRead, Goto
    <2>4. /\ Handles(n, "reading")[t] = None
          /\ Handles(n, "reading")' = [Handles(n, "reading") EXCEPT ![t] = View(disk[n])]
      BY <2>1, <2>3, HandleOf, HandlesStep
    <2>5. Handles(n, "writing")' = Handles(n, "writing")
      BY <2>1, <2>3 DEF Handles, OnlyThread, View
    <2> QED
      BY <2>1, <2>2, <2>4, <2>5 DEF Abstract!Read, View
  <1>7. ASSUME NEW t \in Threads, BeginWrite(t), ns[t] = n PROVE Abstract(n)!Write(t)
    <2>1. OnlyThread(t) /\ UNCHANGED disk
      BY <1>7 DEF BeginWrite, Goto, OnlyThread
    <2>2. pc[t] = "write_begin" /\ pc'[t] = "writing" /\ ns'[t] = n /\ data'[t] = disk[n]
      BY <1>7 DEF BeginWrite, Goto
    <2>3. Writer(n) = None /\ Writer(n)' = t
      BY <1>7, <2>2, WriterIsNext DEF BeginWrite, Writer
    <2>4. Handles(n, "writing")' = [Handles(n, "writing") EXCEPT ![t] = View(disk[n])]
      BY <2>1, <2>2, HandlesStep
    <2>5. Handles(n, "reading")' = Handles(n, "reading")
      BY <2>1, <2>2 DEF Handles, OnlyThread, View
    <2> QED
      BY <2>1, <2>3, <2>4, <2>5 DEF Abstract!Write, View
  <1>8. ASSUME NEW t \in Threads, DropRead(t), ns[t] = n PROVE Abstract(n)!CloseRead(t)
    <2>1. OnlyThread(t) /\ UNCHANGED disk
      BY <1>8 DEF DropRead, Leave, Goto, OnlyThread
    <2>2. pc[t] = "reading" /\ pc'[t] = "idle" /\ txn # t
      BY <1>8 DEF DropRead, Leave, Goto, CallInv, InTransaction
    <2>3. View(data[t]) # None
      BY <1>8, <2>2, HandleViews DEF CallInv
    <2>4. Writer(n)' = Writer(n)
      BY <1>8, <2>1, <2>2 DEF DropRead, Leave, Goto, Writer
    <2>5. /\ Handles(n, "reading")[t] # None
          /\ Handles(n, "reading")' = [Handles(n, "reading") EXCEPT ![t] = None]
      BY <1>8, <2>1, <2>2, <2>3, HandleOf, HandlesStep
    <2>6. Handles(n, "writing")' = Handles(n, "writing")
      BY <2>1, <2>2 DEF Handles, OnlyThread, View
    <2> QED
      BY <2>1, <2>4, <2>5, <2>6 DEF Abstract!CloseRead, View
  <1>9. ASSUME NEW t \in Threads, DropWrite(t) \/ Commit(t), ns[t] = n
        PROVE  /\ Writer(n) = t /\ Writer(n)' = None
               /\ Handles(n, "writing")[t] = View(data[t])
               /\ Handles(n, "writing")' = [Handles(n, "writing") EXCEPT ![t] = None]
               /\ Handles(n, "reading")' = Handles(n, "reading")
    <2>1. OnlyThread(t) /\ pc[t] = "writing" /\ pc'[t] = "idle" /\ txn = t /\ txn' = None
      BY <1>9 DEF DropWrite, Commit, Leave, Goto, OnlyThread, CallInv, InTransaction
    <2>2. Writer(n) = t /\ Writer(n)' = None
      BY <1>9, <2>1, RedbAssumption DEF Writer
    <2>3. /\ Handles(n, "writing")[t] = View(data[t])
          /\ Handles(n, "writing")' = [Handles(n, "writing") EXCEPT ![t] = None]
      BY <1>9, <2>1, HandleOf, HandlesStep
    <2>4. Handles(n, "reading")' = Handles(n, "reading")
      BY <2>1 DEF Handles, OnlyThread, View
    <2> QED
      BY <2>2, <2>3, <2>4
  <1>10. ASSUME NEW t \in Threads, DropWrite(t), ns[t] = n PROVE Abstract(n)!Drop(t)
    BY <1>9, <1>10 DEF DropWrite, Abstract!Drop, View
  <1>11. ASSUME NEW t \in Threads, Commit(t), ns[t] = n PROVE Abstract(n)!Commit(t)
    <2>1. disk'[n] = data[t]
      BY <1>11 DEF Commit
    <2>2. View(disk[n])' = View(data[t])
      BY <2>1 DEF View
    <2> QED
      BY <1>9, <1>11, <2>2 DEF Abstract!Commit
  <1>12. ASSUME NEW t \in Threads, ns[t] # n,
                BeginRead(t) \/ BeginWrite(t) \/ DropRead(t) \/ DropWrite(t) \/ Commit(t)
         PROVE  UNCHANGED Abstract(n)!vars
    <2>1. OnlyThread(t) /\ disk'[n] = disk[n]
      BY <1>12 DEF BeginRead, BeginWrite, DropRead, DropWrite, Commit, Leave, Goto, OnlyThread
    <2>2. ~HasHandle(t, n) /\ ~HasHandle(t, n)'
      BY <1>12, RedbAssumption
         DEF BeginRead, BeginWrite, DropRead, DropWrite, Commit, Leave, Goto, HasHandle
    <2> QED
      BY <2>1, <2>2, QuietStep
  <1>13. ASSUME NEW t \in Threads, NEW s \in Stores(ns[t]), NEW k \in Keys,
                NEW v \in Bytes \union {None}, Put(t, s, k, v), ns[t] # n
         PROVE  UNCHANGED Abstract(n)!vars
    <2>1. OnlyThread(t) /\ UNCHANGED <<disk, ns>>
      BY <1>13 DEF Put, OnlyThread
    <2>2. ~HasHandle(t, n) /\ ~HasHandle(t, n)'
      BY <1>13, <2>1 DEF HasHandle
    <2> QED
      BY <2>1, <2>2, QuietStep
  <1>14. ASSUME NEW t \in Threads, NEW s \in Stores(n), NEW k \in Keys,
                NEW v \in Bytes \union {None}, Put(t, s, k, v), ns[t] = n
         PROVE  Abstract(n)!Put(t, s, k, v)
    <2>0. PICK row : row = [Opened(data[t][s]) EXCEPT ![k] = v]
      BY Zenon
    <2>1. OnlyThread(t) /\ UNCHANGED <<disk, ns, pc, txn>> /\ pc[t] = "writing"
      BY <1>14 DEF Put, OnlyThread
    <2>2. Writer(n) = t /\ Writer(n)' = Writer(n)
      BY <1>14, <2>1, WriterIs, WriterIsNext
    <2>3. data[t] \in Tables(n) /\ data'[t] = [data[t] EXCEPT ![s] = row]
      BY <1>14, <2>0, <2>1 DEF Put, CallInv, InTransaction
    <2>4. View(data'[t]) = [View(data[t]) EXCEPT ![s] = row] /\ View(data[t])[s] = Opened(data[t][s])
      <3> HIDE DEF RedbInv, TypeOK
      <3> QED
        BY <2>0, <2>3, PutView
    <2>5. /\ Handles(n, "writing")[t] = View(data[t])
          /\ Handles(n, "writing")' = [Handles(n, "writing") EXCEPT ![t] = View(data'[t])]
      BY <1>14, <2>1, HandleOf, HandlesStep
    <2>6. Handles(n, "reading")' = Handles(n, "reading")
      BY <2>1 DEF Handles, OnlyThread, View
    <2>7. View(disk[n])' = View(disk[n])
      BY <2>1 DEF View
    <2>8. [Handles(n, "writing")[t][s] EXCEPT ![k] = v] = row
      BY <2>0, <2>4, <2>5
    <2>9. Handles(n, "writing")[t][s] # None
      BY <2>3, <2>4, <2>5, OpenedType DEF Tables
    <2> QED
      BY <2>2, <2>4, <2>5, <2>6, <2>7, <2>8, <2>9 DEF Abstract!Put, Abstract!Stage
  <1>15. ASSUME NEW t \in Threads, NEW s \in Stores(n), NEW k \in Keys,
                NEW v \in Bytes \union {None}, Put(t, s, k, v), ns[t] = n
         PROVE  Abstract(n)!Next
    <2>1. Abstract(n)!Put(t, s, k, v)
      BY <1>14, <1>15
    <2>2. CASE v = None
      <3>1. Abstract(n)!Remove(t, s, k)
        BY <2>1, <2>2 DEF Abstract!Remove
      <3> QED
        BY <3>1 DEF Abstract!Next
    <2>3. CASE v \in Bytes
      <3>1. Abstract(n)!Set(t, s, k, v)
        BY <2>1 DEF Abstract!Set
      <3> QED
        BY <2>3, <3>1 DEF Abstract!Next
    <2> QED
      BY <2>2, <2>3
  <1>16. CASE Restart
    <2>1. \A t \in Threads : pc'[t] = "idle"
      BY <1>16 DEF Restart
    <2>2. /\ Handles(n, "writing")' = [t \in Threads |-> None]
          /\ Handles(n, "reading")' = [t \in Threads |-> None]
      BY <2>1 DEF Handles
    <2>3. Writer(n)' = None /\ View(disk[n])' = View(disk[n])
      BY <1>16 DEF Restart, Writer, View
    <2>4. Abstract(n)!Restart
      BY <2>2, <2>3 DEF Abstract!Restart
    <2> QED
      BY <2>4 DEF Abstract!Next
  <1>17. CASE UNCHANGED vars
    BY <1>17 DEF vars, Abstract!vars, Handles, Writer, View
  <1>18. ASSUME NEW t \in Threads,
                BeginRead(t) \/ BeginWrite(t) \/ DropRead(t) \/ DropWrite(t) \/ Commit(t)
         PROVE  Implemented
    BY <1>6, <1>7, <1>8, <1>10, <1>11, <1>12, <1>18 DEF Abstract!Next
  <1>19. ASSUME NEW t \in Threads, NEW m \in Namespaces, NEW s \in Stores(m), NEW k \in Keys,
                NEW v \in Bytes \union {None}, ns[t] = m, Put(t, s, k, v)
         PROVE  Implemented
    BY <1>13, <1>15, <1>19
  <1> QED
    BY <1>1, <1>2, <1>3, <1>4, <1>5, <1>16, <1>17, <1>18, <1>19 DEF Next, InCall, EndWrite

(* Every namespace of the redb backend keeps the contract of store.rs that the
   collection is built on, whatever other namespaces, builds of any list of
   stores, failures and restarts do. *)
THEOREM RedbImplementsMultiStore ==
    Spec => ImplementsMultiStore
  <1>1. Init => PreparedRows /\ \A n \in Namespaces : Abstract(n)!Init
    <2> SUFFICES ASSUME Init PROVE PreparedRows /\ \A n \in Namespaces : Abstract(n)!Init
      OBVIOUS
    <2>1. PreparedRows
      BY DEF Init, PreparedRows
    <2>2. ASSUME NEW n \in Namespaces PROVE Abstract(n)!Init
      <3>1. View(disk[n]) = [s \in Stores(n) |-> [k \in Keys |-> None]]
        BY DEF Init, View, Opened, NoRows
      <3>2. Writer(n) = None
        BY DEF Init, Writer
      <3>3. /\ Handles(n, "writing") = [t \in Threads |-> None]
            /\ Handles(n, "reading") = [t \in Threads |-> None]
        BY DEF Init, Handles
      <3> QED
        BY <3>1, <3>2, <3>3 DEF Abstract!Init
    <2> QED
      BY <2>1, <2>2
  <1>2. RedbInv /\ PreparedRows /\ [Next]_vars => (RedbInv /\ PreparedRows)'
    BY RedbStep, PreparedRowsStep
  <1>3. RedbInv /\ RedbInv' /\ PreparedRows /\ [Next]_vars =>
            \A n \in Namespaces : Abstract(n)!Next \/ UNCHANGED Abstract(n)!vars
    BY NamespaceStep
  <1> QED
    BY <1>1, <1>2, <1>3, RedbInit, PTL DEF Spec, ImplementsMultiStore
=============================================================================
