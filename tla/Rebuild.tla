------------------------------- MODULE Rebuild -------------------------------
(***************************************************************************)
(* A collection that is built again and again over the same namespace, with*)
(* other indexes each time, while it is written: the builder               *)
(* (collection.rs), what `prepare' does with stores that exist or are no   *)
(* longer listed, in memory and in redb, and what index maintenance makes  *)
(* of indexes that were registered late.                                   *)
(*                                                                         *)
(* The positions of Schema's registry are here the index types a program   *)
(* has; a build registers some of them.  Several collections may be in use,*)
(* the older ones with older registries.  A write is in two steps: it gets *)
(* its handle, and commits what it makes of the handle's stores, which only*)
(* it sees (Collection has the steps between).  So is a build: what it     *)
(* takes from the stores, and what it publishes.  In redb both are write   *)
(* transactions and exclude each other; in memory a write handle is no     *)
(* hindrance to a build.                                                   *)
(***************************************************************************)
EXTENDS Schema, FiniteSets

CONSTANTS
    Name,           \* Name[i]: the store of index type i (Index::NAME); two types may have the same
    MaxCollections  \* bound on the collections in use or being built at a time

KVStore == [Keys -> Bytes \union {None}]
Empty == [k \in Keys |-> None]

(* The stores of the namespace, None where there is none, and what has become
   of the indexes in them: the index types that every build and every write
   behind these stores has registered since a build first created their
   store, and those of them whose store was created while there were no
   records. *)
Versions ==
    [stores : [StoreNames -> KVStore \union {None}],
     maintained : SUBSET Registry,
     complete : SUBSET Registry]

(* Nothing keeps a program from giving an index the name "__main"; the model
   leaves that out.  A store that does not exist is no store. *)
ASSUME NameAssumption ==
    /\ Name \in [Registry -> Registry]
    /\ MaxCollections \in Nat
    /\ None \notin KVStore

VARIABLES
    persistent, \* the backend: redb, or in memory; chosen once
    published,  \* the version that is committed
    prepared,   \* the stores that the last prepare of this process listed
    live,       \* the registries of the collections in use
    building,   \* the registries of the builds that are in the middle of prepare
    copied,     \* in memory: the version the build is about to publish, or None
    asked,      \* in redb: the registry of the write that waits for its transaction, if any
    handle      \* the registry and the version of the open write handle, or None

vars == <<persistent, published, prepared, live, building, copied, asked, handle>>

Stores(r) == {MAIN_STORE} \union {Name[i] : i \in r}
Existing(v) == {n \in StoreNames : v.stores[n] # None}
Main(v) == v.stores[MAIN_STORE]

Init ==
    /\ persistent \in BOOLEAN
    /\ published = [stores |-> [n \in StoreNames |-> None], maintained |-> {}, complete |-> {}]
    /\ prepared = {} /\ live = {} /\ building = {}
    /\ copied = None /\ asked = {} /\ handle = None

-------------------------------------------------------------------------------
(* Building a collection *)

(* IndexRegistry::has_index *)
has_index(r, name) == \E i \in r : Name[i] = name

(* The index types that a chain of calls of with_index can register: a second
   one of the same name is a panic.  (The builder has nothing but its type
   until build is called.) *)
Registers(r) == \A i \in r : ~has_index(r \ {i}, Name[i])

(* Mutant: a listed store starts empty when the list has changed. *)
Prepare_Restarts(v, r) ==
    LET fresh == {i \in r : v.stores[Name[i]] = None}
    IN  [stores |-> [n \in StoreNames |->
             IF n = MAIN_STORE /\ v.stores[n] # None THEN v.stores[n]
             ELSE IF n \in Stores(r)
             THEN (IF v.stores[n] = None \/ Stores(r) # prepared THEN Empty ELSE v.stores[n])
             ELSE IF persistent THEN v.stores[n] ELSE None],
         maintained |-> (v.maintained \intersect r) \union fresh,
         complete |-> (v.complete \intersect r) \union {i \in fresh : Main(v) \in {None, Empty}}]

(* What prepare makes of version v: a listed store is created if it is missing
   and keeps its contents otherwise.  What is not listed is dropped in memory;
   redb keeps the table.  Records that exist are not looked at. *)
Prepare(v, r) ==
    LET fresh == {i \in r : v.stores[Name[i]] = None}
    IN  [stores |-> [n \in StoreNames |->
             IF n \in Stores(r) THEN (IF v.stores[n] = None THEN Empty ELSE v.stores[n])
             ELSE IF persistent THEN v.stores[n] ELSE None],
         maintained |-> (v.maintained \intersect r) \union fresh,
         complete |-> (v.complete \intersect r) \union {i \in fresh : Main(v) \in {None, Empty}}]

MayBuild(r) == Registers(r) /\ Cardinality(live \union building \union {r}) <= MaxCollections

(* In memory, build and Collection::new: prepare has the map's lock to itself,
   which no `write' holds, and copies the stores ... *)
PrepareRead(r) ==
    /\ ~persistent /\ MayBuild(r) /\ building = {}
    /\ building' = {r}
    /\ copied' = Prepare(published, r)
    /\ UNCHANGED <<persistent, published, prepared, live, asked, handle>>

(* ... and replaces them, whatever a write handle committed since. *)
PrepareWrite(r) ==
    /\ ~persistent /\ building = {r}
    /\ published' = copied /\ copied' = None
    /\ prepared' = Stores(r) /\ live' = live \union {r} /\ building' = {}
    /\ UNCHANGED <<persistent, asked, handle>>

(* Mutant: prepare notes the listed stores and does not create their tables. *)
PrepareTables_NotesOnly(r) ==
    /\ persistent /\ MayBuild(r) /\ handle = None
    /\ building' = building \union {r}
    /\ UNCHANGED <<persistent, published, prepared, live, copied, asked, handle>>

(* In redb, prepare creates the tables in a write transaction of its own ... *)
PrepareTables(r) ==
    /\ persistent /\ MayBuild(r) /\ handle = None
    /\ published' = Prepare(published, r)
    /\ building' = building \union {r}
    /\ UNCHANGED <<persistent, prepared, live, copied, asked, handle>>

(* ... and then replaces what the namespace has in the registry.  Other builds
   and other writes may come between. *)
PublishRegistry(r) ==
    /\ persistent /\ r \in building
    /\ prepared' = Stores(r) /\ live' = live \union {r} /\ building' = building \ {r}
    /\ UNCHANGED <<persistent, published, copied, asked, handle>>

(* A collection goes out of use. *)
DropCollection(r) ==
    /\ r \in live \ asked
    /\ handle # None => handle.registry # r
    /\ live' = live \ {r}
    /\ UNCHANGED <<persistent, published, prepared, building, copied, asked, handle>>

(* The process ends, with builds and writes in it, and opens its redb database
   again. *)
Reopen ==
    /\ persistent
    /\ prepared' = {} /\ live' = {} /\ building' = {}
    /\ asked' = {} /\ handle' = None
    /\ UNCHANGED <<persistent, published, copied>>

-------------------------------------------------------------------------------
(* Writing through a collection with registry r *)

Handle(r) == [registry |-> r, version |-> published]

(* In memory, `write' has the map's lock and the writer gate when it copies the
   stores: no prepare and no other write handle.  open_store finds every store
   the operation needs; otherwise it panics and the handle is dropped. *)
OpenCopy(r) ==
    /\ ~persistent /\ r \in live /\ Stores(r) \subseteq Existing(published)
    /\ building = {} /\ handle = None
    /\ handle' = Handle(r)
    /\ UNCHANGED <<persistent, published, prepared, live, building, copied, asked>>

(* In redb, `write' copies the registry, which decides what open_store finds,
   before it has its transaction.  (One write waits at a time.) *)
AskTransaction(r) ==
    /\ persistent /\ r \in live /\ Stores(r) \subseteq prepared
    /\ asked = {}
    /\ asked' = {r}
    /\ UNCHANGED <<persistent, published, prepared, live, building, copied, handle>>

OpenTransaction(r) ==
    /\ persistent /\ r \in asked /\ handle = None
    /\ handle' = Handle(r) /\ asked' = {}
    /\ UNCHANGED <<persistent, published, prepared, live, building, copied>>

(* An operation that fails or has nothing to do drops its handle. *)
DropWrite ==
    /\ handle # None
    /\ handle' = None
    /\ UNCHANGED <<persistent, published, prepared, live, building, copied, asked>>

skey(i, r) == store_key(i, IndexKey[i][r], r.pk)

(* Mutant: the old entry stays where it is. *)
IndexUpdate_KeepsOld(i, kv, old, new) ==
    IF old # None /\ skey(i, old) = skey(i, new) THEN kv
    ELSE IF kv[skey(i, new)] # None THEN None
    ELSE [kv EXCEPT ![skey(i, new)] = new.pk]

(* Index::update on store kv after record new has replaced old, or None if the
   key is taken. *)
IndexUpdate(i, kv, old, new) ==
    LET same == old # None /\ skey(i, old) = skey(i, new)
        cleared == IF old = None THEN kv ELSE [kv EXCEPT ![skey(i, old)] = None]
    IN  IF same THEN kv
        ELSE IF cleared[skey(i, new)] # None THEN None
        ELSE [cleared EXCEPT ![skey(i, new)] = new.pk]

(* Index::remove *)
IndexRemove(i, kv, old) == [kv EXCEPT ![skey(i, old)] = None]

(* The index of registry r that is kept in store n: one at most, so the
   indexes do not meet and their order does not matter. *)
IndexIn(r, n) == CHOOSE i \in r : Name[i] = n

IndexStores(r) == {Name[i] : i \in r}

(* commit publishes the handle's stores, now s, and no others: in memory what
   a build has done since the handle was opened is lost, and stores that it
   dropped come back. *)
Commit(s) ==
    /\ published' = [stores |-> s,
                     maintained |-> handle.version.maintained \intersect handle.registry,
                     complete |-> handle.version.complete \intersect handle.registry]
    /\ handle' = None
    /\ UNCHANGED <<persistent, prepared, live, building, copied, asked>>

(* insert of a key that is free, update of one that is not, or save: the main
   store, then every index.  Other outcomes drop the handle. *)
Write(op, new) ==
    /\ handle # None
    /\ LET r == handle.registry
           stores == handle.version.stores
           main == stores[MAIN_STORE]
           old == IF main[new.pk] = None THEN None ELSE Decode[main[new.pk]]
           s == [n \in StoreNames |->
                    IF n = MAIN_STORE THEN [main EXCEPT ![new.pk] = new]
                    ELSE IF n \in IndexStores(r) THEN IndexUpdate(IndexIn(r, n), stores[n], old, new)
                    ELSE stores[n]]
       IN  /\ op = "insert" => old = None
           /\ op = "update" => old # None
           /\ \A n \in IndexStores(r) : s[n] # None
           /\ Commit(s)

(* remove of a record that exists. *)
Remove(pk) ==
    /\ handle # None
    /\ LET r == handle.registry
           stores == handle.version.stores
           main == stores[MAIN_STORE]
           old == Decode[main[pk]]
       IN  /\ main[pk] # None
           /\ Commit([n \in StoreNames |->
                  IF n = MAIN_STORE THEN [main EXCEPT ![pk] = None]
                  ELSE IF n \in IndexStores(r) THEN IndexRemove(IndexIn(r, n), stores[n], old)
                  ELSE stores[n]])

Next ==
    \/ Reopen \/ DropWrite
    \/ \E r \in SUBSET Registry : PrepareRead(r) \/ PrepareTables(r)
    \/ \E r \in building : PrepareWrite(r) \/ PublishRegistry(r)
    \/ \E r \in live : DropCollection(r) \/ OpenCopy(r) \/ AskTransaction(r)
    \/ \E r \in asked : OpenTransaction(r)
    \/ \E op \in {"insert", "update", "save"}, new \in Records : Write(op, new)
    \/ \E pk \in Pks : Remove(pk)

Spec == Init /\ [][Next]_vars

-------------------------------------------------------------------------------
(* Properties *)

TypeOK ==
    /\ persistent \in BOOLEAN
    /\ published \in Versions
    /\ prepared \in SUBSET StoreNames
    /\ live \in SUBSET SUBSET Registry
    /\ building \in SUBSET SUBSET Registry
    /\ copied \in Versions \union {None}
    /\ asked \in SUBSET SUBSET Registry
    /\ handle \in [registry : SUBSET Registry, version : Versions] \union {None}
    /\ persistent => prepared \subseteq Existing(published)

(* Every entry of index store kv names a record of main store m that has that
   entry's key ... *)
SoundIn(i, kv, m) ==
    \A sk \in EntryKeys :
        kv[sk] # None => kv[sk] \in Pks /\ m[kv[sk]] # None /\ skey(i, m[kv[sk]]) = sk

(* ... and every record of m has its entry in kv. *)
FullIn(i, kv, m) == \A p \in Pks : m[p] # None => kv[skey(i, m[p])] = p

(* Also in an index that was registered when there were records already, and
   so has gaps that updates which keep the key do not fill (Index::update
   returns early) and removals that find no entry, every entry leads to a
   record with the entry's key: scans meet no missing record.  It takes that
   since the store was created every build behind what is published
   registered the index and every write went through a collection that has
   it. *)
IndexSound ==
    \A i \in published.maintained : SoundIn(i, published.stores[Name[i]], Main(published))

(* An index that all builds and all writes behind what is published have had
   since there were no records is exact, whichever other indexes come and go,
   through older collections, restarts and builds that a commit undoes: one
   entry for each record, and no other. *)
StableIndexExact ==
    \A i \in published.complete :
        /\ SoundIn(i, published.stores[Name[i]], Main(published))
        /\ FullIn(i, published.stores[Name[i]], Main(published))
===============================================================================
