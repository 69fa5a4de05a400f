-------------------------------- MODULE Schema --------------------------------
(***************************************************************************)
(* The static side of a typed collection: its records, its registered      *)
(* secondary indexes and the keys under which both are stored.  Rust fixes *)
(* these by types (Item, Index, IndexKind, the Cons/Nil registry); here    *)
(* they are CONSTANTS.                                                     *)
(*                                                                         *)
(* Keys are abstract: a byte encoding is one to one on keys of a type, so  *)
(* two keys are equal exactly when their encodings are.  (The encodings    *)
(* themselves, and the order they induce, are the subject of KeyEncoding   *)
(* and ScanBounds.)                                                        *)
(***************************************************************************)
EXTENDS Naturals

CONSTANTS
    Pks,        \* primary keys (Item::Key)
    Vals,       \* the rest of a record's fields
    IndexKeys,  \* logical index keys (Index::Key), of all indexes together
    NumIndexes, \* length of the index registry
    UniqueIdx,  \* positions of the registry whose Kind is Unique; the others are Multi
    IndexKey,   \* IndexKey[i][r] is the key index i extracts from record r (Index::key)
    Decode,     \* Decode[r] is what Item::from_bytes returns for the bytes Item::to_bytes made of r
    Selections, \* the sets of logical index keys that scans select
    None        \* Option::None: no value under a key

(* A record: a primary key and the fields that are not part of it. *)
Records == [pk : Pks, val : Vals]

(* Positions of the Cons list, head first: the index added last is at 1. *)
Registry == 1 .. NumIndexes

(* The name of the store that maps primary keys to records. *)
MAIN_STORE == 0

(* The stores of the collection's namespace. *)
StoreNames == {MAIN_STORE} \union Registry

(* Physical keys of an index entry.  Both layouts are pairs; a Unique index
   leaves the second place empty. *)
EntryKeys == IndexKeys \X (Pks \union {None})

(* Mutant: a Unique index laid out like a Multi index. *)
store_key_Multi(i, k, pk) == <<k, pk>>

(* IndexKind::store_key: Unique stores the logical key alone, Multi appends
   the primary key. *)
store_key(i, k, pk) == IF i \in UniqueIdx THEN <<k, None>> ELSE <<k, pk>>

(* What the key-value stores hold: encoded records and encoded primary keys. *)
Keys == Pks \union EntryKeys
Bytes == Records \union Pks

(* Requests a client can make: the arguments of the public operations of
   Collection.  Fields an operation does not have are None, 0 or {}.  `keys'
   is the set of logical index keys an index scan's prefix or range selects. *)
WriteRequests ==
    [op : {"insert", "update", "save"}, pk : Pks, val : Vals, idx : {0}, keys : {{}}]
        \union [op : {"remove"}, pk : Pks, val : {None}, idx : {0}, keys : {{}}]

QueryRequests ==
    UNION {
        [op : {"get"}, pk : Pks, val : {None}, idx : {0}, keys : {{}}],
        [op : {"scan"}, pk : {None}, val : {None}, idx : {0}, keys : {{}}],
        [op : {"index_get"}, pk : {None}, val : {None}, idx : UniqueIdx,
            keys : {{k} : k \in IndexKeys}],
        [op : {"index_scan"}, pk : {None}, val : {None}, idx : Registry, keys : Selections] }

Requests == WriteRequests \union QueryRequests

ASSUME SchemaAssumption ==
    /\ NumIndexes \in Nat
    /\ UniqueIdx \subseteq Registry
    /\ IndexKey \in [Registry -> [Records -> IndexKeys]]
    /\ Decode \in [Records -> Records]
    /\ Selections \subseteq SUBSET IndexKeys
    /\ None \notin Pks
    /\ None \notin Records
    /\ None \notin Requests

(* What index maintenance needs of the user's codec: decoding a stored record
   gives back its primary key and every index key.  Nothing in the Item trait
   states it. *)
CodecKeepsKeys ==
    \A r \in Records :
        /\ Decode[r].pk = r.pk
        /\ \A i \in Registry : IndexKey[i][Decode[r]] = IndexKey[i][r]
===============================================================================
