---------------------------- MODULE RebuildProofs ----------------------------
(***************************************************************************)
(* Proofs about Rebuild, for any index types, records, builds and number   *)
(* of collections in use.                                                  *)
(***************************************************************************)
EXTENDS Rebuild, TLAPS

(* What one step of index maintenance keeps *)

(* The main store maps primary keys to records. *)
MainStores == {m \in KVStore : \A p \in Pks : m[p] \in Records \union {None}}

(* What the main store holds for a key, as the collection reads it. *)
Found(m, pk) == IF m[pk] = None THEN None ELSE Decode[m[pk]]

(* A record's entry has an entry key. *)
LEMMA SkeyType ==
    ASSUME NEW i \in Registry, NEW r \in Records
    PROVE  skey(i, r) \in EntryKeys /\ skey(i, r) \in Keys
  <1>1. IndexKey[i][r] \in IndexKeys /\ r.pk \in Pks
    <2>1. IndexKey[i] \in [Records -> IndexKeys]
      BY SchemaAssumption
    <2> QED
      BY <2>1 DEF Records
  <1>2. CASE i \in UniqueIdx
    <2>1. skey(i, r) = <<IndexKey[i][r], None>>
      BY <1>2 DEF skey, store_key
    <2> QED
      BY <1>1, <2>1 DEF EntryKeys, Keys
  <1>3. CASE i \notin UniqueIdx
    <2>1. skey(i, r) = <<IndexKey[i][r], r.pk>>
      BY <1>3 DEF skey, store_key
    <2> QED
      BY <1>1, <2>1 DEF EntryKeys, Keys
  <1> QED
    BY <1>2, <1>3

(* A record that was read back has the entry of the one that was written. *)
LEMMA SkeyOfDecoded ==
    ASSUME CodecKeepsKeys, NEW i \in Registry, NEW r \in Records
    PROVE  Decode[r] \in Records /\ skey(i, Decode[r]) = skey(i, r)
  BY SchemaAssumption DEF CodecKeepsKeys, skey

(* Index::update, with the main store already written. *)
LEMMA UpdateKeeps ==
    ASSUME CodecKeepsKeys, NEW i \in Registry, NEW kv \in KVStore, NEW m \in MainStores,
           NEW new \in Records, NEW kv2, kv2 = IndexUpdate(i, kv, Found(m, new.pk), new), kv2 # None,
           NEW m2, m2 = [m EXCEPT ![new.pk] = new]
    PROVE  /\ kv2 \in KVStore
           /\ SoundIn(i, kv, m) => SoundIn(i, kv2, m2)
           /\ SoundIn(i, kv, m) /\ FullIn(i, kv, m) => FullIn(i, kv2, m2)
  <1> DEFINE pk == new.pk
             nk == skey(i, new)
             ok == skey(i, m[pk])
  <1>1. pk \in Pks /\ nk \in EntryKeys /\ nk \in Keys
    BY SkeyType DEF Records
  <1>2. ASSUME m[pk] # None PROVE ok \in EntryKeys /\ ok \in Keys /\ skey(i, Found(m, pk)) = ok
    BY <1>1, <1>2, SkeyType, SkeyOfDecoded DEF MainStores, Found
  <1>3. pk \in Bytes /\ pk # None /\ pk \in Keys
    BY <1>1, SchemaAssumption DEF Bytes, Keys
  <1>4. \A p \in Pks : m2[p] = IF p = pk THEN new ELSE m[p]
    BY <1>1 DEF MainStores, KVStore, Keys
  <1>5. new # None /\ \A p \in Pks : p # None
    BY SchemaAssumption
  <1>6. (m[pk] = None) = (Found(m, pk) = None)
    BY <1>1, SchemaAssumption DEF Found, MainStores
  <1>7. DOMAIN kv = Keys /\ \A k \in Keys : kv[k] \in Bytes \union {None}
    BY DEF KVStore
  <1> HIDE DEF nk, ok
  <1>8. CASE m[pk] # None /\ ok = nk
    <2>1. kv2 = kv
      BY <1>2, <1>6, <1>8 DEF IndexUpdate, nk
    <2> QED
      BY <1>1, <1>4, <1>5, <1>8, <2>1 DEF SoundIn, FullIn, ok, nk
  <1>9. CASE m[pk] # None /\ ok # nk
    <2>1. kv[nk] = None /\ kv2 = [[kv EXCEPT ![ok] = None] EXCEPT ![nk] = pk]
      BY <1>1, <1>2, <1>6, <1>7, <1>9 DEF IndexUpdate, nk
    <2>2. \A sk \in Keys : kv2[sk] = IF sk = nk THEN pk ELSE IF sk = ok THEN None ELSE kv[sk]
      BY <1>1, <1>2, <1>7, <1>9, <2>1
    <2>3. kv2 \in KVStore
      BY <1>3, <1>7, <2>1 DEF KVStore
    <2>4. \A sk \in EntryKeys : sk \in Keys
      BY DEF Keys
    <2>5. ASSUME SoundIn(i, kv, m), NEW sk \in EntryKeys, kv2[sk] # None
          PROVE  kv2[sk] \in Pks /\ m2[kv2[sk]] # None /\ skey(i, m2[kv2[sk]]) = sk
      <3>1. CASE sk = nk
        BY <1>1, <1>4, <1>5, <2>2, <2>4, <3>1 DEF nk
      <3>2. CASE sk # nk
        <4>1. sk # ok /\ kv2[sk] = kv[sk]
          BY <2>2, <2>4, <2>5, <3>2
        <4>2. kv[sk] \in Pks /\ m[kv[sk]] # None /\ skey(i, m[kv[sk]]) = sk
          BY <2>5, <4>1 DEF SoundIn
        <4>3. kv[sk] # pk
          BY <4>1, <4>2 DEF ok
        <4> QED
          BY <1>4, <4>1, <4>2, <4>3
      <3> QED
        BY <3>1, <3>2
    <2>6. ASSUME SoundIn(i, kv, m), FullIn(i, kv, m), NEW p \in Pks, m2[p] # None
          PROVE  kv2[skey(i, m2[p])] = p
      <3>1. CASE p = pk
        BY <1>1, <1>4, <2>2, <3>1 DEF nk
      <3>2. CASE p # pk
        <4>1. m2[p] = m[p] /\ m[p] # None /\ m[p] \in Records
          BY <1>4, <2>6, <3>2 DEF MainStores
        <4>2. kv[skey(i, m[p])] = p /\ kv[ok] = pk
          BY <1>1, <1>9, <2>6, <4>1 DEF FullIn, ok
        <4>3. skey(i, m[p]) \in Keys /\ skey(i, m[p]) # ok /\ skey(i, m[p]) # nk
          BY <1>5, <2>1, <3>2, <4>1, <4>2, SkeyType
        <4> QED
          BY <2>2, <4>1, <4>2, <4>3
      <3> QED
        BY <3>1, <3>2
    <2> QED
      BY <2>3, <2>5, <2>6 DEF SoundIn, FullIn
  <1>10. CASE m[pk] = None
    <2>1. kv[nk] = None /\ kv2 = [kv EXCEPT ![nk] = pk]
      BY <1>1, <1>6, <1>7, <1>10 DEF IndexUpdate, nk
    <2>2. \A sk \in Keys : kv2[sk] = IF sk = nk THEN pk ELSE kv[sk]
      BY <1>1, <1>7, <2>1
    <2>3. kv2 \in KVStore
      BY <1>3, <1>7, <2>1 DEF KVStore
    <2>4. \A sk \in EntryKeys : sk \in Keys
      BY DEF Keys
    <2>5. ASSUME SoundIn(i, kv, m), NEW sk \in EntryKeys, kv2[sk] # None
          PROVE  kv2[sk] \in Pks /\ m2[kv2[sk]] # None /\ skey(i, m2[kv2[sk]]) = sk
      <3>1. CASE sk = nk
        BY <1>1, <1>4, <1>5, <2>2, <2>4, <3>1 DEF nk
      <3>2. CASE sk # nk
        BY <1>4, <1>10, <2>2, <2>4, <2>5, <3>2 DEF SoundIn
      <3> QED
        BY <3>1, <3>2
    <2>6. ASSUME SoundIn(i, kv, m), FullIn(i, kv, m), NEW p \in Pks, m2[p] # None
          PROVE  kv2[skey(i, m2[p])] = p
      <3>1. CASE p = pk
        BY <1>1, <1>4, <2>2, <3>1 DEF nk
      <3>2. CASE p # pk
        <4>1. m2[p] = m[p] /\ m[p] # None /\ m[p] \in Records
          BY <1>4, <2>6, <3>2 DEF MainStores
        <4>2. kv[skey(i, m[p])] = p
          BY <2>6, <4>1 DEF FullIn
        <4>3. skey(i, m[p]) \in Keys /\ skey(i, m[p]) # nk
          BY <1>5, <2>1, <4>1, <4>2, SkeyType
        <4> QED
          BY <2>2, <4>1, <4>2, <4>3
      <3> QED
        BY <3>1, <3>2
    <2> QED
      BY <2>3, <2>5, <2>6 DEF SoundIn, FullIn
  <1> QED
    BY <1>8, <1>9, <1>10

(* Index::remove, with the record already gone from the main store. *)
LEMMA RemoveKeeps ==
    ASSUME CodecKeepsKeys, NEW i \in Registry, NEW kv \in KVStore, NEW m \in MainStores,
           NEW pk \in Pks, m[pk] # None, NEW kv2, kv2 = IndexRemove(i, kv, Decode[m[pk]]),
           NEW m2, m2 = [m EXCEPT ![pk] = None]
    PROVE  /\ kv2 \in KVStore
           /\ SoundIn(i, kv, m) => SoundIn(i, kv2, m2)
           /\ SoundIn(i, kv, m) /\ FullIn(i, kv, m) => FullIn(i, kv2, m2)
  <1> DEFINE ok == skey(i, m[pk])
  <1>1. m[pk] \in Records
    BY DEF MainStores
  <1>2. ok \in EntryKeys /\ ok \in Keys /\ skey(i, Decode[m[pk]]) = ok
    BY <1>1, SkeyType, SkeyOfDecoded
  <1>3. kv2 = [kv EXCEPT ![ok] = None] /\ kv2 \in KVStore
    BY <1>2 DEF IndexRemove, KVStore
  <1>4. \A sk \in Keys : kv2[sk] = IF sk = ok THEN None ELSE kv[sk]
    BY <1>3 DEF KVStore
  <1>5. \A p \in Pks : m2[p] = IF p = pk THEN None ELSE m[p]
    BY DEF MainStores, KVStore, Keys
  <1> HIDE DEF ok
  <1>6. ASSUME SoundIn(i, kv, m), NEW sk \in EntryKeys, kv2[sk] # None
        PROVE  kv2[sk] \in Pks /\ m2[kv2[sk]] # None /\ skey(i, m2[kv2[sk]]) = sk
    <2>1. sk # ok /\ kv2[sk] = kv[sk]
      BY <1>4, <1>6 DEF Keys
    <2>2. kv[sk] \in Pks /\ m[kv[sk]] # None /\ skey(i, m[kv[sk]]) = sk
      BY <1>6, <2>1 DEF SoundIn
    <2>3. kv[sk] # pk
      BY <2>1, <2>2 DEF ok
    <2> QED
      BY <1>5, <2>1, <2>2, <2>3
  <1>7. ASSUME FullIn(i, kv, m), NEW p \in Pks, m2[p] # None
        PROVE  kv2[skey(i, m2[p])] = p
    <2>1. p # pk /\ m2[p] = m[p] /\ m[p] # None /\ m[p] \in Records
      BY <1>5, <1>7 DEF MainStores
    <2>2. kv[skey(i, m[p])] = p /\ kv[ok] = pk
      BY <1>7, <2>1 DEF FullIn, ok
    <2>3. skey(i, m[p]) \in Keys /\ skey(i, m[p]) # ok
      BY <2>1, <2>2, SkeyType
    <2> QED
      BY <1>4, <2>1, <2>2, <2>3
  <1> QED
    BY <1>3, <1>6, <1>7 DEF SoundIn, FullIn

-------------------------------------------------------------------------------
(* Versions *)

(* What is kept of every version, published or not: an index that is
   maintained has its store, and so have the records; the main store has
   records; the indexes are as the properties say. *)
Valid(v) ==
    /\ v \in Versions
    /\ v.complete \subseteq v.maintained
    /\ v.maintained # {} => Main(v) # None
    /\ Main(v) # None => Main(v) \in MainStores
    /\ \A i \in v.maintained : v.stores[Name[i]] # None /\ SoundIn(i, v.stores[Name[i]], Main(v))
    /\ \A i \in v.complete : FullIn(i, v.stores[Name[i]], Main(v))

(* A version that is valid has stores and sets of index types. *)
LEMMA VersionParts ==
    ASSUME NEW v, Valid(v)
    PROVE  /\ v.stores \in [StoreNames -> KVStore \union {None}]
           /\ v.maintained \subseteq Registry /\ v.complete \subseteq v.maintained
  BY DEF Valid, Versions

(* An index's store is a store, and not the main one. *)
LEMMA NameType ==
    ASSUME NEW i \in Registry
    PROVE  Name[i] \in StoreNames /\ Name[i] # MAIN_STORE /\ MAIN_STORE \in StoreNames
  BY NameAssumption, SchemaAssumption DEF StoreNames, MAIN_STORE, Registry

(* The stores of a registry are stores. *)
LEMMA StoresType ==
    ASSUME NEW r \in SUBSET Registry
    PROVE  /\ Stores(r) \subseteq StoreNames /\ MAIN_STORE \in Stores(r)
           /\ \A i \in r : Name[i] \in Stores(r)
  BY NameType DEF Stores, StoreNames

(* A registry that with_index accepts has one index for each of its stores. *)
LEMMA IndexInIs ==
    ASSUME NEW r, Registers(r)
    PROVE  /\ \A n \in IndexStores(r) : IndexIn(r, n) \in r /\ Name[IndexIn(r, n)] = n
           /\ \A i \in r : IndexIn(r, Name[i]) = i
  <1>1. ASSUME NEW i \in r, NEW j \in r, Name[i] = Name[j] PROVE i = j
    BY <1>1 DEF Registers, has_index
  <1>2. ASSUME NEW n \in IndexStores(r) PROVE IndexIn(r, n) \in r /\ Name[IndexIn(r, n)] = n
    <2>1. PICK i \in r : Name[i] = n
      BY DEF IndexStores
    <2> QED
      BY <2>1 DEF IndexIn
  <1>3. ASSUME NEW i \in r PROVE IndexIn(r, Name[i]) = i
    <2>1. Name[i] \in IndexStores(r)
      BY DEF IndexStores
    <2> QED
      BY <1>1, <1>2, <2>1
  <1> QED
    BY <1>2, <1>3

(* prepare keeps every index that is maintained and listed again, and starts
   the store of a fresh one empty. *)
LEMMA PrepareValid ==
    ASSUME NEW v, Valid(v), NEW r \in SUBSET Registry
    PROVE  /\ Valid(Prepare(v, r))
           /\ Stores(r) \subseteq Existing(Prepare(v, r))
           /\ persistent => Existing(v) \subseteq Existing(Prepare(v, r))
  <1> DEFINE fresh == {i \in r : v.stores[Name[i]] = None}
             w == Prepare(v, r)
  <1>1. /\ w.maintained = (v.maintained \intersect r) \union fresh
        /\ w.complete = (v.complete \intersect r) \union {i \in fresh : Main(v) \in {None, Empty}}
    BY DEF Prepare
  <1>2. /\ DOMAIN w.stores = StoreNames
        /\ \A n \in StoreNames : w.stores[n] =
               IF n \in Stores(r) THEN (IF v.stores[n] = None THEN Empty ELSE v.stores[n])
               ELSE IF persistent THEN v.stores[n] ELSE None
    BY DEF Prepare
  <1>3. Stores(r) \subseteq StoreNames /\ MAIN_STORE \in Stores(r) /\ \A i \in r : Name[i] \in Stores(r)
    BY StoresType
  <1>4. /\ v.stores \in [StoreNames -> KVStore \union {None}]
        /\ v.maintained \subseteq Registry /\ v.complete \subseteq v.maintained
    BY VersionParts
  <1>5. Empty \in KVStore /\ Empty # None /\ Empty \in MainStores
    BY NameAssumption DEF Empty, KVStore, MainStores, Keys
  <1>6. /\ \A sk \in EntryKeys : Empty[sk] = None
        /\ \A p \in Pks : Empty[p] = None
    BY DEF Empty, Keys
  <1>7. w \in Versions
    <2>1. \A n \in StoreNames : w.stores[n] \in KVStore \union {None}
      BY <1>2, <1>4, <1>5
    <2>2. w.stores = [n \in StoreNames |-> w.stores[n]]
      BY DEF Prepare
    <2>3. w.stores \in [StoreNames -> KVStore \union {None}]
      BY <2>1, <2>2
    <2>4. w.maintained \in SUBSET Registry /\ w.complete \in SUBSET Registry
      BY <1>1, <1>4
    <2>5. w = [stores |-> w.stores, maintained |-> w.maintained, complete |-> w.complete]
      BY DEF Prepare
    <2> HIDE DEF w
    <2> QED
      BY <2>3, <2>4, <2>5 DEF Versions
  <1> HIDE DEF w
  <1>8. \A n \in Stores(r) : w.stores[n] # None
    BY <1>2, <1>3, <1>5
  <1>9. Main(w) # None /\ Main(w) \in MainStores
    <2>1. Main(w) = IF Main(v) = None THEN Empty ELSE Main(v)
      BY <1>2, <1>3 DEF Main
    <2> QED
      BY <1>3, <1>5, <1>8, <2>1 DEF Main, Valid
  <1>10. ASSUME NEW i \in v.maintained, i \in r
         PROVE  w.stores[Name[i]] = v.stores[Name[i]] /\ Main(w) = Main(v)
    <2>1. Main(v) # None /\ v.stores[Name[i]] # None
      BY DEF Valid
    <2> QED
      BY <1>2, <1>3, <1>10, <2>1 DEF Main
  <1>11. ASSUME NEW i \in fresh
         PROVE  /\ SoundIn(i, w.stores[Name[i]], Main(w))
                /\ Main(v) \in {None, Empty} => FullIn(i, w.stores[Name[i]], Main(w))
    <2>1. w.stores[Name[i]] = Empty
      BY <1>2, <1>3
    <2>2. Main(v) \in {None, Empty} => Main(w) = Empty
      BY <1>2, <1>3 DEF Main
    <2> QED
      BY <1>6, <2>1, <2>2 DEF SoundIn, FullIn
  <1>12. fresh \subseteq r
    OBVIOUS
  <1> HIDE DEF fresh
  <1>13. \A i \in w.maintained : w.stores[Name[i]] # None /\ SoundIn(i, w.stores[Name[i]], Main(w))
    <2>1. \A i \in v.maintained : SoundIn(i, v.stores[Name[i]], Main(v))
      BY DEF Valid
    <2> QED
      BY <1>1, <1>3, <1>8, <1>10, <1>11, <1>12, <2>1
  <1>14. \A i \in w.complete : FullIn(i, w.stores[Name[i]], Main(w))
    <2>1. \A i \in v.complete : i \in v.maintained /\ FullIn(i, v.stores[Name[i]], Main(v))
      BY <1>4 DEF Valid
    <2> QED
      BY <1>1, <1>10, <1>11, <2>1
  <1>15. w.complete \subseteq w.maintained
    BY <1>1, <1>4
  <1>16. Valid(w)
    BY <1>7, <1>9, <1>13, <1>14, <1>15 DEF Valid
  <1>17. Stores(r) \subseteq Existing(w)
    BY <1>3, <1>8 DEF Existing
  <1>18. persistent => Existing(v) \subseteq Existing(w)
    BY <1>2, <1>5 DEF Existing
  <1> QED
    BY <1>16, <1>17, <1>18 DEF w

(* The version that a commit of stores s publishes. *)
Committed(v, r, s) ==
    [stores |-> s, maintained |-> v.maintained \intersect r, complete |-> v.complete \intersect r]

(* A transaction that keeps each index of its registry in step with the main
   store publishes a valid version: indexes it does not know are no longer
   maintained. *)
LEMMA CommittedValid ==
    ASSUME NEW v, Valid(v), NEW r \in SUBSET Registry,
           NEW s \in [StoreNames -> KVStore \union {None}],
           s[MAIN_STORE] \in MainStores,
           \A n \in StoreNames : s[n] = None <=> v.stores[n] = None,
           \A i \in r :
               /\ SoundIn(i, v.stores[Name[i]], Main(v)) => SoundIn(i, s[Name[i]], s[MAIN_STORE])
               /\ SoundIn(i, v.stores[Name[i]], Main(v)) /\ FullIn(i, v.stores[Name[i]], Main(v))
                      => FullIn(i, s[Name[i]], s[MAIN_STORE])
    PROVE  Valid(Committed(v, r, s)) /\ Existing(Committed(v, r, s)) = Existing(v)
  <1> DEFINE w == Committed(v, r, s)
  <1>1. /\ w.stores = s /\ Main(w) = s[MAIN_STORE]
        /\ w.maintained = v.maintained \intersect r /\ w.complete = v.complete \intersect r
    BY DEF Committed, Main
  <1>2. v.maintained \subseteq Registry /\ v.complete \subseteq v.maintained
    BY VersionParts
  <1>3. w \in Versions
    BY <1>2 DEF Committed, Versions
  <1> HIDE DEF w
  <1>4. Main(w) # None /\ Main(w) \in MainStores
    BY <1>1, NameAssumption DEF MainStores
  <1>5. \A i \in w.maintained : w.stores[Name[i]] # None /\ SoundIn(i, w.stores[Name[i]], Main(w))
    BY <1>1, <1>2, NameType DEF Valid
  <1>6. \A i \in w.complete : FullIn(i, w.stores[Name[i]], Main(w))
    BY <1>1, <1>2 DEF Valid
  <1>7. w.complete \subseteq w.maintained
    BY <1>1, <1>2
  <1>8. Valid(w)
    BY <1>3, <1>4, <1>5, <1>6, <1>7 DEF Valid
  <1>9. Existing(w) = Existing(v)
    BY <1>1 DEF Existing
  <1> QED
    BY <1>8, <1>9 DEF w

-------------------------------------------------------------------------------
(* The inductive invariant: every version is valid, also the one a build has
   taken and the one a write handle works on; a registry in use is one the
   builder accepts; an open write handle has the stores its registry needs.
   In redb, where stores only come, a transaction works on what is published,
   and what a build has created or a write has found listed is still there. *)
VersionsValid ==
    /\ Valid(published)
    /\ ~persistent /\ building # {} => Valid(copied)

RegistriesValid ==
    /\ \A r \in live \union building \union asked : Registers(r)
    /\ persistent => \A r \in building \union asked : Stores(r) \subseteq Existing(published)

HandleValid ==
    handle # None =>
        /\ Valid(handle.version)
        /\ Registers(handle.registry) /\ Stores(handle.registry) \subseteq Existing(handle.version)
        /\ persistent => handle.version = published

RebuildInv == TypeOK /\ VersionsValid /\ RegistriesValid /\ HandleValid

(* Validity and existence, of a version in the next state. *)
LEMMA ValidNext ==
    /\ Valid(published)' <=> Valid(published')
    /\ Valid(copied)' <=> Valid(copied')
    /\ Valid(handle.version)' <=> Valid(handle.version')
  BY DEF Valid, Main, SoundIn, FullIn, skey, store_key

LEMMA ExistingNext ==
    /\ Existing(published)' = Existing(published')
    /\ Existing(handle.version)' = Existing(handle.version')
  BY DEF Existing

(* The builder accepts the same registries after a step. *)
LEMMA RegistersNext ==
    ASSUME NEW r
    PROVE  /\ Registers(r)' <=> Registers(r)
           /\ Stores(r)' = Stores(r)
  BY DEF Registers, has_index, Stores

(* What a step has to show. *)
LEMMA VersionsNext ==
    ASSUME Valid(published'), ~persistent' /\ building' # {} => Valid(copied')
    PROVE  VersionsValid'
  BY ValidNext DEF VersionsValid

LEMMA RegistriesNext ==
    ASSUME \A r \in (live \union building \union asked)' : Registers(r),
           persistent' => \A r \in (building \union asked)' : Stores(r) \subseteq Existing(published')
    PROVE  RegistriesValid'
  BY ExistingNext, RegistersNext DEF RegistriesValid

LEMMA HandleNext ==
    ASSUME handle' # None =>
               /\ Valid(handle.version')
               /\ Registers(handle.registry') /\ Stores(handle.registry') \subseteq Existing(handle.version')
               /\ persistent' => handle.version' = published'
    PROVE  HandleValid'
  BY ValidNext, ExistingNext, RegistersNext DEF HandleValid, Registers, has_index, Stores

(* What an operation finds: its registry is one the builder accepts, and the
   stores it opens exist. *)
LEMMA InUse ==
    ASSUME RebuildInv, handle # None
    PROVE  LET v == handle.version
               r == handle.registry
           IN  /\ Registers(r) /\ r \in SUBSET Registry /\ Valid(v)
               /\ Main(v) \in MainStores /\ Main(v) # None
               /\ \A n \in IndexStores(r) :
                      n \in StoreNames /\ n # MAIN_STORE /\ v.stores[n] \in KVStore /\ v.stores[n] # None
  <1> DEFINE v == handle.version
             r == handle.registry
  <1>1. Registers(r) /\ Valid(v) /\ Stores(r) \subseteq Existing(v)
    BY DEF RebuildInv, HandleValid
  <1>2. r \in SUBSET Registry
    BY DEF RebuildInv, TypeOK
  <1> HIDE DEF v, r
  <1>3. v.stores \in [StoreNames -> KVStore \union {None}]
    BY <1>1, VersionParts
  <1>4. Main(v) # None /\ Main(v) \in MainStores
    BY <1>1 DEF Stores, Existing, Main, Valid
  <1>5. \A n \in IndexStores(r) : n \in StoreNames /\ n # MAIN_STORE
    BY <1>2, NameType DEF IndexStores
  <1>6. \A n \in IndexStores(r) : v.stores[n] \in KVStore /\ v.stores[n] # None
    BY <1>1, <1>3, <1>5 DEF IndexStores, Stores, Existing
  <1> QED
    BY <1>1, <1>2, <1>4, <1>5, <1>6 DEF v, r

(* What commit leaves behind. *)
LEMMA CommitStep ==
    ASSUME RebuildInv, handle # None, NEW s, Commit(s),
           Valid(Committed(handle.version, handle.registry, s)),
           Existing(Committed(handle.version, handle.registry, s)) = Existing(handle.version)
    PROVE  RebuildInv'
  <1>1. /\ published' = Committed(handle.version, handle.registry, s)
        /\ handle' = None /\ UNCHANGED <<persistent, prepared, live, building, copied, asked>>
    BY DEF Commit, Committed
  <1>2. Valid(published')
    BY <1>1
  <1>3. persistent => Existing(published') = Existing(published)
    BY <1>1 DEF RebuildInv, HandleValid
  <1>4. TypeOK'
    BY <1>1, <1>2, <1>3, ExistingNext DEF RebuildInv, TypeOK, Valid
  <1>5. VersionsValid'
    BY <1>1, <1>2, VersionsNext DEF RebuildInv, VersionsValid
  <1>6. RegistriesValid'
    BY <1>1, <1>3, RegistriesNext DEF RebuildInv, RegistriesValid
  <1>7. HandleValid'
    BY <1>1 DEF HandleValid
  <1> QED
    BY <1>4, <1>5, <1>6, <1>7 DEF RebuildInv

(* insert, update and save. *)
LEMMA WriteStep ==
    ASSUME CodecKeepsKeys, RebuildInv, NEW op, NEW new \in Records, Write(op, new)
    PROVE  RebuildInv'
  <1> DEFINE v == handle.version
             r == handle.registry
             old == Found(Main(v), new.pk)
             s == [n \in StoreNames |->
                      IF n = MAIN_STORE THEN [Main(v) EXCEPT ![new.pk] = new]
                      ELSE IF n \in IndexStores(r) THEN IndexUpdate(IndexIn(r, n), v.stores[n], old, new)
                      ELSE v.stores[n]]
  <1>1. handle # None /\ Commit(s) /\ \A n \in IndexStores(r) : s[n] # None
    BY DEF Write, Found, Main
  <1>2. /\ Registers(r) /\ r \in SUBSET Registry /\ Valid(v)
        /\ Main(v) \in MainStores /\ Main(v) # None
        /\ \A n \in IndexStores(r) :
               n \in StoreNames /\ n # MAIN_STORE /\ v.stores[n] \in KVStore /\ v.stores[n] # None
    BY <1>1, InUse
  <1>3. \A i \in r : /\ Name[i] \in IndexStores(r)
                     /\ s[Name[i]] = IndexUpdate(i, v.stores[Name[i]], old, new)
    <2>1. \A i \in r : Name[i] \in IndexStores(r) /\ IndexIn(r, Name[i]) = i
      BY <1>2, IndexInIs DEF IndexStores
    <2> QED
      BY <1>2, <2>1
  <1>4. MAIN_STORE \in StoreNames /\ s[MAIN_STORE] = [Main(v) EXCEPT ![new.pk] = new]
    BY DEF StoreNames
  <1>5. DOMAIN s = StoreNames /\ \A n \in StoreNames \ ({MAIN_STORE} \union IndexStores(r)) : s[n] = v.stores[n]
    OBVIOUS
  <1>6. s = [n \in StoreNames |-> s[n]]
    OBVIOUS
  <1>7. v.stores \in [StoreNames -> KVStore \union {None}]
    BY <1>2, VersionParts
  <1> HIDE DEF s, old, v, r
  <1>8. s[MAIN_STORE] \in MainStores
    <2>1. new.pk \in Pks /\ new.pk \in Keys
      BY DEF Records, Keys
    <2>2. s[MAIN_STORE] \in KVStore
      BY <1>2, <1>4, <2>1 DEF MainStores, KVStore, Bytes
    <2>3. \A p \in Pks : s[MAIN_STORE][p] = IF p = new.pk THEN new ELSE Main(v)[p]
      BY <1>2, <1>4, <2>1 DEF MainStores, KVStore, Keys
    <2> QED
      BY <1>2, <2>2, <2>3 DEF MainStores
  <1>9. ASSUME NEW i \in r
        PROVE  /\ s[Name[i]] \in KVStore
               /\ SoundIn(i, v.stores[Name[i]], Main(v)) => SoundIn(i, s[Name[i]], s[MAIN_STORE])
               /\ SoundIn(i, v.stores[Name[i]], Main(v)) /\ FullIn(i, v.stores[Name[i]], Main(v))
                      => FullIn(i, s[Name[i]], s[MAIN_STORE])
    <2>1. s[Name[i]] # None /\ v.stores[Name[i]] \in KVStore /\ i \in Registry
      BY <1>1, <1>2, <1>3
    <2> QED
      BY <1>2, <1>3, <1>4, <2>1, UpdateKeeps DEF old
  <1>10. \A n \in IndexStores(r) : s[n] \in KVStore
    BY <1>9 DEF IndexStores
  <1>11. \A n \in StoreNames : s[n] \in KVStore \union {None} /\ (s[n] = None <=> v.stores[n] = None)
    BY <1>2, <1>5, <1>7, <1>8, <1>10, NameAssumption DEF MainStores, Main
  <1>12. s \in [StoreNames -> KVStore \union {None}]
    BY <1>6, <1>11
  <1>13. Valid(Committed(v, r, s)) /\ Existing(Committed(v, r, s)) = Existing(v)
    BY <1>2, <1>8, <1>9, <1>11, <1>12, CommittedValid
  <1> QED
    BY <1>1, <1>13, CommitStep DEF v, r

(* remove. *)
LEMMA RemoveStep ==
    ASSUME CodecKeepsKeys, RebuildInv, NEW pk \in Pks, Remove(pk)
    PROVE  RebuildInv'
  <1> DEFINE v == handle.version
             r == handle.registry
             old == Decode[Main(v)[pk]]
             s == [n \in StoreNames |->
                      IF n = MAIN_STORE THEN [Main(v) EXCEPT ![pk] = None]
                      ELSE IF n \in IndexStores(r) THEN IndexRemove(IndexIn(r, n), v.stores[n], old)
                      ELSE v.stores[n]]
  <1>1. handle # None /\ Commit(s) /\ Main(v)[pk] # None
    BY DEF Remove, Main
  <1>2. /\ Registers(r) /\ r \in SUBSET Registry /\ Valid(v)
        /\ Main(v) \in MainStores /\ Main(v) # None
        /\ \A n \in IndexStores(r) :
               n \in StoreNames /\ n # MAIN_STORE /\ v.stores[n] \in KVStore /\ v.stores[n] # None
    BY <1>1, InUse
  <1>3. \A i \in r : /\ Name[i] \in IndexStores(r)
                     /\ s[Name[i]] = IndexRemove(i, v.stores[Name[i]], old)
    <2>1. \A i \in r : Name[i] \in IndexStores(r) /\ IndexIn(r, Name[i]) = i
      BY <1>2, IndexInIs DEF IndexStores
    <2> QED
      BY <1>2, <2>1
  <1>4. MAIN_STORE \in StoreNames /\ s[MAIN_STORE] = [Main(v) EXCEPT ![pk] = None]
    BY DEF StoreNames
  <1>5. DOMAIN s = StoreNames /\ \A n \in StoreNames \ ({MAIN_STORE} \union IndexStores(r)) : s[n] = v.stores[n]
    OBVIOUS
  <1>6. s = [n \in StoreNames |-> s[n]]
    OBVIOUS
  <1>7. v.stores \in [StoreNames -> KVStore \union {None}]
    BY <1>2, VersionParts
  <1> HIDE DEF s, old, v, r
  <1>8. s[MAIN_STORE] \in MainStores
    <2>1. pk \in Keys
      BY DEF Keys
    <2>2. s[MAIN_STORE] \in KVStore
      BY <1>2, <1>4, <2>1 DEF MainStores, KVStore
    <2>3. \A p \in Pks : s[MAIN_STORE][p] = IF p = pk THEN None ELSE Main(v)[p]
      BY <1>2, <1>4, <2>1 DEF MainStores, KVStore, Keys
    <2> QED
      BY <1>2, <2>2, <2>3 DEF MainStores
  <1>9. ASSUME NEW i \in r
        PROVE  /\ s[Name[i]] \in KVStore
               /\ SoundIn(i, v.stores[Name[i]], Main(v)) => SoundIn(i, s[Name[i]], s[MAIN_STORE])
               /\ SoundIn(i, v.stores[Name[i]], Main(v)) /\ FullIn(i, v.stores[Name[i]], Main(v))
                      => FullIn(i, s[Name[i]], s[MAIN_STORE])
    <2>1. v.stores[Name[i]] \in KVStore /\ i \in Registry
      BY <1>2, <1>3
    <2> QED
      BY <1>1, <1>2, <1>3, <1>4, <2>1, RemoveKeeps DEF old
  <1>10. \A n \in IndexStores(r) : s[n] \in KVStore
    BY <1>9 DEF IndexStores
  <1>11. \A n \in StoreNames : s[n] \in KVStore \union {None} /\ (s[n] = None <=> v.stores[n] = None)
    BY <1>2, <1>5, <1>7, <1>8, <1>10, NameAssumption DEF MainStores, Main
  <1>12. s \in [StoreNames -> KVStore \union {None}]
    BY <1>6, <1>11
  <1>13. Valid(Committed(v, r, s)) /\ Existing(Committed(v, r, s)) = Existing(v)
    BY <1>2, <1>8, <1>9, <1>11, <1>12, CommittedValid
  <1> QED
    BY <1>1, <1>13, CommitStep DEF v, r

(* In memory a build takes a valid version, and publishes it whatever happened
   in between. *)
LEMMA PrepareReadStep ==
    ASSUME RebuildInv, NEW r \in SUBSET Registry, PrepareRead(r)
    PROVE  RebuildInv'
  <1>1. /\ ~persistent /\ Registers(r) /\ building' = {r} /\ copied' = Prepare(published, r)
        /\ UNCHANGED <<persistent, published, prepared, live, asked, handle>>
    BY DEF PrepareRead, MayBuild
  <1>2. Valid(Prepare(published, r))
    BY PrepareValid DEF RebuildInv, VersionsValid
  <1>3. TypeOK'
    BY <1>1, <1>2 DEF RebuildInv, TypeOK, Valid
  <1>4. VersionsValid'
    BY <1>1, <1>2, VersionsNext DEF RebuildInv, VersionsValid
  <1>5. RegistriesValid'
    BY <1>1, RegistriesNext DEF RebuildInv, RegistriesValid
  <1>6. HandleValid'
    BY <1>1, HandleNext DEF RebuildInv, HandleValid
  <1> QED
    BY <1>3, <1>4, <1>5, <1>6 DEF RebuildInv

LEMMA PrepareWriteStep ==
    ASSUME RebuildInv, NEW r \in building, PrepareWrite(r)
    PROVE  RebuildInv'
  <1>1. /\ ~persistent /\ published' = copied /\ copied' = None
        /\ prepared' = Stores(r) /\ live' = live \union {r} /\ building' = {}
        /\ UNCHANGED <<persistent, asked, handle>>
    BY DEF PrepareWrite
  <1>2. Valid(copied) /\ Stores(r) \subseteq StoreNames /\ r \in SUBSET Registry
    BY <1>1, StoresType DEF RebuildInv, VersionsValid, TypeOK
  <1>3. TypeOK'
    BY <1>1, <1>2 DEF RebuildInv, TypeOK, Valid
  <1>4. VersionsValid'
    BY <1>1, <1>2, VersionsNext
  <1>5. RegistriesValid'
    BY <1>1, RegistriesNext DEF RebuildInv, RegistriesValid
  <1>6. HandleValid'
    BY <1>1, HandleNext DEF RebuildInv, HandleValid
  <1> QED
    BY <1>3, <1>4, <1>5, <1>6 DEF RebuildInv

(* In redb a build finds no write handle when it creates the tables, and they
   are still there when it publishes the registry. *)
LEMMA PrepareTablesStep ==
    ASSUME RebuildInv, NEW r \in SUBSET Registry, PrepareTables(r)
    PROVE  RebuildInv'
  <1>1. /\ persistent /\ Registers(r) /\ handle = None
        /\ published' = Prepare(published, r) /\ building' = building \union {r}
        /\ UNCHANGED <<persistent, prepared, live, copied, asked, handle>>
    BY DEF PrepareTables, MayBuild
  <1>2. /\ Valid(published') /\ Stores(r) \subseteq Existing(published')
        /\ Existing(published) \subseteq Existing(published')
    BY <1>1, PrepareValid DEF RebuildInv, VersionsValid
  <1>3. TypeOK'
    BY <1>1, <1>2, ExistingNext DEF RebuildInv, TypeOK, Valid
  <1>4. VersionsValid'
    BY <1>1, <1>2, VersionsNext DEF RebuildInv, VersionsValid
  <1>5. RegistriesValid'
    BY <1>1, <1>2, RegistriesNext DEF RebuildInv, RegistriesValid
  <1>6. HandleValid'
    BY <1>1 DEF HandleValid
  <1> QED
    BY <1>3, <1>4, <1>5, <1>6 DEF RebuildInv

LEMMA PublishRegistryStep ==
    ASSUME RebuildInv, NEW r \in building, PublishRegistry(r)
    PROVE  RebuildInv'
  <1>1. /\ persistent /\ prepared' = Stores(r) /\ live' = live \union {r} /\ building' = building \ {r}
        /\ UNCHANGED <<persistent, published, copied, asked, handle>>
    BY DEF PublishRegistry
  <1>2. Stores(r) \subseteq Existing(published) /\ r \in SUBSET Registry /\ Stores(r) \subseteq StoreNames
    BY <1>1, StoresType DEF RebuildInv, RegistriesValid, TypeOK
  <1>3. TypeOK'
    BY <1>1, <1>2, ExistingNext DEF RebuildInv, TypeOK
  <1>4. VersionsValid'
    BY <1>1, VersionsNext DEF RebuildInv, VersionsValid
  <1>5. RegistriesValid'
    BY <1>1, RegistriesNext DEF RebuildInv, RegistriesValid
  <1>6. HandleValid'
    BY <1>1, HandleNext DEF RebuildInv, HandleValid
  <1> QED
    BY <1>3, <1>4, <1>5, <1>6 DEF RebuildInv

(* A write handle is opened on what is published. *)
LEMMA OpenCopyStep ==
    ASSUME RebuildInv, NEW r \in live, OpenCopy(r)
    PROVE  RebuildInv'
  <1>1. /\ ~persistent /\ Stores(r) \subseteq Existing(published)
        /\ handle' = [registry |-> r, version |-> published]
        /\ UNCHANGED <<persistent, published, prepared, live, building, copied, asked>>
    BY DEF OpenCopy, Handle
  <1>2. Registers(r) /\ Valid(published) /\ r \in SUBSET Registry
    BY DEF RebuildInv, RegistriesValid, VersionsValid, TypeOK
  <1>3. TypeOK'
    BY <1>1, <1>2, ExistingNext DEF RebuildInv, TypeOK
  <1>4. VersionsValid'
    BY <1>1, VersionsNext DEF RebuildInv, VersionsValid
  <1>5. RegistriesValid'
    BY <1>1, RegistriesNext DEF RebuildInv, RegistriesValid
  <1>6. HandleValid'
    BY <1>1, <1>2, HandleNext
  <1> QED
    BY <1>3, <1>4, <1>5, <1>6 DEF RebuildInv

LEMMA OpenTransactionStep ==
    ASSUME RebuildInv, NEW r \in asked, OpenTransaction(r)
    PROVE  RebuildInv'
  <1>1. /\ persistent /\ asked' = {}
        /\ handle' = [registry |-> r, version |-> published]
        /\ UNCHANGED <<persistent, published, prepared, live, building, copied>>
    BY DEF OpenTransaction, Handle
  <1>2. /\ Registers(r) /\ Valid(published) /\ r \in SUBSET Registry
        /\ Stores(r) \subseteq Existing(published)
    BY <1>1 DEF RebuildInv, RegistriesValid, VersionsValid, TypeOK
  <1>3. TypeOK'
    BY <1>1, <1>2, ExistingNext DEF RebuildInv, TypeOK
  <1>4. VersionsValid'
    BY <1>1, VersionsNext DEF RebuildInv, VersionsValid
  <1>5. RegistriesValid'
    BY <1>1, RegistriesNext DEF RebuildInv, RegistriesValid
  <1>6. HandleValid'
    BY <1>1, <1>2, HandleNext
  <1> QED
    BY <1>3, <1>4, <1>5, <1>6 DEF RebuildInv

(* What is published stays, no registry is new but to a write that found its
   stores listed, and the handle stays or goes. *)
LEMMA OtherStep ==
    ASSUME RebuildInv,
           \/ UNCHANGED vars \/ Reopen \/ DropWrite
           \/ \E r \in live : DropCollection(r) \/ AskTransaction(r)
    PROVE  RebuildInv'
  <1>1. /\ UNCHANGED <<persistent, published, copied>>
        /\ live' \subseteq live /\ building' \in {building, {}} /\ handle' \in {handle, None}
        /\ building' = building \/ persistent
        /\ prepared' \in {prepared, {}}
        /\ \A r \in asked' : r \in asked \/ (r \in live /\ persistent /\ Stores(r) \subseteq prepared)
    BY DEF vars, Reopen, DropWrite, DropCollection, AskTransaction
  <1>2. TypeOK'
    BY <1>1, ExistingNext DEF RebuildInv, TypeOK
  <1>3. VersionsValid'
    BY <1>1, VersionsNext DEF RebuildInv, VersionsValid
  <1>4. RegistriesValid'
    BY <1>1, RegistriesNext DEF RebuildInv, RegistriesValid, TypeOK
  <1>5. HandleValid'
    BY <1>1, HandleNext DEF RebuildInv, HandleValid
  <1> QED
    BY <1>2, <1>3, <1>4, <1>5 DEF RebuildInv

(* Every step of a program keeps the invariant. *)
LEMMA RebuildStep ==
    ASSUME CodecKeepsKeys, RebuildInv, [Next]_vars
    PROVE  RebuildInv'
  BY OtherStep, PrepareReadStep, PrepareWriteStep, PrepareTablesStep, PublishRegistryStep,
     OpenCopyStep, OpenTransactionStep, WriteStep, RemoveStep DEF Next

(* A program starts with no stores and no collections. *)
LEMMA RebuildInit ==
    Init => RebuildInv
  <1> SUFFICES ASSUME Init PROVE RebuildInv
    OBVIOUS
  <1>1. published \in Versions
    BY DEF Init, Versions
  <1>2. TypeOK
    BY <1>1 DEF Init, TypeOK
  <1>3. Valid(published)
    BY <1>1 DEF Init, Valid, Main, StoreNames
  <1>4. VersionsValid /\ RegistriesValid /\ HandleValid
    BY <1>3 DEF Init, VersionsValid, RegistriesValid, HandleValid
  <1> QED
    BY <1>2, <1>4 DEF RebuildInv

(* However builds, writes through older and newer collections, removals and
   restarts interleave, what a redb build lists exists, and what a write
   handle holds is a version. *)
THEOREM RebuildTypeCorrect ==
    CodecKeepsKeys => (Spec => []TypeOK)
  <1> SUFFICES ASSUME CodecKeepsKeys PROVE Spec => []TypeOK
    OBVIOUS
  <1>1. RebuildInv => TypeOK
    BY DEF RebuildInv
  <1> QED
    BY <1>1, RebuildInit, RebuildStep, PTL DEF Spec

(* A maintained index has no entry that leads nowhere, although it may have
   been registered when there were records already, and although builds fall
   between the opening of a write handle and its commit. *)
THEOREM IndexSoundHolds ==
    CodecKeepsKeys => (Spec => []IndexSound)
  <1> SUFFICES ASSUME CodecKeepsKeys PROVE Spec => []IndexSound
    OBVIOUS
  <1>1. RebuildInv => IndexSound
    BY DEF RebuildInv, VersionsValid, Valid, IndexSound
  <1> QED
    BY <1>1, RebuildInit, RebuildStep, PTL DEF Spec

(* An index that was there from the start stays exact, whatever other indexes
   are registered, dropped and registered again around it, and whatever a
   commit brings back. *)
THEOREM StableIndexExactHolds ==
    CodecKeepsKeys => (Spec => []StableIndexExact)
  <1> SUFFICES ASSUME CodecKeepsKeys PROVE Spec => []StableIndexExact
    OBVIOUS
  <1>1. RebuildInv => StableIndexExact
    BY DEF RebuildInv, VersionsValid, Valid, StableIndexExact
  <1> QED
    BY <1>1, RebuildInit, RebuildStep, PTL DEF Spec
===============================================================================
