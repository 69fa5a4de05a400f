--------------------------- MODULE CollectionProofs ---------------------------
(***************************************************************************)
(* Proofs about Collection, for any number of clients, keys, values and    *)
(* indexes of either kind.                                                 *)
(***************************************************************************)
EXTENDS Collection, TLAPS

-------------------------------------------------------------------------------
(* Facts about the schema *)

(* The arguments of insert, update, save and remove. *)
LEMMA WriteFields ==
    ASSUME NEW q \in WriteRequests
    PROVE  /\ q.pk \in Pks
           /\ q.op \in {"insert", "update", "save", "remove"}
           /\ q.op # "remove" => q.val \in Vals
  BY DEF WriteRequests

(* The arguments of the queries. *)
LEMMA QueryFields ==
    ASSUME NEW q \in QueryRequests
    PROVE  /\ q.op \in {"get", "scan", "index_get", "index_scan"}
           /\ q.op = "get" => q.pk \in Pks
           /\ q.op \in {"index_get", "index_scan"} => q.idx \in Registry
  BY SchemaAssumption DEF QueryRequests

(* Position 0 is the main store, every other store is an index. *)
LEMMA StorePositions ==
    /\ MAIN_STORE \in StoreNames
    /\ MAIN_STORE \notin Registry
    /\ Registry \subseteq StoreNames
    /\ \A s \in StoreNames : s = MAIN_STORE \/ s \in Registry
  BY SchemaAssumption DEF MAIN_STORE, StoreNames, Registry

(* A stored key is a physical key of an index store. *)
LEMMA StoreKeyType ==
    ASSUME NEW i \in Registry, NEW r \in Records, NEW p \in Pks
    PROVE  store_key(i, IndexKey[i][r], p) \in EntryKeys
  BY SchemaAssumption DEF store_key, EntryKeys

(* Stores of the namespace as functions. *)
LEMMA ContentsType ==
    ASSUME NEW s \in DB!Contents
    PROVE  /\ \A n \in StoreNames : s[n] \in [Keys -> Bytes \union {None}]
           /\ \A n \in StoreNames, kv \in [Keys -> Bytes \union {None}] :
                  [s EXCEPT ![n] = kv] \in DB!Contents
  BY DEF DB!Contents, DB!KVStore

-------------------------------------------------------------------------------
(* Types and handles *)

TypeHandle == TypeOK /\ HandleInv

(* Staging a well-formed store keeps a transaction's stores well formed. *)
LEMMA StageWellFormed ==
    ASSUME NEW s \in DB!Contents, WellFormed(s),
           NEW n \in StoreNames, NEW kv \in [Keys -> Bytes \union {None}],
           n = MAIN_STORE => \A p \in Pks : kv[p] # None => kv[p] \in Records /\ kv[p].pk = p,
           n \in Registry => \A sk \in EntryKeys : kv[sk] \in Pks \union {None}
    PROVE  [s EXCEPT ![n] = kv] \in DB!Contents /\ WellFormed([s EXCEPT ![n] = kv])
  <1>1. [s EXCEPT ![n] = kv] \in DB!Contents
    BY ContentsType
  <1>2. \A m \in StoreNames : [s EXCEPT ![n] = kv][m] = IF m = n THEN kv ELSE s[m]
    BY DEF DB!Contents
  <1> QED
    BY <1>1, <1>2, StorePositions DEF WellFormed

(* The effect of a backend step that stages store n as kv for client c. *)
LEMMA StageStep ==
    ASSUME TypeOK, NEW c \in Clients, NEW n, NEW kv, DB!Stage(c, n, kv)
    PROVE  /\ writer = c
           /\ staged' \in [Clients -> UNION {DB!Contents, {None}, {staged'[c]}}]
           /\ staged'[c] = [staged[c] EXCEPT ![n] = kv]
           /\ \A d \in Clients : d # c => staged'[d] = staged[d]
           /\ UNCHANGED <<committed, writer, snapshot>>
  BY DEF TypeOK, DB!Stage

(* A record built from the arguments of a request. *)
LEMMA NewRecordType ==
    ASSUME NEW c \in Clients, req[c] \in WriteRequests, req[c].op # "remove"
    PROVE  NewRecord(c) \in Records /\ NewRecord(c).pk = req[c].pk /\ NewRecord(c).val = req[c].val
  BY WriteFields DEF NewRecord, Records

(* What the main-store step finds in its transaction. *)
LEMMA StoredType ==
    ASSUME TypeHandle, NEW c \in Clients, pc[c] = "main"
    PROVE  /\ staged[c] \in DB!Contents
           /\ Stored(c) # None => Stored(c) \in Records /\ Stored(c).pk = req[c].pk
           /\ Found(c) \in Records \union {None}
           /\ Found(c) = None <=> Stored(c) = None
  <1>1. staged[c] \in DB!Contents
    BY DEF TypeHandle, TypeOK, HandleInv
  <1>2. req[c].pk \in Pks
    BY WriteFields DEF TypeHandle, HandleInv
  <1>3. Stored(c) # None => Stored(c) \in Records /\ Stored(c).pk = req[c].pk
    BY <1>2 DEF TypeHandle, HandleInv, WellFormed, Stored
  <1> QED
    BY <1>1, <1>3, SchemaAssumption DEF Found

(* The main-store step leaves the transaction typed and well formed. *)
LEMMA StageMainTyped ==
    ASSUME TypeHandle, NEW c \in Clients, pc[c] = "main",
           NEW v \in Records \union {None}, v # None => v.pk = req[c].pk,
           NEW o \in Records \union {None},
           StageMain(c, v, o)
    PROVE  TypeHandle'
  <1> DEFINE kv == [staged[c][MAIN_STORE] EXCEPT ![req[c].pk] = v]
  <1>1. /\ staged[c] \in DB!Contents /\ WellFormed(staged[c]) /\ writer = c
        /\ req[c] \in WriteRequests /\ req[c].pk \in Pks
    BY StoredType, WriteFields DEF TypeHandle, HandleInv
  <1>2. staged[c][MAIN_STORE] \in [Keys -> Bytes \union {None}]
    BY <1>1, ContentsType, StorePositions
  <1>3. kv \in [Keys -> Bytes \union {None}]
    BY <1>2 DEF Bytes
  <1>4. \A p \in Pks : kv[p] # None => kv[p] \in Records /\ kv[p].pk = p
    BY <1>1, <1>2 DEF WellFormed, Keys
  <1>5. staged'[c] \in DB!Contents /\ WellFormed(staged'[c])
    <2>1. DB!Stage(c, MAIN_STORE, kv)
      BY DEF StageMain
    <2>2. staged'[c] = [staged[c] EXCEPT ![MAIN_STORE] = kv]
      BY <2>1, StageStep DEF TypeHandle
    <2> HIDE DEF kv
    <2> QED
      BY <1>1, <1>3, <1>4, <2>2, StageWellFormed, StorePositions
  <1>6. staged' \in [Clients -> DB!Contents \union {None}]
    BY <1>5 DEF StageMain, DB!Stage, TypeHandle, TypeOK
  <1>7. TypeOK'
    BY <1>6, SchemaAssumption DEF TypeHandle, TypeOK, StageMain, DB!Stage, Steps
  <1>8. HandleInv'
    BY <1>1, <1>5, SchemaAssumption DEF TypeHandle, TypeOK, HandleInv, StageMain, DB!Stage
  <1> QED
    BY <1>7, <1>8 DEF TypeHandle

(* The stored keys of index maintenance are physical keys of the index. *)
LEMMA SkeyTypes ==
    ASSUME TypeHandle, NEW c \in Clients, pc[c] = "index", NEW i \in Registry,
           req[c].op # "remove"
    PROVE  /\ new_skey(i, c) \in EntryKeys
           /\ old[c] # None => old_skey(i, c) \in EntryKeys
  <1>1. req[c] \in WriteRequests /\ req[c].pk \in Pks /\ NewRecord(c) \in Records
    BY WriteFields, NewRecordType DEF TypeHandle, HandleInv
  <1>2. old[c] # None => old[c] \in Records
    BY DEF TypeHandle, TypeOK
  <1> QED
    BY <1>1, <1>2, StoreKeyType DEF new_skey, old_skey

(* An index store of the transaction, before and after its old entry is removed. *)
LEMMA ClearedType ==
    ASSUME TypeHandle, NEW c \in Clients, pc[c] = "index", NEW i \in Registry,
           req[c].op # "remove"
    PROVE  /\ staged[c][i] \in [Keys -> Bytes \union {None}]
           /\ Cleared(i, c) \in [Keys -> Bytes \union {None}]
           /\ \A sk \in EntryKeys : Cleared(i, c)[sk] \in Pks \union {None}
  <1>1. staged[c][i] \in [Keys -> Bytes \union {None}]
    BY ContentsType, StorePositions DEF TypeHandle, HandleInv
  <1>2. \A sk \in EntryKeys : staged[c][i][sk] \in Pks \union {None}
    BY DEF TypeHandle, HandleInv, WellFormed
  <1> QED
    BY <1>1, <1>2 DEF Cleared, Keys

(* An index step that stages index i leaves the transaction typed and well formed. *)
LEMMA StageIndexTyped ==
    ASSUME TypeHandle, NEW c \in Clients, pc[c] = "index", NEW i \in Registry, pos[c] = i,
           NEW kv \in [Keys -> Bytes \union {None}],
           \A sk \in EntryKeys : kv[sk] \in Pks \union {None},
           DB!Stage(c, i, kv), Advance(c)
    PROVE  TypeHandle'
  <1>1. /\ staged[c] \in DB!Contents /\ WellFormed(staged[c])
        /\ i \in StoreNames /\ i # MAIN_STORE
    BY StorePositions DEF TypeHandle, HandleInv
  <1>2. staged'[c] = [staged[c] EXCEPT ![i] = kv]
    BY StageStep DEF TypeHandle
  <1>3. staged'[c] \in DB!Contents /\ WellFormed(staged'[c])
    BY <1>1, <1>2, StageWellFormed
  <1>4. staged' \in [Clients -> DB!Contents \union {None}]
    BY <1>3 DEF DB!Stage, TypeHandle, TypeOK
  <1>5. pos' \in [Clients -> 1 .. NumIndexes + 1]
    BY SchemaAssumption DEF Advance, Registry, TypeHandle, TypeOK
  <1>6. TypeOK'
    BY <1>4, <1>5 DEF TypeHandle, TypeOK, DB!Stage, Advance
  <1>7. HandleInv'
    BY <1>3 DEF TypeHandle, TypeOK, HandleInv, DB!Stage, Advance
  <1> QED
    BY <1>6, <1>7 DEF TypeHandle

(* Dropping the transaction and replying. *)
LEMMA AbortTyped ==
    ASSUME TypeHandle, NEW c \in Clients, NEW r \in Replies, Abort(c, r)
    PROVE  TypeHandle'
  <1>1. TypeOK'
    BY SchemaAssumption DEF TypeHandle, TypeOK, Abort, Finish, DB!Drop, Steps
  <1>2. HandleInv'
    BY ClientsAssumption DEF TypeHandle, TypeOK, HandleInv, Abort, Finish, DB!Drop
  <1> QED
    BY <1>1, <1>2 DEF TypeHandle

(* Error replies and replies without records. *)
LEMMA ReplyTypes ==
    /\ \A e \in Errors : Err(e) \in Replies
    /\ \A rs \in SUBSET Records : Ok(rs) \in Replies
  BY DEF Replies, Ok, Err

(* A query answers with stored records. *)
LEMMA QueryResultType ==
    ASSUME NEW s \in DB!Contents, WellFormed(s), NEW q \in QueryRequests
    PROVE  QueryResult(q, s) \in Replies
  <1> DEFINE main == s[MAIN_STORE]
             hits == Hits(s[q.idx], q.keys)
             recs == {Decode[main[p]] : p \in {p \in hits : main[p] # None}}
  <1>1. \A p \in Pks : main[p] # None => Decode[main[p]] \in Records
    BY SchemaAssumption DEF WellFormed
  <1>2. q.op \in {"index_get", "index_scan"} => hits \subseteq Pks
    BY QueryFields DEF WellFormed, Hits
  <1>3. q.op \in {"index_get", "index_scan"} => recs \in SUBSET Records
    BY <1>1, <1>2
  <1>4. RecordsIn(main) \in SUBSET Records
    BY <1>1 DEF RecordsIn
  <1>5. Err("Unexpected") \in Replies
    BY ReplyTypes DEF Errors
  <1>6. CASE q.op = "get"
    <2>1. (IF main[q.pk] = None THEN {} ELSE {Decode[main[q.pk]]}) \in SUBSET Records
      BY <1>1, <1>6, QueryFields
    <2> QED
      BY <2>1, <1>6, ReplyTypes DEF QueryResult
  <1>7. CASE q.op = "scan"
    BY <1>4, <1>7, ReplyTypes DEF QueryResult
  <1>8. CASE q.op = "index_get"
    BY <1>3, <1>8, ReplyTypes DEF QueryResult
  <1>9. CASE q.op = "index_scan"
    BY <1>3, <1>5, <1>9, ReplyTypes DEF QueryResult
  <1> QED
    BY <1>6, <1>7, <1>8, <1>9, QueryFields

(* Every step of every client keeps the types and the handles right. *)
LEMMA TypeHandleStep ==
    ASSUME TypeHandle, [Next]_vars
    PROVE  TypeHandle'
  <1>1. ASSUME NEW c \in Clients, Call(c) PROVE TypeHandle'
    BY <1>1 DEF TypeHandle, TypeOK, HandleInv, Call, dbVars, Steps
  <1>2. ASSUME NEW c \in Clients, BeginWrite(c) PROVE TypeHandle'
    <2>1. TypeOK'
      BY <1>2 DEF TypeHandle, TypeOK, BeginWrite, DB!Write, Steps
    <2>2. HandleInv'
      BY <1>2, ClientsAssumption DEF TypeHandle, TypeOK, HandleInv, BeginWrite, DB!Write
    <2> QED
      BY <2>1, <2>2 DEF TypeHandle
  <1>3. ASSUME NEW c \in Clients, InsertMain(c) PROVE TypeHandle'
    <2>1. CASE Abort(c, Err("AlreadyExists"))
      BY <2>1, AbortTyped, ReplyTypes DEF Errors
    <2>2. CASE StageMain(c, NewRecord(c), None)
      <3>1. pc[c] = "main" /\ req[c].op # "remove" /\ req[c] \in WriteRequests
        BY <1>3 DEF InsertMain, TypeHandle, HandleInv
      <3> QED
        BY <2>2, <3>1, StageMainTyped, NewRecordType
    <2> QED
      BY <1>3, <2>1, <2>2 DEF InsertMain
  <1>4. ASSUME NEW c \in Clients, UpdateMain(c) PROVE TypeHandle'
    <2>1. CASE Abort(c, Err("NotFound"))
      BY <2>1, AbortTyped, ReplyTypes DEF Errors
    <2>2. CASE StageMain(c, NewRecord(c), Found(c))
      <3>1. pc[c] = "main" /\ req[c].op # "remove" /\ req[c] \in WriteRequests
        BY <1>4 DEF UpdateMain, TypeHandle, HandleInv
      <3> QED
        BY <2>2, <3>1, StageMainTyped, NewRecordType, StoredType
    <2> QED
      BY <1>4, <2>1, <2>2 DEF UpdateMain
  <1>5. ASSUME NEW c \in Clients, SaveMain(c) PROVE TypeHandle'
    <2>1. pc[c] = "main" /\ req[c].op # "remove" /\ req[c] \in WriteRequests
      BY <1>5 DEF SaveMain, TypeHandle, HandleInv
    <2> QED
      BY <1>5, <2>1, StageMainTyped, NewRecordType, StoredType DEF SaveMain
  <1>6. ASSUME NEW c \in Clients, RemoveMain(c) PROVE TypeHandle'
    <2>1. CASE Abort(c, Ok({}))
      BY <2>1, AbortTyped, ReplyTypes
    <2>2. CASE StageMain(c, None, Found(c))
      BY <1>6, <2>2, StageMainTyped, StoredType DEF RemoveMain
    <2> QED
      BY <1>6, <2>1, <2>2 DEF RemoveMain
  <1>7. ASSUME NEW c \in Clients, IndexUpdate(c) PROVE TypeHandle'
    <2> DEFINE i == pos[c]
               kv == [Cleared(i, c) EXCEPT ![new_skey(i, c)] = req[c].pk]
    <2>1. pc[c] = "index" /\ i \in Registry /\ req[c].op # "remove"
      BY <1>7 DEF IndexUpdate
    <2>2. CASE Advance(c) /\ UNCHANGED dbVars
      <3>1. pos' \in [Clients -> 1 .. NumIndexes + 1]
        BY <2>1, <2>2, SchemaAssumption DEF Advance, Registry, TypeHandle, TypeOK
      <3> QED
        BY <2>2, <3>1 DEF TypeHandle, TypeOK, HandleInv, Advance, dbVars
    <2>3. CASE Abort(c, Err("AlreadyExists"))
      BY <2>3, AbortTyped, ReplyTypes DEF Errors
    <2>4. CASE DB!Stage(c, i, kv) /\ Advance(c)
      <3>1. req[c].pk \in Pks
        BY <2>1, WriteFields DEF TypeHandle, HandleInv
      <3>2. kv \in [Keys -> Bytes \union {None}]
        BY <2>1, <3>1, ClearedType DEF Bytes
      <3>3. \A sk \in EntryKeys : kv[sk] \in Pks \union {None}
        BY <2>1, <3>1, ClearedType DEF Keys
      <3> HIDE DEF kv
      <3> QED
        BY <2>1, <2>4, <3>2, <3>3, StageIndexTyped
    <2> QED
      BY <1>7, <2>2, <2>3, <2>4 DEF IndexUpdate
  <1>8. ASSUME NEW c \in Clients, IndexRemove(c) PROVE TypeHandle'
    <2> DEFINE i == pos[c]
               skey == store_key(i, IndexKey[i][old[c]], old[c].pk)
               kv == [staged[c][i] EXCEPT ![skey] = None]
    <2>1. pc[c] = "index" /\ i \in Registry
      BY <1>8 DEF IndexRemove
    <2>2. staged[c][i] \in [Keys -> Bytes \union {None}]
      BY <2>1, ContentsType, StorePositions DEF TypeHandle, HandleInv
    <2>3. \A sk \in EntryKeys : staged[c][i][sk] \in Pks \union {None}
      BY <2>1 DEF TypeHandle, HandleInv, WellFormed
    <2> HIDE DEF skey
    <2>4. kv \in [Keys -> Bytes \union {None}]
      BY <2>2
    <2>5. \A sk \in EntryKeys : kv[sk] \in Pks \union {None}
      BY <2>2, <2>3 DEF Keys
    <2>6. DB!Stage(c, i, kv) /\ Advance(c)
      BY <1>8 DEF IndexRemove, skey
    <2> HIDE DEF kv
    <2> QED
      BY <2>1, <2>4, <2>5, <2>6, StageIndexTyped
  <1>9. ASSUME NEW c \in Clients, Commit(c) PROVE TypeHandle'
    <2>1. Ok({}) \in Replies
      BY ReplyTypes
    <2>2. /\ staged[c] \in DB!Contents /\ WellFormed(staged[c]) /\ committed' = staged[c]
          /\ \A d \in Clients : d # c => pc[d] \notin {"main", "index"}
      BY <1>9 DEF Commit, DB!Commit, TypeHandle, HandleInv
    <2>3. TypeOK'
      BY <1>9, <2>1, <2>2, SchemaAssumption DEF TypeHandle, TypeOK, Commit, Finish, DB!Commit, Steps
    <2>4. HandleInv'
      BY <1>9, <2>2, ClientsAssumption
         DEF TypeHandle, TypeOK, HandleInv, Commit, Finish, DB!Commit
    <2> QED
      BY <2>3, <2>4 DEF TypeHandle
  <1>10. ASSUME NEW c \in Clients, BeginRead(c) PROVE TypeHandle'
    <2>1. TypeOK'
      BY <1>10 DEF TypeHandle, TypeOK, BeginRead, DB!Read, Steps
    <2>2. HandleInv'
      BY <1>10 DEF TypeHandle, TypeOK, HandleInv, BeginRead, DB!Read
    <2> QED
      BY <2>1, <2>2 DEF TypeHandle
  <1>11. ASSUME NEW c \in Clients, NEW r \in Replies, pc[c] = "reading",
                DB!CloseRead(c), Finish(c, r)
         PROVE  TypeHandle'
    <2>1. TypeOK'
      BY <1>11, SchemaAssumption DEF TypeHandle, TypeOK, Finish, DB!CloseRead, Steps
    <2>2. HandleInv'
      BY <1>11 DEF TypeHandle, TypeOK, HandleInv, Finish, DB!CloseRead
    <2> QED
      BY <2>1, <2>2 DEF TypeHandle
  <1>12. ASSUME NEW c \in Clients, AnswerQuery(c) PROVE TypeHandle'
    <2>1. QueryResult(req[c], snapshot[c]) \in Replies
      BY <1>12, QueryResultType DEF AnswerQuery, TypeHandle, HandleInv
    <2> QED
      BY <1>11, <1>12, <2>1 DEF AnswerQuery
  <1>13. ASSUME NEW c \in Clients, Fail(c) PROVE TypeHandle'
    <2>1. Err("Backend") \in Replies /\ Err("Codec") \in Replies
      BY ReplyTypes DEF Errors
    <2>2. CASE pc[c] = "called" /\ Finish(c, Err("Backend")) /\ UNCHANGED dbVars
      BY <2>1, <2>2, SchemaAssumption DEF TypeHandle, TypeOK, HandleInv, Finish, dbVars, Steps
    <2>3. CASE Abort(c, Err("Backend")) \/ Abort(c, Err("Codec"))
      BY <2>1, <2>3, AbortTyped
    <2>4. CASE /\ pc[c] = "reading" /\ DB!CloseRead(c)
               /\ \E e \in {"Backend", "Codec"} : Finish(c, Err(e))
      BY <1>11, <2>1, <2>4
    <2> QED
      BY <1>13, <2>2, <2>3, <2>4 DEF Fail
  <1>14. ASSUME NEW c \in Clients, Return(c) PROVE TypeHandle'
    BY <1>14 DEF TypeHandle, TypeOK, HandleInv, Return, dbVars, Steps
  <1>15. CASE UNCHANGED vars
    BY <1>15 DEF TypeHandle, TypeOK, HandleInv, vars, dbVars
  <1> QED
    BY <1>1, <1>2, <1>3, <1>4, <1>5, <1>6, <1>7, <1>8, <1>9, <1>10, <1>12, <1>13, <1>14, <1>15
       DEF Next, WriteStep, ReadStep

(* The empty collection is typed and no handle is open. *)
LEMMA TypeHandleInit ==
    Init => TypeHandle
  <1> SUFFICES ASSUME Init PROVE TypeHandle
    OBVIOUS
  <1>1. committed \in DB!Contents /\ WellFormed(committed)
    BY StorePositions DEF Init, DB!Init, DB!Contents, DB!KVStore, WellFormed, Keys
  <1>2. 1 \in 1 .. NumIndexes + 1
    BY SchemaAssumption
  <1> QED
    BY <1>1, <1>2, ClientsAssumption DEF Init, DB!Init, TypeHandle, TypeOK, HandleInv, Steps

(* Every state of the collection is typed, whatever the user's codec does:
   operations only ever store records under their own keys and follow index
   entries to primary keys. *)
THEOREM TypeCorrect ==
    Spec => []TypeOK
  <1>1. Spec => []TypeHandle
    BY TypeHandleInit, TypeHandleStep, PTL DEF Spec
  <1>2. TypeHandle => TypeOK
    BY DEF TypeHandle
  <1> QED
    BY <1>1, <1>2, PTL

-------------------------------------------------------------------------------
(* Index maintenance on one index, as facts about functions.  `main' is the
   main store before the write, p the key being written and kv the index. *)

(* The stored key of the record that main holds under p. *)
SK(i, main, p) == store_key(i, IndexKey[i][main[p]], p)

(* Writing r under p with a new stored key nk: the old entry is removed (cl),
   the new key is free, the new entry is set (k2). *)
LEMMA UpdateAgrees ==
    ASSUME NEW i \in Registry, NEW main, NEW kv, Agrees(i, main, kv),
           \A q \in Pks : main[q] # None => main[q] \in Records,
           NEW p \in Pks, NEW r \in Records,
           NEW nk, nk = store_key(i, IndexKey[i][r], p),
           NEW m2, m2[p] = r, \A q \in Pks : q # p => m2[q] = main[q],
           NEW cl, cl[nk] = None,
           main[p] = None => cl = kv,
           main[p] # None =>
               /\ SK(i, main, p) # nk
               /\ cl[SK(i, main, p)] = None
               /\ \A sk \in EntryKeys : sk # SK(i, main, p) => cl[sk] = kv[sk],
           NEW k2, k2[nk] = p, \A sk \in EntryKeys : sk # nk => k2[sk] = cl[sk]
    PROVE  Agrees(i, m2, k2)
  <1>1. nk \in EntryKeys
    BY StoreKeyType
  <1>2. r # None /\ None \notin Pks
    BY SchemaAssumption
  <1>3. ASSUME NEW q \in Pks, q # p, main[q] # None PROVE SK(i, main, q) # nk
    <2>1. SK(i, main, q) \in EntryKeys
      BY <1>3, StoreKeyType DEF SK
    <2>2. kv[SK(i, main, q)] = q
      BY <1>3, <2>1 DEF Agrees, SK
    <2> QED
      BY <1>1, <1>2, <1>3, <2>1, <2>2
  <1>4. main[p] # None => SK(i, main, p) \in EntryKeys /\ kv[SK(i, main, p)] = p
    BY StoreKeyType DEF Agrees, SK
  <1>5. ASSUME NEW sk \in EntryKeys, NEW q \in Pks, q # p
        PROVE  k2[sk] = q <=> m2[q] # None /\ store_key(i, IndexKey[i][m2[q]], q) = sk
    <2>1. CASE sk = nk
      BY <1>3, <1>5, <2>1 DEF SK
    <2>2. CASE sk # nk
      <3>1. cl[sk] = q <=> kv[sk] = q
        BY <1>1, <1>2, <1>4, <1>5
      <3> QED
        BY <1>5, <2>2, <3>1 DEF Agrees
    <2> QED
      BY <2>1, <2>2
  <1>6. ASSUME NEW sk \in EntryKeys
        PROVE  k2[sk] = p <=> m2[p] # None /\ store_key(i, IndexKey[i][m2[p]], p) = sk
    <2>1. kv[sk] = p => main[p] # None /\ SK(i, main, p) = sk
      BY DEF Agrees, SK
    <2>2. sk # nk => k2[sk] # p
      BY <1>2, <1>4, <2>1
    <2> QED
      BY <1>2, <2>2
  <1> QED
    BY <1>5, <1>6 DEF Agrees

(* Writing r under p when its stored key is the old record's: the index is
   left alone. *)
LEMMA SameAgrees ==
    ASSUME NEW i \in Registry, NEW main, NEW kv, Agrees(i, main, kv),
           NEW p \in Pks, NEW r \in Records,
           main[p] # None,
           SK(i, main, p) = store_key(i, IndexKey[i][r], p),
           NEW m2, m2[p] = r, \A q \in Pks : q # p => m2[q] = main[q]
    PROVE  Agrees(i, m2, kv)
  <1>1. r # None
    BY SchemaAssumption
  <1> QED
    BY <1>1 DEF Agrees, SK

(* Removing the record under p and its entry. *)
LEMMA RemoveAgrees ==
    ASSUME NEW i \in Registry, NEW main, NEW kv, Agrees(i, main, kv),
           NEW p \in Pks, main[p] # None, main[p] \in Records,
           NEW m2, m2[p] = None, \A q \in Pks : q # p => m2[q] = main[q],
           NEW k2, k2[SK(i, main, p)] = None,
           \A sk \in EntryKeys : sk # SK(i, main, p) => k2[sk] = kv[sk]
    PROVE  Agrees(i, m2, k2)
  <1> DEFINE ok == SK(i, main, p)
  <1>1. ok \in EntryKeys
    BY StoreKeyType DEF SK
  <1>2. kv[ok] = p
    BY <1>1 DEF Agrees, SK
  <1>3. None \notin Pks
    BY SchemaAssumption
  <1>4. \A sk \in EntryKeys : kv[sk] = p => sk = ok
    BY DEF Agrees, SK
  <1>5. k2[ok] = None /\ \A sk \in EntryKeys : sk # ok => k2[sk] = kv[sk]
    OBVIOUS
  <1> HIDE DEF ok
  <1> QED
    BY <1>1, <1>2, <1>3, <1>4, <1>5 DEF Agrees

-------------------------------------------------------------------------------
(* The invariant of transactions *)

(* TransactionInv after a step of c that publishes nothing: only c's own
   transaction and snapshot have to be looked at. *)
LEMMA Frame ==
    ASSUME TransactionInv, TypeHandle', NEW c \in Clients,
           committed' = committed,
           \A d \in Clients : d # c =>
               /\ pc'[d] = pc[d] /\ req'[d] = req[d] /\ old'[d] = old[d] /\ pos'[d] = pos[d]
               /\ staged'[d] = staged[d] /\ snapshot'[d] = snapshot[d],
           pc'[c] = "main" => staged'[c] = committed,
           pc'[c] = "index" => MidTransaction(c)',
           snapshot'[c] # None => AllAgree(snapshot'[c])
    PROVE  TransactionInv'
  <1>1. ASSUME NEW d \in Clients, d # c, MidTransaction(d) PROVE MidTransaction(d)'
    <2>1. /\ pc'[d] = pc[d] /\ req'[d] = req[d] /\ old'[d] = old[d] /\ pos'[d] = pos[d]
          /\ staged'[d] = staged[d] /\ committed' = committed
      BY <1>1
    <2> QED
      BY <1>1, <2>1 DEF MidTransaction, NewRecord
  <1>2. \A d \in Clients : /\ pc'[d] = "main" => staged'[d] = committed'
                           /\ pc'[d] = "index" => MidTransaction(d)'
    BY <1>1 DEF TransactionInv
  <1>3. IndexConsistent'
    BY DEF TransactionInv, IndexConsistent, AllAgree, Agrees
  <1> QED
    BY <1>2, <1>3 DEF TransactionInv, TypeHandle

(* A step that ends c's operation without publishing. *)
LEMMA EndFrame ==
    ASSUME TransactionInv, TypeHandle, TypeHandle', NEW c \in Clients,
           NEW r, Finish(c, r),
           \/ DB!Drop(c)
           \/ DB!CloseRead(c)
           \/ UNCHANGED dbVars
    PROVE  TransactionInv'
  <1>1. committed' = committed
    BY DEF DB!Drop, DB!CloseRead, dbVars
  <1>2. pc'[c] = "replied"
    BY DEF Finish, TypeHandle, TypeOK
  <1>3. snapshot'[c] = None
    BY <1>2 DEF TypeHandle, HandleInv
  <1>4. \A d \in Clients : d # c =>
            /\ pc'[d] = pc[d] /\ req'[d] = req[d] /\ old'[d] = old[d] /\ pos'[d] = pos[d]
            /\ staged'[d] = staged[d] /\ snapshot'[d] = snapshot[d]
    BY DEF Finish, DB!Drop, DB!CloseRead, dbVars, TypeHandle, TypeOK
  <1> QED
    BY <1>1, <1>2, <1>3, <1>4, Frame

(* The main-store step starts index maintenance with every index untouched. *)
LEMMA StageMainMid ==
    ASSUME TransactionInv, TypeHandle, TypeHandle', NEW c \in Clients, pc[c] = "main",
           NEW v, NEW o, StageMain(c, v, o),
           o = Found(c) \/ (o = None /\ Stored(c) = None),
           req[c].op = "insert" => Stored(c) = None,
           req[c].op \in {"update", "remove"} => Stored(c) # None,
           v = IF req[c].op = "remove" THEN None ELSE NewRecord(c)
    PROVE  TransactionInv'
  <1>1. /\ staged[c] = committed /\ committed \in DB!Contents
        /\ req[c].pk \in Pks
    BY WriteFields DEF TransactionInv, TypeHandle, TypeOK, HandleInv
  <1>2. /\ pc'[c] = "index" /\ req'[c] = req[c] /\ old'[c] = o /\ pos'[c] = 1
        /\ committed' = committed /\ snapshot'[c] = snapshot[c]
        /\ staged'[c] = [committed EXCEPT
                ![MAIN_STORE] = [committed[MAIN_STORE] EXCEPT ![req[c].pk] = v]]
    BY <1>1 DEF StageMain, DB!Stage, TypeHandle, TypeOK
  <1>3. /\ staged'[c][MAIN_STORE] = [committed[MAIN_STORE] EXCEPT ![req[c].pk] = v]
        /\ \A i \in Registry : staged'[c][i] = committed[i]
    BY <1>1, <1>2, StorePositions DEF DB!Contents
  <1>4. \A i \in Registry : ~(i < 1)
    BY SchemaAssumption DEF Registry
  <1>5. Stored(c) = committed[MAIN_STORE][req[c].pk]
    BY <1>1 DEF Stored
  <1>6. MidTransaction(c)'
    BY <1>2, <1>3, <1>4, <1>5 DEF MidTransaction, Found, NewRecord
  <1>7. snapshot'[c] # None => AllAgree(snapshot'[c])
    BY <1>2 DEF TransactionInv, IndexConsistent
  <1>8. \A d \in Clients : d # c =>
            /\ pc'[d] = pc[d] /\ req'[d] = req[d] /\ old'[d] = old[d] /\ pos'[d] = pos[d]
            /\ staged'[d] = staged[d] /\ snapshot'[d] = snapshot[d]
    BY DEF StageMain, DB!Stage, TypeHandle, TypeOK
  <1> QED
    BY <1>2, <1>6, <1>7, <1>8, Frame

(* An index step that brings index pos[c] up to date with the staged main
   store moves the transaction on. *)
LEMMA IndexStepMid ==
    ASSUME TransactionInv, TypeHandle, TypeHandle', NEW c \in Clients, pc[c] = "index",
           NEW i \in Registry, pos[c] = i, Advance(c),
           committed' = committed, snapshot' = snapshot,
           NEW kv,
           staged' = [staged EXCEPT ![c] = [staged[c] EXCEPT ![i] = kv]],
           Agrees(i, staged[c][MAIN_STORE], kv)
    PROVE  TransactionInv'
  <1>1. MidTransaction(c) /\ staged[c] \in DB!Contents
    BY DEF TransactionInv, TypeHandle, HandleInv
  <1>2. /\ pc'[c] = "index" /\ req'[c] = req[c] /\ old'[c] = old[c] /\ pos'[c] = i + 1
        /\ staged'[c] = [staged[c] EXCEPT ![i] = kv]
    BY DEF Advance, TypeHandle, TypeOK
  <1>3. /\ staged'[c][MAIN_STORE] = staged[c][MAIN_STORE]
        /\ staged'[c][i] = kv
        /\ \A j \in Registry : j # i => staged'[c][j] = staged[c][j]
    BY <1>1, <1>2, StorePositions DEF DB!Contents
  <1>4. \A j \in Registry : IF j < i + 1 THEN Agrees(j, staged'[c][MAIN_STORE], staged'[c][j])
                                         ELSE staged'[c][j] = committed[j]
    <2> SUFFICES ASSUME NEW j \in Registry
                 PROVE  IF j < i + 1 THEN Agrees(j, staged'[c][MAIN_STORE], staged'[c][j])
                                     ELSE staged'[c][j] = committed[j]
      OBVIOUS
    <2>1. i \in Nat /\ j \in Nat
      BY SchemaAssumption DEF Registry
    <2>2. IF j < i THEN Agrees(j, staged[c][MAIN_STORE], staged[c][j])
                   ELSE staged[c][j] = committed[j]
      BY <1>1 DEF MidTransaction
    <2> QED
      BY <1>3, <2>1, <2>2
  <1>5. MidTransaction(c)'
    BY <1>1, <1>2, <1>3, <1>4 DEF MidTransaction, NewRecord
  <1>6. snapshot'[c] # None => AllAgree(snapshot'[c])
    BY DEF TransactionInv, IndexConsistent
  <1>7. \A d \in Clients : d # c =>
            /\ pc'[d] = pc[d] /\ req'[d] = req[d] /\ old'[d] = old[d] /\ pos'[d] = pos[d]
            /\ staged'[d] = staged[d] /\ snapshot'[d] = snapshot[d]
    BY DEF Advance, TypeHandle, TypeOK
  <1> QED
    BY <1>2, <1>5, <1>6, <1>7, Frame

(* What an index step knows: the published stores agree, index pos[c] is still
   the published one, and the decoded old record has the published record's
   stored key. *)
LEMMA IndexStepFacts ==
    ASSUME CodecKeepsKeys, TransactionInv, TypeHandle, NEW c \in Clients, pc[c] = "index",
           NEW i \in Registry, pos[c] = i
    PROVE  /\ committed[MAIN_STORE] \in [Keys -> Bytes \union {None}]
           /\ staged[c][i] = committed[i]
           /\ committed[i] \in [Keys -> Bytes \union {None}]
           /\ Agrees(i, committed[MAIN_STORE], committed[i])
           /\ req[c] \in WriteRequests /\ req[c].pk \in Pks
           /\ staged[c][MAIN_STORE] = [committed[MAIN_STORE] EXCEPT ![req[c].pk] =
                  IF req[c].op = "remove" THEN None ELSE NewRecord(c)]
           /\ \A p \in Pks : committed[MAIN_STORE][p] # None => committed[MAIN_STORE][p] \in Records
           /\ old[c] = None <=> committed[MAIN_STORE][req[c].pk] = None
           /\ old[c] # None =>
                  /\ old[c].pk = req[c].pk
                  /\ old_skey(i, c) = SK(i, committed[MAIN_STORE], req[c].pk)
           /\ req[c].op = "remove" => old[c] # None
  <1>1. MidTransaction(c) /\ WellFormed(committed) /\ AllAgree(committed)
    BY DEF TransactionInv, HandleInv, IndexConsistent
  <1>2. req[c] \in WriteRequests /\ req[c].pk \in Pks
    BY WriteFields DEF TypeHandle, HandleInv
  <1>3. /\ committed[MAIN_STORE] \in [Keys -> Bytes \union {None}]
        /\ committed[i] \in [Keys -> Bytes \union {None}]
    BY ContentsType, StorePositions DEF TypeHandle, TypeOK
  <1>4. staged[c][i] = committed[i]
    <2>1. ~(i < i)
      BY SchemaAssumption DEF Registry
    <2> QED
      BY <1>1, <2>1 DEF MidTransaction
  <1>5. Agrees(i, committed[MAIN_STORE], committed[i])
    BY <1>1 DEF AllAgree
  <1>6. \A p \in Pks : committed[MAIN_STORE][p] # None =>
            committed[MAIN_STORE][p] \in Records /\ committed[MAIN_STORE][p].pk = p
    BY <1>1 DEF WellFormed
  <1>7. /\ staged[c][MAIN_STORE] = [committed[MAIN_STORE] EXCEPT ![req[c].pk] =
               IF req[c].op = "remove" THEN None ELSE NewRecord(c)]
        /\ old[c] = IF committed[MAIN_STORE][req[c].pk] = None THEN None
                    ELSE Decode[committed[MAIN_STORE][req[c].pk]]
        /\ req[c].op = "remove" => committed[MAIN_STORE][req[c].pk] # None
    BY <1>1 DEF MidTransaction
  <1>8. old[c] = None <=> committed[MAIN_STORE][req[c].pk] = None
    BY <1>2, <1>6, <1>7, SchemaAssumption
  <1>9. old[c] # None =>
            /\ old[c].pk = req[c].pk
            /\ old_skey(i, c) = SK(i, committed[MAIN_STORE], req[c].pk)
    <2> SUFFICES ASSUME old[c] # None
                 PROVE  /\ old[c].pk = req[c].pk
                        /\ old_skey(i, c) = SK(i, committed[MAIN_STORE], req[c].pk)
      OBVIOUS
    <2> DEFINE r == committed[MAIN_STORE][req[c].pk]
    <2>1. r \in Records /\ r.pk = req[c].pk /\ old[c] = Decode[r]
      BY <1>2, <1>6, <1>7, <1>8
    <2>2. old[c].pk = r.pk /\ IndexKey[i][old[c]] = IndexKey[i][r]
      BY <2>1 DEF CodecKeepsKeys
    <2> QED
      BY <2>1, <2>2 DEF old_skey, SK
  <1> QED
    BY <1>2, <1>3, <1>4, <1>5, <1>6, <1>7, <1>8, <1>9

(* Index::update keeps TransactionInv. *)
LEMMA IndexUpdateStep ==
    ASSUME CodecKeepsKeys, TransactionInv, TypeHandle, TypeHandle',
           NEW c \in Clients, IndexUpdate(c)
    PROVE  TransactionInv'
  <1> DEFINE i == pos[c]
             main == committed[MAIN_STORE]
             p == req[c].pk
             r == NewRecord(c)
             kv == [Cleared(i, c) EXCEPT ![new_skey(i, c)] = p]
  <1>1. pc[c] = "index" /\ i \in Registry /\ req[c].op # "remove"
    BY DEF IndexUpdate
  <1>2. /\ main \in [Keys -> Bytes \union {None}]
        /\ staged[c][i] = committed[i]
        /\ committed[i] \in [Keys -> Bytes \union {None}]
        /\ Agrees(i, main, committed[i])
        /\ req[c] \in WriteRequests /\ p \in Pks
        /\ staged[c][MAIN_STORE] = [main EXCEPT ![p] = r]
        /\ \A q \in Pks : main[q] # None => main[q] \in Records
        /\ old[c] = None <=> main[p] = None
        /\ old[c] # None => old_skey(i, c) = SK(i, main, p)
    BY <1>1, IndexStepFacts
  <1>3. r \in Records
    BY <1>1, <1>2, NewRecordType
  <1>4. new_skey(i, c) = store_key(i, IndexKey[i][r], p)
    BY DEF new_skey
  <1> DEFINE m2 == staged[c][MAIN_STORE]
  <1>5. m2[p] = r /\ \A q \in Pks : q # p => m2[q] = main[q]
    BY <1>2 DEF Keys
  <1> HIDE DEF i, main, p, r, m2
  <1>6. CASE SameEntry(i, c) /\ Advance(c) /\ UNCHANGED dbVars
    <2>1. main[p] # None /\ SK(i, main, p) = store_key(i, IndexKey[i][r], p)
      BY <1>2, <1>4, <1>6 DEF SameEntry
    <2>2. Agrees(i, m2, committed[i])
      BY <1>1, <1>2, <1>3, <1>5, <2>1, SameAgrees
    <2>3. staged' = [staged EXCEPT ![c] = [staged[c] EXCEPT ![i] = staged[c][i]]]
      BY <1>1, <1>6, StorePositions DEF dbVars, TypeHandle, TypeOK, HandleInv, DB!Contents
    <2>4. committed' = committed /\ snapshot' = snapshot /\ pos[c] = i
      BY <1>6 DEF dbVars, i
    <2> QED
      BY <1>1, <1>2, <1>6, <2>2, <2>3, <2>4, IndexStepMid DEF m2
  <1>7. CASE Abort(c, Err("AlreadyExists"))
    BY <1>7, EndFrame DEF Abort
  <1>8. CASE /\ ~SameEntry(i, c) /\ Cleared(i, c)[new_skey(i, c)] = None
             /\ DB!Stage(c, i, kv) /\ Advance(c)
    <2>1. Cleared(i, c) \in [Keys -> Bytes \union {None}]
      BY <1>1, ClearedType
    <2>2. main[p] = None => Cleared(i, c) = committed[i]
      BY <1>2 DEF Cleared
    <2>3. main[p] # None =>
            /\ SK(i, main, p) # new_skey(i, c)
            /\ Cleared(i, c)[SK(i, main, p)] = None
            /\ \A sk \in EntryKeys : sk # SK(i, main, p) => Cleared(i, c)[sk] = committed[i][sk]
      <3> SUFFICES ASSUME main[p] # None
                   PROVE  /\ SK(i, main, p) # new_skey(i, c)
                          /\ Cleared(i, c)[SK(i, main, p)] = None
                          /\ \A sk \in EntryKeys :
                                sk # SK(i, main, p) => Cleared(i, c)[sk] = committed[i][sk]
        OBVIOUS
      <3>1. Cleared(i, c) = [committed[i] EXCEPT ![SK(i, main, p)] = None]
        BY <1>2 DEF Cleared
      <3>2. SK(i, main, p) \in EntryKeys
        BY <1>1, <1>2, StoreKeyType DEF SK
      <3> QED
        BY <1>2, <1>8, <3>1, <3>2 DEF SameEntry, Keys
    <2>4. /\ kv[new_skey(i, c)] = p
          /\ \A sk \in EntryKeys : sk # new_skey(i, c) => kv[sk] = Cleared(i, c)[sk]
      BY <1>1, <1>2, <1>3, <1>4, <2>1, StoreKeyType DEF Keys
    <2> HIDE DEF kv
    <2>5. Agrees(i, m2, kv)
      BY <1>1, <1>2, <1>3, <1>4, <1>8, <1>5, <2>2, <2>3, <2>4, UpdateAgrees
    <2>6. /\ committed' = committed /\ snapshot' = snapshot /\ pos[c] = i
          /\ staged' = [staged EXCEPT ![c] = [staged[c] EXCEPT ![i] = kv]]
      BY <1>8 DEF DB!Stage, i
    <2> QED
      BY <1>1, <1>8, <2>5, <2>6, IndexStepMid DEF m2
  <1> QED
    BY <1>6, <1>7, <1>8 DEF IndexUpdate, i, p

(* Index::remove keeps TransactionInv. *)
LEMMA IndexRemoveStep ==
    ASSUME CodecKeepsKeys, TransactionInv, TypeHandle, TypeHandle',
           NEW c \in Clients, IndexRemove(c)
    PROVE  TransactionInv'
  <1> DEFINE i == pos[c]
             main == committed[MAIN_STORE]
             p == req[c].pk
             kv == [staged[c][i] EXCEPT ![SK(i, main, p)] = None]
  <1>1. pc[c] = "index" /\ i \in Registry /\ req[c].op = "remove"
    BY DEF IndexRemove
  <1>2. /\ main \in [Keys -> Bytes \union {None}]
        /\ staged[c][i] = committed[i]
        /\ committed[i] \in [Keys -> Bytes \union {None}]
        /\ Agrees(i, main, committed[i])
        /\ p \in Pks
        /\ staged[c][MAIN_STORE] = [main EXCEPT ![p] = None]
        /\ main[p] # None /\ main[p] \in Records
        /\ old[c].pk = p
        /\ old_skey(i, c) = SK(i, main, p)
    BY <1>1, IndexStepFacts
  <1>3. store_key(i, IndexKey[i][old[c]], old[c].pk) = SK(i, main, p)
    BY <1>2 DEF old_skey
  <1>4. DB!Stage(c, i, kv) /\ Advance(c)
    BY <1>3 DEF IndexRemove
  <1> DEFINE m2 == staged[c][MAIN_STORE]
  <1>5. m2[p] = None /\ \A q \in Pks : q # p => m2[q] = main[q]
    BY <1>2 DEF Keys
  <1> HIDE DEF main, p, m2
  <1>6. /\ kv[SK(i, main, p)] = None
        /\ \A sk \in EntryKeys : sk # SK(i, main, p) => kv[sk] = committed[i][sk]
    <2>1. SK(i, main, p) \in EntryKeys
      BY <1>1, <1>2, StoreKeyType DEF SK
    <2> QED
      BY <1>2, <2>1 DEF Keys
  <1> HIDE DEF kv
  <1>7. Agrees(i, m2, kv)
    BY <1>1, <1>2, <1>5, <1>6, RemoveAgrees
  <1>8. /\ committed' = committed /\ snapshot' = snapshot
        /\ staged' = [staged EXCEPT ![c] = [staged[c] EXCEPT ![i] = kv]]
    BY <1>4 DEF DB!Stage
  <1> QED
    BY <1>1, <1>4, <1>7, <1>8, IndexStepMid DEF m2

(* Committing after the last index publishes stores that agree. *)
LEMMA CommitStep ==
    ASSUME TransactionInv, TypeHandle, TypeHandle', NEW c \in Clients, Commit(c)
    PROVE  TransactionInv'
  <1>1. /\ MidTransaction(c) /\ pos[c] > NumIndexes
        /\ committed' = staged[c] /\ snapshot' = snapshot
    BY DEF Commit, DB!Commit, TransactionInv
  <1>2. \A i \in Registry : i < pos[c]
    BY <1>1, SchemaAssumption DEF Registry, TypeHandle, TypeOK
  <1>3. AllAgree(staged[c])
    BY <1>1, <1>2 DEF MidTransaction, AllAgree
  <1>4. IndexConsistent'
    <2>1. AllAgree(committed')
      BY <1>1, <1>3
    <2>2. \A d \in Clients : snapshot'[d] # None => AllAgree(snapshot'[d])
      BY <1>1 DEF TransactionInv, IndexConsistent
    <2> QED
      BY <2>1, <2>2 DEF IndexConsistent
  <1>5. \A d \in Clients : pc'[d] \notin {"main", "index"}
    BY ClientsAssumption DEF Commit, DB!Commit, TypeHandle, HandleInv
  <1> QED
    BY <1>4, <1>5 DEF TransactionInv, TypeHandle

(* Every step of every client keeps TransactionInv. *)
LEMMA TransactionStep ==
    ASSUME CodecKeepsKeys, TypeHandle, TransactionInv, [Next]_vars
    PROVE  TransactionInv'
  <1>0. TypeHandle'
    BY TypeHandleStep
  <1>1. ASSUME NEW c \in Clients, Call(c) PROVE TransactionInv'
    <2>1. pc'[c] = "called" /\ committed' = committed /\ snapshot'[c] = snapshot[c]
      BY <1>1 DEF Call, dbVars, TypeHandle, TypeOK
    <2>2. \A d \in Clients : d # c =>
            /\ pc'[d] = pc[d] /\ req'[d] = req[d] /\ old'[d] = old[d] /\ pos'[d] = pos[d]
            /\ staged'[d] = staged[d] /\ snapshot'[d] = snapshot[d]
      BY <1>1 DEF Call, dbVars, TypeHandle, TypeOK
    <2> QED
      BY <1>0, <2>1, <2>2, Frame DEF TransactionInv, IndexConsistent
  <1>2. ASSUME NEW c \in Clients, BeginWrite(c) PROVE TransactionInv'
    <2>1. /\ pc'[c] = "main" /\ committed' = committed /\ staged'[c] = committed
          /\ snapshot'[c] = snapshot[c]
      BY <1>2 DEF BeginWrite, DB!Write, TypeHandle, TypeOK
    <2>2. \A d \in Clients : d # c =>
            /\ pc'[d] = pc[d] /\ req'[d] = req[d] /\ old'[d] = old[d] /\ pos'[d] = pos[d]
            /\ staged'[d] = staged[d] /\ snapshot'[d] = snapshot[d]
      BY <1>2 DEF BeginWrite, DB!Write, TypeHandle, TypeOK
    <2> QED
      BY <1>0, <2>1, <2>2, Frame DEF TransactionInv, IndexConsistent
  <1>3. ASSUME NEW c \in Clients, InsertMain(c) PROVE TransactionInv'
    <2>1. CASE Abort(c, Err("AlreadyExists"))
      BY <1>0, <2>1, EndFrame DEF Abort
    <2>2. CASE Stored(c) = None /\ StageMain(c, NewRecord(c), None)
      BY <1>0, <1>3, <2>2, StageMainMid DEF InsertMain
    <2> QED
      BY <1>3, <2>1, <2>2 DEF InsertMain
  <1>4. ASSUME NEW c \in Clients, UpdateMain(c) PROVE TransactionInv'
    <2>1. CASE Abort(c, Err("NotFound"))
      BY <1>0, <2>1, EndFrame DEF Abort
    <2>2. CASE Stored(c) # None /\ StageMain(c, NewRecord(c), Found(c))
      BY <1>0, <1>4, <2>2, StageMainMid DEF UpdateMain
    <2> QED
      BY <1>4, <2>1, <2>2 DEF UpdateMain
  <1>5. ASSUME NEW c \in Clients, SaveMain(c) PROVE TransactionInv'
    BY <1>0, <1>5, StageMainMid DEF SaveMain
  <1>6. ASSUME NEW c \in Clients, RemoveMain(c) PROVE TransactionInv'
    <2>1. CASE Abort(c, Ok({}))
      BY <1>0, <2>1, EndFrame DEF Abort
    <2>2. CASE Stored(c) # None /\ StageMain(c, None, Found(c))
      BY <1>0, <1>6, <2>2, StageMainMid DEF RemoveMain
    <2> QED
      BY <1>6, <2>1, <2>2 DEF RemoveMain
  <1>7. ASSUME NEW c \in Clients, IndexUpdate(c) PROVE TransactionInv'
    BY <1>0, <1>7, IndexUpdateStep
  <1>8. ASSUME NEW c \in Clients, IndexRemove(c) PROVE TransactionInv'
    BY <1>0, <1>8, IndexRemoveStep
  <1>9. ASSUME NEW c \in Clients, Commit(c) PROVE TransactionInv'
    BY <1>0, <1>9, CommitStep
  <1>10. ASSUME NEW c \in Clients, BeginRead(c) PROVE TransactionInv'
    <2>1. pc'[c] = "reading" /\ committed' = committed /\ snapshot'[c] = committed
      BY <1>10 DEF BeginRead, DB!Read, TypeHandle, TypeOK
    <2>2. \A d \in Clients : d # c =>
            /\ pc'[d] = pc[d] /\ req'[d] = req[d] /\ old'[d] = old[d] /\ pos'[d] = pos[d]
            /\ staged'[d] = staged[d] /\ snapshot'[d] = snapshot[d]
      BY <1>10 DEF BeginRead, DB!Read, TypeHandle, TypeOK
    <2> QED
      BY <1>0, <2>1, <2>2, Frame DEF TransactionInv, IndexConsistent
  <1>11. ASSUME NEW c \in Clients, AnswerQuery(c) PROVE TransactionInv'
    BY <1>0, <1>11, EndFrame DEF AnswerQuery
  <1>12. ASSUME NEW c \in Clients, Fail(c) PROVE TransactionInv'
    BY <1>0, <1>12, EndFrame DEF Fail, Abort
  <1>13. ASSUME NEW c \in Clients, Return(c) PROVE TransactionInv'
    <2>1. pc'[c] = "idle" /\ committed' = committed /\ snapshot'[c] = snapshot[c]
      BY <1>13 DEF Return, dbVars, TypeHandle, TypeOK
    <2>2. \A d \in Clients : d # c =>
            /\ pc'[d] = pc[d] /\ req'[d] = req[d] /\ old'[d] = old[d] /\ pos'[d] = pos[d]
            /\ staged'[d] = staged[d] /\ snapshot'[d] = snapshot[d]
      BY <1>13 DEF Return, dbVars, TypeHandle, TypeOK
    <2> QED
      BY <1>0, <2>1, <2>2, Frame DEF TransactionInv, IndexConsistent
  <1>14. CASE UNCHANGED vars
    BY <1>14 DEF TransactionInv, HandleInv, IndexConsistent, MidTransaction, NewRecord, vars, dbVars
  <1> QED
    BY <1>1, <1>2, <1>3, <1>4, <1>5, <1>6, <1>7, <1>8, <1>9, <1>10, <1>11, <1>12, <1>13, <1>14
       DEF Next, WriteStep, ReadStep

(* The empty collection satisfies TransactionInv. *)
LEMMA TransactionInit ==
    Init => TransactionInv
  <1> SUFFICES ASSUME Init PROVE TransactionInv
    OBVIOUS
  <1>1. HandleInv
    BY TypeHandleInit DEF TypeHandle
  <1>2. AllAgree(committed)
    BY StorePositions, SchemaAssumption DEF Init, DB!Init, AllAgree, Agrees, Keys
  <1> QED
    BY <1>1, <1>2 DEF Init, DB!Init, TransactionInv, IndexConsistent

(* The invariant of transactions, for a codec that keeps keys. *)
THEOREM TransactionCorrect ==
    CodecKeepsKeys => (Spec => [](TypeHandle /\ TransactionInv))
  <1> SUFFICES ASSUME CodecKeepsKeys PROVE Spec => [](TypeHandle /\ TransactionInv)
    OBVIOUS
  <1>1. Init => TypeHandle /\ TransactionInv
    BY TypeHandleInit, TransactionInit
  <1>2. TypeHandle /\ TransactionInv /\ [Next]_vars => (TypeHandle /\ TransactionInv)'
    BY TypeHandleStep, TransactionStep
  <1> QED
    BY <1>1, <1>2, PTL DEF Spec

(* Published stores and open snapshots always have exactly one index entry
   per record and index, and no other entries. *)
THEOREM IndexesConsistent ==
    CodecKeepsKeys => (Spec => []IndexConsistent)
  <1>1. TransactionInv => IndexConsistent
    BY DEF TransactionInv
  <1> QED
    BY <1>1, TransactionCorrect, PTL

(* Agreement of a unique index with the main store makes its keys unique. *)
LEMMA AgreesUnique ==
    TypeHandle /\ TransactionInv => UniqueKeys
  <1> SUFFICES ASSUME TypeHandle, TransactionInv,
                      NEW i \in UniqueIdx, NEW p \in Pks, NEW q \in Pks,
                      committed[MAIN_STORE][p] # None, committed[MAIN_STORE][q] # None,
                      IndexKey[i][committed[MAIN_STORE][p]] = IndexKey[i][committed[MAIN_STORE][q]]
               PROVE  p = q
    BY DEF UniqueKeys
  <1> DEFINE main == committed[MAIN_STORE]
             sk == store_key(i, IndexKey[i][main[p]], p)
  <1>1. i \in Registry /\ main[p] \in Records
    BY SchemaAssumption DEF TypeHandle, HandleInv, WellFormed
  <1>2. sk = store_key(i, IndexKey[i][main[q]], q)
    BY DEF store_key
  <1>3. sk \in EntryKeys
    BY <1>1, StoreKeyType
  <1>4. Agrees(i, main, committed[i])
    BY <1>1 DEF TransactionInv, IndexConsistent, AllAgree
  <1> HIDE DEF main, sk
  <1>5. committed[i][sk] = p /\ committed[i][sk] = q
    BY <1>2, <1>3, <1>4 DEF Agrees, main, sk
  <1> QED
    BY <1>5

(* "A unique index allows at most one record for each extracted index key." *)
THEOREM UniqueKeysHold ==
    CodecKeepsKeys => (Spec => []UniqueKeys)
  BY TransactionCorrect, AgreesUnique, PTL

(* In stores that agree, every entry an index query follows has its record. *)
LEMMA QueryNotUnexpected ==
    ASSUME NEW s \in DB!Contents, WellFormed(s), AllAgree(s), NEW q \in QueryRequests
    PROVE  QueryResult(q, s).status # "Unexpected"
  <1> DEFINE main == s[MAIN_STORE]
             hits == Hits(s[q.idx], q.keys)
             live == {p \in hits : main[p] # None}
  <1>1. q.op = "index_scan" => live = hits
    <2> SUFFICES ASSUME q.op = "index_scan", NEW p \in hits PROVE main[p] # None
      OBVIOUS
    <2>1. q.idx \in Registry
      BY QueryFields
    <2>2. PICK sk \in EntryKeys : s[q.idx][sk] = p /\ p # None
      BY DEF Hits
    <2>3. p \in Pks
      BY <2>1, <2>2 DEF WellFormed
    <2> QED
      BY <2>1, <2>2, <2>3 DEF AllAgree, Agrees
  <1> HIDE DEF hits, live
  <1>2. \A rs : Ok(rs).status = "Ok"
    BY DEF Ok
  <1>3. q.op \in {"get", "scan", "index_get", "index_scan"}
    BY QueryFields
  <1> QED
    BY <1>1, <1>2, <1>3 DEF QueryResult, hits, live

(* No query ever ends with Error::Unexpected: what an index scan finds in the
   index of its snapshot it finds in the main store of the same snapshot. *)
THEOREM NoUnexpectedHolds ==
    CodecKeepsKeys => (Spec => []NoUnexpected)
  <1> SUFFICES ASSUME CodecKeepsKeys PROVE Spec => []NoUnexpected
    OBVIOUS
  <1>1. Init => NoUnexpected
    BY DEF Init, NoUnexpected
  <1>2. ASSUME TypeHandle, TransactionInv, NoUnexpected, [Next]_vars PROVE NoUnexpected'
    <2>1. ASSUME NEW c \in Clients, NEW r, r.status # "Unexpected", Finish(c, r)
          PROVE  NoUnexpected'
      BY <1>2, <2>1 DEF Finish, NoUnexpected, TypeHandle, TypeOK
    <2>2. \A e : Err(e).status = e
      BY DEF Err
    <2>3. \A rs : Ok(rs).status = "Ok"
      BY DEF Ok
    <2>4. ASSUME NEW c \in Clients, AnswerQuery(c) PROVE NoUnexpected'
      <3>1. QueryResult(req[c], snapshot[c]).status # "Unexpected"
        <4>1. /\ snapshot[c] \in DB!Contents /\ WellFormed(snapshot[c])
              /\ req[c] \in QueryRequests /\ snapshot[c] # None
          BY <1>2, <2>4 DEF AnswerQuery, DB!CloseRead, TypeHandle, HandleInv
        <4> QED
          BY <1>2, <4>1, QueryNotUnexpected DEF TransactionInv, IndexConsistent
      <3> QED
        BY <2>1, <2>4, <3>1 DEF AnswerQuery
    <2>5. ASSUME NEW c \in Clients, Fail(c) PROVE NoUnexpected'
      BY <2>1, <2>2, <2>5 DEF Fail, Abort
    <2>6. ASSUME NEW c \in Clients,
                 InsertMain(c) \/ UpdateMain(c) \/ RemoveMain(c) \/ SaveMain(c)
          PROVE  NoUnexpected'
      BY <1>2, <2>1, <2>2, <2>3, <2>6
         DEF InsertMain, UpdateMain, RemoveMain, SaveMain, StageMain, Abort, NoUnexpected
    <2>7. ASSUME NEW c \in Clients, IndexUpdate(c) \/ IndexRemove(c) \/ Commit(c)
          PROVE  NoUnexpected'
      BY <1>2, <2>1, <2>2, <2>3, <2>7
         DEF IndexUpdate, IndexRemove, Commit, Advance, Abort, NoUnexpected
    <2>8. ASSUME NEW c \in Clients, Call(c) \/ BeginWrite(c) \/ BeginRead(c) \/ Return(c)
          PROVE  NoUnexpected'
      BY <1>2, <2>8 DEF Call, BeginWrite, BeginRead, Return, NoUnexpected, TypeHandle, TypeOK
    <2>9. CASE UNCHANGED vars
      BY <1>2, <2>9 DEF NoUnexpected, vars
    <2> QED
      BY <1>2, <2>4, <2>5, <2>6, <2>7, <2>8, <2>9 DEF Next, WriteStep, ReadStep
  <1> QED
    BY <1>1, <1>2, TransactionCorrect, PTL DEF Spec
===============================================================================
