---------------------------- MODULE RecordMapProofs ----------------------------
(***************************************************************************)
(* Collection implements RecordMap: what several threads do to a collection*)
(* in many steps is, to its callers, one atomic operation on a set of      *)
(* records after the other.  For any number of clients, keys, values and   *)
(* indexes, and any codec that keeps keys.                                 *)
(***************************************************************************)
EXTENDS CollectionProofs

(* The two modules have the same requests. *)
LEMMA SameRequests ==
    Abstract!Requests = Requests /\ Abstract!QueryRequests = QueryRequests
  BY DEF Requests, QueryRequests, WriteRequests, Registry,
         Abstract!Requests, Abstract!QueryRequests, Abstract!WriteRequests, Abstract!Registry

-------------------------------------------------------------------------------
(* A call has its request until it returns, and a reply just before. *)
ReplyInv ==
    \A c \in Clients :
        /\ req[c] = None <=> pc[c] = "idle"
        /\ reply[c] = None <=> pc[c] # "replied"

(* Ending an operation keeps ReplyInv. *)
LEMMA FinishReplies ==
    ASSUME TypeHandle, ReplyInv, NEW c \in Clients, NEW a \in Replies, Finish(c, a), pc[c] # "idle"
    PROVE  ReplyInv'
  BY ClientsAssumption DEF Finish, ReplyInv, TypeHandle, TypeOK

(* So does every step. *)
LEMMA ReplyStep ==
    ASSUME TypeHandle, ReplyInv, [Next]_vars
    PROVE  ReplyInv'
  <1>1. ASSUME NEW c \in Clients, Call(c) PROVE ReplyInv'
    <2>1. PICK q \in Requests : req' = [req EXCEPT ![c] = q]
      BY <1>1 DEF Call
    <2>2. q # None
      BY SchemaAssumption
    <2> QED
      BY <1>1, <2>1, <2>2 DEF Call, ReplyInv, TypeHandle, TypeOK
  <1>2. ASSUME NEW c \in Clients, BeginWrite(c) \/ BeginRead(c) \/ Return(c) PROVE ReplyInv'
    BY <1>2 DEF BeginWrite, BeginRead, Return, ReplyInv, TypeHandle, TypeOK
  <1>3. ASSUME NEW c \in Clients, NEW v, NEW o, pc[c] = "main", StageMain(c, v, o) PROVE ReplyInv'
    BY <1>3 DEF StageMain, ReplyInv, TypeHandle, TypeOK
  <1>4. ASSUME NEW c \in Clients, Advance(c) PROVE ReplyInv'
    BY <1>4 DEF Advance, ReplyInv
  <1>5. ASSUME NEW c \in Clients, pc[c] # "idle",
               Finish(c, Ok({})) \/ \E e \in Errors : Finish(c, Err(e))
        PROVE  ReplyInv'
    <2>1. Ok({}) \in Replies /\ \A e \in Errors : Err(e) \in Replies
      BY ReplyTypes
    <2> QED
      BY <1>5, <2>1, FinishReplies
  <1>6. ASSUME NEW c \in Clients, InsertMain(c) \/ UpdateMain(c) \/ SaveMain(c) \/ RemoveMain(c)
        PROVE  ReplyInv'
    BY <1>3, <1>5, <1>6 DEF InsertMain, UpdateMain, SaveMain, RemoveMain, Abort, Errors
  <1>7. ASSUME NEW c \in Clients, IndexUpdate(c) \/ IndexRemove(c) \/ Commit(c) \/ Fail(c)
        PROVE  ReplyInv'
    BY <1>4, <1>5, <1>7 DEF IndexUpdate, IndexRemove, Commit, Fail, Abort, Errors
  <1>8. ASSUME NEW c \in Clients, AnswerQuery(c) PROVE ReplyInv'
    <2>1. QueryResult(req[c], snapshot[c]) \in Replies
      BY <1>8, QueryResultType DEF AnswerQuery, TypeHandle, HandleInv
    <2> QED
      BY <1>8, <2>1, FinishReplies DEF AnswerQuery
  <1>9. CASE UNCHANGED vars
    BY <1>9 DEF vars, ReplyInv
  <1> QED
    BY <1>1, <1>2, <1>6, <1>7, <1>8, <1>9 DEF Next, WriteStep, ReadStep

-------------------------------------------------------------------------------
(* Queries *)

(* In stores that agree, what a query computes, through whichever index, is
   what the records alone say. *)
LEMMA QueryExact ==
    ASSUME NEW s \in DB!Contents, WellFormed(s), AllAgree(s), NEW q \in QueryRequests
    PROVE  QueryResult(q, s) = Seen(q, s)
  <1> DEFINE main == s[MAIN_STORE]
             hits == Hits(s[q.idx], q.keys)
             live == {p \in hits : main[p] # None}
             wanted == {r \in Published(main) : Wanted(q, r)}
  <1>1. q.op \in {"get", "scan", "index_get", "index_scan"}
    BY QueryFields
  <1>2. \A p \in Pks : main[p] # None => main[p] \in Records /\ main[p].pk = p
    BY DEF WellFormed
  <1>3. Seen(q, s) = Ok({Decode[r] : r \in wanted})
    BY DEF Seen
  <1>4. CASE q.op = "get"
    <2>1. q.pk \in Pks
      BY <1>4, QueryFields
    <2>2. wanted = {r \in Published(main) : r.pk = q.pk}
      BY <1>4 DEF Wanted
    <2>3. wanted = IF main[q.pk] = None THEN {} ELSE {main[q.pk]}
      BY <1>2, <2>1, <2>2 DEF Published
    <2>4. {Decode[r] : r \in wanted} = IF main[q.pk] = None THEN {} ELSE {Decode[main[q.pk]]}
      BY <2>3
    <2> QED
      BY <1>3, <1>4, <2>4 DEF QueryResult
  <1>5. CASE q.op = "scan"
    <2>1. wanted = Published(main)
      BY <1>5 DEF Wanted
    <2>2. {Decode[r] : r \in wanted} = RecordsIn(main)
      BY <2>1 DEF Published, RecordsIn
    <2> QED
      BY <1>3, <1>5, <2>2 DEF QueryResult
  <1>6. CASE q.op \in {"index_get", "index_scan"}
    <2>1. q.idx \in Registry
      BY <1>6, QueryFields
    <2> DEFINE i == q.idx
    <2>2. wanted = {r \in Published(main) : IndexKey[i][r] \in q.keys}
      BY <1>6 DEF Wanted
    <2>3. ASSUME NEW p \in hits PROVE p \in Pks /\ main[p] # None /\ IndexKey[i][main[p]] \in q.keys
      <3>1. PICK sk \in EntryKeys : sk[1] \in q.keys /\ s[i][sk] = p /\ p # None
        BY DEF Hits
      <3>2. p \in Pks
        BY <2>1, <3>1 DEF WellFormed
      <3>3. main[p] # None /\ store_key(i, IndexKey[i][main[p]], p) = sk
        BY <2>1, <3>1, <3>2 DEF AllAgree, Agrees
      <3>4. sk[1] = IndexKey[i][main[p]]
        BY <3>3 DEF store_key
      <3> QED
        BY <3>1, <3>2, <3>3, <3>4
    <2>4. ASSUME NEW p \in Pks, main[p] # None, IndexKey[i][main[p]] \in q.keys PROVE p \in hits
      <3> DEFINE sk == store_key(i, IndexKey[i][main[p]], p)
      <3>1. sk \in EntryKeys
        BY <1>2, <2>1, <2>4, StoreKeyType
      <3>2. s[i][sk] = p
        BY <2>1, <2>4, <3>1 DEF AllAgree, Agrees
      <3>3. sk[1] = IndexKey[i][main[p]]
        BY DEF store_key
      <3>4. p # None
        BY SchemaAssumption
      <3> HIDE DEF sk
      <3> QED
        BY <2>4, <3>1, <3>2, <3>3, <3>4 DEF Hits
    <2>5. live = hits
      BY <2>3
    <2> HIDE DEF hits
    <2>6. {Decode[r] : r \in wanted} = {Decode[main[p]] : p \in live}
      BY <2>2, <2>3, <2>4, <2>5 DEF Published
    <2>7. QueryResult(q, s) = Ok({Decode[main[p]] : p \in live})
      BY <1>6, <2>5 DEF QueryResult, hits
    <2> QED
      BY <1>3, <2>6, <2>7
  <1> QED
    BY <1>1, <1>4, <1>5, <1>6

(* The abstract query has that answer. *)
LEMMA SameAnswer ==
    ASSUME NEW q, NEW s
    PROVE  Abstract!QueryAnswer(q, Published(s[MAIN_STORE])) = Seen(q, s)
  BY DEF Abstract!QueryAnswer, Abstract!Matches, Abstract!Ok, Seen, Wanted, Ok

-------------------------------------------------------------------------------
(* How steps of the collection look from outside *)

(* Client d is where it was. *)
Stays(d) == pc'[d] = pc[d] /\ req'[d] = req[d] /\ reply'[d] = reply[d] /\ snapshot'[d] = snapshot[d]

(* A step of c settles nobody else's answer. *)
LEMMA AnswersStep ==
    ASSUME NEW c \in Clients, \A d \in Clients : d # c => Stays(d)
    PROVE  Answers' = [Answers EXCEPT ![c] =
               IF pc'[c] = "reading" THEN Seen(req'[c], snapshot'[c]) ELSE reply'[c]]
  <1>1. ASSUME NEW d \in Clients
        PROVE  Seen(req[d], snapshot[d])' = Seen(req'[d], snapshot'[d])
    BY DEF Seen, Published, Wanted, Ok
  <1>2. Answers' = [d \in Clients |->
                       IF pc'[d] = "reading" THEN Seen(req'[d], snapshot'[d]) ELSE reply'[d]]
    BY <1>1 DEF Answers
  <1>3. Answers = [d \in Clients |-> IF pc[d] = "reading" THEN Seen(req[d], snapshot[d]) ELSE reply[d]]
    BY DEF Answers
  <1> QED
    BY <1>2, <1>3 DEF Stays

(* The records after a step. *)
LEMMA PublishedNext ==
    Published(committed[MAIN_STORE])' = Published(committed'[MAIN_STORE])
  BY DEF Published, MAIN_STORE

(* A step inside an operation that publishes nothing is none. *)
LEMMA SilentStep ==
    ASSUME committed' = committed, req' = req, Answers' = Answers
    PROVE  UNCHANGED Abstract!vars
  BY PublishedNext DEF Abstract!vars

(* An operation that is decided when it ends. *)
LEMMA DecideStep ==
    ASSUME TypeHandle, ReplyInv, NEW c \in Clients, pc[c] \in {"called", "main", "index"},
           NEW a, Finish(c, a), UNCHANGED snapshot, NEW rs, Published(committed'[MAIN_STORE]) = rs
    PROVE  Abstract!Decide(c, rs, a)
  <1>1. pc'[c] = "replied" /\ reply'[c] = a /\ \A d \in Clients : d # c => Stays(d)
    BY DEF Finish, Stays, TypeHandle, TypeOK
  <1>2. Answers' = [Answers EXCEPT ![c] = a]
    BY <1>1, AnswersStep
  <1>3. req[c] # None /\ Answers[c] = None
    BY DEF ReplyInv, Answers
  <1>4. req' = req
    BY DEF Finish
  <1> QED
    BY <1>2, <1>3, <1>4, PublishedNext DEF Abstract!Decide

(* The abstract collection holds a key when the published main store does. *)
LEMMA HoldsIs ==
    ASSUME WellFormed(committed), NEW pk \in Pks
    PROVE  Abstract!Holds(pk) <=> committed[MAIN_STORE][pk] # None
  BY DEF Abstract!Holds, WellFormed, Published

(* Writing or removing one key of the main store. *)
LEMMA PublishedWrite ==
    ASSUME WellFormed(committed), NEW pk \in Pks, NEW v \in Records \union {None},
           v # None => v.pk = pk,
           NEW m2, m2[pk] = v, \A p \in Pks : p # pk => m2[p] = committed[MAIN_STORE][p]
    PROVE  Published(m2) = Abstract!Without(pk) \union (IF v = None THEN {} ELSE {v})
  <1>1. \A p \in Pks : committed[MAIN_STORE][p] # None => committed[MAIN_STORE][p].pk = p
    BY DEF WellFormed
  <1> QED
    BY <1>1 DEF Abstract!Without, Published

(* A key that is taken in a unique index is taken by another record. *)
LEMMA TakenClashes ==
    ASSUME CodecKeepsKeys, TypeHandle, TransactionInv, NEW c \in Clients, pc[c] = "index",
           NEW i \in Registry, pos[c] = i, req[c].op # "remove",
           ~SameEntry(i, c), Cleared(i, c)[new_skey(i, c)] # None
    PROVE  Abstract!Clashes(NewRecord(c))
  <1> DEFINE main == committed[MAIN_STORE]
             pk == req[c].pk
             nk == new_skey(i, c)
  <1>1. /\ staged[c][i] = committed[i]
        /\ committed[i] \in [Keys -> Bytes \union {None}]
        /\ Agrees(i, main, committed[i])
        /\ pk \in Pks /\ req[c] \in WriteRequests
        /\ old[c] = None <=> main[pk] = None
        /\ old[c] # None => old_skey(i, c) = SK(i, main, pk)
    BY IndexStepFacts
  <1>2. nk \in EntryKeys /\ nk \in Keys /\ (old[c] # None => old_skey(i, c) \in EntryKeys)
    BY SkeyTypes DEF Keys
  <1>3. Cleared(i, c)[nk] = committed[i][nk]
    <2>1. old[c] # None => old_skey(i, c) # nk
      BY DEF SameEntry
    <2> QED
      BY <1>1, <1>2, <2>1 DEF Cleared
  <1>4. PICK p \in Pks : committed[i][nk] = p
    BY <1>2, <1>3 DEF TypeHandle, HandleInv, WellFormed
  <1>5. main[p] # None /\ store_key(i, IndexKey[i][main[p]], p) = nk
    BY <1>1, <1>2, <1>4 DEF Agrees
  <1>6. p # pk
    BY <1>1, <1>5 DEF SameEntry, SK
  <1>7. nk = store_key(i, IndexKey[i][NewRecord(c)], pk)
    BY DEF new_skey
  <1>8. i \in UniqueIdx /\ IndexKey[i][main[p]] = IndexKey[i][NewRecord(c)]
    BY <1>5, <1>6, <1>7 DEF store_key
  <1>9. main[p] \in Published(main) /\ main[p].pk = p /\ NewRecord(c).pk = pk
    BY <1>1, <1>5, NewRecordType DEF Published, TypeHandle, HandleInv, WellFormed
  <1> QED
    BY <1>6, <1>8, <1>9 DEF Abstract!Clashes

(* Indexes that agree with the staged records leave no clash. *)
LEMMA CommitNoClash ==
    ASSUME TypeHandle, NEW c \in Clients, pc[c] = "index", AllAgree(staged[c]), req[c].op # "remove",
           staged[c][MAIN_STORE][req[c].pk] = NewRecord(c),
           \A p \in Pks : p # req[c].pk => staged[c][MAIN_STORE][p] = committed[MAIN_STORE][p]
    PROVE  ~Abstract!Clashes(NewRecord(c))
  <1> DEFINE m2 == staged[c][MAIN_STORE]
             pk == req[c].pk
  <1> SUFFICES ASSUME NEW p \in Pks, committed[MAIN_STORE][p] # None, NEW i \in UniqueIdx,
                      committed[MAIN_STORE][p].pk # NewRecord(c).pk,
                      IndexKey[i][committed[MAIN_STORE][p]] = IndexKey[i][NewRecord(c)]
               PROVE  FALSE
    BY DEF Abstract!Clashes, Published
  <1>1. req[c] \in WriteRequests /\ pk \in Pks /\ NewRecord(c) \in Records /\ NewRecord(c).pk = pk
    BY WriteFields, NewRecordType DEF TypeHandle, HandleInv
  <1>2. committed[MAIN_STORE][p].pk = p /\ p # pk /\ m2[p] = committed[MAIN_STORE][p]
    BY <1>1 DEF TypeHandle, HandleInv, WellFormed
  <1>3. i \in Registry /\ NewRecord(c) # None
    BY <1>1, SchemaAssumption
  <1>4. PICK sk \in EntryKeys : /\ sk = store_key(i, IndexKey[i][m2[p]], p)
                                /\ sk = store_key(i, IndexKey[i][m2[pk]], pk)
    <2>1. store_key(i, IndexKey[i][NewRecord(c)], pk) \in EntryKeys
      BY <1>1, <1>3, StoreKeyType
    <2>2. store_key(i, IndexKey[i][m2[p]], p) = store_key(i, IndexKey[i][m2[pk]], pk)
      BY <1>2 DEF store_key
    <2> QED
      BY <2>1, <2>2
  <1>5. Agrees(i, m2, staged[c][i])
    BY <1>3 DEF AllAgree
  <1>6. staged[c][i][sk] = p /\ staged[c][i][sk] = pk
    BY <1>1, <1>2, <1>3, <1>4, <1>5 DEF Agrees
  <1> QED
    BY <1>2, <1>6

-------------------------------------------------------------------------------
(* The step that decides an operation is the operation *)

(* An early return of insert, update or remove. *)
LEMMA MainStepDecides ==
    ASSUME TypeHandle, TransactionInv, ReplyInv, NEW c \in Clients, pc[c] = "main",
           \/ req[c].op = "insert" /\ Stored(c) # None /\ Abort(c, Err("AlreadyExists"))
           \/ req[c].op = "update" /\ Stored(c) = None /\ Abort(c, Err("NotFound"))
           \/ req[c].op = "remove" /\ Stored(c) = None /\ Abort(c, Ok({}))
    PROVE  Abstract!Store(c) \/ Abstract!Delete(c)
  <1> DEFINE rs == Published(committed[MAIN_STORE])
             pk == req[c].pk
  <1>1. pk \in Pks /\ WellFormed(committed) /\ staged[c] = committed
    BY WriteFields DEF TypeHandle, HandleInv, TransactionInv
  <1>2. Abstract!Holds(pk) <=> Stored(c) # None
    BY <1>1, HoldsIs DEF Stored
  <1>3. committed' = committed /\ UNCHANGED snapshot
    BY DEF Abort, DB!Drop
  <1>4. \A a : Finish(c, a) => Abstract!Decide(c, rs, a)
    BY <1>3, DecideStep
  <1> HIDE DEF rs
  <1>5. CASE req[c].op = "insert" /\ Stored(c) # None /\ Abort(c, Err("AlreadyExists"))
    <2>1. Abstract!Decide(c, rs, Abstract!Err("AlreadyExists"))
      BY <1>4, <1>5 DEF Abort, Err, Abstract!Err
    <2> QED
      BY <1>2, <1>5, <2>1 DEF Abstract!Store, rs
  <1>6. CASE req[c].op = "update" /\ Stored(c) = None /\ Abort(c, Err("NotFound"))
    <2>1. Abstract!Decide(c, rs, Abstract!Err("NotFound"))
      BY <1>4, <1>6 DEF Abort, Err, Abstract!Err
    <2> QED
      BY <1>2, <1>6, <2>1 DEF Abstract!Store, rs
  <1>7. CASE req[c].op = "remove" /\ Stored(c) = None /\ Abort(c, Ok({}))
    <2>1. Abstract!Decide(c, rs, Abstract!Ok({}))
      BY <1>4, <1>7 DEF Abort, Ok, Abstract!Ok
    <2>2. Abstract!Without(pk) = rs
      BY <1>2, <1>7 DEF Abstract!Without, Abstract!Holds, rs
    <2> QED
      BY <1>7, <2>1, <2>2 DEF Abstract!Delete
  <1> QED
    BY <1>5, <1>6, <1>7

(* A unique index refuses the record. *)
LEMMA IndexStepDecides ==
    ASSUME CodecKeepsKeys, TypeHandle, TransactionInv, ReplyInv, NEW c \in Clients, pc[c] = "index",
           NEW i \in Registry, pos[c] = i, req[c].op # "remove",
           ~SameEntry(i, c), Cleared(i, c)[new_skey(i, c)] # None, Abort(c, Err("AlreadyExists"))
    PROVE  Abstract!Store(c)
  <1> DEFINE rs == Published(committed[MAIN_STORE])
             pk == req[c].pk
  <1>1. Abstract!Clashes(NewRecord(c))
    BY TakenClashes
  <1>2. pk \in Pks /\ WellFormed(committed) /\ req[c].op \in {"insert", "update", "save"}
    BY WriteFields DEF TypeHandle, HandleInv
  <1>3. req[c].op = "update" => Abstract!Holds(pk)
    BY <1>2, HoldsIs DEF TransactionInv, MidTransaction
  <1>4. committed' = committed /\ UNCHANGED snapshot
    BY DEF Abort, DB!Drop
  <1>5. Abstract!Decide(c, rs, Abstract!Err("AlreadyExists"))
    BY <1>4, DecideStep DEF Abort, Err, Abstract!Err
  <1> QED
    BY <1>1, <1>2, <1>3, <1>5 DEF Abstract!Store, NewRecord

(* A commit. *)
LEMMA CommitDecides ==
    ASSUME TypeHandle, TransactionInv, ReplyInv, NEW c \in Clients, Commit(c)
    PROVE  Abstract!Store(c) \/ Abstract!Delete(c)
  <1> DEFINE main == committed[MAIN_STORE]
             m2 == staged[c][MAIN_STORE]
             pk == req[c].pk
             v == IF req[c].op = "remove" THEN None ELSE NewRecord(c)
  <1>1. /\ pc[c] = "index" /\ MidTransaction(c) /\ pos[c] > NumIndexes /\ Finish(c, Ok({}))
        /\ committed' = staged[c] /\ snapshot' = snapshot
    BY DEF Commit, DB!Commit, TransactionInv
  <1>2. /\ req[c] \in WriteRequests /\ pk \in Pks /\ WellFormed(committed)
        /\ req[c].op \in {"insert", "update", "save", "remove"}
    BY <1>1, WriteFields DEF TypeHandle, HandleInv
  <1>3. AllAgree(staged[c])
    <2>1. \A i \in Registry : i < pos[c]
      BY <1>1, SchemaAssumption DEF Registry, TypeHandle, TypeOK
    <2> QED
      BY <1>1, <2>1 DEF MidTransaction, AllAgree
  <1>4. m2[pk] = v /\ \A p \in Pks : p # pk => m2[p] = main[p]
    <2>1. m2 = [main EXCEPT ![pk] = v]
      BY <1>1 DEF MidTransaction
    <2>2. main \in [Keys -> Bytes \union {None}]
      BY ContentsType, StorePositions DEF TypeHandle, TypeOK
    <2> HIDE DEF main, m2, v
    <2> QED
      BY <1>2, <2>1, <2>2 DEF Keys
  <1>5. v \in Records \union {None} /\ (v # None => v.pk = pk)
    BY <1>2, NewRecordType
  <1>6. Published(m2) = Abstract!Without(pk) \union (IF v = None THEN {} ELSE {v})
    BY <1>2, <1>4, <1>5, PublishedWrite
  <1>7. Abstract!Decide(c, Published(m2), Abstract!Ok({}))
    BY <1>1, DecideStep DEF Ok, Abstract!Ok
  <1>8. Abstract!Holds(pk) <=> main[pk] # None
    BY <1>2, HoldsIs
  <1>9. CASE req[c].op = "remove"
    <2>1. Published(m2) = Abstract!Without(pk)
      BY <1>6, <1>9
    <2> QED
      BY <1>7, <1>9, <2>1 DEF Abstract!Delete
  <1>10. CASE req[c].op # "remove"
    <2>1. Published(m2) = Abstract!Without(pk) \union {NewRecord(c)}
      BY <1>2, <1>6, <1>10, NewRecordType, SchemaAssumption
    <2>2. ~Abstract!Clashes(NewRecord(c))
      BY <1>1, <1>3, <1>4, <1>10, CommitNoClash
    <2>3. (req[c].op = "insert" => ~Abstract!Holds(pk)) /\ (req[c].op = "update" => Abstract!Holds(pk))
      BY <1>1, <1>8 DEF MidTransaction
    <2> QED
      BY <1>2, <1>7, <1>10, <2>1, <2>2, <2>3 DEF Abstract!Store, NewRecord
  <1> QED
    BY <1>9, <1>10

(* Every step of the collection is an atomic operation of the abstract one, or
   cannot be seen from outside. *)
LEMMA RecordMapStep ==
    ASSUME CodecKeepsKeys, TypeHandle, TransactionInv, ReplyInv, [Next]_vars
    PROVE  Abstract!Next \/ UNCHANGED Abstract!vars
  <1> DEFINE Implemented == Abstract!Next \/ UNCHANGED Abstract!vars
  <1>1. ASSUME NEW c \in Clients, Abstract!Store(c) \/ Abstract!Delete(c), req[c] # None
        PROVE  Implemented
    BY <1>1 DEF Abstract!Next
  <1>2. ASSUME NEW c \in Clients, pc[c] \in {"called", "main", "index"}, pc'[c] # "reading",
               reply' = reply, snapshot' = snapshot, \A d \in Clients : d # c => Stays(d)
        PROVE  Answers' = Answers
    BY <1>2, AnswersStep DEF Answers
  <1>3. ASSUME NEW c \in Clients, Call(c) PROVE Implemented
    <2>1. req[c] = None /\ \E q \in Requests : req' = [req EXCEPT ![c] = q]
      BY <1>3 DEF Call, ReplyInv
    <2>2. Answers' = Answers
      <3>1. pc[c] = "idle" /\ pc'[c] = "called" /\ reply'[c] = reply[c]
            /\ \A d \in Clients : d # c => Stays(d)
        BY <1>3 DEF Call, dbVars, Stays, TypeHandle, TypeOK
      <3> QED
        BY <3>1, AnswersStep DEF Answers
    <2>3. committed' = committed
      BY <1>3 DEF Call, dbVars
    <2>4. Abstract!Call(c)
      BY <2>1, <2>2, <2>3, SameRequests, PublishedNext DEF Abstract!Call
    <2> QED
      BY <2>4 DEF Abstract!Next
  <1>4. ASSUME NEW c \in Clients, BeginWrite(c) PROVE Implemented
    <2>1. /\ pc[c] = "called" /\ pc'[c] = "main" /\ req' = req /\ reply' = reply
          /\ snapshot' = snapshot /\ committed' = committed
          /\ \A d \in Clients : d # c => Stays(d)
      BY <1>4 DEF BeginWrite, DB!Write, Stays, TypeHandle, TypeOK
    <2> QED
      BY <1>2, <2>1, SilentStep
  <1>5. ASSUME NEW c \in Clients, NEW v, NEW o, pc[c] = "main", StageMain(c, v, o) PROVE Implemented
    <2>1. /\ pc'[c] = "index" /\ req' = req /\ reply' = reply
          /\ snapshot' = snapshot /\ committed' = committed
          /\ \A d \in Clients : d # c => Stays(d)
      BY <1>5 DEF StageMain, DB!Stage, Stays, TypeHandle, TypeOK
    <2> QED
      BY <1>2, <1>5, <2>1, SilentStep
  <1>6. ASSUME NEW c \in Clients, Advance(c), pc[c] = "index", committed' = committed, snapshot' = snapshot
        PROVE  Implemented
    <2>1. pc' = pc /\ req' = req /\ reply' = reply /\ \A d \in Clients : d # c => Stays(d)
      BY <1>6 DEF Advance, Stays
    <2> QED
      BY <1>2, <1>6, <2>1, SilentStep
  <1>7. ASSUME NEW c \in Clients, InsertMain(c) \/ UpdateMain(c) \/ SaveMain(c) \/ RemoveMain(c)
        PROVE  Implemented
    <2>1. pc[c] = "main" /\ req[c] # None
      BY <1>7 DEF InsertMain, UpdateMain, SaveMain, RemoveMain, ReplyInv
    <2>2. \/ \E v, o : StageMain(c, v, o)
          \/ req[c].op = "insert" /\ Stored(c) # None /\ Abort(c, Err("AlreadyExists"))
          \/ req[c].op = "update" /\ Stored(c) = None /\ Abort(c, Err("NotFound"))
          \/ req[c].op = "remove" /\ Stored(c) = None /\ Abort(c, Ok({}))
      BY <1>7, Zenon DEF InsertMain, UpdateMain, SaveMain, RemoveMain
    <2> QED
      BY <1>1, <1>5, <2>1, <2>2, MainStepDecides
  <1>8. ASSUME NEW c \in Clients, IndexUpdate(c) PROVE Implemented
    <2> DEFINE i == pos[c]
    <2>1. pc[c] = "index" /\ i \in Registry /\ req[c].op # "remove" /\ req[c] # None
      BY <1>8 DEF IndexUpdate, ReplyInv
    <2>2. CASE Advance(c) /\ committed' = committed /\ snapshot' = snapshot
      BY <1>6, <2>1, <2>2
    <2>3. CASE ~SameEntry(i, c) /\ Cleared(i, c)[new_skey(i, c)] # None /\ Abort(c, Err("AlreadyExists"))
      BY <1>1, <2>1, <2>3, IndexStepDecides
    <2> QED
      BY <1>8, <2>2, <2>3 DEF IndexUpdate, DB!Stage, dbVars
  <1>9. ASSUME NEW c \in Clients, IndexRemove(c) PROVE Implemented
    BY <1>6, <1>9 DEF IndexRemove, DB!Stage
  <1>10. ASSUME NEW c \in Clients, Commit(c) PROVE Implemented
    <2>1. req[c] # None
      BY <1>10 DEF Commit, ReplyInv
    <2> QED
      BY <1>1, <1>10, <2>1, CommitDecides
  <1>11. ASSUME NEW c \in Clients, BeginRead(c) PROVE Implemented
    <2>1. /\ pc[c] = "called" /\ pc'[c] = "reading" /\ req' = req /\ snapshot'[c] = committed
          /\ committed' = committed /\ req[c] \in QueryRequests
          /\ \A d \in Clients : d # c => Stays(d)
      BY <1>11 DEF BeginRead, DB!Read, Stays, TypeHandle, TypeOK
    <2>2. Answers' = [Answers EXCEPT ![c] = Seen(req[c], committed)]
      BY <2>1, AnswersStep
    <2>3. req[c] # None /\ Answers[c] = None
      BY <2>1 DEF ReplyInv, Answers
    <2>4. Abstract!Decide(c, Published(committed[MAIN_STORE]), Seen(req[c], committed))
      BY <2>1, <2>2, <2>3, PublishedNext DEF Abstract!Decide
    <2>5. Abstract!Query(c)
      BY <2>1, <2>4, SameAnswer, QueryFields DEF Abstract!Query
    <2> QED
      BY <2>3, <2>5 DEF Abstract!Next
  <1>12. ASSUME NEW c \in Clients, AnswerQuery(c) PROVE Implemented
    <2>1. /\ pc[c] = "reading" /\ snapshot[c] \in DB!Contents /\ WellFormed(snapshot[c])
          /\ req[c] \in QueryRequests /\ snapshot[c] # None
      BY <1>12 DEF AnswerQuery, DB!CloseRead, TypeHandle, HandleInv
    <2>2. QueryResult(req[c], snapshot[c]) = Seen(req[c], snapshot[c])
      BY <2>1, QueryExact DEF TransactionInv, IndexConsistent
    <2>3. /\ pc'[c] = "replied" /\ reply'[c] = Seen(req[c], snapshot[c])
          /\ req' = req /\ committed' = committed
          /\ \A d \in Clients : d # c => Stays(d)
      BY <1>12, <2>2 DEF AnswerQuery, Finish, DB!CloseRead, Stays, TypeHandle, TypeOK
    <2>4. Answers' = Answers
      BY <2>1, <2>3, AnswersStep DEF Answers
    <2> QED
      BY <2>3, <2>4, SilentStep
  <1>13. ASSUME NEW c \in Clients, Fail(c) PROVE Implemented
    <2>1. ASSUME NEW e \in {"Backend", "Codec"}, pc[c] \in {"called", "main", "index"},
                 Finish(c, Err(e)), committed' = committed, snapshot' = snapshot
          PROVE  Implemented
      <3>1. Abstract!Decide(c, Published(committed[MAIN_STORE]), Abstract!Err(e))
        BY <2>1, DecideStep DEF Err, Abstract!Err
      <3>2. Abstract!Fail(c) /\ req[c] # None
        BY <2>1, <3>1 DEF Abstract!Fail, ReplyInv
      <3> QED
        BY <3>2 DEF Abstract!Next
    <2>2. ASSUME NEW e \in {"Backend", "Codec"}, pc[c] = "reading", DB!CloseRead(c), Finish(c, Err(e))
          PROVE  Implemented
      <3>1. /\ pc'[c] = "replied" /\ reply'[c] = Err(e)
            /\ req' = req /\ committed' = committed /\ req[c] \in QueryRequests
            /\ \A d \in Clients : d # c => Stays(d)
        BY <2>2 DEF Finish, DB!CloseRead, Stays, TypeHandle, TypeOK, HandleInv
      <3>2. Answers' = [Answers EXCEPT ![c] = Abstract!Err(e)]
        BY <3>1, AnswersStep DEF Err, Abstract!Err
      <3>3. Abstract!Fail(c) /\ req[c] # None
        BY <2>2, <3>1, <3>2, SameRequests, PublishedNext DEF Abstract!Fail, ReplyInv
      <3> QED
        BY <3>3 DEF Abstract!Next
    <2> QED
      BY <1>13, <2>1, <2>2 DEF Fail, Abort, DB!Drop, dbVars
  <1>14. ASSUME NEW c \in Clients, Return(c) PROVE Implemented
    <2>1. /\ pc[c] = "replied" /\ pc'[c] = "idle" /\ reply'[c] = None /\ committed' = committed
          /\ \A d \in Clients : d # c => Stays(d)
      BY <1>14 DEF Return, dbVars, Stays, TypeHandle, TypeOK
    <2>2. Answers' = [Answers EXCEPT ![c] = None] /\ Answers[c] # None
      BY <2>1, AnswersStep DEF Answers, ReplyInv
    <2>3. Abstract!Return(c)
      BY <1>14, <2>1, <2>2, PublishedNext DEF Return, Abstract!Return
    <2> QED
      BY <2>3 DEF Abstract!Next
  <1>15. CASE UNCHANGED vars
    <2>1. Answers' = Answers
      BY <1>15 DEF vars, dbVars, Answers, Seen, Published, Wanted, Ok
    <2> QED
      BY <1>15, <2>1, SilentStep DEF vars, dbVars
  <1> QED
    BY <1>3, <1>4, <1>7, <1>8, <1>9, <1>10, <1>11, <1>12, <1>13, <1>14, <1>15
       DEF Next, WriteStep, ReadStep

(* The empty collection is the empty set of records. *)
LEMMA RecordMapInit ==
    Init => ReplyInv /\ Abstract!Init
  <1> SUFFICES ASSUME Init PROVE ReplyInv /\ Abstract!Init
    OBVIOUS
  <1>1. ReplyInv
    BY DEF Init, ReplyInv
  <1>2. Published(committed[MAIN_STORE]) = {}
    BY StorePositions DEF Init, DB!Init, Published, Keys
  <1>3. Answers = [c \in Clients |-> None]
    BY DEF Init, Answers
  <1> QED
    BY <1>1, <1>2, <1>3 DEF Init, Abstract!Init

(* To its callers, a collection used by any number of threads is a set of
   records with unique keys on which every operation acts at one instant or
   fails without effect. *)
THEOREM CollectionImplementsRecordMap ==
    CodecKeepsKeys => (Spec => ImplementsRecordMap)
  <1> SUFFICES ASSUME CodecKeepsKeys PROVE Spec => ImplementsRecordMap
    OBVIOUS
  <1>1. TypeHandle /\ TransactionInv /\ ReplyInv /\ [Next]_vars
            => ReplyInv' /\ [Abstract!Next]_(Abstract!vars)
    BY ReplyStep, RecordMapStep
  <1> QED
    BY <1>1, RecordMapInit, TransactionCorrect, PTL DEF Spec, ImplementsRecordMap, Abstract!Spec
===============================================================================
