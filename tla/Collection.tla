------------------------------ MODULE Collection ------------------------------
(***************************************************************************)
(* A typed collection (collection.rs, index.rs, index_registry.rs, the     *)
(* record side of scan.rs and iter.rs) used by several threads at once.    *)
(* Every operation opens a handle of the backend, works through it in      *)
(* several steps and ends by committing it or dropping it; steps of other  *)
(* clients come between any two of them.                                   *)
(***************************************************************************)
EXTENDS Schema

CONSTANT Clients     \* threads that share the collection

VARIABLES
    committed, writer, staged, snapshot,    \* the backend, see MultiStore
    pc,     \* pc[c]: where c is in its current operation
    req,    \* req[c]: the operation and its arguments, None when idle
    old,    \* old[c]: the stored record the operation found, decoded, or None
    pos,    \* pos[c]: the registry position whose index is maintained next
    reply   \* reply[c]: the Result of the operation, None before it is known

DB == INSTANCE MultiStore

dbVars == <<committed, writer, staged, snapshot>>
vars == <<dbVars, pc, req, old, pos, reply>>

Steps == {"idle", "called", "main", "index", "reading", "replied"}

Errors == {"AlreadyExists", "NotFound", "Backend", "Codec", "Unexpected"}

Ok(rs) == [status |-> "Ok", found |-> rs]
Err(e) == [status |-> e, found |-> {}]

Replies == [status : {"Ok"} \union Errors, found : SUBSET Records]

ASSUME ClientsAssumption == None \notin Clients /\ None \notin Replies

-------------------------------------------------------------------------------
(* Collection::new and CollectionBuilder::build: the stores are prepared and
   empty, no operation is running. *)
Init ==
    /\ DB!Init
    /\ pc = [c \in Clients |-> "idle"]
    /\ req = [c \in Clients |-> None]
    /\ old = [c \in Clients |-> None]
    /\ pos = [c \in Clients |-> 1]
    /\ reply = [c \in Clients |-> None]

(* A thread calls a public operation. *)
Call(c) ==
    /\ pc[c] = "idle"
    /\ \E q \in Requests : req' = [req EXCEPT ![c] = q]
    /\ pc' = [pc EXCEPT ![c] = "called"]
    /\ UNCHANGED <<dbVars, old, pos, reply>>

(* The operation's outcome is known and its handle is gone. *)
Finish(c, result) ==
    /\ pc' = [pc EXCEPT ![c] = "replied"]
    /\ reply' = [reply EXCEPT ![c] = result]
    /\ old' = [old EXCEPT ![c] = None]
    /\ pos' = [pos EXCEPT ![c] = 1]
    /\ UNCHANGED req

(* Mutants: the transaction is committed, or its handle leaked, on an error. *)
Abort_Commits(c, result) == DB!Commit(c) /\ Finish(c, result)
Abort_Leaks(c, result) == Finish(c, result) /\ UNCHANGED dbVars

(* An early return or a `?' leaves the operation: its transaction is dropped. *)
Abort(c, result) == DB!Drop(c) /\ Finish(c, result)

(* The caller has its Result. *)
Return(c) ==
    /\ pc[c] = "replied"
    /\ pc' = [pc EXCEPT ![c] = "idle"]
    /\ req' = [req EXCEPT ![c] = None]
    /\ reply' = [reply EXCEPT ![c] = None]
    /\ UNCHANGED <<dbVars, old, pos>>

-------------------------------------------------------------------------------
(* insert, update, save and remove *)

(* `let mut tx = self.db.write(self.name)': waits for the open writer. *)
BeginWrite(c) ==
    /\ pc[c] = "called"
    /\ req[c] \in WriteRequests
    /\ DB!Write(c)
    /\ pc' = [pc EXCEPT ![c] = "main"]
    /\ UNCHANGED <<req, old, pos, reply>>

(* The record passed to insert, update and save. *)
NewRecord(c) == [pk |-> req[c].pk, val |-> req[c].val]

(* `store.get(&enc_pk)' on the main store of the transaction. *)
Stored(c) == staged[c][MAIN_STORE][req[c].pk]

(* ... followed by Record::from_bytes. *)
Found(c) == IF Stored(c) = None THEN None ELSE Decode[Stored(c)]

(* The main store is left with v under the operation's key and the
   transaction goes on to the indexes with o as the replaced record. *)
StageMain(c, v, o) ==
    /\ DB!Stage(c, MAIN_STORE, [staged[c][MAIN_STORE] EXCEPT ![req[c].pk] = v])
    /\ old' = [old EXCEPT ![c] = o]
    /\ pos' = [pos EXCEPT ![c] = 1]
    /\ pc' = [pc EXCEPT ![c] = "index"]
    /\ UNCHANGED <<req, reply>>

InsertMain(c) ==
    /\ pc[c] = "main" /\ req[c].op = "insert"
    /\ \/ /\ Stored(c) # None
          /\ Abort(c, Err("AlreadyExists"))
       \/ /\ Stored(c) = None
          /\ StageMain(c, NewRecord(c), None)

UpdateMain(c) ==
    /\ pc[c] = "main" /\ req[c].op = "update"
    /\ \/ /\ Stored(c) = None
          /\ Abort(c, Err("NotFound"))
       \/ /\ Stored(c) # None
          /\ StageMain(c, NewRecord(c), Found(c))

SaveMain(c) ==
    /\ pc[c] = "main" /\ req[c].op = "save"
    /\ StageMain(c, NewRecord(c), Found(c))

RemoveMain(c) ==
    /\ pc[c] = "main" /\ req[c].op = "remove"
    /\ \/ /\ Stored(c) = None
          /\ Abort(c, Ok({}))
       \/ /\ Stored(c) # None
          /\ StageMain(c, None, Found(c))

-------------------------------------------------------------------------------
(* Index maintenance, one registry position at a time *)

Advance(c) ==
    /\ pos' = [pos EXCEPT ![c] = @ + 1]
    /\ UNCHANGED <<pc, req, old, reply>>

new_skey(i, c) == store_key(i, IndexKey[i][NewRecord(c)], req[c].pk)
old_skey(i, c) == store_key(i, IndexKey[i][old[c]], req[c].pk)

(* Mutant: the old entry stays behind. *)
Cleared_Kept(i, c) == staged[c][i]

(* The index store once the entry of the replaced record is gone. *)
Cleared(i, c) ==
    IF old[c] = None
    THEN staged[c][i]
    ELSE [staged[c][i] EXCEPT ![old_skey(i, c)] = None]

(* Index::update: the replaced record has the same stored key. *)
SameEntry(i, c) == old[c] # None /\ old_skey(i, c) = new_skey(i, c)

IndexUpdate(c) ==
    LET i == pos[c]
    IN  /\ pc[c] = "index" /\ i \in Registry /\ req[c].op # "remove"
        /\ \/ /\ SameEntry(i, c)
              /\ Advance(c)
              /\ UNCHANGED dbVars
           \/ /\ ~SameEntry(i, c)
              /\ Cleared(i, c)[new_skey(i, c)] # None
              /\ Abort(c, Err("AlreadyExists"))
           \/ /\ ~SameEntry(i, c)
              /\ Cleared(i, c)[new_skey(i, c)] = None
              /\ DB!Stage(c, i, [Cleared(i, c) EXCEPT ![new_skey(i, c)] = req[c].pk])
              /\ Advance(c)

(* Index::remove: the primary key comes from the decoded record. *)
IndexRemove(c) ==
    LET i == pos[c]
        skey == store_key(i, IndexKey[i][old[c]], old[c].pk)
    IN  /\ pc[c] = "index" /\ i \in Registry /\ req[c].op = "remove"
        /\ DB!Stage(c, i, [staged[c][i] EXCEPT ![skey] = None])
        /\ Advance(c)

(* Mutant: commits before the last index is maintained. *)
Commit_Early(c) ==
    /\ pc[c] = "index" /\ pos[c] >= NumIndexes
    /\ DB!Commit(c)
    /\ Finish(c, Ok({}))

(* `tx.commit()' after the last index. *)
Commit(c) ==
    /\ pc[c] = "index" /\ pos[c] > NumIndexes
    /\ DB!Commit(c)
    /\ Finish(c, Ok({}))

-------------------------------------------------------------------------------
(* get, scan, IndexScan::get and index scans *)

(* `self.db.read(self.name)': the snapshot of the whole query. *)
BeginRead(c) ==
    /\ pc[c] = "called"
    /\ req[c] \in QueryRequests
    /\ DB!Read(c)
    /\ pc' = [pc EXCEPT ![c] = "reading"]
    /\ UNCHANGED <<req, old, pos, reply>>

(* Mutant: deleted keys are not skipped. *)
RecordsIn_All(main) == {main[p] : p \in Pks}

RecordsIn(main) == {Decode[main[p]] : p \in {p \in Pks : main[p] # None}}

(* The primary keys held by the entries of index store kv with keys in K. *)
Hits(kv, K) == {kv[sk] : sk \in {sk \in EntryKeys : sk[1] \in K /\ kv[sk] # None}}

(* What the query's code computes from the stores of its snapshot.  Through
   an index each entry is followed to the main store: IndexScan::get treats a
   missing record as no record, IndexIterator reports it as an error. *)
QueryResult(q, s) ==
    LET main == s[MAIN_STORE]
        hits == Hits(s[q.idx], q.keys)
        live == {p \in hits : main[p] # None}
        recs == {Decode[main[p]] : p \in live}
    IN  CASE q.op = "get" -> Ok(IF main[q.pk] = None THEN {} ELSE {Decode[main[q.pk]]})
          [] q.op = "scan" -> Ok(RecordsIn(main))
          [] q.op = "index_get" -> Ok(recs)
          [] q.op = "index_scan" -> IF live = hits THEN Ok(recs) ELSE Err("Unexpected")

(* Mutants: the main store is opened on a later read handle than the index; a
   query waits for the open writer. *)
AnswerQuery_TwoReads(c) ==
    /\ pc[c] = "reading"
    /\ DB!CloseRead(c)
    /\ Finish(c, QueryResult(req[c], [snapshot[c] EXCEPT ![MAIN_STORE] = committed[MAIN_STORE]]))
AnswerQuery_Waits(c) ==
    /\ pc[c] = "reading" /\ writer = None
    /\ DB!CloseRead(c)
    /\ Finish(c, QueryResult(req[c], snapshot[c]))

AnswerQuery(c) ==
    /\ pc[c] = "reading"
    /\ DB!CloseRead(c)
    /\ Finish(c, QueryResult(req[c], snapshot[c]))

-------------------------------------------------------------------------------
(* Errors of the backend and of the user's codec *)

(* The main-store step gets as far as to_bytes or from_bytes. *)
UsesCodec(c) ==
    CASE req[c].op = "insert" -> Stored(c) = None
      [] req[c].op = "save" -> TRUE
      [] OTHER -> Stored(c) # None

Fail(c) ==
    \/ /\ pc[c] = "called"
       /\ Finish(c, Err("Backend"))
       /\ UNCHANGED dbVars
    \/ /\ pc[c] \in {"main", "index"}
       /\ Abort(c, Err("Backend"))
    \/ /\ pc[c] = "main" /\ UsesCodec(c)
       /\ Abort(c, Err("Codec"))
    \/ /\ pc[c] = "reading"
       /\ DB!CloseRead(c)
       /\ \E e \in {"Backend", "Codec"} : Finish(c, Err(e))

-------------------------------------------------------------------------------
WriteStep(c) ==
    \/ BeginWrite(c)
    \/ InsertMain(c) \/ UpdateMain(c) \/ SaveMain(c) \/ RemoveMain(c)
    \/ IndexUpdate(c) \/ IndexRemove(c)
    \/ Commit(c)

ReadStep(c) == BeginRead(c) \/ AnswerQuery(c)

Next ==
    \E c \in Clients :
        Call(c) \/ WriteStep(c) \/ ReadStep(c) \/ Fail(c) \/ Return(c)

Spec == Init /\ [][Next]_vars

(* Every thread keeps running: an operation whose next step stays possible
   takes it.  Nothing is assumed about which waiting writer gets the gate. *)
Fairness ==
    \A c \in Clients : WF_vars(WriteStep(c)) /\ WF_vars(ReadStep(c)) /\ WF_vars(Return(c))

FairSpec == Spec /\ Fairness

-------------------------------------------------------------------------------
(* Properties *)

TypeOK ==
    /\ committed \in DB!Contents
    /\ writer \in Clients \union {None}
    /\ staged \in [Clients -> DB!Contents \union {None}]
    /\ snapshot \in [Clients -> DB!Contents \union {None}]
    /\ pc \in [Clients -> Steps]
    /\ req \in [Clients -> Requests \union {None}]
    /\ old \in [Clients -> Records \union {None}]
    /\ pos \in [Clients -> 1 .. NumIndexes + 1]
    /\ reply \in [Clients -> Replies \union {None}]

(* Index store kv of position i holds exactly one entry per record of the
   main store, under the record's stored key, with its primary key. *)
Agrees(i, main, kv) ==
    \A sk \in EntryKeys, p \in Pks :
        kv[sk] = p <=> main[p] # None /\ store_key(i, IndexKey[i][main[p]], p) = sk

AllAgree(s) == \A i \in Registry : Agrees(i, s[MAIN_STORE], s[i])

(* Whatever insert, update, save and remove do in several steps, and wherever
   they fail, the published indexes always describe the published records
   exactly, and so do the stores any open read handle looks at. *)
IndexConsistent ==
    /\ AllAgree(committed)
    /\ \A c \in Clients : snapshot[c] # None => AllAgree(snapshot[c])

(* "A unique index allows at most one record for each extracted index key"
   (index.rs): over the records themselves, not over the index entries. *)
UniqueKeys ==
    \A i \in UniqueIdx : \A p, q \in Pks :
        LET main == committed[MAIN_STORE]
        IN  main[p] # None /\ main[q] # None /\ IndexKey[i][main[p]] = IndexKey[i][main[q]]
                => p = q

(* An index scan never meets an entry whose record is missing, the case
   IndexIterator turns into Error::Unexpected, although records are removed
   while the scan is open. *)
NoUnexpected == \A c \in Clients : reply[c] # None => reply[c].status # "Unexpected"

(* What holds in the middle of a write transaction: the main store is done,
   the indexes before pos are up to date with it, the others are untouched. *)
MidTransaction(c) ==
    LET main == committed[MAIN_STORE]
        key == req[c].pk
        op == req[c].op
    IN  /\ op = "insert" => main[key] = None
        /\ op \in {"update", "remove"} => main[key] # None
        /\ old[c] = IF main[key] = None THEN None ELSE Decode[main[key]]
        /\ staged[c][MAIN_STORE] =
               [main EXCEPT ![key] = IF op = "remove" THEN None ELSE NewRecord(c)]
        /\ \A i \in Registry :
               IF i < pos[c] THEN Agrees(i, staged[c][MAIN_STORE], staged[c][i])
                             ELSE staged[c][i] = committed[i]

(* A record is stored under its own primary key; an index entry holds a
   primary key. *)
WellFormed(s) ==
    /\ \A p \in Pks :
        s[MAIN_STORE][p] # None => s[MAIN_STORE][p] \in Records /\ s[MAIN_STORE][p].pk = p
    /\ \A i \in Registry, sk \in EntryKeys : s[i][sk] \in Pks \union {None}

(* Which handle an operation holds at each of its steps. *)
HandleInv ==
    /\ WellFormed(committed)
    /\ \A c \in Clients :
        /\ writer = c <=> pc[c] \in {"main", "index"}
        /\ pc[c] \in {"main", "index"} => staged[c] \in DB!Contents /\ WellFormed(staged[c])
        /\ pc[c] = "reading" => snapshot[c] \in DB!Contents /\ WellFormed(snapshot[c])
        /\ pc[c] # "reading" => snapshot[c] = None
        /\ pc[c] = "called" => req[c] \in Requests
        /\ pc[c] = "reading" => req[c] \in QueryRequests
        /\ pc[c] \in {"main", "index"} => req[c] \in WriteRequests

(* The inductive invariant behind IndexConsistent, over what is published, every
   open snapshot and every transaction under way. *)
TransactionInv ==
    /\ HandleInv
    /\ \A c \in Clients :
        /\ pc[c] = "main" => staged[c] = committed
        /\ pc[c] = "index" => MidTransaction(c)
    /\ IndexConsistent

-------------------------------------------------------------------------------
(* Refinement: the published main store is the set of records; a write takes
   effect when it commits, a query when it takes its snapshot. *)
Published(main) == {main[p] : p \in {p \in Pks : main[p] # None}}

(* The records a query asks for. *)
Wanted(q, r) ==
    CASE q.op = "get" -> r.pk = q.pk
      [] q.op = "scan" -> TRUE
      [] q.op = "index_get" -> IndexKey[q.idx][r] \in q.keys
      [] q.op = "index_scan" -> IndexKey[q.idx][r] \in q.keys

(* What a query that works on the stores s has to find. *)
Seen(q, s) == Ok({Decode[r] : r \in {r \in Published(s[MAIN_STORE]) : Wanted(q, r)}})

(* What the callers will be told: for a query under way it is settled by its
   snapshot. *)
Answers == [c \in Clients |-> IF pc[c] = "reading" THEN Seen(req[c], snapshot[c]) ELSE reply[c]]

Abstract ==
    INSTANCE RecordMap WITH
        records <- Published(committed[MAIN_STORE]),
        asked <- req,
        answer <- Answers

(* Each operation of the collection is one atomic step on a set of records
   with unique keys, or an error that changes nothing: no caller can see the
   transactions, the index stores or each other's half-done work. *)
ImplementsRecordMap == Abstract!Spec

(* An operation that holds the backend's only write handle gives it back,
   whichever way it ends. *)
WriterReleased == \A c \in Clients : writer = c ~> writer # c

(* Queries are never held up by writers: every called query returns. *)
QueriesReturn == \A c \in Clients : req[c] \in QueryRequests ~> req[c] = None
===============================================================================
