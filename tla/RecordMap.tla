------------------------------- MODULE RecordMap -------------------------------
(***************************************************************************)
(* What a collection promises its callers: a set of records with distinct  *)
(* primary keys and distinct keys in every unique index, on which every    *)
(* operation takes effect at one instant between its call and its return,  *)
(* or fails and changes nothing.  There are no stores, no index entries    *)
(* and no transactions here; Collection is shown to implement this.        *)
(***************************************************************************)
EXTENDS Schema

CONSTANT Clients

VARIABLES
    records,    \* the records of the collection
    asked,      \* asked[c]: the operation c has called and not yet returned from, or None
    answer      \* answer[c]: its outcome once decided, or None

vars == <<records, asked, answer>>

(* An outcome: the Ok value or the name of the error variant, with the
   records a successful query returns. *)
Ok(rs) == [status |-> "Ok", found |-> rs]
Err(e) == [status |-> e, found |-> {}]

Holds(pk) == \E r \in records : r.pk = pk

(* Another record has the same key in some unique index. *)
Clashes(r) ==
    \E s \in records : \E i \in UniqueIdx :
        s.pk # r.pk /\ IndexKey[i][s] = IndexKey[i][r]

Without(pk) == {r \in records : r.pk # pk}

Init ==
    /\ records = {}
    /\ asked = [c \in Clients |-> None]
    /\ answer = [c \in Clients |-> None]

Call(c) ==
    /\ asked[c] = None
    /\ \E q \in Requests : asked' = [asked EXCEPT ![c] = q]
    /\ UNCHANGED <<records, answer>>

Decide(c, rs, a) ==
    /\ asked[c] # None
    /\ answer[c] = None
    /\ records' = rs
    /\ answer' = [answer EXCEPT ![c] = a]
    /\ UNCHANGED asked

(* insert, update and save *)
Store(c) ==
    LET q == asked[c]
        r == [pk |-> q.pk, val |-> q.val]
    IN  /\ q.op \in {"insert", "update", "save"}
        /\ \/ /\ q.op = "insert" => ~Holds(q.pk)
              /\ q.op = "update" => Holds(q.pk)
              /\ ~Clashes(r)
              /\ Decide(c, Without(q.pk) \union {r}, Ok({}))
           \/ /\ \/ q.op = "insert" /\ Holds(q.pk)
                 \/ (q.op = "update" => Holds(q.pk)) /\ Clashes(r)
              /\ Decide(c, records, Err("AlreadyExists"))
           \/ /\ q.op = "update" /\ ~Holds(q.pk)
              /\ Decide(c, records, Err("NotFound"))

(* remove of a missing key succeeds. *)
Delete(c) ==
    /\ asked[c].op = "remove"
    /\ Decide(c, Without(asked[c].pk), Ok({}))

(* get, scan, IndexScan::get and index scans restricted to a set of keys *)
Matches(q, r) ==
    CASE q.op = "get" -> r.pk = q.pk
      [] q.op = "scan" -> TRUE
      [] q.op = "index_get" -> IndexKey[q.idx][r] \in q.keys
      [] q.op = "index_scan" -> IndexKey[q.idx][r] \in q.keys

(* The caller gets the records as the codec decodes them. *)
QueryAnswer(q, rs) == Ok({Decode[r] : r \in {r \in rs : Matches(q, r)}})

Query(c) ==
    /\ asked[c].op \in {"get", "scan", "index_get", "index_scan"}
    /\ Decide(c, records, QueryAnswer(asked[c], records))

(* The backend or the codec reports an error.  A query may still fail after
   the instant it observes, while it reads what it has seen. *)
Fail(c) ==
    \E e \in {"Backend", "Codec"} :
        \/ Decide(c, records, Err(e))
        \/ /\ asked[c] \in QueryRequests
           /\ answer' = [answer EXCEPT ![c] = Err(e)]
           /\ UNCHANGED <<records, asked>>

Return(c) ==
    /\ answer[c] # None
    /\ asked' = [asked EXCEPT ![c] = None]
    /\ answer' = [answer EXCEPT ![c] = None]
    /\ UNCHANGED records

Next ==
    \E c \in Clients :
        \/ Call(c)
        \/ asked[c] # None /\ (Store(c) \/ Delete(c) \/ Query(c) \/ Fail(c))
        \/ Return(c)

Spec == Init /\ [][Next]_vars
===============================================================================
