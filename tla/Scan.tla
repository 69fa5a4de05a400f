-------------------------------- MODULE Scan --------------------------------
(***************************************************************************)
(* A client that pages through a scan while others commit: the builders    *)
(* and executors of scan.rs, the iterators of iter.rs and the ordered scan *)
(* of the memory backend.                                                  *)
(*                                                                         *)
(* The store scanned holds entries [key, pk]: the entries of an index, or  *)
(* the records of the primary store.  An iterator is the set of entries it *)
(* has still to yield.                                                     *)
(***************************************************************************)
EXTENDS ScanBounds

CONSTANTS
    Schemas,       \* the scanned stores considered, a sequence of
                   \* [kind, type, pktype, keys, pks, start (keys held at first), cursors,
                   \*  commits (bound on the entries others add or remove)]
    None

VARIABLES
    schema,    \* which of Schemas
    store,     \* committed entries
    snapshot,  \* entries of the read handle
    request,   \* what the client asked for, None between scans
    first,     \* the cursor its first page started after, or None
    cursor,    \* the cursor of the page, then of the last entry yielded
    status,    \* "idle", "building", "open", "done", "out_of_bounds", "panicked"
    iter,      \* entries the iterator has still to yield
    seen,      \* entries yielded, over all pages
    stable,    \* entries committed all the time since the first page was asked for
    commits    \* entries added or removed by others

vars == <<schema, store, snapshot, request, first, cursor, status, iter, seen, stable, commits>>

Entries(sch) == [key : sch.keys, pk : sch.pks]

ASSUME ScanAssumption ==
    \A i \in DOMAIN Schemas :
        LET sch == Schemas[i]
        IN /\ sch.kind \in {"unique", "multi", "primary"} /\ sch.commits \in Nat
           /\ {sch.type, sch.pktype} \subseteq Seq(PartTypes) \ {<<>>}
           /\ \A k \in sch.keys : IsKey(sch.type, k)
           /\ \A k \in sch.pks : IsKey(sch.pktype, k)
           /\ sch.pks # {} /\ sch.start \subseteq sch.keys /\ sch.cursors \subseteq Entries(sch)
           /\ None \notin Entries(sch)

S == Schemas[schema]
Multi == S.kind = "multi"

(* IndexKind::store_key and Index::cursor: the key an entry is stored under,
   and the cursor that stands for it. *)
store_key(e) == IF Multi THEN encode(S.type \o S.pktype, e.key \o e.pk) ELSE encode(S.type, e.key)

(* The requests the builders can be asked for; only index scans have prefixes. *)
Bounds(keys) == {Unbounded} \union {Included(k) : k \in keys} \union {Excluded(k) : k \in keys}

Requests ==
    LET Prefixed(n) ==
            [prefix : {SubSeq(k, 1, n) : k \in S.keys},
             lo : Bounds({Rest(k, n) : k \in S.keys}),
             hi : Bounds({Rest(k, n) : k \in S.keys}),
             direction : Directions]
    IN UNION {Prefixed(n) : n \in IF S.kind = "primary" THEN {0} ELSE 0 .. Len(S.type) - 1}

Init ==
    /\ schema \in DOMAIN Schemas
    /\ store = [key : S.start, pk : S.pks]
    /\ snapshot = {} /\ iter = {} /\ stable = {} /\ seen = <<>>
    /\ request = None /\ first = None /\ cursor = None
    /\ status = "idle"
    /\ commits = 0

-------------------------------------------------------------------------------
(* Collection::scan or index_scan: the snapshot is taken at once; the builders
   that follow record request and cursor. *)
Begin(r, c) ==
    /\ status = "idle"
    /\ request' = r
    /\ first' = c /\ cursor' = c
    /\ snapshot' = store /\ stable' = store
    /\ status' = "building"
    /\ UNCHANGED <<schema, store, iter, seen, commits>>

(* The next page: the same request on a new snapshot, after the last entry. *)
Resume ==
    /\ status = "open" /\ seen # <<>>
    /\ snapshot' = store
    /\ iter' = {}
    /\ status' = "building"
    /\ UNCHANGED <<schema, store, request, first, cursor, seen, stable, commits>>

(* ScanExecutor::open: the backend's iterator over the entries in the range. *)
open(scan, entries) ==
    /\ IF RangePanics(scan.range)
       THEN status' = "panicked" /\ UNCHANGED iter
       ELSE /\ iter' = {e \in entries : RangeContains(scan.range, store_key(e))}
            /\ status' = "open"
    /\ UNCHANGED <<schema, store, snapshot, request, first, cursor, seen, stable, commits>>

(* The chain of builders before `after', and with it. *)
Compiled == compile(Multi, S.type, request)
CompiledAfter == IF cursor = None THEN Compiled ELSE AfterScan(Compiled, store_key(cursor))

(* Mutant: a cursor is not compared with the range. *)
Iter_Unchecked == status = "building" /\ open(CompiledAfter, snapshot)

(* Mutant: the stores are read when the iterator is opened, not when the scan
   is begun. *)
Iter_Live == status = "building" /\ open(CompiledAfter, store)

(* Scan::iter: compile, which refuses a cursor outside the range, then open. *)
Iter ==
    /\ status = "building"
    /\ IF cursor # None /\ ~RangeContains(Compiled.range, store_key(cursor))
       THEN /\ status' = "out_of_bounds"
            /\ UNCHANGED <<schema, store, snapshot, request, first, cursor, iter, seen, stable, commits>>
       ELSE open(CompiledAfter, snapshot)

(* The backend's iterator yields the entry at the end the scan comes from:
   the reversed range of the map in memory, DirectedRange in redb. *)
YieldsNext(e) ==
    \A f \in iter \ {e} :
        IF request.direction = "LeftToRight"
        THEN ByteLess(store_key(e), store_key(f))
        ELSE ByteLess(store_key(f), store_key(e))

(* Iterator::next *)
Take ==
    /\ status = "open"
    /\ \E e \in iter :
           /\ YieldsNext(e)
           /\ iter' = iter \ {e}
           /\ seen' = Append(seen, e)
           /\ cursor' = e
    /\ UNCHANGED <<schema, store, snapshot, request, first, status, stable, commits>>

(* Iterator::next has nothing left. *)
Exhausted ==
    /\ status = "open" /\ iter = {}
    /\ status' = "done"
    /\ UNCHANGED <<schema, store, snapshot, request, first, cursor, iter, seen, stable, commits>>

(* The client has its result, or its error. *)
Close ==
    /\ status \in {"done", "out_of_bounds", "panicked"}
    /\ status' = "idle"
    /\ request' = None /\ first' = None /\ cursor' = None
    /\ snapshot' = {} /\ iter' = {} /\ stable' = {} /\ seen' = <<>>
    /\ UNCHANGED <<schema, store, commits>>

(* Others add an entry, under a key that is free, or remove one. *)
Commit(e) ==
    /\ status \in {"building", "open"} /\ commits < S.commits
    /\ \/ e \in store /\ store' = store \ {e}
       \/ /\ \A f \in store : store_key(f) # store_key(e)
          /\ store' = store \union {e}
    /\ stable' = stable \intersect store'
    /\ commits' = commits + 1
    /\ UNCHANGED <<schema, snapshot, request, first, cursor, status, iter, seen>>

Next ==
    \/ \E r \in Requests, c \in {None} \union S.cursors : Begin(r, c)
    \/ Resume \/ Iter \/ Take \/ Exhausted \/ Close
    \/ \E e \in Entries(S) : Commit(e)

Spec == Init /\ [][Next]_vars

-------------------------------------------------------------------------------
TypeOK ==
    /\ schema \in DOMAIN Schemas
    /\ snapshot \subseteq Entries(S) /\ iter \subseteq snapshot
    /\ store \subseteq Entries(S) /\ stable \subseteq store
    /\ seen \in Seq(Entries(S))
    /\ {first, cursor} \subseteq {None} \union Entries(S)
    /\ status \in {"idle", "building", "open", "done", "out_of_bounds", "panicked"}
    /\ commits \in 0 .. S.commits

(* An entry is asked for when its logical key is: its primary key plays no part. *)
Wanted(e) == Requested(S.type, request, e.key)

(* Order of entries: by key and, where keys may repeat, by primary key. *)
EntryLess(e, f) ==
    IF Multi THEN KeyLess(S.type \o S.pktype, e.key \o e.pk, f.key \o f.pk)
    ELSE KeyLess(S.type, e.key, f.key)

Beyond(e, c) ==
    c = None \/ IF request.direction = "LeftToRight" THEN EntryLess(c, e) ELSE EntryLess(e, c)

(* Text and enums of mixed signs are not kept in order (KeyCodec), so scans
   across them are left out: here only a prefix may fix them. *)
KeepsOrder ==
    Ordered(Rest(S.type, Len(request.prefix)) \o (IF Multi THEN S.pktype ELSE <<>>))

(* The range asked for holds some key at all. *)
Admits == \E k \in S.keys : Requested(S.type, request, k)

Regular == request # None /\ Admits /\ KeepsOrder

(* At every moment an open iterator has still to yield exactly the entries of
   its snapshot that the request asks for and that lie beyond the last one
   yielded: byte bounds, clamping to the prefix, the groups of a Multi index
   and the cursor together select by the logical key, and the order of the
   bytes is the order of the keys. *)
IterExact ==
    status = "open" /\ Regular => iter = {e \in snapshot : Wanted(e) /\ Beyond(e, cursor)}

(* A cursor is refused exactly when its key is outside the request; so the
   cursor of an entry that was yielded always resumes the scan, also when that
   entry has been removed since. *)
CursorChecked ==
    Regular /\ cursor # None =>
        /\ status = "out_of_bounds" => ~Wanted(cursor)
        /\ status \in {"open", "done"} => Wanted(cursor)

(* A range that holds some key never makes the ordered map panic. *)
NoPanic == Regular => status # "panicked"

(* Paging through a scan while others commit: once the client has reached the
   end it has every entry asked for that was there all the time; and it never
   sees an entry twice or out of order, wherever the pages were cut. *)
PagesComplete ==
    Regular =>
        /\ \A i, j \in DOMAIN seen : i < j => Beyond(seen[j], seen[i])
        /\ status = "done" =>
               \A e \in stable : Wanted(e) /\ Beyond(e, first) => Contains(seen, e)

(* "this range is over the index key" (IndexScan::range): a range of logical
   keys that holds no key selects no entry. *)
EmptyRangeYieldsNothing ==
    status = "open" /\ ~Admits => iter = {}
=============================================================================
