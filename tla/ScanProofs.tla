------------------------------ MODULE ScanProofs ------------------------------
(***************************************************************************)
(* Proofs about Scan, for stores of any key types, keys and size, and any   *)
(* number of commits between the pages.                                    *)
(***************************************************************************)
EXTENDS Scan, KeyOrderProofs

(* A request is one the builders can make; between scans nothing is left of the
   last one; and a snapshot holds what was committed all the time. *)
RequestOK ==
    /\ request = None \/ request \in Requests
    /\ status = "idle" => request = None /\ iter = {} /\ seen = <<>>
    /\ stable \subseteq snapshot

(* The schema never changes, and within a scan neither does the request. *)
LEMMA SchemaType ==
    ASSUME schema \in DOMAIN Schemas
    PROVE  /\ S.kind \in {"unique", "multi", "primary"} /\ S.commits \in Nat
           /\ S.type \in Seq(PartTypes) /\ S.pktype \in Seq(PartTypes)
           /\ S.type # <<>> /\ S.pktype # <<>>
           /\ (\A k \in S.keys : IsKey(S.type, k)) /\ (\A k \in S.pks : IsKey(S.pktype, k))
           /\ S.pks # {} /\ S.start \subseteq S.keys /\ S.cursors \subseteq Entries(S)
           /\ None \notin Entries(S)
  BY ScanAssumption DEF S

(* Every step keeps the types. *)
LEMMA ScanTypeStep ==
    ASSUME TypeOK, RequestOK, [Next]_vars
    PROVE  TypeOK' /\ RequestOK'
  <1> USE DEF TypeOK, RequestOK
  <1>1. SUFFICES ASSUME Next PROVE TypeOK' /\ RequestOK'
    <2>1. CASE UNCHANGED vars
      <3>1. S' = S /\ Requests' = Requests
        BY <2>1 DEF vars, S, Requests
      <3> QED
        BY <2>1, <3>1 DEF vars
    <2> QED
      BY <1>1, <2>1
  <1>2. schema' = schema
    BY <1>1 DEF Next, Begin, Resume, Iter, open, Take, Exhausted, Close, Commit
  <1>3. S' = S /\ Requests' = Requests
    BY <1>2 DEF S, Requests
  <1>4. CASE \E r \in Requests, c \in {None} \union S.cursors : Begin(r, c)
    <2>1. PICK r \in Requests, c \in {None} \union S.cursors : Begin(r, c)
      BY <1>4
    <2>2. c \in {None} \union Entries(S)
      BY SchemaType
    <2>3. RequestOK'
      BY <1>3, <2>1 DEF Begin
    <2>4. TypeOK'
      BY <1>3, <2>1, <2>2 DEF Begin
    <2> QED
      BY <2>3, <2>4
  <1>5. CASE Resume
    BY <1>3, <1>5 DEF Resume
  <1>6. CASE Iter
    BY <1>3, <1>6 DEF Iter, open
  <1>7. CASE Take
    <2>1. PICK e \in iter : /\ iter' = iter \ {e} /\ seen' = Append(seen, e) /\ cursor' = e
      BY <1>7 DEF Take
    <2>2. e \in Entries(S) /\ seen' \in Seq(Entries(S))
      BY <2>1
    <2> QED
      BY <1>3, <1>7, <2>1, <2>2 DEF Take
  <1>8. CASE Exhausted
    BY <1>3, <1>8 DEF Exhausted
  <1>9. CASE Close
    BY <1>3, <1>9 DEF Close
  <1>10. CASE \E e \in Entries(S) : Commit(e)
    <2>1. PICK e \in Entries(S) : Commit(e)
      BY <1>10
    <2>2. store' \subseteq Entries(S) /\ stable' \subseteq store'
      BY <2>1 DEF Commit
    <2>3. commits' \in 0 .. S.commits
      BY <2>1, SchemaType DEF Commit
    <2> QED
      BY <1>3, <2>1, <2>2, <2>3 DEF Commit
  <1> QED
    BY <1>1, <1>4, <1>5, <1>6, <1>7, <1>8, <1>9, <1>10 DEF Next

LEMMA ScanTypeInit ==
    ASSUME Init
    PROVE  TypeOK /\ RequestOK
  <1>1. [key : S.start, pk : S.pks] \subseteq Entries(S) /\ 0 \in 0 .. S.commits
    BY SchemaType DEF Init, Entries
  <1> QED
    BY <1>1 DEF Init, TypeOK, RequestOK

(* Type correctness of the pager. *)
THEOREM ScanTypeCorrect == Spec => []TypeOK
  <1>1. Init => TypeOK /\ RequestOK
    BY ScanTypeInit
  <1>2. TypeOK /\ RequestOK /\ [Next]_vars => (TypeOK /\ RequestOK)'
    BY ScanTypeStep
  <1> QED
    BY <1>1, <1>2, PTL DEF Spec

-------------------------------------------------------------------------------
(* What paging rests on: in the bytes, the range of the request holds the keys
   that the request asks for, and their order is the order of the bytes. *)
Faithful ==
    /\ \A e \in Entries(S) : store_key(e) \in ByteStrings
    /\ {Compiled.range.start, Compiled.range.end} \subseteq Bounds(ByteStrings)
    /\ \A e \in Entries(S) : RangeContains(Compiled.range, store_key(e)) <=> Wanted(e)
    /\ \A e, f \in Entries(S) :
           Wanted(e) /\ Wanted(f) => (EntryLess(e, f) <=> ByteLess(store_key(e), store_key(f)))

(* What compile returns. *)
LEMMA CompiledIs ==
    ASSUME TRUE
    PROVE  Compiled = [range |-> [start |-> Compiled.range.start, end |-> Compiled.range.end],
                       direction |-> request.direction]
  <1>1. \A range, d : DirectedScan([range |-> range, direction |-> d], request.direction)
                        = [range |-> range, direction |-> request.direction]
    BY DEF DirectedScan
  <1>2. \A range, new, d : RangeScan([range |-> range, direction |-> d], new)
                        = [range |-> new, direction |-> d]
    BY DEF RangeScan
  <1>3. PrefixedScan(FullScan, S.type, request.prefix)
            = [range |-> encode_prefix(S.type, request.prefix), direction |-> "LeftToRight"]
    BY DEF PrefixedScan, FullScan
  <1>4. \E a, b : Compiled = [range |-> [start |-> a, end |-> b], direction |-> request.direction]
    <2>1. \A lo, hi : /\ \E a, b : encode_range(Multi, S.type, lo, hi) = [start |-> a, end |-> b]
                      /\ \E a, b : encode_prefixed_range(Multi, S.type, request.prefix, lo, hi)
                                       = [start |-> a, end |-> b]
      BY DEF encode_range, encode_prefixed_range
    <2>2. \E a, b : encode_prefix(S.type, request.prefix) = [start |-> a, end |-> b]
      BY DEF encode_prefix
    <2>3. \E a, b : FullScan = [range |-> [start |-> a, end |-> b], direction |-> "LeftToRight"]
      BY DEF FullScan
    <2> DEFINE prefixed == IF request.prefix = <<>> THEN FullScan
                           ELSE PrefixedScan(FullScan, S.type, request.prefix)
               range == IF request.prefix = <<>> THEN encode_range(Multi, S.type, request.lo, request.hi)
                        ELSE encode_prefixed_range(Multi, S.type, request.prefix, request.lo, request.hi)
               ranged == IF request.lo = Unbounded /\ request.hi = Unbounded THEN prefixed
                         ELSE RangeScan(prefixed, range)
    <2>4. Compiled = DirectedScan(ranged, request.direction)
      BY DEF Compiled, compile
    <2>5. \E a, b : prefixed = [range |-> [start |-> a, end |-> b], direction |-> "LeftToRight"]
      BY <1>3, <2>2, <2>3
    <2>6. \E a, b : range = [start |-> a, end |-> b]
      <3>1. \E a, b : encode_range(Multi, S.type, request.lo, request.hi) = [start |-> a, end |-> b]
        BY <2>1
      <3>2. \E a, b : encode_prefixed_range(Multi, S.type, request.prefix, request.lo, request.hi)
                         = [start |-> a, end |-> b]
        BY <2>1
      <3> QED
        BY <3>1, <3>2
    <2> HIDE DEF prefixed, range
    <2>7. RangeScan(prefixed, range) = [range |-> range, direction |-> "LeftToRight"]
      BY <1>2, <2>5
    <2>8. \E a, b : ranged = [range |-> [start |-> a, end |-> b], direction |-> "LeftToRight"]
      BY <2>5, <2>6, <2>7
    <2> HIDE DEF ranged
    <2>9. PICK a, b : ranged = [range |-> [start |-> a, end |-> b], direction |-> "LeftToRight"]
      BY <2>8
    <2>10. Compiled = DirectedScan([range |-> [start |-> a, end |-> b], direction |-> "LeftToRight"],
                                   request.direction)
      BY <2>4, <2>9
    <2>11. Compiled = [range |-> [start |-> a, end |-> b], direction |-> request.direction]
      BY <1>1, <2>10
    <2> QED
      BY <2>11
  <1> QED
    BY <1>4

(* The range of a scan that starts after a cursor: the cursor takes the place of
   the bound the scan comes from. *)
LEMMA AfterIs ==
    ASSUME NEW c
    PROVE  AfterScan(Compiled, c).range =
               IF request.direction = "LeftToRight"
               THEN [start |-> Excluded(c), end |-> Compiled.range.end]
               ELSE [start |-> Compiled.range.start, end |-> Excluded(c)]
  <1>1. PICK a, b : Compiled = [range |-> [start |-> a, end |-> b], direction |-> request.direction]
    BY CompiledIs
  <1> QED
    BY <1>1 DEF AfterScan

(* The kinds of bounds exclude each other. *)
LEMMA BoundIs ==
    ASSUME NEW b \in Bounds(ByteStrings)
    PROVE  \/ b = Unbounded /\ b.bound = "Unbounded"
           \/ b = Included(b.key) /\ b.bound = "Included" /\ b.key \in ByteStrings
           \/ b = Excluded(b.key) /\ b.bound = "Excluded" /\ b.key \in ByteStrings
  BY DEF Bounds, Unbounded, Included, Excluded

(* Of two entries asked for, one lies beyond the other where its bytes do. *)
LEMMA BeyondIs ==
    ASSUME schema \in DOMAIN Schemas, Faithful,
           NEW e \in Entries(S), NEW f \in Entries(S), Wanted(e), Wanted(f)
    PROVE  Beyond(e, f) <=> IF request.direction = "LeftToRight"
                            THEN ByteLess(store_key(f), store_key(e))
                            ELSE ByteLess(store_key(e), store_key(f))
  <1>1. f # None
    BY SchemaType
  <1> QED
    BY <1>1 DEF Faithful, Beyond

(* Nothing lies beyond itself. *)
LEMMA BeyondIrreflexive ==
    ASSUME schema \in DOMAIN Schemas, Faithful, NEW e \in Entries(S), Wanted(e)
    PROVE  ~Beyond(e, e)
  <1>1. store_key(e) \in ByteStrings
    BY DEF Faithful
  <1> QED
    BY <1>1, BeyondIs, ByteLessIrreflexive

(* What lies beyond an entry lies beyond all that came before it. *)
LEMMA BeyondTransitive ==
    ASSUME schema \in DOMAIN Schemas, Faithful,
           NEW e \in Entries(S), NEW f \in Entries(S), NEW g \in {None} \union Entries(S),
           Wanted(e), Wanted(f), g # None => Wanted(g), Beyond(e, f), Beyond(f, g)
    PROVE  Beyond(e, g)
  <1>1. CASE g = None
    BY <1>1 DEF Beyond
  <1>2. CASE g # None
    <2>1. /\ store_key(e) \in ByteStrings /\ store_key(f) \in ByteStrings
          /\ store_key(g) \in ByteStrings /\ g \in Entries(S)
      BY <1>2 DEF Faithful
    <2> QED
      BY <1>2, <2>1, BeyondIs, ByteLessTransitive
  <1> QED
    BY <1>1, <1>2

(* The range behind a cursor holds what is asked for beyond the cursor. *)
LEMMA AfterExact ==
    ASSUME schema \in DOMAIN Schemas, Faithful, NEW e \in Entries(S),
           cursor \in {None} \union Entries(S), cursor # None => Wanted(cursor)
    PROVE  RangeContains(CompiledAfter.range, store_key(e)) <=> Wanted(e) /\ Beyond(e, cursor)
  <1> DEFINE lo == Compiled.range.start
             hi == Compiled.range.end
             k == store_key(e)
             c == store_key(cursor)
  <1>1. CASE cursor = None
    BY <1>1 DEF CompiledAfter, Faithful, Beyond
  <1>2. CASE cursor # None
    <2>1. /\ k \in ByteStrings /\ c \in ByteStrings
          /\ lo \in Bounds(ByteStrings) /\ hi \in Bounds(ByteStrings)
          /\ RangeContains(Compiled.range, c) /\ (RangeContains(Compiled.range, k) <=> Wanted(e))
      BY <1>2 DEF Faithful
    <2>2. Wanted(e) => (Beyond(e, cursor) <=> IF request.direction = "LeftToRight"
                                             THEN ByteLess(c, k) ELSE ByteLess(k, c))
      BY <1>2, BeyondIs
    <2>3. CompiledAfter.range = IF request.direction = "LeftToRight"
                               THEN [start |-> Excluded(c), end |-> hi]
                               ELSE [start |-> lo, end |-> Excluded(c)]
      BY <1>2, AfterIs DEF CompiledAfter
    <2> HIDE DEF lo, hi, k, c
    <2>4. \A s \in ByteStrings :
             /\ RangeContains([start |-> Excluded(c), end |-> hi], s) <=>
                    /\ ByteLess(c, s)
                    /\ hi.bound = "Included" => ~ByteLess(hi.key, s)
                    /\ hi.bound = "Excluded" => ByteLess(s, hi.key)
             /\ RangeContains([start |-> lo, end |-> Excluded(c)], s) <=>
                    /\ ByteLess(s, c)
                    /\ lo.bound = "Included" => ~ByteLess(s, lo.key)
                    /\ lo.bound = "Excluded" => ByteLess(lo.key, s)
             /\ RangeContains(Compiled.range, s) <=>
                    /\ hi.bound = "Included" => ~ByteLess(hi.key, s)
                    /\ hi.bound = "Excluded" => ByteLess(s, hi.key)
                    /\ lo.bound = "Included" => ~ByteLess(s, lo.key)
                    /\ lo.bound = "Excluded" => ByteLess(lo.key, s)
      BY DEF RangeContains, Excluded, lo, hi
    <2>5. CASE request.direction = "LeftToRight"
      <3>1. ByteLess(c, k) => /\ lo.bound = "Included" => ~ByteLess(k, lo.key)
                              /\ lo.bound = "Excluded" => ByteLess(lo.key, k)
        <4>1. CASE lo.bound = "Included"
          <5>1. lo.key \in ByteStrings /\ ~ByteLess(c, lo.key)
            BY <2>1, <2>4, <4>1, BoundIs
          <5> QED
            BY <2>1, <4>1, <5>1, ByteLessTransitive
        <4>2. CASE lo.bound = "Excluded"
          <5>1. lo.key \in ByteStrings /\ ByteLess(lo.key, c)
            BY <2>1, <2>4, <4>2, BoundIs
          <5> QED
            BY <2>1, <4>2, <5>1, ByteLessTransitive
        <4> QED
          BY <4>1, <4>2
      <3> QED
        BY <2>1, <2>2, <2>3, <2>4, <2>5, <3>1 DEF k
    <2>6. CASE request.direction # "LeftToRight"
      <3>1. ByteLess(k, c) => /\ hi.bound = "Included" => ~ByteLess(hi.key, k)
                              /\ hi.bound = "Excluded" => ByteLess(k, hi.key)
        <4>1. CASE hi.bound = "Included"
          <5>1. hi.key \in ByteStrings /\ ~ByteLess(hi.key, c)
            BY <2>1, <2>4, <4>1, BoundIs
          <5> QED
            BY <2>1, <4>1, <5>1, ByteLessTransitive
        <4>2. CASE hi.bound = "Excluded"
          <5>1. hi.key \in ByteStrings /\ ByteLess(c, hi.key)
            BY <2>1, <2>4, <4>2, BoundIs
          <5> QED
            BY <2>1, <4>2, <5>1, ByteLessTransitive
        <4> QED
          BY <4>1, <4>2
      <3> QED
        BY <2>1, <2>2, <2>3, <2>4, <2>6, <3>1 DEF k
    <2> QED
      BY <2>5, <2>6
  <1> QED
    BY <1>1, <1>2

(* A range that holds some byte string makes no ordered map panic. *)
LEMMA InhabitedRange ==
    ASSUME NEW lo \in Bounds(ByteStrings), NEW hi \in Bounds(ByteStrings), NEW s \in ByteStrings,
           RangeContains([start |-> lo, end |-> hi], s)
    PROVE  ~RangePanics([start |-> lo, end |-> hi])
  <1> SUFFICES ASSUME lo # Unbounded, hi # Unbounded,
                      \/ ByteLess(hi.key, lo.key)
                      \/ lo = hi /\ lo.bound = "Excluded"
               PROVE  FALSE
    BY DEF RangePanics
  <1>1. lo.key \in ByteStrings /\ hi.key \in ByteStrings
    BY BoundIs
  <1>2. \/ lo.bound = "Included" /\ ~ByteLess(s, lo.key)
        \/ lo.bound = "Excluded" /\ ByteLess(lo.key, s)
    BY BoundIs DEF RangeContains
  <1>3. \/ hi.bound = "Included" /\ ~ByteLess(hi.key, s)
        \/ hi.bound = "Excluded" /\ ByteLess(s, hi.key)
    BY BoundIs DEF RangeContains
  <1>4. ~ByteLess(s, lo.key)
    BY <1>1, <1>2, ByteLessTransitive, ByteLessIrreflexive
  <1>5. ~ByteLess(hi.key, s)
    BY <1>1, <1>3, ByteLessTransitive, ByteLessIrreflexive
  <1>6. CASE ByteLess(hi.key, lo.key)
    BY <1>1, <1>4, <1>5, <1>6, ByteLessTransitive, ByteLessTotal
  <1>7. CASE lo = hi /\ lo.bound = "Excluded"
    BY <1>2, <1>4, <1>7, <1>3
  <1> QED
    BY <1>6, <1>7

(* Nor does the range of a request that some key meets, also behind a cursor. *)
LEMMA OpenSafe ==
    ASSUME schema \in DOMAIN Schemas, Faithful, Admits,
           cursor \in {None} \union Entries(S), cursor # None => Wanted(cursor)
    PROVE  ~RangePanics(CompiledAfter.range)
  <1> DEFINE lo == Compiled.range.start
             hi == Compiled.range.end
  <1>1. lo \in Bounds(ByteStrings) /\ hi \in Bounds(ByteStrings)
        /\ Compiled.range = [start |-> lo, end |-> hi]
    BY CompiledIs DEF Faithful
  <1> HIDE DEF lo, hi
  <1>2. CASE cursor = None
    <2>1. PICK k \in S.keys : Requested(S.type, request, k)
      BY DEF Admits
    <2>2. PICK pk \in S.pks : TRUE
      BY SchemaType
    <2>3. [key |-> k, pk |-> pk] \in Entries(S) /\ Wanted([key |-> k, pk |-> pk])
      BY <2>1, <2>2 DEF Entries, Wanted
    <2>4. \E s \in ByteStrings : RangeContains(Compiled.range, s)
      BY <2>3 DEF Faithful
    <2> QED
      BY <1>1, <1>2, <2>4, InhabitedRange DEF CompiledAfter
  <1>3. CASE cursor # None
    <2> DEFINE c == store_key(cursor)
    <2>1. c \in ByteStrings /\ RangeContains([start |-> lo, end |-> hi], c)
      BY <1>1, <1>3 DEF Faithful
    <2>2. CompiledAfter.range = IF request.direction = "LeftToRight"
                               THEN [start |-> Excluded(c), end |-> hi]
                               ELSE [start |-> lo, end |-> Excluded(c)]
      BY <1>3, AfterIs DEF CompiledAfter, lo, hi
    <2> HIDE DEF c
    <2>3. ~ByteLess(c, c)
      BY <2>1, ByteLessIrreflexive
    <2>4. ~RangePanics([start |-> Excluded(c), end |-> hi])
      <3>1. hi # Unbounded => \/ hi.bound = "Included" /\ ~ByteLess(hi.key, c)
                              \/ hi.bound = "Excluded" /\ ByteLess(c, hi.key) /\ hi.key \in ByteStrings
        BY <1>1, <2>1, BoundIs DEF RangeContains
      <3>2. hi # Unbounded => ~ByteLess(hi.key, c)
        BY <2>1, <2>3, <3>1, ByteLessTransitive
      <3> QED
        BY <2>3, <3>1, <3>2 DEF RangePanics, Excluded
    <2>5. ~RangePanics([start |-> lo, end |-> Excluded(c)])
      <3>1. lo # Unbounded => \/ lo.bound = "Included" /\ ~ByteLess(c, lo.key)
                              \/ lo.bound = "Excluded" /\ ByteLess(lo.key, c) /\ lo.key \in ByteStrings
        BY <1>1, <2>1, BoundIs DEF RangeContains
      <3>2. lo # Unbounded => ~ByteLess(c, lo.key)
        BY <2>1, <2>3, <3>1, ByteLessTransitive
      <3> QED
        BY <2>3, <3>1, <3>2 DEF RangePanics, Excluded
    <2> QED
      BY <2>2, <2>4, <2>5
  <1> QED
    BY <1>2, <1>3

-------------------------------------------------------------------------------
(* The entries asked for, and what lies beyond what. *)
Asked == {e \in Entries(S) : Wanted(e)}
Order == {p \in Entries(S) \X ({None} \union Entries(S)) : Beyond(p[1], p[2])}

(* What holds of the pages of a scan: the cursor stands for the last entry seen,
   entries are seen in order, an open iterator is exact, and each entry asked for
   that was there all the time has been seen or is still ahead. *)
PageInv ==
    /\ cursor = IF seen = <<>> THEN first ELSE seen[Len(seen)]
    /\ \A i \in DOMAIN seen : seen[i] \in Asked
    /\ \A i, j \in DOMAIN seen : i < j => <<seen[j], seen[i]>> \in Order
    /\ status \in {"open", "done"} => cursor \in {None} \union Asked
    /\ status = "out_of_bounds" => cursor \notin {None} \union Asked
    /\ status # "panicked"
    /\ status = "open" => iter = {e \in snapshot : e \in Asked /\ <<e, cursor>> \in Order}
    /\ \A e \in stable : e \in Asked /\ <<e, first>> \in Order =>
           Contains(seen, e) \/ (status # "done" /\ <<e, cursor>> \in Order)

ScanInv == TypeOK /\ RequestOK /\ (Regular /\ Faithful => PageInv)

(* Within a scan the meaning of its request stays. *)
LEMMA SameRequest ==
    ASSUME schema' = schema, request' = request
    PROVE  /\ S' = S /\ Asked' = Asked /\ Order' = Order
           /\ Regular' <=> Regular
           /\ Faithful' <=> Faithful
  <1> USE DEF S, Multi
  <1>1. Asked' = Asked
    BY DEF Asked, Wanted
  <1>2. Order' = Order
    BY DEF Order, Beyond, EntryLess
  <1>3. Regular' <=> Regular
    BY DEF Regular, Admits, KeepsOrder
  <1>4. Faithful' <=> Faithful
    BY DEF Faithful, store_key, Compiled, Wanted, EntryLess
  <1> QED
    BY <1>1, <1>2, <1>3, <1>4

LEMMA OrderTransitive ==
    ASSUME schema \in DOMAIN Schemas, Faithful,
           NEW e \in Asked, NEW f \in Asked, NEW g \in {None} \union Asked,
           <<e, f>> \in Order, <<f, g>> \in Order
    PROVE  <<e, g>> \in Order
  <1>1. Beyond(e, f) /\ Beyond(f, g)
    BY DEF Order
  <1>2. Beyond(e, g)
    BY <1>1, BeyondTransitive DEF Asked
  <1> QED
    BY <1>2 DEF Order, Asked

LEMMA OrderIrreflexive ==
    ASSUME schema \in DOMAIN Schemas, Faithful, NEW e \in Asked
    PROVE  <<e, e>> \notin Order
  BY BeyondIrreflexive DEF Order, Asked

(* Opening an iterator. *)
LEMMA OpenExact ==
    ASSUME schema \in DOMAIN Schemas, Faithful, snapshot \subseteq Entries(S),
           cursor \in {None} \union Asked
    PROVE  {e \in snapshot : RangeContains(CompiledAfter.range, store_key(e))}
               = {e \in snapshot : e \in Asked /\ <<e, cursor>> \in Order}
  <1>1. ASSUME NEW e \in snapshot
        PROVE  RangeContains(CompiledAfter.range, store_key(e)) <=> e \in Asked /\ <<e, cursor>> \in Order
    <2>1. RangeContains(CompiledAfter.range, store_key(e)) <=> Wanted(e) /\ Beyond(e, cursor)
      BY AfterExact DEF Asked
    <2> QED
      BY <2>1 DEF Asked, Order
  <1> QED
    BY <1>1

(* The first page: nothing is seen yet. *)
LEMMA PageBegin ==
    ASSUME ScanInv, NEW r, NEW c \in {None} \union S.cursors, Begin(r, c)
    PROVE  PageInv'
  <1>1. seen' = <<>> /\ cursor' = first' /\ status' = "building"
    BY DEF Begin, ScanInv, RequestOK
  <1>2. \A e \in stable' : e \in Asked' /\ <<e, first'>> \in Order' => <<e, cursor'>> \in Order'
    BY <1>1
  <1> QED
    BY <1>1, <1>2 DEF PageInv

(* Later pages. *)
LEMMA PageResume ==
    ASSUME PageInv, Resume, Asked' = Asked, Order' = Order
    PROVE  PageInv'
  BY DEF PageInv, Resume

LEMMA PageIter ==
    ASSUME TypeOK, PageInv, Regular, Faithful, Iter, Asked' = Asked, Order' = Order
    PROVE  PageInv'
  <1>1. UNCHANGED <<snapshot, first, cursor, seen, stable>> /\ status = "building"
    BY DEF Iter, open
  <1>2. cursor # None => (RangeContains(Compiled.range, store_key(cursor)) <=> cursor \in Asked)
    BY DEF Faithful, TypeOK, Asked
  <1>3. CASE cursor # None /\ ~RangeContains(Compiled.range, store_key(cursor))
    <2>1. status' = "out_of_bounds" /\ cursor' \notin {None} \union Asked'
      BY <1>1, <1>2, <1>3 DEF Iter
    <2> QED
      BY <1>1, <2>1 DEF PageInv
  <1>4. CASE ~(cursor # None /\ ~RangeContains(Compiled.range, store_key(cursor)))
    <2>1. cursor \in {None} \union Asked
      BY <1>2, <1>4
    <2>2. ~RangePanics(CompiledAfter.range)
      BY <2>1, OpenSafe DEF TypeOK, Asked, Regular
    <2>3. status' = "open"
          /\ iter' = {e \in snapshot : RangeContains(CompiledAfter.range, store_key(e))}
      BY <1>4, <2>2 DEF Iter, open
    <2>4. iter' = {e \in snapshot : e \in Asked /\ <<e, cursor>> \in Order}
      BY <2>1, <2>3, OpenExact DEF TypeOK
    <2> QED
      BY <1>1, <2>1, <2>3, <2>4 DEF PageInv
  <1> QED
    BY <1>3, <1>4

LEMMA PageTake ==
    ASSUME TypeOK, RequestOK, PageInv, Faithful, Take, Asked' = Asked, Order' = Order, S' = S
    PROVE  PageInv'
  <1>1. PICK e \in iter : /\ YieldsNext(e) /\ iter' = iter \ {e}
                          /\ seen' = Append(seen, e) /\ cursor' = e
    BY DEF Take
  <1>2. UNCHANGED <<snapshot, first, stable, status>> /\ status = "open"
    BY DEF Take
  <1>3. /\ iter = {f \in snapshot : f \in Asked /\ <<f, cursor>> \in Order}
        /\ cursor \in {None} \union Asked
    BY <1>2 DEF PageInv
  <1>4. e \in Asked /\ <<e, cursor>> \in Order /\ e \in Entries(S) /\ e # None
    BY <1>1, <1>3, SchemaType DEF TypeOK
  <1>5. \A f \in iter \ {e} : <<f, e>> \in Order
    <2> SUFFICES ASSUME NEW f \in iter \ {e} PROVE <<f, e>> \in Order
      OBVIOUS
    <2>1. f \in Entries(S) /\ f \in Asked /\ Wanted(f) /\ Wanted(e)
      BY <1>3, <1>4 DEF TypeOK, Asked
    <2>2. Beyond(f, e)
      BY <1>1, <1>4, <2>1, BeyondIs DEF YieldsNext, TypeOK
    <2> QED
      BY <1>4, <2>1, <2>2 DEF Order
  <1>6. iter' = {f \in snapshot' : f \in Asked' /\ <<f, cursor'>> \in Order'}
    <2>1. ASSUME NEW f \in snapshot, f \in Asked, <<f, e>> \in Order PROVE f \in iter \ {e}
      <3>1. <<f, cursor>> \in Order
        BY <1>3, <1>4, <2>1, OrderTransitive DEF TypeOK
      <3>2. f # e
        BY <1>4, <2>1, OrderIrreflexive DEF TypeOK
      <3> QED
        BY <1>3, <2>1, <3>1, <3>2
    <2> QED
      BY <1>1, <1>2, <1>3, <1>5, <2>1
  <1>7. /\ Len(seen) \in Nat /\ DOMAIN seen = 1 .. Len(seen)
        /\ Len(seen') = Len(seen) + 1 /\ DOMAIN seen' = 1 .. Len(seen) + 1
        /\ seen'[Len(seen) + 1] = e /\ \A i \in 1 .. Len(seen) : seen'[i] = seen[i]
        /\ seen' # <<>>
    BY <1>1, <1>4 DEF TypeOK
  <1>8. \A i \in DOMAIN seen' : seen'[i] \in Asked'
    BY <1>4, <1>7 DEF PageInv
  <1>9. \A i \in DOMAIN seen : <<e, seen[i]>> \in Order
    <2> SUFFICES ASSUME NEW i \in DOMAIN seen PROVE <<e, seen[i]>> \in Order
      OBVIOUS
    <2>1. cursor = seen[Len(seen)] /\ Len(seen) \in DOMAIN seen /\ seen[i] \in Asked /\ cursor \in Asked
      BY <1>7 DEF PageInv
    <2>2. CASE i = Len(seen)
      BY <1>4, <2>1, <2>2
    <2>3. CASE i # Len(seen)
      <3>1. <<seen[Len(seen)], seen[i]>> \in Order
        <4>1. i < Len(seen)
          BY <1>7, <2>3
        <4> QED
          BY <2>1, <4>1 DEF PageInv
      <3> QED
        BY <1>4, <2>1, <3>1, OrderTransitive DEF TypeOK
    <2> QED
      BY <2>2, <2>3
  <1>10. \A i, j \in DOMAIN seen' : i < j => <<seen'[j], seen'[i]>> \in Order'
    <2> SUFFICES ASSUME NEW i \in DOMAIN seen', NEW j \in DOMAIN seen', i < j
                 PROVE  <<seen'[j], seen'[i]>> \in Order
      OBVIOUS
    <2>1. i \in DOMAIN seen /\ seen'[i] = seen[i]
      BY <1>7
    <2>2. CASE j = Len(seen) + 1
      BY <1>7, <1>9, <2>1, <2>2
    <2>3. CASE j # Len(seen) + 1
      <3>1. j \in DOMAIN seen /\ seen'[j] = seen[j]
        BY <1>7, <2>3
      <3> QED
        BY <2>1, <3>1 DEF PageInv
    <2> QED
      BY <2>2, <2>3
  <1>11. ASSUME NEW f \in stable', f \in Asked', <<f, first'>> \in Order'
         PROVE  Contains(seen', f) \/ <<f, cursor'>> \in Order'
    <2>1. Contains(seen, f) \/ <<f, cursor>> \in Order
      BY <1>2, <1>11 DEF PageInv
    <2>2. CASE Contains(seen, f)
      <3>1. PICK i \in 1 .. Len(seen) : seen[i] = f
        BY <2>2 DEF Contains
      <3>2. i \in 1 .. Len(seen') /\ seen'[i] = f
        BY <1>7, <3>1
      <3> QED
        BY <3>2 DEF Contains
    <2>3. CASE f = e
      <3>1. Len(seen) + 1 \in 1 .. Len(seen') /\ seen'[Len(seen) + 1] = f
        BY <1>7, <2>3
      <3> QED
        BY <3>1 DEF Contains
    <2>4. CASE <<f, cursor>> \in Order /\ f # e
      <3>1. f \in iter \ {e}
        BY <1>2, <1>3, <1>11, <2>4 DEF RequestOK
      <3> QED
        BY <1>1, <1>5, <3>1
    <2> QED
      BY <2>1, <2>2, <2>3, <2>4
  <1>12. cursor' = seen'[Len(seen')] /\ cursor' \in Asked'
    BY <1>1, <1>4, <1>7
  <1> QED
    BY <1>2, <1>6, <1>7, <1>8, <1>10, <1>11, <1>12 DEF PageInv

(* The end of the scan: an exact iterator with nothing left has left nothing out. *)
LEMMA PageExhausted ==
    ASSUME RequestOK, PageInv, Exhausted, Asked' = Asked, Order' = Order
    PROVE  PageInv'
  <1>1. /\ UNCHANGED <<snapshot, first, cursor, seen, stable>>
        /\ status = "open" /\ iter = {} /\ status' = "done"
    BY DEF Exhausted
  <1>2. \A e \in snapshot : ~(e \in Asked /\ <<e, cursor>> \in Order)
    BY <1>1 DEF PageInv
  <1>3. ASSUME NEW e \in stable, e \in Asked, <<e, first>> \in Order PROVE Contains(seen, e)
    BY <1>2, <1>3 DEF PageInv, RequestOK
  <1> QED
    BY <1>1, <1>3 DEF PageInv

LEMMA PageCommit ==
    ASSUME PageInv, NEW e, Commit(e), Asked' = Asked, Order' = Order
    PROVE  PageInv'
  BY DEF PageInv, Commit

LEMMA ScanStep ==
    ASSUME ScanInv, [Next]_vars
    PROVE  ScanInv'
  <1>1. TypeOK' /\ RequestOK'
    BY ScanTypeStep DEF ScanInv
  <1> SUFFICES ASSUME Regular', Faithful' PROVE PageInv'
    BY <1>1 DEF ScanInv
  <1> USE DEF ScanInv
  <1>2. CASE \E r \in Requests, c \in {None} \union S.cursors : Begin(r, c)
    BY <1>2, PageBegin
  <1>3. CASE Close
    BY <1>3 DEF Close, Regular
  <1>4. CASE UNCHANGED <<schema, request>>
    <2>1. /\ S' = S /\ Asked' = Asked /\ Order' = Order
          /\ Regular /\ Faithful /\ PageInv
      BY <1>4, SameRequest
    <2>2. CASE Resume
      BY <2>1, <2>2, PageResume
    <2>3. CASE Iter
      BY <2>1, <2>3, PageIter
    <2>4. CASE Take
      BY <2>1, <2>4, PageTake
    <2>5. CASE Exhausted
      BY <2>1, <2>5, PageExhausted
    <2>6. CASE \E e \in Entries(S) : Commit(e)
      BY <2>1, <2>6, PageCommit
    <2>7. CASE UNCHANGED vars
      BY <2>1, <2>7 DEF vars, PageInv
    <2>8. CASE \E r \in Requests, c \in {None} \union S.cursors : Begin(r, c)
      BY <1>2, <2>8
    <2> QED
      BY <1>3, <2>2, <2>3, <2>4, <2>5, <2>6, <2>7, <2>8 DEF Next
  <1>5. \/ \E r \in Requests, c \in {None} \union S.cursors : Begin(r, c)
        \/ Close
        \/ UNCHANGED <<schema, request>>
    BY DEF Next, vars, Resume, Iter, open, Take, Exhausted, Commit
  <1> QED
    BY <1>2, <1>3, <1>4, <1>5

LEMMA ScanInvariant == Spec => []ScanInv
  <1>1. Init => ScanInv
    <2> SUFFICES ASSUME Init PROVE ScanInv
      OBVIOUS
    <2>1. TypeOK /\ RequestOK
      BY ScanTypeInit
    <2>2. ~Regular
      BY DEF Init, Regular
    <2> QED
      BY <2>1, <2>2 DEF ScanInv
  <1>2. ScanInv /\ [Next]_vars => ScanInv'
    BY ScanStep
  <1> QED
    BY <1>1, <1>2, PTL DEF Spec

-------------------------------------------------------------------------------
(* The bytes are faithful to the request *)

(* A bound of a request, behind its prefix: a whole key with that prefix. *)
BoundOn(b, l) ==
    /\ IsKey(S.type, l) /\ IsPrefix(request.prefix, l)
    /\ compose(request.prefix, b) \in {Included(l), Excluded(l)}

BoundOK(b) == b = Unbounded \/ (b # Unbounded /\ \E l : BoundOn(b, l))

(* The start of a key, put in front of the rest of another, makes a key. *)
LEMMA Composed ==
    ASSUME NEW type \in Seq(PartTypes), NEW k, NEW r, IsKey(type, k), IsKey(type, r), NEW n \in 0 .. Len(type)
    PROVE  /\ IsKey(type, SubSeq(k, 1, n) \o Rest(r, n))
           /\ IsPrefix(SubSeq(k, 1, n), SubSeq(k, 1, n) \o Rest(r, n))
  <1> DEFINE p == SubSeq(k, 1, n)
             u == Rest(r, n)
             l == p \o u
  <1>1. /\ k \in Seq(AnyValue) /\ Len(k) = Len(type) /\ r \in Seq(AnyValue) /\ Len(r) = Len(type)
        /\ Len(type) \in Nat /\ n \in Nat /\ n <= Len(type)
        /\ \A i \in 1 .. Len(type) : k[i] \in Values(type[i]) /\ r[i] \in Values(type[i])
    BY KeyIs DEF Partial
  <1>2. p \in Seq(AnyValue) /\ Len(p) = n /\ \A i \in 1 .. n : p[i] = k[i]
    BY <1>1
  <1>3. /\ u \in Seq(AnyValue) /\ Len(u) = Len(type) - n
        /\ \A i \in 1 .. Len(type) - n : u[i] = r[i + n]
    BY <1>1 DEF Rest
  <1>4. l \in Seq(AnyValue) /\ Joined(l, p, u)
    <2> HIDE DEF p, u
    <2> QED
      BY <1>2, <1>3, ConcatIs
  <1> HIDE DEF p, u, l
  <1>5. Len(l) = Len(type) /\ (\A i \in 1 .. n : l[i] = p[i]) /\ \A i \in n + 1 .. Len(type) : l[i] = u[i - n]
    BY <1>1, <1>2, <1>3, <1>4 DEF Joined
  <1>6. ASSUME NEW i \in 1 .. Len(type) PROVE l[i] \in Values(type[i])
    <2>1. CASE i <= n
      <3>1. i \in 1 .. n
        BY <1>1, <2>1
      <3> QED
        BY <1>1, <1>2, <1>5, <3>1
    <2>2. CASE n < i
      <3>1. i \in n + 1 .. Len(type) /\ i - n \in 1 .. Len(type) - n /\ (i - n) + n = i
        BY <1>1, <2>2
      <3>2. l[i] = u[i - n] /\ u[i - n] = r[i]
        BY <1>3, <1>5, <3>1
      <3> QED
        BY <1>1, <3>2
    <2> QED
      BY <1>1, <2>1, <2>2
  <1>7. IsKey(type, l)
    <2>1. DOMAIN l = 1 .. Len(type) /\ DOMAIN type = 1 .. Len(type) /\ l = [i \in DOMAIN l |-> l[i]]
      BY <1>1, <1>4, <1>5
    <2>2. l = [i \in DOMAIN type |-> l[i]]
      BY <2>1
    <2> QED
      BY <1>6, <2>1, <2>2 DEF IsKey
  <1>8. IsPrefix(p, l)
    <2>1. SubSeq(p, 1, Len(p)) = p
      BY <1>2
    <2>2. SubSeq(p, 1, n) = SubSeq(l, 1, n)
      BY <1>1, <1>2, <1>4, <1>5, SameStart
    <2> QED
      BY <1>1, <1>2, <1>5, <2>1, <2>2 DEF IsPrefix
  <1> QED
    BY <1>7, <1>8 DEF l, p, u

(* A request has a prefix of some key, and its bounds are on keys with that
   prefix. *)
LEMMA RequestIs ==
    ASSUME schema \in DOMAIN Schemas, request \in Requests
    PROVE  /\ Partial(S.type, request.prefix)
           /\ BoundOK(request.lo) /\ BoundOK(request.hi)
           /\ request.prefix = <<>> =>
                 compose(request.prefix, request.lo) = request.lo /\ compose(request.prefix, request.hi) = request.hi
  <1> DEFINE Tails(n) == {Rest(k, n) : k \in S.keys}
  <1>1. PICK n \in 0 .. Len(S.type) :
            /\ request.prefix \in {SubSeq(k, 1, n) : k \in S.keys}
            /\ request.lo \in Bounds(Tails(n)) /\ request.hi \in Bounds(Tails(n))
    <2>1. Len(S.type) \in Nat /\ Len(S.type) # 0
      BY SchemaType
    <2>2. \E n \in IF S.kind = "primary" THEN {0} ELSE 0 .. Len(S.type) - 1 :
             request \in [prefix : {SubSeq(k, 1, n) : k \in S.keys}, lo : Bounds(Tails(n)),
                         hi : Bounds(Tails(n)), direction : Directions]
      BY DEF Requests
    <2>3. PICK n \in IF S.kind = "primary" THEN {0} ELSE 0 .. Len(S.type) - 1 :
             request \in [prefix : {SubSeq(k, 1, n) : k \in S.keys}, lo : Bounds(Tails(n)),
                         hi : Bounds(Tails(n)), direction : Directions]
      BY <2>2
    <2>4. n \in 0 .. Len(S.type)
      BY <2>1
    <2> HIDE DEF Tails
    <2> QED
      BY <2>3, <2>4
  <1>2. PICK k \in S.keys : request.prefix = SubSeq(k, 1, n)
    BY <1>1
  <1>3. S.type \in Seq(PartTypes) /\ \A r \in S.keys : IsKey(S.type, r)
    BY SchemaType
  <1>4. Partial(S.type, request.prefix)
    <2>1. Partial(S.type, k) /\ n \in 0 .. Len(k)
      BY <1>3, KeyIs
    <2> QED
      BY <1>2, <2>1, PartialStart
  <1>5. ASSUME NEW b \in Bounds(Tails(n)) PROVE BoundOK(b)
    <2>1. CASE b = Unbounded
      BY <2>1 DEF BoundOK
    <2>2. CASE \E u \in Tails(n) : b = Included(u) \/ b = Excluded(u)
      <3>1. PICK r \in S.keys : b = Included(Rest(r, n)) \/ b = Excluded(Rest(r, n))
        BY <2>2
      <3> DEFINE l == request.prefix \o Rest(r, n)
      <3>2. IsKey(S.type, l) /\ IsPrefix(request.prefix, l)
        BY <1>2, <1>3, Composed
      <3>3. compose(request.prefix, b) \in {Included(l), Excluded(l)}
        <4>1. \A u, v : /\ [Included(u) EXCEPT !.key = v] = Included(v) /\ Included(u).key = u
                        /\ [Excluded(u) EXCEPT !.key = v] = Excluded(v) /\ Excluded(u).key = u
          BY DEF Included, Excluded
        <4>2. b.key = Rest(r, n) /\ [b EXCEPT !.key = l] \in {Included(l), Excluded(l)}
          BY <3>1, <4>1
        <4> QED
          BY <4>2 DEF compose
      <3>4. b # Unbounded
        BY <2>2 DEF Unbounded, Included, Excluded
      <3>5. BoundOn(b, l)
        BY <3>2, <3>3 DEF BoundOn
      <3> HIDE DEF l
      <3> QED
        BY <3>4, <3>5 DEF BoundOK
    <2> QED
      BY <2>1, <2>2 DEF Bounds
  <1>6. ASSUME request.prefix = <<>>, NEW b \in Bounds(Tails(n)) PROVE compose(<<>>, b) = b
    <2>1. CASE b = Unbounded
      BY <2>1 DEF compose, Unbounded
    <2>2. CASE \E u \in Tails(n) : b = Included(u) \/ b = Excluded(u)
      <3>1. PICK r \in S.keys : b = Included(Rest(r, n)) \/ b = Excluded(Rest(r, n))
        BY <2>2
      <3>2. Rest(r, n) \in Seq(AnyValue)
        <4>1. r \in Seq(AnyValue) /\ Len(r) = Len(S.type) /\ Len(S.type) \in Nat
          BY <1>3, KeyIs DEF Partial
        <4> QED
          BY <4>1 DEF Rest
      <3>3. <<>> \o Rest(r, n) = Rest(r, n)
        BY <3>2
      <3> QED
        BY <3>1, <3>3 DEF compose, Included, Excluded
    <2> QED
      BY <2>1, <2>2 DEF Bounds
  <1> QED
    BY <1>1, <1>4, <1>5, <1>6

(* The bounds of the compiled scan. *)
Start ==
    IF request.lo # Unbounded
    THEN encode_start_bound(Multi, S.type, compose(request.prefix, request.lo))
    ELSE IF request.prefix = <<>> THEN Unbounded ELSE Included(encode(S.type, request.prefix))

End ==
    IF request.hi # Unbounded
    THEN encode_end_bound(Multi, S.type, compose(request.prefix, request.hi))
    ELSE IF request.prefix = <<>> THEN Unbounded ELSE prefix_end(encode(S.type, request.prefix))

LEMMA CompiledBounds ==
    ASSUME schema \in DOMAIN Schemas, request \in Requests
    PROVE  Compiled.range = [start |-> Start, end |-> End]
  <1>1. request.prefix = <<>> =>
            compose(request.prefix, request.lo) = request.lo /\ compose(request.prefix, request.hi) = request.hi
    BY RequestIs
  <1>2. encode_start_bound(Multi, S.type, Unbounded) = Unbounded /\ encode_end_bound(Multi, S.type, Unbounded) = Unbounded
    BY DEF encode_start_bound, encode_end_bound, Unbounded
  <1>3. Multi \in BOOLEAN
    BY DEF Multi
  <1> DEFINE exact == encode_range(Multi, S.type, request.lo, request.hi)
             within == encode_prefixed_range(Multi, S.type, request.prefix, request.lo, request.hi)
             prefixed == IF request.prefix = <<>> THEN FullScan
                         ELSE PrefixedScan(FullScan, S.type, request.prefix)
             range == IF request.prefix = <<>> THEN exact ELSE within
             ranged == IF request.lo = Unbounded /\ request.hi = Unbounded THEN prefixed
                       ELSE RangeScan(prefixed, range)
  <1>4. Compiled = DirectedScan(ranged, request.direction)
    BY DEF Compiled, compile
  <1>5. request.prefix = <<>> => exact = [start |-> Start, end |-> End]
    BY <1>1, <1>2 DEF encode_range, Start, End
  <1>6. request.prefix # <<>> => within = [start |-> Start, end |-> End]
    BY DEF encode_prefixed_range, encode_prefix, Start, End
  <1>7. range = [start |-> Start, end |-> End]
    BY <1>5, <1>6
  <1>8. request.lo = Unbounded /\ request.hi = Unbounded =>
            prefixed = [range |-> [start |-> Start, end |-> End], direction |-> "LeftToRight"]
    BY DEF PrefixedScan, FullScan, encode_prefix, Start, End
  <1>9. \E r : prefixed = [range |-> r, direction |-> "LeftToRight"]
    BY DEF PrefixedScan, FullScan
  <1> HIDE DEF exact, within, prefixed, range
  <1>10. RangeScan(prefixed, range) = [range |-> range, direction |-> "LeftToRight"]
    BY <1>9 DEF RangeScan
  <1>11. ranged = [range |-> [start |-> Start, end |-> End], direction |-> "LeftToRight"]
    BY <1>7, <1>8, <1>10
  <1> HIDE DEF ranged
  <1>12. DirectedScan([range |-> [start |-> Start, end |-> End], direction |-> "LeftToRight"], request.direction).range
            = [start |-> Start, end |-> End]
    BY DEF DirectedScan
  <1> QED
    BY <1>4, <1>11, <1>12

LEMMA RestIs ==
    ASSUME NEW X, NEW q \in Seq(X), NEW n \in 0 .. Len(q)
    PROVE  /\ Rest(q, n) \in Seq(X) /\ Len(Rest(q, n)) = Len(q) - n
           /\ \A i \in 1 .. Len(q) - n : Rest(q, n)[i] = q[i + n]
  BY DEF Rest

(* Keys with the prefix of the request have the same text and enums of mixed
   signs, since a scan that keeps its order has none behind its prefix. *)
LEMMA PrefixFixesUnordered ==
    ASSUME schema \in DOMAIN Schemas, request \in Requests, KeepsOrder,
           NEW k, NEW l, IsKey(S.type, k), IsKey(S.type, l),
           IsPrefix(request.prefix, k), IsPrefix(request.prefix, l)
    PROVE  SameUnordered(S.type, k, l)
  <1> DEFINE p == request.prefix
             rest == Rest(S.type, Len(p))
             tail == IF Multi THEN S.pktype ELSE <<>>
  <1>1. /\ p \in Seq(AnyValue) /\ Len(p) \in Nat /\ Len(p) <= Len(S.type) /\ Len(S.type) \in Nat
        /\ S.type \in Seq(PartTypes) /\ tail \in Seq(PartTypes)
        /\ k \in Seq(AnyValue) /\ l \in Seq(AnyValue)
    BY RequestIs, SchemaType, KeyIs DEF Partial
  <1>2. \A i \in 1 .. Len(p) : k[i] = l[i]
    <2>1. SubSeq(p, 1, Len(p)) = SubSeq(k, 1, Len(p)) /\ SubSeq(p, 1, Len(p)) = SubSeq(l, 1, Len(p))
          /\ Len(p) <= Len(k) /\ Len(p) <= Len(l)
      BY DEF IsPrefix
    <2>2. \A i \in 1 .. Len(p) : SubSeq(k, 1, Len(p))[i] = k[i] /\ SubSeq(l, 1, Len(p))[i] = l[i]
      BY <1>1, <2>1
    <2> QED
      BY <2>1, <2>2
  <1>3. Ordered(rest \o tail)
    BY DEF KeepsOrder
  <1>4. rest \in Seq(PartTypes) /\ Len(rest) = Len(S.type) - Len(p)
        /\ \A i \in 1 .. Len(S.type) - Len(p) : rest[i] = S.type[i + Len(p)]
    <2>1. PICK T \in Seq(PartTypes) : T = S.type
      BY <1>1
    <2>2. PICK n \in 0 .. Len(T) : n = Len(p)
      BY <1>1, <2>1
    <2> HIDE DEF p
    <2>3. /\ Rest(T, n) \in Seq(PartTypes) /\ Len(Rest(T, n)) = Len(T) - n
          /\ \A i \in 1 .. Len(T) - n : Rest(T, n)[i] = T[i + n]
      BY RestIs
    <2> QED
      BY <2>1, <2>2, <2>3
  <1> HIDE DEF p, rest, tail
  <1>5. rest \o tail \in Seq(PartTypes) /\ Joined(rest \o tail, rest, tail)
    <2>1. rest \in Seq(PartTypes) /\ tail \in Seq(PartTypes)
      BY <1>1, <1>4
    <2> QED
      BY <2>1, ConcatIs, Zenon
  <1>6. ASSUME NEW i \in 1 .. Len(S.type), S.type[i] \in Unordered, ~(i <= Len(p)) PROVE FALSE
    <2>1. i - Len(p) \in 1 .. Len(rest) /\ rest[i - Len(p)] = S.type[i]
      BY <1>1, <1>4, <1>6
    <2>2. /\ (rest \o tail)[i - Len(p)] \in Unordered
          /\ i - Len(p) \in 1 .. Len(rest \o tail)
      <3>1. Len(tail) \in Nat /\ Len(rest) \in Nat
        BY <1>1, <1>4
      <3> QED
        BY <1>5, <1>6, <2>1, <3>1 DEF Joined
    <2>3. DOMAIN (rest \o tail) = 1 .. Len(rest \o tail)
      BY <1>5
    <2> QED
      BY <1>3, <2>2, <2>3 DEF Ordered
  <1> QED
    BY <1>1, <1>2, <1>6 DEF SameUnordered

LEMMA PrimaryIsOrdered ==
    ASSUME schema \in DOMAIN Schemas, request \in Requests, KeepsOrder, Multi, NEW i \in 1 .. Len(S.pktype)
    PROVE  S.pktype[i] \notin Unordered
  <1> DEFINE rest == Rest(S.type, Len(request.prefix))
             tail == S.pktype
  <1>1. /\ Len(request.prefix) \in Nat /\ Len(request.prefix) <= Len(S.type) /\ Len(S.type) \in Nat
        /\ S.type \in Seq(PartTypes) /\ tail \in Seq(PartTypes)
    BY RequestIs, SchemaType DEF Partial
  <1>2. Ordered(rest \o tail)
    BY DEF KeepsOrder
  <1>3. rest \in Seq(PartTypes)
    BY <1>1 DEF Rest
  <1> HIDE DEF rest, tail
  <1>4. rest \o tail \in Seq(PartTypes) /\ Joined(rest \o tail, rest, tail)
    BY <1>1, <1>3, ConcatIs
  <1> DEFINE j == Len(rest) + i
  <1>5. j \in 1 .. Len(rest \o tail) /\ j \in Len(rest) + 1 .. Len(rest \o tail) /\ j - Len(rest) = i
    BY <1>1, <1>3, <1>4 DEF Joined, tail
  <1>6. (rest \o tail)[j] = tail[i]
    BY <1>4, <1>5 DEF Joined
  <1>7. (rest \o tail)[j] \notin Unordered
    BY <1>2, <1>4, <1>5 DEF Ordered
  <1> QED
    BY <1>6, <1>7 DEF tail

(* How an entry is stored. *)
LEMMA StoreKeyIs ==
    ASSUME schema \in DOMAIN Schemas, NEW e \in Entries(S)
    PROVE  /\ IsKey(S.type, e.key) /\ IsKey(S.pktype, e.pk)
           /\ \E x \in ByteStrings : store_key(e) = encode(S.type, e.key) \o x /\ (Multi <=> x # <<>>)
  <1>1. IsKey(S.type, e.key) /\ IsKey(S.pktype, e.pk)
    BY SchemaType DEF Entries
  <1>2. S.type \in Seq(PartTypes) \ {<<>>} /\ S.pktype \in Seq(PartTypes) \ {<<>>}
    BY SchemaType
  <1>3. CASE Multi
    <2>1. store_key(e) = encode(S.type, e.key) \o encode(S.pktype, e.pk)
      BY <1>1, <1>2, <1>3, EncodeConcat DEF store_key
    <2>2. encode(S.pktype, e.pk) \in ByteStrings /\ encode(S.pktype, e.pk) # <<>>
      BY <1>1, <1>2, EncodeNotEmpty
    <2> QED
      BY <1>1, <1>3, <2>1, <2>2
  <1>4. CASE ~Multi
    <2>1. encode(S.type, e.key) \in ByteStrings
      BY <1>1, <1>2, EncodeNotEmpty
    <2>2. <<>> \in ByteStrings /\ encode(S.type, e.key) \o <<>> = encode(S.type, e.key)
      BY <2>1 DEF ByteStrings
    <2>3. store_key(e) = encode(S.type, e.key)
      BY <1>4 DEF store_key
    <2> QED
      BY <1>1, <1>4, <2>2, <2>3
  <1> QED
    BY <1>3, <1>4

(* The two halves of InRange. *)
Lower(b, k) ==
    /\ b.bound = "Included" => ~KeyLess(S.type, k, b.key)
    /\ b.bound = "Excluded" => KeyLess(S.type, b.key, k)

Upper(b, k) ==
    /\ b.bound = "Included" => ~KeyLess(S.type, b.key, k)
    /\ b.bound = "Excluded" => KeyLess(S.type, k, b.key)

(* The bound of a request on whole keys. *)
Whole(b) == IF b = Unbounded THEN Unbounded ELSE compose(request.prefix, b)

LEMMA RequestedIs ==
    ASSUME NEW k
    PROVE  Requested(S.type, request, k)
               <=> IsPrefix(request.prefix, k) /\ Lower(Whole(request.lo), k) /\ Upper(Whole(request.hi), k)
  BY DEF Requested, InRange, Lower, Upper, Whole

(* Keys with the prefix that satisfy a bound, in the bytes. *)
LEMMA LowerIs ==
    ASSUME schema \in DOMAIN Schemas, request \in Requests, KeepsOrder, NEW b, NEW l, b # Unbounded, BoundOn(b, l),
           NEW k, IsKey(S.type, k), IsPrefix(request.prefix, k)
    PROVE  Lower(Whole(b), k) <=> (Whole(b) = Included(l) /\ k = l) \/ KeyBefore(S.type, l, k)
  <1>1. IsKey(S.type, l) /\ IsPrefix(request.prefix, l) /\ S.type \in Seq(PartTypes)
    BY SchemaType DEF BoundOn
  <1>2. SameUnordered(S.type, k, l) /\ SameUnordered(S.type, l, k)
    BY <1>1, PrefixFixesUnordered
  <1>3. (KeyLess(S.type, k, l) <=> KeyBefore(S.type, k, l)) /\ (KeyLess(S.type, l, k) <=> KeyBefore(S.type, l, k))
    BY <1>1, <1>2, LessIsBefore
  <1>4. Partial(S.type, k) /\ Partial(S.type, l) /\ Len(l) <= Len(k)
    BY <1>1, KeyIs DEF Partial
  <1>5. k = l \/ KeyBefore(S.type, k, l) \/ KeyBefore(S.type, l, k)
    BY <1>1, <1>4, Position, SameKey
  <1>6. /\ KeyBefore(S.type, k, l) => k # l /\ ~KeyBefore(S.type, l, k)
        /\ KeyBefore(S.type, l, k) => k # l /\ ~KeyBefore(S.type, k, l)
    BY <1>4, KeyBeforeExcludes
  <1>7. Whole(b) \in {Included(l), Excluded(l)}
    BY DEF BoundOn, Whole
  <1>8. Included(l) # Excluded(l)
    BY DEF Included, Excluded
  <1>9. CASE Whole(b) = Included(l)
    <2>1. Lower(Included(l), k) <=> ~KeyLess(S.type, k, l)
      BY DEF Lower, Included
    <2> QED
      BY <1>3, <1>5, <1>6, <1>9, <2>1
  <1>10. CASE Whole(b) = Excluded(l)
    <2>1. Lower(Excluded(l), k) <=> KeyLess(S.type, l, k)
      BY DEF Lower, Excluded
    <2> QED
      BY <1>3, <1>8, <1>10, <2>1
  <1> QED
    BY <1>7, <1>9, <1>10

LEMMA UpperIs ==
    ASSUME schema \in DOMAIN Schemas, request \in Requests, KeepsOrder, NEW b, NEW l, b # Unbounded, BoundOn(b, l),
           NEW k, IsKey(S.type, k), IsPrefix(request.prefix, k)
    PROVE  Upper(Whole(b), k) <=> (Whole(b) = Included(l) /\ k = l) \/ KeyBefore(S.type, k, l)
  <1>1. IsKey(S.type, l) /\ IsPrefix(request.prefix, l) /\ S.type \in Seq(PartTypes)
    BY SchemaType DEF BoundOn
  <1>2. SameUnordered(S.type, k, l) /\ SameUnordered(S.type, l, k)
    BY <1>1, PrefixFixesUnordered
  <1>3. (KeyLess(S.type, k, l) <=> KeyBefore(S.type, k, l)) /\ (KeyLess(S.type, l, k) <=> KeyBefore(S.type, l, k))
    BY <1>1, <1>2, LessIsBefore
  <1>4. Partial(S.type, k) /\ Partial(S.type, l) /\ Len(l) <= Len(k)
    BY <1>1, KeyIs DEF Partial
  <1>5. k = l \/ KeyBefore(S.type, k, l) \/ KeyBefore(S.type, l, k)
    BY <1>1, <1>4, Position, SameKey
  <1>6. /\ KeyBefore(S.type, k, l) => k # l /\ ~KeyBefore(S.type, l, k)
        /\ KeyBefore(S.type, l, k) => k # l /\ ~KeyBefore(S.type, k, l)
    BY <1>4, KeyBeforeExcludes
  <1>7. Whole(b) \in {Included(l), Excluded(l)}
    BY DEF BoundOn, Whole
  <1>8. Included(l) # Excluded(l)
    BY DEF Included, Excluded
  <1>9. CASE Whole(b) = Included(l)
    <2>1. Upper(Included(l), k) <=> ~KeyLess(S.type, l, k)
      BY DEF Upper, Included
    <2> QED
      BY <1>3, <1>5, <1>6, <1>9, <2>1
  <1>10. CASE Whole(b) = Excluded(l)
    <2>1. Upper(Excluded(l), k) <=> KeyLess(S.type, k, l)
      BY DEF Upper, Excluded
    <2> QED
      BY <1>3, <1>8, <1>10, <2>1
  <1> QED
    BY <1>7, <1>9, <1>10

(* The start of the compiled scan: of the keys with the prefix it lets through
   those above the lower bound, of the others none that lies before them. *)
LEMMA StartIs ==
    ASSUME schema \in DOMAIN Schemas, request \in Requests, Regular,
           NEW k, IsKey(S.type, k), NEW x \in ByteStrings, Multi <=> x # <<>>
    PROVE  /\ IsPrefix(request.prefix, k) =>
                 (From(Start, encode(S.type, k) \o x) <=> Lower(Whole(request.lo), k))
           /\ KeyBefore(S.type, k, request.prefix) => ~From(Start, encode(S.type, k) \o x)
  <1> DEFINE p == request.prefix
             s == encode(S.type, k) \o x
  <1>1. S.type \in Seq(PartTypes) /\ Partial(S.type, p) /\ BoundOK(request.lo) /\ Multi \in BOOLEAN
    BY SchemaType, RequestIs DEF Multi
  <1>2. KeepsOrder /\ Admits
    BY DEF Regular
  <1>3. Partial(S.type, k) /\ Len(p) <= Len(k)
    BY <1>1, KeyIs DEF Partial
  <1>4. CASE request.lo = Unbounded
    <2>1. Lower(Whole(request.lo), k)
      BY <1>4 DEF Whole, Lower, Unbounded
    <2>2. CASE p = <<>>
      <3>1. From(Start, s)
        BY <1>4, <2>2 DEF Start, From, Unbounded
      <3>2. IsPrefix(p, k)
        <4>1. k \in Seq(AnyValue)
          BY <1>3 DEF Partial
        <4> QED
          BY <2>2, <4>1 DEF IsPrefix
      <3>3. ~KeyBefore(S.type, k, p)
        BY <1>1, <1>3, <3>2, KeyBeforeExcludes
      <3> QED
        BY <2>1, <3>1, <3>3
    <2>3. CASE p # <<>>
      <3>1. Start = Included(encode(S.type, p))
        BY <1>4, <2>3 DEF Start
      <3>2. From(Included(encode(S.type, p)), s) <=> IsPrefix(p, k) \/ KeyBefore(S.type, p, k)
        BY <1>1, PrefixBounds
      <3>3. KeyBefore(S.type, k, p) => ~IsPrefix(p, k) /\ ~KeyBefore(S.type, p, k)
        BY <1>1, <1>3, KeyBeforeExcludes
      <3> QED
        BY <2>1, <3>1, <3>2, <3>3
    <2> QED
      BY <2>2, <2>3
  <1>5. CASE request.lo # Unbounded
    <2>1. PICK l : BoundOn(request.lo, l)
      BY <1>1, <1>5 DEF BoundOK
    <2>2. /\ IsKey(S.type, l) /\ IsPrefix(p, l)
          /\ Whole(request.lo) \in {Included(l), Excluded(l)}
          /\ Start = encode_start_bound(Multi, S.type, Whole(request.lo))
      BY <1>5, <2>1 DEF BoundOn, Whole, Start
    <2>3. Whole(request.lo) = Excluded(l) => prefix_end(encode(S.type, l)) # Unbounded
      <3> SUFFICES ASSUME Whole(request.lo) = Excluded(l) PROVE prefix_end(encode(S.type, l)) # Unbounded
        OBVIOUS
      <3>1. PICK g \in S.keys : Requested(S.type, request, g)
        BY <1>2 DEF Admits
      <3>2. IsKey(S.type, g) /\ IsPrefix(p, g) /\ Lower(Whole(request.lo), g)
        BY <3>1, SchemaType, RequestedIs
      <3>3. KeyBefore(S.type, l, g)
        <4>1. Included(l) # Excluded(l)
          BY DEF Included, Excluded
        <4> QED
          BY <1>2, <1>5, <2>1, <3>2, <4>1, LowerIs
      <3>4. encode(S.type, l) \in ByteStrings /\ encode(S.type, g) \in ByteStrings
        BY <1>1, <2>2, <3>2, KeyIs, PartsIs
      <3> QED
        BY <3>3, <3>4, PrefixEndBounded DEF KeyBefore
    <2>4. From(Start, s) <=> (Whole(request.lo) = Included(l) /\ k = l) \/ KeyBefore(S.type, l, k)
      BY <1>1, <2>2, <2>3, StartBound
    <2>5. IsPrefix(p, k) => (From(Start, s) <=> Lower(Whole(request.lo), k))
      BY <1>2, <1>5, <2>1, <2>4, LowerIs
    <2>6. ASSUME KeyBefore(S.type, k, p) PROVE ~From(Start, s)
      <3>1. KeyBefore(S.type, k, l)
        BY <1>1, <2>2, <2>6, PrefixSide
      <3>2. Partial(S.type, l)
        BY <1>1, <2>2, KeyIs
      <3>3. k # l /\ ~KeyBefore(S.type, l, k)
        BY <1>3, <3>1, <3>2, KeyBeforeExcludes
      <3> QED
        BY <2>4, <3>3
    <2> QED
      BY <2>5, <2>6
  <1> QED
    BY <1>4, <1>5

(* The end of the compiled scan. *)
LEMMA EndIs ==
    ASSUME schema \in DOMAIN Schemas, request \in Requests, Regular,
           NEW k, IsKey(S.type, k), NEW x \in ByteStrings, Multi <=> x # <<>>
    PROVE  /\ IsPrefix(request.prefix, k) =>
                 (Until(End, encode(S.type, k) \o x) <=> Upper(Whole(request.hi), k))
           /\ KeyBefore(S.type, request.prefix, k) => ~Until(End, encode(S.type, k) \o x)
  <1> DEFINE p == request.prefix
             s == encode(S.type, k) \o x
  <1>1. S.type \in Seq(PartTypes) /\ Partial(S.type, p) /\ BoundOK(request.hi) /\ Multi \in BOOLEAN
    BY SchemaType, RequestIs DEF Multi
  <1>2. KeepsOrder
    BY DEF Regular
  <1>3. Partial(S.type, k) /\ Len(p) <= Len(k)
    BY <1>1, KeyIs DEF Partial
  <1>4. CASE request.hi = Unbounded
    <2>1. Upper(Whole(request.hi), k)
      BY <1>4 DEF Whole, Upper, Unbounded
    <2>2. CASE p = <<>>
      <3>1. Until(End, s)
        BY <1>4, <2>2 DEF End, Until, Unbounded
      <3>2. IsPrefix(p, k)
        <4>1. k \in Seq(AnyValue)
          BY <1>3 DEF Partial
        <4> QED
          BY <2>2, <4>1 DEF IsPrefix
      <3>3. ~KeyBefore(S.type, p, k)
        BY <1>1, <1>3, <3>2, KeyBeforeExcludes
      <3> QED
        BY <2>1, <3>1, <3>3
    <2>3. CASE p # <<>>
      <3>1. End = prefix_end(encode(S.type, p))
        BY <1>4, <2>3 DEF End
      <3>2. Until(prefix_end(encode(S.type, p)), s) <=> IsPrefix(p, k) \/ KeyBefore(S.type, k, p)
        BY <1>1, PrefixBounds
      <3>3. KeyBefore(S.type, p, k) => ~IsPrefix(p, k) /\ ~KeyBefore(S.type, k, p)
        BY <1>1, <1>3, KeyBeforeExcludes
      <3> QED
        BY <2>1, <3>1, <3>2, <3>3
    <2> QED
      BY <2>2, <2>3
  <1>5. CASE request.hi # Unbounded
    <2>1. PICK l : BoundOn(request.hi, l)
      BY <1>1, <1>5 DEF BoundOK
    <2>2. /\ IsKey(S.type, l) /\ IsPrefix(p, l)
          /\ Whole(request.hi) \in {Included(l), Excluded(l)}
          /\ End = encode_end_bound(Multi, S.type, Whole(request.hi))
      BY <1>5, <2>1 DEF BoundOn, Whole, End
    <2>3. Until(End, s) <=> (Whole(request.hi) = Included(l) /\ k = l) \/ KeyBefore(S.type, k, l)
      BY <1>1, <2>2, EndBound
    <2>4. IsPrefix(p, k) => (Until(End, s) <=> Upper(Whole(request.hi), k))
      BY <1>2, <1>5, <2>1, <2>3, UpperIs
    <2>5. ASSUME KeyBefore(S.type, p, k) PROVE ~Until(End, s)
      <3>1. KeyBefore(S.type, l, k)
        BY <1>1, <2>2, <2>5, PrefixSide
      <3>2. Partial(S.type, l)
        BY <1>1, <2>2, KeyIs
      <3>3. k # l /\ ~KeyBefore(S.type, k, l)
        BY <1>3, <3>1, <3>2, KeyBeforeExcludes
      <3> QED
        BY <2>3, <3>3
    <2> QED
      BY <2>4, <2>5
  <1> QED
    BY <1>4, <1>5

LEMMA BoundsAreBytes ==
    ASSUME schema \in DOMAIN Schemas, request \in Requests
    PROVE  Start \in Bounds(ByteStrings) /\ End \in Bounds(ByteStrings)
  <1>1. S.type \in Seq(PartTypes) /\ Partial(S.type, request.prefix) /\ Multi \in BOOLEAN
        /\ BoundOK(request.lo) /\ BoundOK(request.hi)
    BY SchemaType, RequestIs DEF Multi
  <1>2. \A h \in ByteStrings : prefix_end(h) \in Bounds(ByteStrings)
    <2> SUFFICES ASSUME NEW h \in ByteStrings PROVE prefix_end(h) \in Bounds(ByteStrings)
      OBVIOUS
    <2>1. prefix_end(h) = Unbounded \/ \E e \in ByteStrings : prefix_end(h) = Excluded(e)
      BY PrefixEndIs
    <2> QED
      BY <2>1 DEF Bounds
  <1>3. \A h \in ByteStrings : Included(h) \in Bounds(ByteStrings) /\ Excluded(h) \in Bounds(ByteStrings)
    BY DEF Bounds
  <1>4. Unbounded \in Bounds(ByteStrings)
    BY DEF Bounds
  <1>5. \A l : Included(l).bound = "Included" /\ Included(l).key = l /\ Excluded(l).bound = "Excluded"
               /\ Excluded(l).key = l
    BY DEF Included, Excluded
  <1>6. ASSUME NEW b, b # Unbounded, BoundOK(b)
        PROVE  /\ encode_start_bound(Multi, S.type, compose(request.prefix, b)) \in Bounds(ByteStrings)
               /\ encode_end_bound(Multi, S.type, compose(request.prefix, b)) \in Bounds(ByteStrings)
    <2>1. PICK l : IsKey(S.type, l) /\ compose(request.prefix, b) \in {Included(l), Excluded(l)}
      BY <1>6 DEF BoundOK, BoundOn
    <2>2. encode(S.type, l) \in ByteStrings
      BY <1>1, <2>1, KeyIs, PartsIs
    <2> DEFINE h == encode(S.type, l)
    <2>3. \A c \in {Included(l), Excluded(l)} :
              /\ encode_start_bound(Multi, S.type, c) \in {Included(h), Excluded(h), prefix_end(h)}
              /\ encode_end_bound(Multi, S.type, c) \in {Included(h), Excluded(h), prefix_end(h)}
      BY <1>5 DEF encode_start_bound, encode_end_bound
    <2> HIDE DEF h
    <2> QED
      BY <1>2, <1>3, <2>1, <2>2, <2>3 DEF h
  <1>7. encode(S.type, request.prefix) \in ByteStrings
    BY <1>1, PartsIs
  <1> QED
    BY <1>1, <1>2, <1>3, <1>4, <1>6, <1>7 DEF Start, End

(* The bytes are faithful to every request the builders can make, as long as it
   admits some key and ranges over no text. *)
LEMMA FaithfulHolds ==
    ASSUME schema \in DOMAIN Schemas, request \in Requests, Regular
    PROVE  Faithful
  <1>1. /\ S.type \in Seq(PartTypes) /\ S.pktype \in Seq(PartTypes)
        /\ Partial(S.type, request.prefix) /\ KeepsOrder
    BY SchemaType, RequestIs DEF Regular
  <1>2. Compiled.range = [start |-> Start, end |-> End]
    BY CompiledBounds
  <1>3. ASSUME NEW e \in Entries(S)
        PROVE  /\ store_key(e) \in ByteStrings
               /\ RangeContains(Compiled.range, store_key(e)) <=> Wanted(e)
    <2> DEFINE k == e.key
               p == request.prefix
    <2>1. PICK x \in ByteStrings : store_key(e) = encode(S.type, k) \o x /\ (Multi <=> x # <<>>)
      BY StoreKeyIs
    <2>2. IsKey(S.type, k) /\ Partial(S.type, k) /\ Len(p) <= Len(k)
      BY <1>1, StoreKeyIs, KeyIs DEF Partial
    <2>3. encode(S.type, k) \o x \in ByteStrings
      BY <2>2, PartsIs, ConcatBytes
    <2>4. RangeContains(Compiled.range, store_key(e)) <=> From(Start, store_key(e)) /\ Until(End, store_key(e))
      BY <1>2, RangeIs
    <2>5. Wanted(e) <=> IsPrefix(p, k) /\ Lower(Whole(request.lo), k) /\ Upper(Whole(request.hi), k)
      BY RequestedIs DEF Wanted
    <2>6. /\ IsPrefix(p, k) => (From(Start, store_key(e)) <=> Lower(Whole(request.lo), k))
          /\ KeyBefore(S.type, k, p) => ~From(Start, store_key(e))
      BY <2>1, <2>2, StartIs
    <2>7. /\ IsPrefix(p, k) => (Until(End, store_key(e)) <=> Upper(Whole(request.hi), k))
          /\ KeyBefore(S.type, p, k) => ~Until(End, store_key(e))
      BY <2>1, <2>2, EndIs
    <2>8. IsPrefix(p, k) \/ KeyBefore(S.type, k, p) \/ KeyBefore(S.type, p, k)
      BY <1>1, <2>2, Position
    <2> QED
      BY <2>1, <2>3, <2>4, <2>5, <2>6, <2>7, <2>8
  <1>4. {Compiled.range.start, Compiled.range.end} \subseteq Bounds(ByteStrings)
    BY <1>2, BoundsAreBytes
  <1>5. ASSUME NEW e \in Entries(S), NEW f \in Entries(S), Wanted(e), Wanted(f)
        PROVE  EntryLess(e, f) <=> ByteLess(store_key(e), store_key(f))
    <2>1. /\ IsKey(S.type, e.key) /\ IsKey(S.pktype, e.pk) /\ IsPrefix(request.prefix, e.key)
          /\ IsKey(S.type, f.key) /\ IsKey(S.pktype, f.pk) /\ IsPrefix(request.prefix, f.key)
      BY <1>5, StoreKeyIs DEF Wanted, Requested
    <2>2. SameUnordered(S.type, e.key, f.key)
      BY <1>1, <2>1, PrefixFixesUnordered
    <2>3. CASE ~Multi
      BY <1>1, <2>1, <2>2, <2>3, EncodingKeepsOrder DEF EntryLess, store_key
    <2>4. CASE Multi
      <3> DEFINE R == S.type \o S.pktype
                 k == e.key \o e.pk
                 l == f.key \o f.pk
      <3>1. R \in Seq(PartTypes) /\ IsKey(R, k) /\ IsKey(R, l)
        BY <1>1, <2>1, EncodeConcat
      <3>2. SameUnordered(R, k, l)
        <4>1. /\ Joined(R, S.type, S.pktype) /\ Len(S.type) \in Nat /\ Len(S.pktype) \in Nat
          BY <1>1, ConcatIs
        <4>2. /\ e.key \in Seq(AnyValue) /\ e.pk \in Seq(AnyValue)
              /\ f.key \in Seq(AnyValue) /\ f.pk \in Seq(AnyValue)
              /\ Len(e.key) = Len(S.type) /\ Len(f.key) = Len(S.type)
              /\ Len(e.pk) = Len(S.pktype) /\ Len(f.pk) = Len(S.pktype)
          BY <1>1, <2>1, KeyIs DEF Partial
        <4>3. Joined(k, e.key, e.pk) /\ Joined(l, f.key, f.pk)
          BY <4>2, ConcatIs
        <4> HIDE DEF R, k, l
        <4>4. /\ Len(R) = Len(S.type) + Len(S.pktype)
              /\ \A i \in 1 .. Len(S.type) : R[i] = S.type[i]
              /\ \A i \in Len(S.type) + 1 .. Len(R) : R[i] = S.pktype[i - Len(S.type)]
          BY <4>1 DEF Joined
        <4>5. /\ \A i \in 1 .. Len(S.type) : k[i] = e.key[i]
              /\ \A i \in 1 .. Len(S.type) : l[i] = f.key[i]
          BY <4>2, <4>3 DEF Joined
        <4> SUFFICES ASSUME NEW i \in 1 .. Len(R), R[i] \in Unordered PROVE k[i] = l[i]
          BY DEF SameUnordered
        <4>6. PICK m \in Nat, n \in Nat : m = Len(S.type) /\ n = Len(S.pktype) /\ Len(R) = m + n
          BY <4>1, <4>4
        <4>7. i \in 1 .. m + n
          BY <4>6
        <4>8. CASE i \in 1 .. m
          <5>1. i \in 1 .. Len(S.type) /\ S.type[i] \in Unordered /\ k[i] = e.key[i] /\ l[i] = f.key[i]
            BY <4>4, <4>5, <4>6, <4>8
          <5> QED
            BY <2>2, <5>1 DEF SameUnordered
        <4>9. CASE i \in m + 1 .. m + n
          <5>1. i - m \in 1 .. n
            BY <4>9
          <5>2. S.pktype[i - m] \in Unordered
            BY <4>4, <4>6, <4>9
          <5> QED
            BY <1>1, <2>4, <4>6, <5>1, <5>2, PrimaryIsOrdered
        <4> QED
          BY <4>7, <4>8, <4>9
      <3>3. KeyLess(R, k, l) <=> ByteLess(encode(R, k), encode(R, l))
        <4> HIDE DEF R, k, l
        <4> QED
          BY <3>1, <3>2, EncodingKeepsOrder
      <3> QED
        BY <2>4, <3>3 DEF EntryLess, store_key
    <2> QED
      BY <2>3, <2>4
  <1> QED
    BY <1>3, <1>4, <1>5 DEF Faithful

LEMMA PageInvariant == Spec => [](TypeOK /\ (Regular => PageInv /\ Faithful))
  <1>1. ScanInv => TypeOK /\ (Regular => PageInv /\ Faithful)
    <2> SUFFICES ASSUME ScanInv, Regular PROVE PageInv /\ Faithful
      BY DEF ScanInv
    <2>1. schema \in DOMAIN Schemas /\ request \in Requests
      BY DEF ScanInv, TypeOK, RequestOK, Regular
    <2>2. Faithful
      BY <2>1, FaithfulHolds
    <2> QED
      BY <2>2 DEF ScanInv
  <1> QED
    BY <1>1, ScanInvariant, PTL

-------------------------------------------------------------------------------
(* At every moment an open iterator has still to yield exactly the entries of its
   snapshot that were asked for and lie beyond the last one yielded: the bounds
   that prefix.rs and bounds.rs compute on bytes select by the logical key. *)
THEOREM IterExactHolds == Spec => []IterExact
  <1>1. TypeOK /\ (Regular => PageInv /\ Faithful) => IterExact
    <2> SUFFICES ASSUME TypeOK, PageInv, status = "open"
                 PROVE  iter = {e \in snapshot : Wanted(e) /\ Beyond(e, cursor)}
      BY DEF IterExact
    <2>1. iter = {e \in snapshot : e \in Asked /\ <<e, cursor>> \in Order}
      BY DEF PageInv
    <2>2. snapshot \subseteq Entries(S) /\ cursor \in {None} \union Entries(S)
      BY DEF TypeOK
    <2>3. ASSUME NEW e \in Entries(S)
          PROVE  (e \in Asked <=> Wanted(e)) /\ (<<e, cursor>> \in Order <=> Beyond(e, cursor))
      BY <2>2 DEF Asked, Order
    <2> QED
      BY <2>1, <2>2, <2>3
  <1> QED
    BY <1>1, PageInvariant, PTL

(* Scan::iter refuses a cursor exactly when its key is outside the request. *)
THEOREM CursorCheckedHolds == Spec => []CursorChecked
  <1>1. TypeOK /\ (Regular => PageInv /\ Faithful) => CursorChecked
    <2> SUFFICES ASSUME TypeOK, PageInv, cursor # None
                 PROVE  /\ status = "out_of_bounds" => ~Wanted(cursor)
                        /\ status \in {"open", "done"} => Wanted(cursor)
      BY DEF CursorChecked
    <2>1. cursor \in Entries(S)
      BY DEF TypeOK
    <2>2. cursor \in Asked <=> Wanted(cursor)
      BY <2>1 DEF Asked
    <2> QED
      BY <2>2 DEF PageInv
  <1> QED
    BY <1>1, PageInvariant, PTL

(* A range that holds some key never makes the ordered map panic, whatever the
   bounds and wherever the cursor. *)
THEOREM NoPanicHolds == Spec => []NoPanic
  <1>1. TypeOK /\ (Regular => PageInv /\ Faithful) => NoPanic
    BY DEF PageInv, NoPanic
  <1> QED
    BY <1>1, PageInvariant, PTL

(* Paging while others commit: entries come in order and once, and at the end
   none is missing that was there all the time. *)
THEOREM PagesCompleteHolds == Spec => []PagesComplete
  <1>1. TypeOK /\ (Regular => PageInv /\ Faithful) => PagesComplete
    <2> SUFFICES ASSUME TypeOK, PageInv, Regular
                 PROVE  /\ \A i, j \in DOMAIN seen : i < j => Beyond(seen[j], seen[i])
                        /\ status = "done" =>
                               \A e \in stable : Wanted(e) /\ Beyond(e, first) => Contains(seen, e)
      BY DEF PagesComplete
    <2>1. ASSUME NEW i \in DOMAIN seen, NEW j \in DOMAIN seen, i < j PROVE Beyond(seen[j], seen[i])
      <3>1. <<seen[j], seen[i]>> \in Order
        BY <2>1 DEF PageInv
      <3> QED
        BY <3>1 DEF Order
    <2>2. ASSUME status = "done", NEW e \in stable, Wanted(e), Beyond(e, first) PROVE Contains(seen, e)
      <3>1. e \in Entries(S) /\ first \in {None} \union Entries(S)
        BY DEF TypeOK
      <3>2. e \in Asked /\ <<e, first>> \in Order
        BY <2>2, <3>1 DEF Asked, Order
      <3> QED
        BY <2>2, <3>2 DEF PageInv
    <2> QED
      BY <2>1, <2>2
  <1> QED
    BY <1>1, PageInvariant, PTL
===============================================================================
