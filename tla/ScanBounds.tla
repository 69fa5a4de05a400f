----------------------------- MODULE ScanBounds -----------------------------
(***************************************************************************)
(* How a scan request becomes a range of encoded keys: bounds.rs,          *)
(* prefix.rs and the `compile' methods of the builders in scan.rs.         *)
(*                                                                         *)
(* A request is what a chain of builders asks for,                         *)
(*     scan [.prefix(p)] [.range(lo, hi)] [.direction(d)]                  *)
(* with prefix <<>> where the chain has none; lo and hi are bounds on the  *)
(* key, or on the key's suffix behind the prefix.                          *)
(***************************************************************************)
EXTENDS KeyEncoding, FiniteSetsExt

Included(k) == [bound |-> "Included", key |-> k]
Excluded(k) == [bound |-> "Excluded", key |-> k]
Unbounded == [bound |-> "Unbounded", key |-> <<>>]

Directions == {"LeftToRight", "RightToLeft"}

(* Mutant: the tail behind the incremented byte is kept. *)
prefix_end_KeepsTail(s) ==
    LET low == {i \in DOMAIN s : s[i] # MaxByte}
    IN IF low = {} THEN Unbounded
       ELSE Excluded([s EXCEPT ![Max(low)] = s[Max(low)] + 1])

(* The least bytes above every sequence that starts with s: the last byte that
   can be incremented is, and what follows it is cut off. *)
prefix_end(s) ==
    LET low == {i \in DOMAIN s : s[i] # MaxByte}
    IN IF low = {} THEN Unbounded
       ELSE Excluded([SubSeq(s, 1, Max(low)) EXCEPT ![Max(low)] = s[Max(low)] + 1])

-------------------------------------------------------------------------------
(* BoundsEncoder: a Multi index has physical keys that are longer than its
   logical ones and uses the PrefixEncoder, all other scans the ExactEncoder. *)

(* Mutant: the start of a Multi range skips the group of its key. *)
encode_start_bound_Skips(multi, type, b) ==
    CASE b.bound = "Unbounded" -> Unbounded
      [] b.bound = "Included"  ->
             IF multi THEN prefix_end(encode(type, b.key)) ELSE Included(encode(type, b.key))
      [] b.bound = "Excluded"  ->
             IF multi THEN prefix_end(encode(type, b.key)) ELSE Excluded(encode(type, b.key))

encode_start_bound(multi, type, b) ==
    CASE b.bound = "Unbounded" -> Unbounded
      [] b.bound = "Included"  -> Included(encode(type, b.key))
      [] b.bound = "Excluded"  ->
             IF multi THEN prefix_end(encode(type, b.key)) ELSE Excluded(encode(type, b.key))

encode_end_bound(multi, type, b) ==
    CASE b.bound = "Unbounded" -> Unbounded
      [] b.bound = "Included"  ->
             IF multi THEN prefix_end(encode(type, b.key)) ELSE Included(encode(type, b.key))
      [] b.bound = "Excluded"  -> Excluded(encode(type, b.key))

(* Prefixable::compose: the bound on the key, from a bound on its suffix. *)
compose(prefix, b) == [b EXCEPT !.key = prefix \o b.key]

encode_range(multi, type, lo, hi) ==
    [start |-> encode_start_bound(multi, type, lo), end |-> encode_end_bound(multi, type, hi)]

encode_prefix(type, prefix) ==
    [start |-> Included(encode(type, prefix)), end |-> prefix_end(encode(type, prefix))]

encode_prefixed_range(multi, type, prefix, lo, hi) ==
    [start |-> IF lo = Unbounded THEN encode_prefix(type, prefix).start
               ELSE encode_start_bound(multi, type, compose(prefix, lo)),
     end   |-> IF hi = Unbounded THEN encode_prefix(type, prefix).end
               ELSE encode_end_bound(multi, type, compose(prefix, hi))]

-------------------------------------------------------------------------------
(* The builders: each takes the compiled scan of the one it wraps and replaces
   its range or its direction. *)

(* IndexScan and CollectionScan *)
FullScan == [range |-> [start |-> Unbounded, end |-> Unbounded], direction |-> "LeftToRight"]

PrefixedScan(scan, type, prefix) == [scan EXCEPT !.range = encode_prefix(type, prefix)]

RangeScan(scan, range) == [scan EXCEPT !.range = range]

DirectedScan(scan, direction) == [scan EXCEPT !.direction = direction]

(* The chain of builders a request stands for, without `after'. *)
compile(multi, type, request) ==
    LET prefixed ==
            IF request.prefix = <<>> THEN FullScan
            ELSE PrefixedScan(FullScan, type, request.prefix)
        range ==
            IF request.prefix = <<>> THEN encode_range(multi, type, request.lo, request.hi)
            ELSE encode_prefixed_range(multi, type, request.prefix, request.lo, request.hi)
        ranged ==
            IF request.lo = Unbounded /\ request.hi = Unbounded THEN prefixed
            ELSE RangeScan(prefixed, range)
    IN DirectedScan(ranged, request.direction)

(* RangeBounds::contains and BTreeMap::range (external). *)
RangeContains(range, s) ==
    /\ range.start.bound = "Included" => ~ByteLess(s, range.start.key)
    /\ range.start.bound = "Excluded" => ByteLess(range.start.key, s)
    /\ range.end.bound = "Included" => ~ByteLess(range.end.key, s)
    /\ range.end.bound = "Excluded" => ByteLess(s, range.end.key)

(* BTreeMap::range panics on a range that is turned round, or empty between
   two equal excluded bounds (external). *)
RangePanics(range) ==
    /\ range.start # Unbounded /\ range.end # Unbounded
    /\ \/ ByteLess(range.end.key, range.start.key)
       \/ range.start = range.end /\ range.start.bound = "Excluded"

(* Mutant: the end of a right-to-left scan is left where it is. *)
AfterScan_OneWay(scan, s) == [scan EXCEPT !.range.start = Excluded(s)]

(* AfterScan: the cursor replaces the bound that the scan starts from. *)
AfterScan(scan, s) ==
    IF scan.direction = "LeftToRight"
    THEN [scan EXCEPT !.range.start = Excluded(s)]
    ELSE [scan EXCEPT !.range.end = Excluded(s)]

-------------------------------------------------------------------------------
(* What a request means, on keys. *)

InRange(type, lo, hi, k) ==
    /\ lo.bound = "Included" => ~KeyLess(type, k, lo.key)
    /\ lo.bound = "Excluded" => KeyLess(type, lo.key, k)
    /\ hi.bound = "Included" => ~KeyLess(type, hi.key, k)
    /\ hi.bound = "Excluded" => KeyLess(type, k, hi.key)

Requested(type, request, k) ==
    /\ IsPrefix(request.prefix, k)
    /\ InRange(type, IF request.lo = Unbounded THEN Unbounded ELSE compose(request.prefix, request.lo),
                     IF request.hi = Unbounded THEN Unbounded ELSE compose(request.prefix, request.hi), k)
=============================================================================
