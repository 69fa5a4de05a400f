--------------------------- MODULE KeyOrderProofs ----------------------------
(***************************************************************************)
(* The order in which stores compare encoded keys, and the ranges that     *)
(* prefix.rs cuts out of it, for byte strings of any length.               *)
(***************************************************************************)
EXTENDS ScanBounds, TLAPS, WellFoundedInduction, SequenceTheorems

ByteStrings == Seq(Byte)

(* A set of numbers that is not empty has a least one. *)
LEMMA LeastNumber ==
    ASSUME NEW T \in SUBSET Nat, NEW n \in T
    PROVE  \E m \in T : \A k \in T : m <= k
  <1>1. PICK m \in T : \A k \in T : ~(<<k, m>> \in OpToRel(<, Nat))
    BY NatLessThanWellFounded, WFMin
  <1>2. \A k \in T : ~(k < m)
    BY <1>1 DEF OpToRel
  <1> QED
    BY <1>2

(* Induction: a set with 0 that has the successor of each of its members has
   all numbers. *)
LEMMA SetInduction ==
    ASSUME NEW T, 0 \in T, \A n \in Nat : n \in T => n + 1 \in T
    PROVE  Nat \subseteq T
  <1> SUFFICES ASSUME NEW x \in Nat \ T PROVE FALSE
    OBVIOUS
  <1>1. PICK m \in Nat \ T : \A k \in Nat \ T : m <= k
    BY LeastNumber
  <1>2. m - 1 \in Nat /\ m - 1 \in T
    BY <1>1
  <1> QED
    BY <1>1, <1>2

(* What a prefix and a proper prefix are, byte by byte. *)
LEMMA PrefixIs ==
    ASSUME NEW s \in ByteStrings, NEW t \in ByteStrings
    PROVE  /\ IsPrefix(s, t) <=> Len(s) <= Len(t) /\ \A i \in 1 .. Len(s) : s[i] = t[i]
           /\ IsStrictPrefix(s, t) <=> Len(s) < Len(t) /\ \A i \in 1 .. Len(s) : s[i] = t[i]
  <1>1. SubSeq(s, 1, Len(s)) = s
    BY DEF ByteStrings
  <1>2. Len(s) <= Len(t) =>
            /\ SubSeq(t, 1, Len(s)) \in Seq(Byte) /\ Len(SubSeq(t, 1, Len(s))) = Len(s)
            /\ \A i \in 1 .. Len(s) : SubSeq(t, 1, Len(s))[i] = t[i]
    BY DEF ByteStrings
  <1>3. IsPrefix(s, t) <=> Len(s) <= Len(t) /\ \A i \in 1 .. Len(s) : s[i] = t[i]
    BY <1>1, <1>2 DEF IsPrefix, ByteStrings
  <1>4. Len(s) = Len(t) /\ (\A i \in 1 .. Len(s) : s[i] = t[i]) => s = t
    BY DEF ByteStrings
  <1> QED
    BY <1>3, <1>4 DEF IsStrictPrefix, ByteStrings

(* ByteLess, byte by byte. *)
LEMMA ByteLessIs ==
    ASSUME NEW s \in ByteStrings, NEW t \in ByteStrings
    PROVE  ByteLess(s, t) <=>
               \/ Len(s) < Len(t) /\ \A i \in 1 .. Len(s) : s[i] = t[i]
               \/ \E i \in 1 .. Len(s) : /\ i <= Len(t) /\ s[i] < t[i]
                                         /\ \A j \in 1 .. i - 1 : s[j] = t[j]
  <1>1. DOMAIN s = 1 .. Len(s) /\ DOMAIN t = 1 .. Len(t) /\ Len(s) \in Nat /\ Len(t) \in Nat
    BY DEF ByteStrings
  <1> QED
    BY <1>1, PrefixIs DEF ByteLess, LexLess

(* Two byte strings of which neither is a prefix of the other differ first at
   some place. *)
LEMMA FirstDifference ==
    ASSUME NEW s \in ByteStrings, NEW t \in ByteStrings, ~IsPrefix(s, t), ~IsPrefix(t, s)
    PROVE  \E i \in 1 .. Len(s) :
               /\ i <= Len(t) /\ s[i] # t[i]
               /\ \A j \in 1 .. i - 1 : s[j] = t[j]
  <1> DEFINE D == {i \in 1 .. Len(s) : i <= Len(t) /\ s[i] # t[i]}
  <1>1. Len(s) \in Nat /\ Len(t) \in Nat
    BY DEF ByteStrings
  <1>2. D # {}
    BY <1>1, PrefixIs
  <1>3. D \in SUBSET Nat
    BY <1>1
  <1>4. PICK i \in D : \A k \in D : i <= k
    BY <1>2, <1>3, LeastNumber
  <1> QED
    BY <1>1, <1>4

(* The bytes of a byte string are numbers. *)
LEMMA BytesAreNumbers ==
    ASSUME NEW s \in ByteStrings
    PROVE  Len(s) \in Nat /\ \A i \in 1 .. Len(s) : s[i] \in Int
  BY ByteAssumption DEF ByteStrings, Byte

(* No byte string is below itself. *)
LEMMA ByteLessIrreflexive ==
    ASSUME NEW s \in ByteStrings
    PROVE  ~ByteLess(s, s)
  BY ByteLessIs, BytesAreNumbers

(* The order of byte strings is transitive. *)
LEMMA ByteLessTransitive ==
    ASSUME NEW s \in ByteStrings, NEW t \in ByteStrings, NEW u \in ByteStrings,
           ByteLess(s, t), ByteLess(t, u)
    PROVE  ByteLess(s, u)
  <1> DEFINE Prefix(a, b) == Len(a) < Len(b) /\ \A i \in 1 .. Len(a) : a[i] = b[i]
             Differ(a, b, i) == /\ i \in 1 .. Len(a) /\ i <= Len(b) /\ a[i] < b[i]
                                /\ \A j \in 1 .. i - 1 : a[j] = b[j]
  <1>1. /\ Len(s) \in Nat /\ Len(t) \in Nat /\ Len(u) \in Nat
        /\ \A i \in 1 .. Len(s) : s[i] \in Int
        /\ \A i \in 1 .. Len(t) : t[i] \in Int
        /\ \A i \in 1 .. Len(u) : u[i] \in Int
    BY BytesAreNumbers
  <1>2. Prefix(s, t) \/ \E i \in 1 .. Len(s) : Differ(s, t, i)
    BY ByteLessIs
  <1>3. Prefix(t, u) \/ \E i \in 1 .. Len(t) : Differ(t, u, i)
    BY ByteLessIs
  <1>4. Prefix(s, u) \/ (\E i \in 1 .. Len(s) : Differ(s, u, i)) => ByteLess(s, u)
    BY ByteLessIs
  <1>5. CASE Prefix(s, t) /\ Prefix(t, u)
    <2>1. Prefix(s, u)
      BY <1>1, <1>5
    <2> QED
      BY <1>4, <2>1
  <1>6. ASSUME Prefix(s, t), NEW k \in 1 .. Len(t), Differ(t, u, k) PROVE ByteLess(s, u)
    <2>1. CASE k <= Len(s)
      <3>1. Differ(s, u, k)
        BY <1>1, <1>6, <2>1
      <3> QED
        BY <1>4, <3>1
    <2>2. CASE Len(s) < k
      <3>1. Prefix(s, u)
        BY <1>1, <1>6, <2>2
      <3> QED
        BY <1>4, <3>1
    <2> QED
      BY <1>1, <2>1, <2>2
  <1>7. ASSUME NEW i \in 1 .. Len(s), Differ(s, t, i), Prefix(t, u) PROVE ByteLess(s, u)
    <2>1. Differ(s, u, i)
      BY <1>1, <1>7
    <2> QED
      BY <1>4, <2>1
  <1>8. ASSUME NEW i \in 1 .. Len(s), Differ(s, t, i), NEW k \in 1 .. Len(t), Differ(t, u, k)
        PROVE  ByteLess(s, u)
    <2>1. CASE i <= k
      <3>1. Differ(s, u, i)
        BY <1>1, <1>8, <2>1
      <3> QED
        BY <1>4, <3>1
    <2>2. CASE k < i
      <3>1. Differ(s, u, k) /\ k \in 1 .. Len(s)
        BY <1>1, <1>8, <2>2
      <3> QED
        BY <1>4, <3>1
    <2> QED
      BY <1>1, <2>1, <2>2
  <1> QED
    BY <1>2, <1>3, <1>5, <1>6, <1>7, <1>8

(* Of two byte strings one is below the other. *)
LEMMA ByteLessTotal ==
    ASSUME NEW s \in ByteStrings, NEW t \in ByteStrings, s # t
    PROVE  ByteLess(s, t) \/ ByteLess(t, s)
  <1>1. Len(s) \in Nat /\ Len(t) \in Nat
        /\ (\A i \in 1 .. Len(s) : s[i] \in Int) /\ (\A i \in 1 .. Len(t) : t[i] \in Int)
    BY BytesAreNumbers
  <1>2. CASE IsPrefix(s, t) \/ IsPrefix(t, s)
    BY <1>2 DEF ByteLess, LexLess, IsStrictPrefix
  <1>3. CASE ~IsPrefix(s, t) /\ ~IsPrefix(t, s)
    <2>1. PICK i \in 1 .. Len(s) : /\ i <= Len(t) /\ s[i] # t[i]
                                   /\ \A j \in 1 .. i - 1 : s[j] = t[j]
      BY <1>3, FirstDifference
    <2>2. i \in 1 .. Len(t) /\ (s[i] < t[i] \/ t[i] < s[i])
      BY <1>1, <2>1
    <2> QED
      BY <1>1, <2>1, <2>2, ByteLessIs
  <1> QED
    BY <1>2, <1>3

-------------------------------------------------------------------------------
(* The ranges of prefix.rs *)

(* A set of places in a byte string has a last one. *)
LEMMA LastPlace ==
    ASSUME NEW n \in Nat, NEW P \in SUBSET (1 .. n), P # {}
    PROVE  Max(P) \in P /\ \A i \in P : i <= Max(P)
  <1> DEFINE T == {n - i : i \in P}
  <1>1. T \in SUBSET Nat /\ T # {}
    <2>1. PICK i \in P : TRUE
      OBVIOUS
    <2>2. n - i \in T
      BY <2>1
    <2>3. \A j \in P : j \in 1 .. n
      OBVIOUS
    <2>4. \A j \in P : n - j \in Nat
      BY <2>3
    <2> QED
      BY <2>2, <2>4
  <1>2. PICK d \in T : \A k \in T : d <= k
    BY <1>1, LeastNumber
  <1>3. PICK m \in P : d = n - m
    BY <1>2
  <1>4. \A i \in P : n - m <= n - i
    BY <1>2, <1>3
  <1>5. m \in P /\ \A i \in P : m >= i
    BY <1>4
  <1>6. Max(P) \in P /\ \A i \in P : Max(P) >= i
    BY <1>5 DEF Max
  <1> QED
    BY <1>6

(* What prefix_end computes. *)
LEMMA PrefixEndIs ==
    ASSUME NEW s \in ByteStrings
    PROVE  \/ /\ \A i \in 1 .. Len(s) : s[i] = MaxByte
              /\ prefix_end(s) = Unbounded
           \/ \E m \in 1 .. Len(s) : \E e \in ByteStrings :
                 /\ \A i \in 1 .. Len(s) : m < i => s[i] = MaxByte
                 /\ prefix_end(s) = Excluded(e)
                 /\ Len(e) = m /\ e[m] = s[m] + 1 /\ \A i \in 1 .. m - 1 : e[i] = s[i]
  <1> DEFINE low == {i \in DOMAIN s : s[i] # MaxByte}
             m == Max(low)
             e == [SubSeq(s, 1, m) EXCEPT ![m] = s[m] + 1]
  <1>1. DOMAIN s = 1 .. Len(s) /\ Len(s) \in Nat /\ \A i \in 1 .. Len(s) : s[i] \in Byte
    BY DEF ByteStrings
  <1>2. CASE low = {}
    BY <1>1, <1>2 DEF prefix_end
  <1>3. CASE low # {}
    <2>1. low \in SUBSET (1 .. Len(s))
      BY <1>1
    <2>2. m \in low /\ \A i \in low : i <= m
      BY <1>1, <1>3, <2>1, LastPlace
    <2>3. prefix_end(s) = Excluded(e)
      BY <1>3 DEF prefix_end
    <2> HIDE DEF m
    <2>4. m \in 1 .. Len(s) /\ s[m] # MaxByte /\ \A i \in 1 .. Len(s) : m < i => s[i] = MaxByte
      BY <1>1, <2>2
    <2>5. /\ SubSeq(s, 1, m) \in Seq(Byte) /\ Len(SubSeq(s, 1, m)) = m
          /\ \A i \in 1 .. m : SubSeq(s, 1, m)[i] = s[i]
      BY <1>1, <2>4 DEF ByteStrings
    <2>6. s[m] + 1 \in Byte
      BY <1>1, <2>4, ByteAssumption DEF Byte
    <2>7. /\ e \in ByteStrings /\ Len(e) = m
          /\ e[m] = s[m] + 1 /\ \A i \in 1 .. m - 1 : e[i] = s[i]
      <3>1. PICK u \in Seq(Byte) : u = SubSeq(s, 1, m) /\ Len(u) = m /\ \A i \in 1 .. m : u[i] = s[i]
        BY <2>5
      <3>2. e = [u EXCEPT ![m] = s[m] + 1]
        BY <3>1
      <3> HIDE DEF e
      <3>3. m \in 1 .. Len(u) /\ m \in Nat
        BY <2>4, <3>1
      <3>4. e \in Seq(Byte) /\ Len(e) = Len(u)
        BY <2>6, <3>1, <3>2, <3>3
      <3>5. e[m] = s[m] + 1 /\ \A i \in 1 .. m - 1 : e[i] = u[i]
        <4>1. DOMAIN u = 1 .. Len(u)
          OBVIOUS
        <4>2. e[m] = s[m] + 1
          BY <3>2, <3>3, <4>1
        <4>3. ASSUME NEW i \in 1 .. m - 1 PROVE i \in DOMAIN u /\ i # m
          BY <3>1, <3>3, <4>1
        <4>4. ASSUME NEW i \in 1 .. m - 1 PROVE e[i] = u[i]
          BY <3>2, <4>3
        <4> QED
          BY <4>2, <4>4
      <3> QED
        BY <3>1, <3>3, <3>4, <3>5 DEF ByteStrings
    <2> QED
      BY <2>3, <2>4, <2>7
  <1> QED
    BY <1>2, <1>3

(* The range of a prefix holds exactly the byte strings that start with it,
   whatever bytes it ends in. *)
THEOREM PrefixRangeExact ==
    ASSUME NEW s \in ByteStrings, NEW t \in ByteStrings
    PROVE  IsPrefix(s, t) <=> RangeContains([start |-> Included(s), end |-> prefix_end(s)], t)
  <1> DEFINE end == prefix_end(s)
  <1>1. /\ Len(s) \in Nat /\ Len(t) \in Nat
        /\ \A i \in 1 .. Len(s) : s[i] \in Byte /\ s[i] \in Int /\ s[i] <= MaxByte
        /\ \A i \in 1 .. Len(t) : t[i] \in Byte /\ t[i] \in Int /\ t[i] <= MaxByte
    BY ByteAssumption DEF ByteStrings, Byte
  <1>2. RangeContains([start |-> Included(s), end |-> end], t)
            <=> ~ByteLess(t, s) /\ (end.bound = "Included" => ~ByteLess(end.key, t))
                               /\ (end.bound = "Excluded" => ByteLess(t, end.key))
    BY DEF RangeContains, Included
  <1>3. ASSUME IsPrefix(s, t) PROVE ~ByteLess(t, s)
    BY <1>1, <1>3, PrefixIs, ByteLessIs
  <1>4. ASSUME ~IsPrefix(s, t), ~ByteLess(t, s)
        PROVE  \E i \in 1 .. Len(s) : /\ i <= Len(t) /\ s[i] < t[i]
                                       /\ \A j \in 1 .. i - 1 : s[j] = t[j]
    <2>1. ~IsPrefix(t, s)
      BY <1>1, <1>4, PrefixIs, ByteLessIs
    <2>2. PICK i \in 1 .. Len(s) : /\ i <= Len(t) /\ s[i] # t[i]
                                   /\ \A j \in 1 .. i - 1 : s[j] = t[j]
      BY <1>4, <2>1, FirstDifference
    <2>3. ~(t[i] < s[i])
      BY <1>1, <1>4, <2>2, ByteLessIs
    <2> QED
      BY <1>1, <2>2, <2>3
  <1>5. CASE (\A i \in 1 .. Len(s) : s[i] = MaxByte) /\ end = Unbounded
    <2>1. end.bound = "Unbounded"
      BY <1>5 DEF Unbounded
    <2>2. ~ByteLess(t, s) => IsPrefix(s, t)
      BY <1>1, <1>4, <1>5
    <2> QED
      BY <1>2, <1>3, <2>1, <2>2
  <1>6. ASSUME NEW m \in 1 .. Len(s), NEW e \in ByteStrings,
               \A i \in 1 .. Len(s) : m < i => s[i] = MaxByte,
               end = Excluded(e), Len(e) = m, e[m] = s[m] + 1, \A i \in 1 .. m - 1 : e[i] = s[i]
        PROVE  IsPrefix(s, t) <=> RangeContains([start |-> Included(s), end |-> end], t)
    <2>1. end.bound = "Excluded" /\ end.key = e
      BY <1>6 DEF Excluded
    <2>2. ASSUME IsPrefix(s, t) PROVE ByteLess(t, e)
      <3>1. Len(s) <= Len(t) /\ \A i \in 1 .. Len(s) : s[i] = t[i]
        BY <2>2, PrefixIs
      <3>2. m \in 1 .. Len(t) /\ m <= Len(e) /\ t[m] < e[m] /\ \A j \in 1 .. m - 1 : t[j] = e[j]
        BY <1>1, <1>6, <3>1
      <3> QED
        BY <3>2, ByteLessIs
    <2>3. ASSUME ~IsPrefix(s, t), ~ByteLess(t, s), ByteLess(t, e) PROVE FALSE
      <3>1. PICK i \in 1 .. Len(s) : /\ i <= Len(t) /\ s[i] < t[i]
                                     /\ \A j \in 1 .. i - 1 : s[j] = t[j]
        BY <1>4, <2>3
      <3>2. i <= m
        BY <1>1, <1>6, <3>1
      <3>3. e[i] <= t[i] /\ e[i] \in Int /\ \A j \in 1 .. i - 1 : e[j] = t[j]
        <4>1. CASE i = m
          BY <1>1, <1>6, <3>1, <4>1
        <4>2. CASE i < m
          BY <1>1, <1>6, <3>1, <4>2
        <4> QED
          BY <1>1, <3>2, <4>1, <4>2
      <3>4. \/ Len(t) < Len(e) /\ \A k \in 1 .. Len(t) : t[k] = e[k]
            \/ \E k \in 1 .. Len(t) : /\ k <= Len(e) /\ t[k] < e[k]
                                        /\ \A j \in 1 .. k - 1 : t[j] = e[j]
        BY <2>3, ByteLessIs
      <3>5. CASE Len(t) < Len(e) /\ \A k \in 1 .. Len(t) : t[k] = e[k]
        <4>1. i < m /\ t[i] = e[i] /\ e[i] = s[i]
          BY <1>1, <1>6, <3>1, <3>2, <3>5
        <4> QED
          BY <1>1, <3>1, <4>1
      <3>6. ASSUME NEW k \in 1 .. Len(t), k <= Len(e), t[k] < e[k], \A j \in 1 .. k - 1 : t[j] = e[j]
            PROVE  FALSE
        <4>1. CASE k < i
          BY <1>1, <3>1, <3>3, <3>6, <4>1
        <4>2. CASE k = i
          BY <1>1, <3>1, <3>3, <3>6, <4>2
        <4>3. CASE i < k
          <5>1. t[i] = e[i] /\ e[i] = s[i]
            BY <1>1, <1>6, <3>1, <3>6, <4>3
          <5> QED
            BY <1>1, <3>1, <5>1
        <4> QED
          BY <1>1, <4>1, <4>2, <4>3
      <3> QED
        BY <3>4, <3>5, <3>6
    <2> QED
      BY <1>2, <1>3, <2>1, <2>2, <2>3
  <1> QED
    BY <1>5, <1>6, PrefixEndIs

-------------------------------------------------------------------------------
(* Byte strings that differ in a byte *)

(* s is below t, and byte i shows it. *)
BelowAt(i, s, t) ==
    /\ i \in 1 .. Len(s) /\ i \in 1 .. Len(t) /\ s[i] < t[i]
    /\ \A j \in 1 .. i - 1 : s[j] = t[j]

Below(s, t) == \E i \in 1 .. Len(s) : BelowAt(i, s, t)

(* What is below by a byte is below, and neither starts with the other. *)
LEMMA BelowOrders ==
    ASSUME NEW s \in ByteStrings, NEW t \in ByteStrings, Below(s, t)
    PROVE  ByteLess(s, t) /\ ~ByteLess(t, s) /\ ~IsPrefix(s, t) /\ ~IsPrefix(t, s)
  <1>1. PICK i \in 1 .. Len(s) : BelowAt(i, s, t)
    BY DEF Below
  <1>2. /\ i \in 1 .. Len(t) /\ s[i] < t[i] /\ \A j \in 1 .. i - 1 : s[j] = t[j]
        /\ i \in Int /\ s[i] \in Int /\ t[i] \in Int /\ Len(s) \in Nat /\ Len(t) \in Nat
    BY <1>1, BytesAreNumbers DEF BelowAt
  <1>3. ByteLess(s, t)
    BY <1>2, ByteLessIs
  <1>4. ~IsPrefix(s, t) /\ ~IsPrefix(t, s)
    BY <1>2, PrefixIs
  <1>5. ~ByteLess(t, s)
    BY <1>3, ByteLessTransitive, ByteLessIrreflexive
  <1> QED
    BY <1>3, <1>4, <1>5

(* It stays below whatever follows. *)
LEMMA BelowAppend ==
    ASSUME NEW s \in ByteStrings, NEW t \in ByteStrings, NEW u \in ByteStrings, NEW v \in ByteStrings,
           NEW i, BelowAt(i, s, t)
    PROVE  BelowAt(i, s \o u, t \o v)
  <1>1. /\ Len(s \o u) = Len(s) + Len(u) /\ Len(s) \in Nat /\ Len(u) \in Nat
        /\ \A j \in 1 .. Len(s) : (s \o u)[j] = s[j]
    BY DEF ByteStrings
  <1>2. /\ Len(t \o v) = Len(t) + Len(v) /\ Len(t) \in Nat /\ Len(v) \in Nat
        /\ \A j \in 1 .. Len(t) : (t \o v)[j] = t[j]
    BY DEF ByteStrings
  <1>3. /\ i \in 1 .. Len(s) /\ i \in 1 .. Len(t) /\ s[i] < t[i]
        /\ \A j \in 1 .. i - 1 : s[j] = t[j]
    BY DEF BelowAt
  <1>4. \A j \in 1 .. i - 1 : j \in 1 .. Len(s) /\ j \in 1 .. Len(t)
    BY <1>1, <1>2, <1>3
  <1> QED
    BY <1>1, <1>2, <1>3, <1>4 DEF BelowAt

LEMMA BelowBoth ==
    ASSUME NEW s \in ByteStrings, NEW t \in ByteStrings, NEW u \in ByteStrings, NEW v \in ByteStrings,
           Below(s, t)
    PROVE  Below(s \o u, t \o v)
  <1>1. PICK i : BelowAt(i, s, t)
    BY DEF Below
  <1>2. BelowAt(i, s \o u, t \o v)
    BY <1>1, BelowAppend
  <1> QED
    BY <1>2 DEF Below, BelowAt

(* It stays below behind the same bytes and whatever follows. *)
LEMMA BelowInside ==
    ASSUME NEW s \in ByteStrings, NEW t \in ByteStrings,
           NEW a \in ByteStrings, NEW u \in ByteStrings, NEW v \in ByteStrings, Below(s, t)
    PROVE  Below(a \o (s \o u), a \o (t \o v))
  <1>1. PICK i \in 1 .. Len(s) : BelowAt(i, s, t)
    BY DEF Below
  <1> DEFINE x == a \o (s \o u)
             y == a \o (t \o v)
             k == Len(a) + i
  <1>2. /\ s \o u \in ByteStrings /\ Len(s \o u) = Len(s) + Len(u)
        /\ \A j \in 1 .. Len(s) : (s \o u)[j] = s[j]
    BY DEF ByteStrings
  <1>3. /\ t \o v \in ByteStrings /\ Len(t \o v) = Len(t) + Len(v)
        /\ \A j \in 1 .. Len(t) : (t \o v)[j] = t[j]
    BY DEF ByteStrings
  <1>4. /\ x \in ByteStrings /\ Len(x) = Len(a) + Len(s \o u)
        /\ \A j \in 1 .. Len(a) : x[j] = a[j]
        /\ \A j \in 1 .. Len(s \o u) : x[Len(a) + j] = (s \o u)[j]
    BY <1>2 DEF ByteStrings
  <1>5. /\ y \in ByteStrings /\ Len(y) = Len(a) + Len(t \o v)
        /\ \A j \in 1 .. Len(a) : y[j] = a[j]
        /\ \A j \in 1 .. Len(t \o v) : y[Len(a) + j] = (t \o v)[j]
    BY <1>3 DEF ByteStrings
  <1>6. /\ Len(a) \in Nat /\ Len(s) \in Nat /\ Len(t) \in Nat /\ Len(u) \in Nat /\ Len(v) \in Nat
        /\ i \in 1 .. Len(t) /\ s[i] < t[i] /\ \A j \in 1 .. i - 1 : s[j] = t[j]
    BY <1>1 DEF BelowAt, ByteStrings
  <1> HIDE DEF x, y
  <1>7. k \in 1 .. Len(x) /\ k \in 1 .. Len(y)
    BY <1>2, <1>3, <1>4, <1>5, <1>6
  <1>8. x[k] = s[i] /\ y[k] = t[i]
    BY <1>2, <1>3, <1>4, <1>5, <1>6
  <1>9. ASSUME NEW j \in 1 .. k - 1 PROVE x[j] = y[j]
    <2>1. CASE j <= Len(a)
      BY <1>4, <1>5, <1>6, <2>1
    <2>2. CASE j > Len(a)
      <3>1. j - Len(a) \in 1 .. i - 1 /\ j = Len(a) + (j - Len(a))
        BY <1>6, <2>2
      <3>2. j - Len(a) \in 1 .. Len(s) /\ j - Len(a) \in 1 .. Len(t)
            /\ j - Len(a) \in 1 .. Len(s \o u) /\ j - Len(a) \in 1 .. Len(t \o v)
        BY <1>2, <1>3, <1>6, <3>1
      <3>3. x[j] = s[j - Len(a)] /\ y[j] = t[j - Len(a)]
        BY <1>2, <1>3, <1>4, <1>5, <3>1, <3>2
      <3> QED
        BY <1>6, <3>1, <3>3
    <2> QED
      BY <1>6, <2>1, <2>2
  <1>10. BelowAt(k, x, y)
    BY <1>6, <1>7, <1>8, <1>9 DEF BelowAt
  <1> QED
    BY <1>7, <1>10 DEF Below, x, y

-------------------------------------------------------------------------------
(* Concatenations *)

(* f holds the concatenations of the first strings of q. *)
Joins(f, q) ==
    f = [i \in 1 .. Len(q) |-> IF i = 1 THEN q[i] ELSE f[i - 1] \o q[i]]

LEMMA JoinsExists ==
    ASSUME NEW q \in Seq(ByteStrings)
    PROVE  \E f \in [1 .. Len(q) -> ByteStrings] : Joins(f, q)
  <1> DEFINE Good(n) == \E f \in [1 .. n -> ByteStrings] :
                           \A i \in 1 .. n : f[i] = IF i = 1 THEN q[i] ELSE f[i - 1] \o q[i]
             T == {n \in Nat : n <= Len(q) => Good(n)}
  <1>1. Len(q) \in Nat /\ \A i \in 1 .. Len(q) : q[i] \in ByteStrings
    OBVIOUS
  <1>2. 0 \in T
    <2>1. \A i \in 1 .. 0 : FALSE
      OBVIOUS
    <2>2. [i \in 1 .. 0 |-> q[i]] \in [1 .. 0 -> ByteStrings]
      BY <2>1
    <2>3. Good(0)
      BY <2>1, <2>2
    <2> QED
      BY <2>3
  <1>3. ASSUME NEW n \in Nat, n \in T PROVE n + 1 \in T
    <2> SUFFICES ASSUME n + 1 <= Len(q) PROVE Good(n + 1)
      OBVIOUS
    <2>1. PICK f \in [1 .. n -> ByteStrings] :
              \A i \in 1 .. n : f[i] = IF i = 1 THEN q[i] ELSE f[i - 1] \o q[i]
      BY <1>1, <1>3
    <2> DEFINE g == [i \in 1 .. n + 1 |-> IF i = n + 1 THEN IF i = 1 THEN q[i] ELSE f[n] \o q[i]
                                          ELSE f[i]]
    <2>2. ASSUME NEW i \in 1 .. n + 1 PROVE g[i] \in ByteStrings
      <3>1. q[i] \in ByteStrings
        BY <1>1
      <3>2. CASE i = n + 1 /\ i # 1
        <4>1. f[n] \in ByteStrings
          BY <3>2
        <4>2. f[n] \o q[i] \in ByteStrings
          BY <3>1, <4>1 DEF ByteStrings
        <4> QED
          BY <3>2, <4>2
      <3>3. CASE i = n + 1 /\ i = 1
        BY <3>1, <3>3
      <3>4. CASE i # n + 1
        BY <3>4
      <3> QED
        BY <3>2, <3>3, <3>4
    <2>3. g \in [1 .. n + 1 -> ByteStrings]
      BY <2>2
    <2>4. ASSUME NEW i \in 1 .. n + 1 PROVE g[i] = IF i = 1 THEN q[i] ELSE g[i - 1] \o q[i]
      <3>1. i # 1 => i - 1 \in 1 .. n /\ g[i - 1] = f[i - 1]
        OBVIOUS
      <3>2. CASE i = n + 1
        BY <3>1, <3>2
      <3>3. CASE i # n + 1
        <4>1. i \in 1 .. n /\ g[i] = f[i]
          BY <3>3
        <4> QED
          BY <2>1, <3>1, <4>1
      <3> QED
        BY <3>2, <3>3
    <2> QED
      BY <2>3, <2>4
  <1> HIDE DEF Good
  <1>4. Len(q) \in T
    BY <1>1, <1>2, <1>3, SetInduction
  <1>5. Good(Len(q))
    BY <1>4
  <1> QED
    BY <1>5 DEF Good, Joins

(* Two such functions agree where their sequences do. *)
LEMMA JoinsAt ==
    ASSUME NEW q, NEW f, Joins(f, q), NEW i \in 1 .. Len(q)
    PROVE  f[i] = IF i = 1 THEN q[i] ELSE f[i - 1] \o q[i]
  <1> DEFINE g == [j \in 1 .. Len(q) |-> IF j = 1 THEN q[j] ELSE f[j - 1] \o q[j]]
  <1>1. f = g
    BY DEF Joins
  <1>2. g[i] = IF i = 1 THEN q[i] ELSE f[i - 1] \o q[i]
    OBVIOUS
  <1> HIDE DEF g
  <1>3. f[i] = g[i]
    BY <1>1
  <1> QED
    BY <1>2, <1>3

LEMMA JoinsAgree ==
    ASSUME NEW q, NEW r, NEW f, NEW g, Joins(f, q), Joins(g, r), Len(q) \in Nat, Len(r) \in Nat,
           Len(q) <= Len(r), \A i \in 1 .. Len(q) : q[i] = r[i], NEW m \in 1 .. Len(q)
    PROVE  f[m] = g[m]
  <1> DEFINE T == {n \in Nat : n + 1 \in 1 .. Len(q) => f[n + 1] = g[n + 1]}
  <1>1. \A i \in 1 .. Len(q) : /\ f[i] = IF i = 1 THEN q[i] ELSE f[i - 1] \o q[i]
                               /\ g[i] = IF i = 1 THEN q[i] ELSE g[i - 1] \o q[i]
    <2> SUFFICES ASSUME NEW i \in 1 .. Len(q)
                 PROVE  /\ f[i] = IF i = 1 THEN q[i] ELSE f[i - 1] \o q[i]
                        /\ g[i] = IF i = 1 THEN q[i] ELSE g[i - 1] \o q[i]
      OBVIOUS
    <2>1. i \in 1 .. Len(r) /\ q[i] = r[i]
      OBVIOUS
    <2>2. g[i] = IF i = 1 THEN r[i] ELSE g[i - 1] \o r[i]
      BY <2>1, JoinsAt
    <2>3. f[i] = IF i = 1 THEN q[i] ELSE f[i - 1] \o q[i]
      BY JoinsAt
    <2> QED
      BY <2>1, <2>2, <2>3
  <1>2. 0 \in T
    BY <1>1
  <1>3. ASSUME NEW n \in Nat, n \in T PROVE n + 1 \in T
    <2> SUFFICES ASSUME n + 1 + 1 \in 1 .. Len(q) PROVE f[n + 1 + 1] = g[n + 1 + 1]
      OBVIOUS
    <2>1. n + 1 \in 1 .. Len(q) /\ n + 1 + 1 # 1 /\ n + 1 + 1 - 1 = n + 1
      OBVIOUS
    <2>2. f[n + 1] = g[n + 1]
      BY <1>3, <2>1
    <2>3. ASSUME NEW i \in 1 .. Len(q), i = n + 1 + 1
          PROVE  f[i] = f[n + 1] \o q[i] /\ g[i] = g[n + 1] \o q[i]
      <3>1. i # 1 /\ i - 1 = n + 1
        BY <2>3
      <3> QED
        BY <1>1, <3>1
    <2> QED
      BY <2>2, <2>3
  <1> HIDE DEF T
  <1>4. m - 1 \in T
    BY <1>2, <1>3, SetInduction
  <1>5. m - 1 + 1 = m
    OBVIOUS
  <1> QED
    BY <1>4, <1>5 DEF T

LEMMA FlattenIs ==
    ASSUME NEW q \in Seq(ByteStrings), NEW f, Joins(f, q)
    PROVE  FlattenSeq(q) = IF Len(q) = 0 THEN <<>> ELSE f[Len(q)]
  <1>1. CASE Len(q) = 0
    <2>1. q = <<>>
      BY <1>1
    <2> QED
      BY <1>1, <2>1 DEF FlattenSeq
  <1>2. CASE Len(q) # 0
    <2> DEFINE h == CHOOSE h : Joins(h, q)
    <2>1. Joins(h, q)
      OBVIOUS
    <2>2. FlattenSeq(q) = h[Len(q)]
      BY <1>2 DEF FlattenSeq, Joins
    <2> HIDE DEF h
    <2>3. Len(q) \in Nat /\ Len(q) \in 1 .. Len(q)
      BY <1>2
    <2>4. h[Len(q)] = f[Len(q)]
      BY <2>1, <2>3, JoinsAgree
    <2> QED
      BY <1>2, <2>2, <2>4
  <1> QED
    BY <1>1, <1>2

(* A concatenation of byte strings is one, and appending a string to the list
   appends its bytes. *)
LEMMA FlattenAppend ==
    ASSUME NEW q \in Seq(ByteStrings), NEW b \in ByteStrings
    PROVE  /\ FlattenSeq(q) \in ByteStrings
           /\ FlattenSeq(Append(q, b)) = FlattenSeq(q) \o b
  <1> DEFINE r == Append(q, b)
  <1>1. /\ r \in Seq(ByteStrings) /\ Len(r) = Len(q) + 1 /\ Len(q) \in Nat
        /\ r[Len(r)] = b /\ \A i \in 1 .. Len(q) : q[i] = r[i]
    OBVIOUS
  <1>2. PICK f \in [1 .. Len(q) -> ByteStrings] : Joins(f, q)
    BY JoinsExists
  <1>3. PICK g : Joins(g, r)
    BY <1>1, JoinsExists
  <1> HIDE DEF r
  <1>4. FlattenSeq(q) = IF Len(q) = 0 THEN <<>> ELSE f[Len(q)]
    BY <1>2, FlattenIs
  <1>5. FlattenSeq(r) = g[Len(r)]
    BY <1>1, <1>3, FlattenIs
  <1>6. FlattenSeq(q) \in ByteStrings
    <2>1. CASE Len(q) = 0
      BY <1>4, <2>1 DEF ByteStrings
    <2>2. CASE Len(q) # 0
      BY <1>1, <1>2, <1>4, <2>2
    <2> QED
      BY <2>1, <2>2
  <1>7. g[Len(r)] = FlattenSeq(q) \o b
    <2>1. Len(r) \in 1 .. Len(r)
      BY <1>1
    <2>2. g[Len(r)] = IF Len(r) = 1 THEN b ELSE g[Len(r) - 1] \o b
      BY <1>1, <1>3, <2>1, JoinsAt
    <2>3. CASE Len(q) = 0
      BY <1>1, <1>4, <2>2, <2>3 DEF ByteStrings
    <2>4. CASE Len(q) # 0
      <3>1. Len(r) - 1 = Len(q) /\ Len(r) # 1 /\ Len(q) \in 1 .. Len(q) /\ Len(r) \in Nat
            /\ Len(q) <= Len(r)
        BY <1>1, <2>4
      <3>2. f[Len(q)] = g[Len(q)]
        BY <1>1, <1>2, <1>3, <3>1, JoinsAgree
      <3> QED
        BY <1>4, <2>2, <2>4, <3>1, <3>2
    <2> QED
      BY <2>3, <2>4
  <1> QED
    BY <1>5, <1>6, <1>7 DEF r

LEMMA ConcatBytes ==
    ASSUME NEW a \in ByteStrings, NEW b \in ByteStrings
    PROVE  a \o b \in ByteStrings
  BY DEF ByteStrings

LEMMA ConcatAssociates ==
    ASSUME NEW a \in ByteStrings, NEW b \in ByteStrings, NEW c \in ByteStrings
    PROVE  (a \o b) \o c = a \o (b \o c)
  BY DEF ByteStrings

(* The concatenation of two lists. *)
LEMMA FlattenConcat ==
    ASSUME NEW p \in Seq(ByteStrings), NEW q \in Seq(ByteStrings)
    PROVE  FlattenSeq(p \o q) = FlattenSeq(p) \o FlattenSeq(q)
  <1> DEFINE T == {n \in Nat : \A r \in Seq(ByteStrings) :
                     Len(r) = n => FlattenSeq(p \o r) = FlattenSeq(p) \o FlattenSeq(r)}
  <1>1. 0 \in T
    <2> SUFFICES ASSUME NEW r \in Seq(ByteStrings), Len(r) = 0
                 PROVE  FlattenSeq(p \o r) = FlattenSeq(p) \o FlattenSeq(r)
      OBVIOUS
    <2>1. r = <<>> /\ p \o r = p
      OBVIOUS
    <2>2. FlattenSeq(r) = <<>>
      BY <2>1 DEF FlattenSeq
    <2>3. FlattenSeq(p) \in ByteStrings
      BY FlattenAppend DEF ByteStrings
    <2>4. FlattenSeq(p) \o <<>> = FlattenSeq(p)
      BY <2>3 DEF ByteStrings
    <2> QED
      BY <2>1, <2>2, <2>4
  <1>2. ASSUME NEW n \in Nat, n \in T PROVE n + 1 \in T
    <2> SUFFICES ASSUME NEW r \in Seq(ByteStrings), Len(r) = n + 1
                 PROVE  FlattenSeq(p \o r) = FlattenSeq(p) \o FlattenSeq(r)
      OBVIOUS
    <2> DEFINE s == SubSeq(r, 1, n)
               b == r[n + 1]
    <2>1. s \in Seq(ByteStrings) /\ Len(s) = n /\ b \in ByteStrings
      OBVIOUS
    <2>2. r = Append(s, b)
      OBVIOUS
    <2> HIDE DEF s, b
    <2>3. p \o r = Append(p \o s, b) /\ p \o s \in Seq(ByteStrings)
      <3>1. p \o s \in Seq(ByteStrings) /\ <<b>> \in Seq(ByteStrings)
        BY <2>1
      <3>2. r = s \o <<b>> /\ Append(p \o s, b) = (p \o s) \o <<b>>
        BY <2>1, <2>2, <3>1, AppendIsConcat
      <3>3. (p \o s) \o <<b>> = p \o (s \o <<b>>)
        <4>1. s \in Seq(ByteStrings) /\ <<b>> \in Seq(ByteStrings)
          BY <2>1, <3>1
        <4>2. ASSUME NEW x \in Seq(ByteStrings), NEW y \in Seq(ByteStrings), NEW z \in Seq(ByteStrings)
              PROVE  (x \o y) \o z = x \o (y \o z)
          OBVIOUS
        <4> QED
          BY <4>1, <4>2, Zenon
      <3> QED
        BY <3>1, <3>2, <3>3
    <2>4. FlattenSeq(p \o s) = FlattenSeq(p) \o FlattenSeq(s)
      BY <1>2, <2>1
    <2>5. FlattenSeq(p) \in ByteStrings /\ FlattenSeq(s) \in ByteStrings
      BY <2>1, FlattenAppend
    <2>6. FlattenSeq(p \o r) = (FlattenSeq(p) \o FlattenSeq(s)) \o b
      BY <2>1, <2>3, <2>4, FlattenAppend
    <2>7. FlattenSeq(r) = FlattenSeq(s) \o b
      BY <2>1, <2>2, FlattenAppend
    <2>8. (FlattenSeq(p) \o FlattenSeq(s)) \o b = FlattenSeq(p) \o (FlattenSeq(s) \o b)
      BY <2>1, <2>5, ConcatAssociates, Zenon
    <2> QED
      BY <2>6, <2>7, <2>8, Zenon
  <1> HIDE DEF T
  <1>3. Len(q) \in T
    BY <1>1, <1>2, SetInduction
  <1> QED
    BY <1>3 DEF T

-------------------------------------------------------------------------------
(* Encodings of one part *)

LEMMA PowerIs == Power[0] = 1 /\ Power[1] = Base /\ Power[2] = Base * Base
  <1> DEFINE Eq(f) == f = [w \in 0 .. 2 |-> IF w = 0 THEN 1 ELSE Base * f[w - 1]]
             table == [w \in 0 .. 2 |-> IF w = 0 THEN 1 ELSE IF w = 1 THEN Base ELSE Base * Base]
  <1>1. Base \in Nat
    BY ByteAssumption DEF Base
  <1>2. ASSUME NEW w \in 0 .. 2 PROVE table[w] = IF w = 0 THEN 1 ELSE Base * table[w - 1]
    BY <1>1
  <1>3. Eq(table)
    BY <1>2
  <1>4. Eq(Power)
    BY <1>3 DEF Power, MaxWidth
  <1>5. ASSUME NEW w \in 0 .. 2 PROVE Power[w] = IF w = 0 THEN 1 ELSE Base * Power[w - 1]
    BY <1>4
  <1>6. Power[0] = 1
    BY <1>5
  <1>7. Power[1] = Base * 1
    BY <1>5, <1>6
  <1>8. Power[2] = Base * Power[1]
    BY <1>5
  <1> QED
    BY <1>1, <1>6, <1>7, <1>8

(* A number of two digits is Base times the first, and the second. *)
LEMMA TwoDigits ==
    ASSUME NEW n \in 0 .. Base * Base - 1
    PROVE  \E q \in Byte, r \in Byte : n = Base * q + r /\ n \div Base = q /\ n % Base = r
  <1>1. Base \in Nat /\ Base > 1 /\ Byte = 0 .. Base - 1
    BY ByteAssumption DEF Base, Byte
  <1>2. PICK b \in Nat : b = Base /\ b > 1
    BY <1>1
  <1>3. n \div b \in 0 .. b - 1 /\ n % b \in 0 .. b - 1
    BY <1>2
  <1>4. n = b * (n \div b) + (n % b)
    BY <1>2
  <1> QED
    BY <1>1, <1>2, <1>3, <1>4

LEMMA IntBytes ==
    ASSUME NEW w \in {1, 2}, NEW n \in 0 .. Power[w] - 1
    PROVE  to_be_bytes(n, w) \in ByteStrings /\ Len(to_be_bytes(n, w)) = w
  <1>1. Base \in Nat /\ Base > 1 /\ Byte = 0 .. Base - 1
    BY ByteAssumption DEF Base, Byte
  <1>2. ASSUME NEW i \in 1 .. w PROVE (n \div Power[w - i]) % Base \in Byte
    <2>1. Power[w - i] \in Nat /\ Power[w - i] > 0 /\ n \in Nat
      BY <1>1, PowerIs
    <2>2. n \div Power[w - i] \in Int
      BY <2>1
    <2> QED
      BY <1>1, <2>2
  <1>3. to_be_bytes(n, w) \in [1 .. w -> Byte]
    BY <1>2 DEF to_be_bytes
  <1> QED
    BY <1>3 DEF ByteStrings

(* Big-endian digits keep the order of numbers. *)
LEMMA IntBelow ==
    ASSUME NEW w \in {1, 2}, NEW m \in 0 .. Power[w] - 1, NEW n \in 0 .. Power[w] - 1, m < n
    PROVE  Below(to_be_bytes(m, w), to_be_bytes(n, w))
  <1> DEFINE x == to_be_bytes(m, w)
             y == to_be_bytes(n, w)
  <1>1. Base \in Nat /\ Base > 1 /\ Byte = 0 .. Base - 1
    BY ByteAssumption DEF Base, Byte
  <1>2. x \in ByteStrings /\ Len(x) = w /\ y \in ByteStrings /\ Len(y) = w
    BY IntBytes
  <1>3. \A i \in 1 .. w : x[i] = (m \div Power[w - i]) % Base /\ y[i] = (n \div Power[w - i]) % Base
    BY DEF to_be_bytes
  <1>4. CASE w = 1
    <2>1. m \in 0 .. Base - 1 /\ n \in 0 .. Base - 1
      BY <1>4, PowerIs
    <2>2. x[1] = m /\ y[1] = n
      BY <1>1, <1>3, <1>4, <2>1, PowerIs
    <2>3. BelowAt(1, x, y)
      BY <1>2, <1>4, <2>2 DEF BelowAt
    <2> QED
      BY <1>2, <1>4, <2>3 DEF Below
  <1>5. CASE w = 2
    <2>1. PICK p \in Byte, q \in Byte : m = Base * p + q /\ m \div Base = p /\ m % Base = q
      BY <1>5, PowerIs, TwoDigits
    <2>2. PICK r \in Byte, s \in Byte : n = Base * r + s /\ n \div Base = r /\ n % Base = s
      BY <1>5, PowerIs, TwoDigits
    <2>3. x[1] = p /\ y[1] = r
      <3>1. x[1] = (m \div Base) % Base /\ y[1] = (n \div Base) % Base
        BY <1>3, <1>5, PowerIs
      <3>2. p % Base = p /\ r % Base = r
        BY <1>1
      <3> QED
        BY <2>1, <2>2, <3>1, <3>2
    <2>4. x[2] = q /\ y[2] = s
      <3>1. x[2] = (m \div 1) % Base /\ y[2] = (n \div 1) % Base
        BY <1>3, <1>5, PowerIs
      <3>2. m \div 1 = m /\ n \div 1 = n
        OBVIOUS
      <3> QED
        BY <2>1, <2>2, <3>1, <3>2
    <2>5. p < r \/ (p = r /\ q < s)
      <3>1. ASSUME r + 1 <= p PROVE FALSE
        <4>1. Base * (r + 1) <= Base * p
          BY <1>1, <3>1
        <4>2. Base * (r + 1) = Base * r + Base
          BY <1>1
        <4> QED
          BY <1>1, <2>1, <2>2, <4>1, <4>2
      <3>2. ASSUME p = r PROVE q < s
        <4>1. Base * p \in Int /\ Base * p = Base * r
          BY <1>1, <3>2
        <4> QED
          BY <1>1, <2>1, <2>2, <4>1
      <3>3. p < r \/ p = r \/ r + 1 <= p
        BY <1>1
      <3> QED
        BY <3>1, <3>2, <3>3
    <2>6. CASE p < r
      <3>1. BelowAt(1, x, y)
        BY <1>2, <1>5, <2>3, <2>6 DEF BelowAt
      <3> QED
        BY <1>2, <1>5, <3>1 DEF Below
    <2>7. CASE p = r /\ q < s
      <3>1. BelowAt(2, x, y)
        BY <1>2, <1>5, <2>3, <2>4, <2>7 DEF BelowAt
      <3> QED
        BY <1>2, <1>5, <3>1 DEF Below
    <2> QED
      BY <2>5, <2>6, <2>7
  <1> QED
    BY <1>4, <1>5

LEMMA SplitSeq ==
    ASSUME NEW X, NEW q \in Seq(X), NEW n \in 0 .. Len(q)
    PROVE  q = SubSeq(q, 1, n) \o SubSeq(q, n + 1, Len(q))
  <1>1. 1 \in 1 .. Len(q) + 1 /\ n \in 1 - 1 .. Len(q) /\ Len(q) \in n .. Len(q)
    OBVIOUS
  <1>2. SubSeq(q, 1, n) \o SubSeq(q, n + 1, Len(q)) = SubSeq(q, 1, Len(q))
    BY <1>1, ConcatAdjacentSubSeq, Zenon
  <1>3. SubSeq(q, 1, Len(q)) = q
    OBVIOUS
  <1> QED
    BY <1>2, <1>3

LEMMA SameStart ==
    ASSUME NEW X, NEW p \in Seq(X), NEW q \in Seq(X), NEW n \in 0 .. Len(p), n <= Len(q),
           \A i \in 1 .. n : p[i] = q[i]
    PROVE  SubSeq(p, 1, n) = SubSeq(q, 1, n)
  <1>1. /\ SubSeq(p, 1, n) \in Seq(X) /\ Len(SubSeq(p, 1, n)) = n
        /\ \A i \in 1 .. n : SubSeq(p, 1, n)[i] = p[i]
    OBVIOUS
  <1>2. /\ SubSeq(q, 1, n) \in Seq(X) /\ Len(SubSeq(q, 1, n)) = n
        /\ \A i \in 1 .. n : SubSeq(q, 1, n)[i] = q[i]
    OBVIOUS
  <1> QED
    BY <1>1, <1>2

(* A concatenation, cut before and behind one of its strings. *)
LEMMA FlattenAt ==
    ASSUME NEW q \in Seq(ByteStrings), NEW i \in 1 .. Len(q)
    PROVE  /\ FlattenSeq(SubSeq(q, 1, i - 1)) \in ByteStrings
           /\ \E w \in ByteStrings : FlattenSeq(q) = FlattenSeq(SubSeq(q, 1, i - 1)) \o (q[i] \o w)
  <1> DEFINE a == SubSeq(q, 1, i - 1)
             b == Append(a, q[i])
             c == SubSeq(q, i + 1, Len(q))
  <1>1. a \in Seq(ByteStrings) /\ b \in Seq(ByteStrings) /\ c \in Seq(ByteStrings) /\ q[i] \in ByteStrings
    OBVIOUS
  <1>2. q = b \o c
    <2>1. b = SubSeq(q, 1, i)
      OBVIOUS
    <2>2. q = SubSeq(q, 1, i) \o c
      BY SplitSeq
    <2> QED
      BY <2>1, <2>2
  <1> HIDE DEF a
  <1>3. FlattenSeq(q) = FlattenSeq(b) \o FlattenSeq(c)
    <2> HIDE DEF b, c
    <2> QED
      BY <1>1, <1>2, FlattenConcat
  <1>4. FlattenSeq(b) = FlattenSeq(a) \o q[i]
    BY <1>1, FlattenAppend
  <1> HIDE DEF b, c
  <1>5. FlattenSeq(a) \in ByteStrings /\ FlattenSeq(c) \in ByteStrings
    BY <1>1, FlattenAppend
  <1>6. FlattenSeq(q) = FlattenSeq(a) \o (q[i] \o FlattenSeq(c))
    <2>1. (FlattenSeq(a) \o q[i]) \o FlattenSeq(c) = FlattenSeq(a) \o (q[i] \o FlattenSeq(c))
      BY <1>1, <1>5, ConcatAssociates, Zenon
    <2> QED
      BY <1>3, <1>4, <2>1, Zenon
  <1> QED
    BY <1>5, <1>6 DEF a

(* Escaping a byte. *)
Escaped(b) == IF b = 0 THEN <<0, MaxByte>> ELSE <<b>>
EscapedSeq(s) == [i \in DOMAIN s |-> Escaped(s[i])]

LEMMA EscapedIs ==
    ASSUME NEW s \in ByteStrings
    PROVE  /\ EscapedSeq(s) \in Seq(ByteStrings) /\ Len(EscapedSeq(s)) = Len(s)
           /\ \A i \in 1 .. Len(s) : EscapedSeq(s)[i] = Escaped(s[i])
           /\ encode_unsized_key_bytes(s) = FlattenSeq(EscapedSeq(s)) \o <<0, 0>>
  <1>1. DOMAIN s = 1 .. Len(s) /\ Len(s) \in Nat /\ \A i \in 1 .. Len(s) : s[i] \in Byte
    BY DEF ByteStrings
  <1>2. 0 \in Byte /\ MaxByte \in Byte
    BY ByteAssumption DEF Byte
  <1>3. \A b \in Byte : Escaped(b) \in ByteStrings
    BY <1>2 DEF Escaped, ByteStrings
  <1>4. EscapedSeq(s) = [i \in 1 .. Len(s) |-> Escaped(s[i])]
    BY <1>1 DEF EscapedSeq
  <1>5. EscapedSeq(s) \in [1 .. Len(s) -> ByteStrings]
    BY <1>1, <1>3, <1>4
  <1>6. EscapedSeq(s) \in Seq(ByteStrings) /\ Len(EscapedSeq(s)) = Len(s)
    BY <1>1, <1>5
  <1>7. encode_unsized_key_bytes(s) = FlattenSeq(EscapedSeq(s)) \o <<0, 0>>
    BY DEF encode_unsized_key_bytes, EscapedSeq, Escaped
  <1> QED
    BY <1>4, <1>6, <1>7

LEMMA EscapedBelow ==
    ASSUME NEW a \in Byte, NEW b \in Byte
    PROVE  /\ <<0, 0>> \in ByteStrings /\ Escaped(a) \in ByteStrings
           /\ Below(<<0, 0>>, Escaped(a))
           /\ a < b => Below(Escaped(a), Escaped(b))
  <1>1. 0 \in Byte /\ MaxByte \in Byte /\ 0 < MaxByte /\ a \in Nat /\ b \in Nat
    BY ByteAssumption DEF Byte
  <1>2. <<0, 0>> \in ByteStrings /\ Escaped(a) \in ByteStrings
    BY <1>1 DEF ByteStrings, Escaped
  <1>3. CASE a = 0
    <2>1. BelowAt(2, <<0, 0>>, Escaped(a))
      BY <1>1, <1>3 DEF BelowAt, Escaped
    <2>2. a < b => BelowAt(1, Escaped(a), Escaped(b))
      BY <1>1, <1>3 DEF BelowAt, Escaped
    <2> QED
      BY <1>2, <2>1, <2>2 DEF Below, BelowAt
  <1>4. CASE a # 0
    <2>1. BelowAt(1, <<0, 0>>, Escaped(a))
      BY <1>1, <1>4 DEF BelowAt, Escaped
    <2>2. a < b => BelowAt(1, Escaped(a), Escaped(b))
      BY <1>1, <1>4 DEF BelowAt, Escaped
    <2> QED
      BY <1>2, <2>1, <2>2 DEF Below, BelowAt
  <1> QED
    BY <1>3, <1>4

(* Escaped and terminated byte strings keep the order of byte strings, and none
   starts with another. *)
LEMMA UnsizedBelow ==
    ASSUME NEW s \in ByteStrings, NEW t \in ByteStrings, ByteLess(s, t)
    PROVE  Below(encode_unsized_key_bytes(s), encode_unsized_key_bytes(t))
  <1> DEFINE p == EscapedSeq(s)
             q == EscapedSeq(t)
             z == <<0, 0>>
  <1>1. /\ p \in Seq(ByteStrings) /\ Len(p) = Len(s)
        /\ \A i \in 1 .. Len(s) : p[i] = Escaped(s[i])
        /\ encode_unsized_key_bytes(s) = FlattenSeq(p) \o z
    BY EscapedIs
  <1>2. /\ q \in Seq(ByteStrings) /\ Len(q) = Len(t)
        /\ \A i \in 1 .. Len(t) : q[i] = Escaped(t[i])
        /\ encode_unsized_key_bytes(t) = FlattenSeq(q) \o z
    BY EscapedIs
  <1>3. /\ Len(s) \in Nat /\ Len(t) \in Nat
        /\ (\A i \in 1 .. Len(s) : s[i] \in Byte) /\ (\A i \in 1 .. Len(t) : t[i] \in Byte)
        /\ z \in ByteStrings /\ <<>> \in ByteStrings
    BY ByteAssumption DEF ByteStrings, Byte
  <1> HIDE DEF p, q, z
  <1>4. FlattenSeq(p) \in ByteStrings /\ FlattenSeq(q) \in ByteStrings
    BY <1>1, <1>2, <1>3, FlattenAppend
  <1>5. ASSUME NEW i \in 1 .. Len(s), i <= Len(t), s[i] < t[i], \A j \in 1 .. i - 1 : s[j] = t[j]
        PROVE  Below(FlattenSeq(p) \o z, FlattenSeq(q) \o z)
    <2> DEFINE a == FlattenSeq(SubSeq(p, 1, i - 1))
    <2>1. SubSeq(p, 1, i - 1) = SubSeq(q, 1, i - 1)
      <3>1. i - 1 \in 0 .. Len(p) /\ i - 1 <= Len(q)
        BY <1>1, <1>2, <1>3, <1>5
      <3>2. ASSUME NEW j \in 1 .. i - 1 PROVE p[j] = q[j]
        <4>1. j \in 1 .. Len(s) /\ j \in 1 .. Len(t) /\ s[j] = t[j]
          BY <1>3, <1>5
        <4> QED
          BY <1>1, <1>2, <4>1
      <3> QED
        BY <1>1, <1>2, <3>1, <3>2, SameStart
    <2>2. i \in 1 .. Len(p) /\ i \in 1 .. Len(q) /\ i \in 1 .. Len(t)
      BY <1>1, <1>2, <1>3, <1>5
    <2>3. PICK u \in ByteStrings : FlattenSeq(p) = FlattenSeq(SubSeq(p, 1, i - 1)) \o (p[i] \o u)
      BY <1>1, <2>2, FlattenAt, Zenon
    <2>4. PICK v \in ByteStrings : FlattenSeq(q) = FlattenSeq(SubSeq(q, 1, i - 1)) \o (q[i] \o v)
      BY <1>2, <2>2, FlattenAt, Zenon
    <2>5. a \in ByteStrings /\ p[i] \in ByteStrings /\ q[i] \in ByteStrings
      <3>1. a \in ByteStrings
        BY <1>1, <2>2, FlattenAt, Zenon
      <3> QED
        BY <1>1, <1>2, <2>2, <3>1
    <2>6. Below(p[i], q[i])
      BY <1>1, <1>2, <1>3, <1>5, <2>2, EscapedBelow
    <2> HIDE DEF a
    <2>7. Below(a \o (p[i] \o u), a \o (q[i] \o v))
      BY <2>5, <2>6, BelowInside
    <2>8. Below(FlattenSeq(p), FlattenSeq(q))
      BY <2>1, <2>3, <2>4, <2>7 DEF a
    <2> QED
      BY <1>3, <1>4, <2>8, BelowBoth
  <1>6. ASSUME Len(s) < Len(t), \A i \in 1 .. Len(s) : s[i] = t[i]
        PROVE  Below(FlattenSeq(p) \o z, FlattenSeq(q) \o z)
    <2> DEFINE i == Len(s) + 1
    <2>1. SubSeq(q, 1, i - 1) = p
      <3>1. ASSUME NEW j \in 1 .. Len(p) PROVE p[j] = q[j]
        <4>1. j \in 1 .. Len(s) /\ j \in 1 .. Len(t) /\ s[j] = t[j]
          BY <1>1, <1>3, <1>6
        <4> QED
          BY <1>1, <1>2, <4>1
      <3>2. Len(p) \in 0 .. Len(p) /\ Len(p) <= Len(q)
        BY <1>1, <1>2, <1>3, <1>6
      <3>3. SubSeq(p, 1, Len(p)) = SubSeq(q, 1, Len(p))
        BY <1>1, <1>2, <3>1, <3>2, SameStart
      <3>4. SubSeq(p, 1, Len(p)) = p /\ i - 1 = Len(p)
        BY <1>1, <1>3
      <3> QED
        BY <3>3, <3>4
    <2>2. i \in 1 .. Len(q) /\ i \in 1 .. Len(t)
      BY <1>2, <1>3, <1>6
    <2>3. PICK v \in ByteStrings : FlattenSeq(q) = FlattenSeq(p) \o (q[i] \o v)
      <3> HIDE DEF i
      <3> QED
        BY <1>2, <2>1, <2>2, FlattenAt, Zenon
    <2>4. FlattenSeq(p) \in ByteStrings /\ q[i] \in ByteStrings
      <3>1. FlattenSeq(p) \in ByteStrings
        BY <1>1, <1>3, FlattenAppend, Zenon
      <3> QED
        BY <1>2, <2>2, <3>1
    <2>5. Below(z, q[i])
      BY <1>2, <1>3, <2>2, EscapedBelow DEF z
    <2>6. Below(FlattenSeq(p) \o (z \o <<>>), FlattenSeq(p) \o (q[i] \o v))
      BY <1>3, <2>4, <2>5, BelowInside
    <2>7. z \o <<>> = z
      BY DEF z
    <2>8. PICK x \in ByteStrings : x = FlattenSeq(p) \o z
      BY <1>3, <2>4, ConcatBytes
    <2>9. Below(x, FlattenSeq(q))
      BY <2>3, <2>6, <2>7, <2>8
    <2>10. Below(x \o <<>>, FlattenSeq(q) \o z)
      BY <1>3, <1>4, <2>9, BelowBoth
    <2>11. x \o <<>> = x
      BY DEF ByteStrings
    <2> QED
      BY <2>8, <2>10, <2>11
  <1>7. Below(FlattenSeq(p) \o z, FlattenSeq(q) \o z)
    BY <1>5, <1>6, ByteLessIs
  <1> QED
    BY <1>1, <1>2, <1>7

(* v comes before w, in the bytes and, text and enums of mixed signs aside, as
   values. *)
PartBefore(t, v, w) ==
    /\ Below(EncodePart(t, v), EncodePart(t, w))
    /\ t \notin Unordered => PartLess(t, v, w) /\ ~PartLess(t, w, v)

LEMMA UnsizedBytes ==
    ASSUME NEW s \in ByteStrings
    PROVE  encode_unsized_key_bytes(s) \in ByteStrings /\ encode_unsized_key_bytes(s) # <<>>
  <1>1. <<0, 0>> \in ByteStrings
    BY ByteAssumption DEF ByteStrings, Byte
  <1>2. FlattenSeq(EscapedSeq(s)) \in ByteStrings
    BY <1>1, EscapedIs, FlattenAppend
  <1>3. PICK f \in Seq(Byte) : f = FlattenSeq(EscapedSeq(s))
    BY <1>2 DEF ByteStrings
  <1>4. f \o <<0, 0>> \in Seq(Byte) /\ Len(f \o <<0, 0>>) = Len(f) + 2 /\ Len(f) \in Nat
    BY <1>1 DEF ByteStrings
  <1>5. f \o <<0, 0>> # <<>>
    BY <1>4
  <1>6. encode_unsized_key_bytes(s) = f \o <<0, 0>>
    BY <1>3, EscapedIs
  <1> QED
    BY <1>4, <1>5, <1>6 DEF ByteStrings

(* The values of the integer types, as the numbers whose digits are written. *)
LEMMA UnsignedPart ==
    ASSUME NEW t \in {"u8", "u16"}
    PROVE  /\ Width[t] \in {1, 2} /\ Values(t) = 0 .. Power[Width[t]] - 1
           /\ \A v : EncodePart(t, v) = to_be_bytes(v, Width[t])
           /\ \A v, w : PartLess(t, v, w) <=> v < w
  <1>1. Width[t] \in {1, 2}
    BY DEF Width
  <1>2. Values(t) = 0 .. Power[Width[t]] - 1
    BY DEF Values
  <1>3. \A v : EncodePart(t, v) = to_be_bytes(v, Width[t])
    BY DEF EncodePart
  <1>4. \A v, w : PartLess(t, v, w) <=> v < w
    BY DEF PartLess
  <1> QED
    BY <1>1, <1>2, <1>3, <1>4

LEMMA SignedPart ==
    ASSUME NEW t \in {"i8", "i16"}
    PROVE  /\ Width[t] \in {1, 2}
           /\ \A v \in Values(t) :
                 /\ v \in Int
                 /\ v + Power[Width[t]] \div 2 \in 0 .. Power[Width[t]] - 1
                 /\ EncodePart(t, v) = to_be_bytes(v + Power[Width[t]] \div 2, Width[t])
           /\ \A v, w : PartLess(t, v, w) <=> v < w
           /\ Power[Width[t]] \div 2 \in Int
  <1>1. Width[t] \in {1, 2}
    BY DEF Width
  <1>2. \A v, w : PartLess(t, v, w) <=> v < w
    BY DEF PartLess
  <1>3. PICK n \in Nat : n = Power[Width[t]] /\ n > 0
    <2>1. Base \in Nat /\ Base > 0 /\ Base * Base \in Nat /\ Base * Base > 0
      BY ByteAssumption DEF Base
    <2> QED
      BY <1>1, <2>1, PowerIs
  <1>4. Values(t) = -(n \div 2) .. (n \div 2) - 1
    BY <1>3 DEF Values
  <1>5. ASSUME NEW v \in Values(t)
        PROVE  v \in Int /\ v + n \div 2 \in 0 .. n - 1 /\ (v + n \div 2) % n = v + n \div 2
    <2>1. PICK h \in Nat : h = n \div 2 /\ 2 * h <= n
      BY <1>3
    <2>2. v \in Int /\ -h <= v /\ v <= h - 1
      BY <1>4, <2>1
    <2>3. v + h \in 0 .. n - 1
      BY <1>3, <2>1, <2>2
    <2>4. (v + h) % n = v + h
      BY <1>3, <2>3
    <2> QED
      BY <2>1, <2>2, <2>3, <2>4
  <1>6. \A v : EncodePart(t, v) = to_be_bytes((v + n \div 2) % n, Width[t])
    BY <1>3 DEF EncodePart, flip_sign
  <1> QED
    BY <1>1, <1>2, <1>3, <1>5, <1>6

(* The byte that is written for a variant. *)
EnumCode(t, v) == Discriminant[t][v] % Power[1]

(* Half of the bytes stand for the discriminants below 0: one byte per
   discriminant, which have the order of the discriminants where all of them
   are of one sign. *)
LEMMA EnumNumbers ==
    ASSUME NEW d \in -(Base \div 2) .. (Base \div 2) - 1,
           NEW e \in -(Base \div 2) .. (Base \div 2) - 1
    PROVE  /\ d % Base \in 0 .. Base - 1
           /\ d % Base = e % Base => d = e
           /\ (d < e /\ (0 <= d \/ e < 0)) => d % Base < e % Base
  <1>1. PICK h \in Nat : h = Base \div 2 /\ Base = 2 * h /\ h > 0 /\ Base \in Nat
    BY ByteAssumption DEF Base
  <1>2. d \in Int /\ -h <= d /\ d < h /\ e \in Int /\ -h <= e /\ e < h
    BY <1>1
  <1>3. PICK b \in Nat : b = Base /\ b = 2 * h
    BY <1>1
  <1>4. ASSUME NEW x \in Int, -h <= x, x < h
        PROVE  x % b = IF x < 0 THEN x + b ELSE x
    BY <1>1, <1>3, <1>4
  <1> QED
    BY <1>1, <1>2, <1>3, <1>4

LEMMA EnumPart ==
    ASSUME NEW t \in {"enum", "signed_enum"}
    PROVE  /\ \A v \in Values(t) :
                 /\ Discriminant[t][v] \in Int /\ EnumCode(t, v) \in 0 .. Power[1] - 1
                 /\ EncodePart(t, v) = to_be_bytes(EnumCode(t, v), 1)
           /\ \A v, w : PartLess(t, v, w) <=> Discriminant[t][v] < Discriminant[t][w]
           /\ \A v, w \in Values(t) : v # w => EnumCode(t, v) # EnumCode(t, w)
           /\ \A v, w \in Values(t) :
                 t \notin Unordered /\ Discriminant[t][v] < Discriminant[t][w] =>
                 EnumCode(t, v) < EnumCode(t, w)
  <1>1. Values(t) = DOMAIN Discriminant[t]
    BY DEF Values
  <1>2. \A v, w \in Values(t) : Discriminant[t][v] = Discriminant[t][w] => v = w
    <2>1. IsInjective(Discriminant[t])
      BY EnumAssumption
    <2> QED
      BY <1>1, <2>1 DEF IsInjective
  <1>3. Power[1] = Base /\ Base \in Nat /\ Base > 1
    <2>1. Base \in Nat /\ Base > 1
      BY ByteAssumption DEF Base
    <2> QED
      BY <2>1, PowerIs
  <1>4. \A v, w : PartLess(t, v, w) <=> Discriminant[t][v] < Discriminant[t][w]
    BY DEF PartLess
  <1>5. CASE t = "enum"
    <2>1. \A v \in Values(t) : Discriminant[t][v] \in 0 .. Base - 1
      BY <1>1, <1>5, EnumAssumption, ByteAssumption DEF Byte, Base
    <2>2. \A n \in 0 .. Base - 1 : n % Base = n
      BY <1>3
    <2>3. \A v \in Values(t) : EnumCode(t, v) = Discriminant[t][v]
      BY <1>3, <2>1, <2>2 DEF EnumCode
    <2>4. \A v \in Values(t) : EncodePart(t, v) = to_be_bytes(EnumCode(t, v), 1)
      BY <1>5, <2>3 DEF EncodePart
    <2> QED
      BY <1>2, <1>3, <1>4, <2>1, <2>3, <2>4
  <1>6. CASE t = "signed_enum"
    <2>1. \A v \in Values(t) : Discriminant[t][v] \in -(Base \div 2) .. (Base \div 2) - 1
      BY <1>1, <1>6, EnumAssumption
    <2>2. \A v \in Values(t) : EnumCode(t, v) = Discriminant[t][v] % Base
      BY <1>3 DEF EnumCode
    <2>3. \A v \in Values(t) : EncodePart(t, v) = to_be_bytes(EnumCode(t, v), 1)
      BY <1>6 DEF EncodePart, EnumCode
    <2>4. \A v \in Values(t) : EnumCode(t, v) \in 0 .. Base - 1
      BY <2>1, <2>2, EnumNumbers
    <2>5. \A v, w \in Values(t) : v # w => EnumCode(t, v) # EnumCode(t, w)
      BY <1>2, <2>1, <2>2, EnumNumbers
    <2>6. \A v \in Values(t) : Discriminant[t][v] \in Int
      BY <1>3, <2>1
    <2>7. ASSUME t \notin Unordered, NEW v \in Values(t), NEW w \in Values(t)
          PROVE  0 <= Discriminant[t][v] \/ Discriminant[t][w] < 0
      <3>1. ~MixedSigns
        BY <1>6, <2>7 DEF Unordered
      <3>2. ~(Discriminant[t][w] < 0 /\ 0 <= Discriminant[t][v]) /\ ~(Discriminant[t][v] < 0 /\ 0 <= Discriminant[t][w])
        BY <1>1, <1>6, <3>1 DEF MixedSigns
      <3> QED
        BY <2>6, <3>2
    <2>8. ASSUME t \notin Unordered, NEW v \in Values(t), NEW w \in Values(t),
                 Discriminant[t][v] < Discriminant[t][w]
          PROVE  EnumCode(t, v) < EnumCode(t, w)
      BY <2>1, <2>2, <2>7, <2>8, EnumNumbers
    <2> QED
      BY <1>3, <1>4, <2>3, <2>4, <2>5, <2>6, <2>8
  <1> QED
    BY <1>5, <1>6

LEMMA ArrayIs ==
    ASSUME NEW v \in [1 .. 2 -> Byte]
    PROVE  v \in Seq(Byte) /\ Len(v) = 2 /\ v # <<>>
  <1>1. PICK n \in Nat : n = 2 /\ v \in [1 .. n -> Byte]
    OBVIOUS
  <1>2. v \in Seq(Byte) /\ Len(v) = n
    <2>1. \A x, k : k \in Nat /\ x \in [1 .. k -> Byte] => x \in Seq(Byte) /\ Len(x) = k
      OBVIOUS
    <2> QED
      BY <1>1, <2>1
  <1>3. v # <<>>
    BY <1>1, <1>2
  <1> QED
    BY <1>1, <1>2, <1>3

(* Every value is written as some bytes. *)
LEMMA PartBytes ==
    ASSUME NEW t \in PartTypes, NEW v \in Values(t)
    PROVE  EncodePart(t, v) \in ByteStrings /\ EncodePart(t, v) # <<>>
  <1>1. \A w \in {1, 2} : \A n \in 0 .. Power[w] - 1 :
            to_be_bytes(n, w) \in ByteStrings /\ to_be_bytes(n, w) # <<>>
    <2>1. \A s : Len(s) \in {1, 2} => s # <<>>
      OBVIOUS
    <2> QED
      BY <2>1, IntBytes
  <1>2. CASE t \in {"u8", "u16"}
    BY <1>1, <1>2, UnsignedPart
  <1>3. CASE t \in {"i8", "i16"}
    BY <1>1, <1>3, SignedPart
  <1>4. CASE t \in {"enum", "signed_enum"}
    BY <1>1, <1>4, EnumPart
  <1>5. CASE t = "bool"
    <2>1. 0 \in Byte /\ 1 \in Byte
      BY ByteAssumption DEF Byte
    <2>2. EncodePart(t, v) = <<1>> \/ EncodePart(t, v) = <<0>>
      BY <1>5 DEF EncodePart
    <2>3. <<1>> \in Seq(Byte) /\ <<0>> \in Seq(Byte) /\ <<1>> # <<>> /\ <<0>> # <<>>
      BY <2>1
    <2> QED
      BY <2>2, <2>3 DEF ByteStrings
  <1>6. CASE t = "array"
    <2>1. v \in [1 .. 2 -> Byte] /\ EncodePart(t, v) = v
      BY <1>6 DEF Values, EncodePart
    <2>2. v \in Seq(Byte) /\ v # <<>>
      BY <2>1, ArrayIs
    <2> QED
      BY <2>1, <2>2 DEF ByteStrings
  <1>7. CASE t = "str"
    <2>1. v \in Seq(Byte \ {MaxByte}) /\ EncodePart(t, v) = Append(v, MaxByte)
      BY <1>7 DEF Values, EncodePart
    <2>2. MaxByte \in Byte
      BY ByteAssumption DEF Byte
    <2>3. v \in Seq(Byte)
      BY <2>1
    <2> QED
      BY <2>1, <2>2, <2>3 DEF ByteStrings
  <1>8. CASE t = "bytes"
    <2>1. v \in ByteStrings /\ EncodePart(t, v) = encode_unsized_key_bytes(v)
      BY <1>8 DEF Values, EncodePart, ByteStrings
    <2> QED
      BY <2>1, UnsizedBytes
  <1> QED
    BY <1>2, <1>3, <1>4, <1>5, <1>6, <1>7, <1>8 DEF PartTypes

(* Text of which neither starts with the other once it is terminated. *)
LEMMA TextBelow ==
    ASSUME NEW v \in Seq(Byte \ {MaxByte}), NEW w \in Seq(Byte \ {MaxByte}), v # w
    PROVE  Below(Append(v, MaxByte), Append(w, MaxByte)) \/ Below(Append(w, MaxByte), Append(v, MaxByte))
  <1> DEFINE x == Append(v, MaxByte)
             y == Append(w, MaxByte)
  <1>1. /\ v \in ByteStrings /\ w \in ByteStrings /\ Len(v) \in Nat /\ Len(w) \in Nat
        /\ MaxByte \in Int
        /\ \A i \in 1 .. Len(v) : v[i] \in Int /\ v[i] < MaxByte
        /\ \A i \in 1 .. Len(w) : w[i] \in Int /\ w[i] < MaxByte
    BY ByteAssumption DEF ByteStrings, Byte
  <1>2. /\ Len(x) = Len(v) + 1 /\ x[Len(v) + 1] = MaxByte /\ \A i \in 1 .. Len(v) : x[i] = v[i]
        /\ Len(y) = Len(w) + 1 /\ y[Len(w) + 1] = MaxByte /\ \A i \in 1 .. Len(w) : y[i] = w[i]
    BY <1>1 DEF ByteStrings
  <1> HIDE DEF x, y
  <1>3. CASE IsPrefix(v, w)
    <2>1. Len(v) < Len(w) /\ \A i \in 1 .. Len(v) : v[i] = w[i]
      BY <1>1, <1>3, PrefixIs DEF IsStrictPrefix
    <2>2. BelowAt(Len(v) + 1, y, x)
      BY <1>1, <1>2, <2>1 DEF BelowAt
    <2> QED
      BY <2>2 DEF Below, BelowAt, x, y
  <1>4. CASE IsPrefix(w, v)
    <2>1. Len(w) < Len(v) /\ \A i \in 1 .. Len(w) : v[i] = w[i]
      BY <1>1, <1>4, PrefixIs DEF IsStrictPrefix
    <2>2. BelowAt(Len(w) + 1, x, y)
      BY <1>1, <1>2, <2>1 DEF BelowAt
    <2> QED
      BY <2>2 DEF Below, BelowAt, x, y
  <1>5. CASE ~IsPrefix(v, w) /\ ~IsPrefix(w, v)
    <2>1. PICK i \in 1 .. Len(v) : i <= Len(w) /\ v[i] # w[i] /\ \A j \in 1 .. i - 1 : v[j] = w[j]
      BY <1>1, <1>5, FirstDifference
    <2>2. /\ i \in 1 .. Len(x) /\ i \in 1 .. Len(y) /\ x[i] = v[i] /\ y[i] = w[i]
          /\ \A j \in 1 .. i - 1 : x[j] = y[j]
      BY <1>1, <1>2, <2>1
    <2>3. v[i] < w[i] \/ w[i] < v[i]
      BY <1>1, <2>1
    <2>4. BelowAt(i, x, y) \/ BelowAt(i, y, x)
      BY <2>2, <2>3 DEF BelowAt
    <2> QED
      BY <2>4 DEF Below, BelowAt, x, y
  <1> QED
    BY <1>3, <1>4, <1>5

LEMMA ArrayBelow ==
    ASSUME NEW v \in ByteStrings, NEW w \in ByteStrings, Len(v) = Len(w), ByteLess(v, w)
    PROVE  Below(v, w)
  <1>1. Len(v) \in Nat
    BY DEF ByteStrings
  <1>2. PICK i \in 1 .. Len(v) : i <= Len(w) /\ v[i] < w[i] /\ \A j \in 1 .. i - 1 : v[j] = w[j]
    BY <1>1, ByteLessIs
  <1>3. BelowAt(i, v, w)
    BY <1>1, <1>2 DEF BelowAt
  <1> QED
    BY <1>3 DEF Below

(* Nothing is before itself. *)
LEMMA PartIrreflexive ==
    ASSUME NEW t \in PartTypes, NEW v \in Values(t)
    PROVE  ~PartLess(t, v, v)
  <1>1. CASE t \in {"u8", "u16"}
    <2>1. Power[Width[t]] - 1 \in Int
      BY <1>1, UnsignedPart, PowerIs, ByteAssumption DEF Base
    <2>2. v \in Int
      BY <1>1, <2>1, UnsignedPart
    <2> QED
      BY <1>1, <2>2, UnsignedPart
  <1>2. CASE t \in {"i8", "i16"}
    <2>1. v \in Int
      BY <1>2, SignedPart
    <2> QED
      BY <1>2, <2>1, SignedPart
  <1>3. CASE t \in {"enum", "signed_enum"}
    <2>1. Discriminant[t][v] \in Int
      BY <1>3, EnumPart
    <2>2. ~(Discriminant[t][v] < Discriminant[t][v])
      BY <2>1
    <2> QED
      BY <1>3, <2>2, EnumPart
  <1>4. CASE t = "bool"
    BY <1>4 DEF PartLess
  <1>5. CASE t \in {"array", "str", "bytes"}
    <2>1. v \in ByteStrings
      <3>1. CASE t = "array"
        BY <3>1, ArrayIs DEF Values, ByteStrings
      <3>2. CASE t = "str"
        BY <3>2 DEF Values, ByteStrings
      <3>3. CASE t = "bytes"
        BY <3>3 DEF Values, ByteStrings
      <3> QED
        BY <1>5, <3>1, <3>2, <3>3
    <2>2. PartLess(t, v, v) <=> ByteLess(v, v)
      BY <1>5 DEF PartLess
    <2> QED
      BY <2>1, <2>2, ByteLessIrreflexive
  <1> QED
    BY <1>1, <1>2, <1>3, <1>4, <1>5 DEF PartTypes

(* Two values of a type differ in a byte of their encodings, which, text and
   enums of mixed signs aside, tells which comes first. *)
LEMMA PartApart ==
    ASSUME NEW t \in PartTypes, NEW v \in Values(t), NEW w \in Values(t), v # w
    PROVE  PartBefore(t, v, w) \/ PartBefore(t, w, v)
  <1>1. ASSUME t \in {"u8", "u16"}, NEW x \in Values(t), NEW y \in Values(t), x < y
        PROVE  Below(EncodePart(t, x), EncodePart(t, y))
    <2>1. /\ Width[t] \in {1, 2} /\ x \in 0 .. Power[Width[t]] - 1 /\ y \in 0 .. Power[Width[t]] - 1
          /\ EncodePart(t, x) = to_be_bytes(x, Width[t])
          /\ EncodePart(t, y) = to_be_bytes(y, Width[t])
      BY <1>1, UnsignedPart
    <2> QED
      BY <1>1, <2>1, IntBelow
  <1>2. CASE t \in {"u8", "u16"}
    <2>1. Power[Width[t]] - 1 \in Int
      BY <1>2, UnsignedPart, PowerIs, ByteAssumption DEF Base
    <2>2. v \in Int /\ w \in Int
      BY <1>2, <2>1, UnsignedPart
    <2>3. (v < w /\ ~(w < v)) \/ (w < v /\ ~(v < w))
      BY <2>2
    <2> QED
      BY <1>1, <1>2, <2>3, UnsignedPart DEF PartBefore
  <1>3. ASSUME t \in {"i8", "i16"}, NEW x \in Values(t), NEW y \in Values(t), x < y
        PROVE  Below(EncodePart(t, x), EncodePart(t, y))
    <2> DEFINE h == Power[Width[t]] \div 2
    <2>1. /\ Width[t] \in {1, 2} /\ x \in Int /\ y \in Int /\ h \in Int
          /\ x + h \in 0 .. Power[Width[t]] - 1 /\ y + h \in 0 .. Power[Width[t]] - 1
          /\ EncodePart(t, x) = to_be_bytes(x + h, Width[t])
          /\ EncodePart(t, y) = to_be_bytes(y + h, Width[t])
      BY <1>3, SignedPart
    <2> HIDE DEF h
    <2>2. x + h < y + h
      BY <1>3, <2>1
    <2> QED
      BY <2>1, <2>2, IntBelow
  <1>4. CASE t \in {"i8", "i16"}
    <2>1. v \in Int /\ w \in Int
      BY <1>4, SignedPart
    <2>2. (v < w /\ ~(w < v)) \/ (w < v /\ ~(v < w))
      BY <2>1
    <2> QED
      BY <1>3, <1>4, <2>2, SignedPart DEF PartBefore
  <1>5. CASE t \in {"enum", "signed_enum"}
    <2>1. ASSUME NEW x \in Values(t), NEW y \in Values(t), EnumCode(t, x) < EnumCode(t, y)
          PROVE  PartBefore(t, x, y)
      <3>1. Below(EncodePart(t, x), EncodePart(t, y))
        BY <1>5, <2>1, EnumPart, IntBelow
      <3>2. /\ Discriminant[t][x] \in Int /\ Discriminant[t][y] \in Int
            /\ EnumCode(t, x) \in Int /\ EnumCode(t, y) \in Int
        <4>1. Power[1] - 1 \in Int
          BY PowerIs, ByteAssumption DEF Base
        <4> QED
          BY <1>5, <4>1, EnumPart
      <3>3. Discriminant[t][x] # Discriminant[t][y]
        BY <2>1, <3>2 DEF EnumCode
      <3>4. t \notin Unordered => ~(Discriminant[t][y] < Discriminant[t][x])
        BY <1>5, <2>1, <3>2, EnumPart
      <3>5. t \notin Unordered => PartLess(t, x, y) /\ ~PartLess(t, y, x)
        BY <1>5, <3>2, <3>3, <3>4, EnumPart
      <3> QED
        BY <3>1, <3>5 DEF PartBefore
    <2>2. EnumCode(t, v) < EnumCode(t, w) \/ EnumCode(t, w) < EnumCode(t, v)
      <3>1. Power[1] - 1 \in Int
        BY PowerIs, ByteAssumption DEF Base
      <3>2. EnumCode(t, v) \in Int /\ EnumCode(t, w) \in Int /\ EnumCode(t, v) # EnumCode(t, w)
        BY <1>5, <3>1, EnumPart
      <3> QED
        BY <3>2
    <2> QED
      BY <2>1, <2>2
  <1>6. CASE t = "bool"
    <2>1. BelowAt(1, <<0>>, <<1>>)
      BY DEF BelowAt
    <2>2. Below(<<0>>, <<1>>)
      BY <2>1 DEF Below, BelowAt
    <2>3. PartBefore("bool", FALSE, TRUE)
      BY <2>2 DEF PartBefore, EncodePart, PartLess
    <2>4. v \in BOOLEAN /\ w \in BOOLEAN
      BY <1>6 DEF Values
    <2>5. (v = FALSE /\ w = TRUE) \/ (v = TRUE /\ w = FALSE)
      BY <2>4
    <2> QED
      BY <1>6, <2>3, <2>5
  <1>7. CASE t \in {"array", "bytes"}
    <2>1. ASSUME NEW x \in Values(t), NEW y \in Values(t)
          PROVE  /\ x \in ByteStrings /\ y \in ByteStrings
                 /\ PartLess(t, x, y) <=> ByteLess(x, y)
                 /\ ByteLess(x, y) => Below(EncodePart(t, x), EncodePart(t, y))
      <3>1. PartLess(t, x, y) <=> ByteLess(x, y)
        BY <1>7 DEF PartLess
      <3>2. CASE t = "array"
        <4>1. /\ x \in ByteStrings /\ y \in ByteStrings /\ Len(x) = 2 /\ Len(y) = 2
              /\ EncodePart(t, x) = x /\ EncodePart(t, y) = y
          BY <3>2, ArrayIs DEF Values, ByteStrings, EncodePart
        <4> QED
          BY <3>1, <4>1, ArrayBelow
      <3>3. CASE t = "bytes"
        <4>1. /\ x \in ByteStrings /\ y \in ByteStrings
              /\ EncodePart(t, x) = encode_unsized_key_bytes(x)
              /\ EncodePart(t, y) = encode_unsized_key_bytes(y)
          BY <3>3 DEF Values, ByteStrings, EncodePart
        <4> QED
          BY <3>1, <4>1, UnsizedBelow
      <3> QED
        BY <1>7, <3>2, <3>3
    <2>2. v \in ByteStrings /\ w \in ByteStrings
      BY <2>1
    <2>3. (ByteLess(v, w) /\ ~ByteLess(w, v)) \/ (ByteLess(w, v) /\ ~ByteLess(v, w))
      BY <2>2, ByteLessTotal, ByteLessTransitive, ByteLessIrreflexive
    <2> QED
      BY <2>1, <2>3 DEF PartBefore
  <1>8. CASE t = "str"
    <2>1. /\ v \in Seq(Byte \ {MaxByte}) /\ EncodePart(t, v) = Append(v, MaxByte)
          /\ w \in Seq(Byte \ {MaxByte}) /\ EncodePart(t, w) = Append(w, MaxByte)
      BY <1>8 DEF Values, EncodePart
    <2>2. t \in Unordered
      BY <1>8 DEF Unordered
    <2> QED
      BY <2>1, <2>2, TextBelow DEF PartBefore
  <1> QED
    BY <1>2, <1>4, <1>5, <1>6, <1>7, <1>8 DEF PartTypes

-------------------------------------------------------------------------------
(* Keys and prefixes of keys *)

AnyValue == UNION {Values(t) : t \in PartTypes}

(* A key of a type, or a prefix of one. *)
Partial(type, k) ==
    /\ type \in Seq(PartTypes) /\ k \in Seq(AnyValue) /\ Len(k) <= Len(type)
    /\ \A i \in 1 .. Len(k) : k[i] \in Values(type[i])

Parts(type, k) == [i \in DOMAIN k |-> EncodePart(type[i], k[i])]

LEMMA KeyIs ==
    ASSUME NEW type \in Seq(PartTypes), NEW k, IsKey(type, k)
    PROVE  Partial(type, k) /\ Len(k) = Len(type)
  <1>1. k = [i \in 1 .. Len(type) |-> k[i]] /\ \A i \in 1 .. Len(type) : k[i] \in Values(type[i])
    BY DEF IsKey
  <1>2. \A i \in 1 .. Len(type) : type[i] \in PartTypes
    OBVIOUS
  <1>3. \A i \in 1 .. Len(type) : k[i] \in AnyValue
    BY <1>1, <1>2 DEF AnyValue
  <1>4. Len(type) \in Nat /\ k \in [1 .. Len(type) -> AnyValue]
    BY <1>1, <1>3
  <1>5. k \in Seq(AnyValue) /\ Len(k) = Len(type)
    BY <1>4
  <1> QED
    BY <1>1, <1>5 DEF Partial

(* A key is written as the encodings of its parts. *)
LEMMA PartsIs ==
    ASSUME NEW type, NEW k, Partial(type, k)
    PROVE  /\ Parts(type, k) \in Seq(ByteStrings) /\ Len(Parts(type, k)) = Len(k)
           /\ \A i \in 1 .. Len(k) : Parts(type, k)[i] = EncodePart(type[i], k[i])
           /\ encode(type, k) = FlattenSeq(Parts(type, k))
           /\ encode(type, k) \in ByteStrings
  <1>1. /\ type \in Seq(PartTypes) /\ Len(k) \in Nat /\ Len(type) \in Nat /\ DOMAIN k = 1 .. Len(k)
        /\ \A i \in 1 .. Len(k) : i \in 1 .. Len(type) /\ k[i] \in Values(type[i])
    BY DEF Partial
  <1>2. \A i \in 1 .. Len(k) : type[i] \in PartTypes
    BY <1>1
  <1>3. \A i \in 1 .. Len(k) : EncodePart(type[i], k[i]) \in ByteStrings
    BY <1>1, <1>2, PartBytes
  <1>4. Parts(type, k) = [i \in 1 .. Len(k) |-> EncodePart(type[i], k[i])]
    BY <1>1 DEF Parts
  <1>5. Parts(type, k) \in [1 .. Len(k) -> ByteStrings]
    BY <1>3, <1>4
  <1>6. Parts(type, k) \in Seq(ByteStrings) /\ Len(Parts(type, k)) = Len(k)
    BY <1>1, <1>5
  <1>7. encode(type, k) = FlattenSeq(Parts(type, k))
    BY DEF encode, Parts
  <1>8. FlattenSeq(Parts(type, k)) \in ByteStrings
    <2>1. \A q \in Seq(ByteStrings) : FlattenSeq(q) \in ByteStrings
      <3>1. <<>> \in ByteStrings
        BY DEF ByteStrings
      <3> QED
        BY <3>1, FlattenAppend
    <2> QED
      BY <1>6, <2>1
  <1> QED
    BY <1>4, <1>6, <1>7, <1>8

(* The start of a key. *)
LEMMA PartialStart ==
    ASSUME NEW type, NEW k, Partial(type, k), NEW n \in 0 .. Len(k)
    PROVE  /\ Partial(type, SubSeq(k, 1, n)) /\ Len(SubSeq(k, 1, n)) = n
           /\ \A i \in 1 .. n : SubSeq(k, 1, n)[i] = k[i]
           /\ Parts(type, SubSeq(k, 1, n)) = SubSeq(Parts(type, k), 1, n)
  <1> DEFINE a == SubSeq(k, 1, n)
  <1>1. /\ a \in Seq(AnyValue) /\ Len(a) = n /\ n \in Nat /\ Len(k) \in Nat
        /\ \A i \in 1 .. n : a[i] = k[i]
    BY DEF Partial
  <1> HIDE DEF a
  <1>2. Partial(type, a)
    BY <1>1 DEF Partial
  <1>3. /\ Parts(type, a) \in Seq(ByteStrings) /\ Len(Parts(type, a)) = n
        /\ \A i \in 1 .. n : Parts(type, a)[i] = EncodePart(type[i], a[i])
    BY <1>1, <1>2, PartsIs
  <1>4. /\ Parts(type, k) \in Seq(ByteStrings) /\ Len(Parts(type, k)) = Len(k)
        /\ \A i \in 1 .. Len(k) : Parts(type, k)[i] = EncodePart(type[i], k[i])
    BY PartsIs
  <1> DEFINE q == SubSeq(Parts(type, k), 1, n)
  <1>5. q \in Seq(ByteStrings) /\ Len(q) = n /\ \A i \in 1 .. n : q[i] = Parts(type, k)[i]
    BY <1>1, <1>4
  <1> HIDE DEF q
  <1>6. \A i \in 1 .. n : q[i] = Parts(type, a)[i]
    BY <1>1, <1>3, <1>4, <1>5
  <1>7. Parts(type, a) = q
    BY <1>3, <1>5, <1>6
  <1> QED
    BY <1>1, <1>2, <1>7 DEF a, q

(* An encoding, cut before and behind one of the parts: a, the part and w. *)
CutAt(type, k, i, a, w) ==
    /\ a = encode(type, SubSeq(k, 1, i - 1))
    /\ encode(type, k) = a \o (EncodePart(type[i], k[i]) \o w)

LEMMA EncodeAt ==
    ASSUME NEW type, NEW k, Partial(type, k), NEW i \in 1 .. Len(k)
    PROVE  \E a \in ByteStrings, w \in ByteStrings : CutAt(type, k, i, a, w)
  <1>1. Len(k) \in Nat /\ i - 1 \in 0 .. Len(k)
    BY DEF Partial
  <1>2. /\ Partial(type, SubSeq(k, 1, i - 1))
        /\ Parts(type, SubSeq(k, 1, i - 1)) = SubSeq(Parts(type, k), 1, i - 1)
    BY <1>1, PartialStart
  <1>3. /\ encode(type, SubSeq(k, 1, i - 1)) = FlattenSeq(SubSeq(Parts(type, k), 1, i - 1))
        /\ encode(type, SubSeq(k, 1, i - 1)) \in ByteStrings
    BY <1>2, PartsIs
  <1>4. /\ Parts(type, k) \in Seq(ByteStrings) /\ i \in 1 .. Len(Parts(type, k))
        /\ Parts(type, k)[i] = EncodePart(type[i], k[i])
        /\ encode(type, k) = FlattenSeq(Parts(type, k))
    BY PartsIs
  <1>5. PICK w \in ByteStrings :
            FlattenSeq(Parts(type, k)) = FlattenSeq(SubSeq(Parts(type, k), 1, i - 1)) \o (Parts(type, k)[i] \o w)
    BY <1>4, FlattenAt
  <1> QED
    BY <1>3, <1>4, <1>5 DEF CutAt

Extends(t, s) == \E w \in ByteStrings : t = s \o w

(* The encoding of a prefix is where the encoding of the key starts. *)
LEMMA EncodeStart ==
    ASSUME NEW type, NEW k, Partial(type, k), NEW n \in 0 .. Len(k), NEW p, p = SubSeq(k, 1, n)
    PROVE  Extends(encode(type, k), encode(type, p))
  <1> DEFINE q == Parts(type, k)
             a == SubSeq(q, 1, n)
             c == SubSeq(q, n + 1, Len(q))
  <1>1. /\ q \in Seq(ByteStrings) /\ Len(q) = Len(k) /\ encode(type, k) = FlattenSeq(q)
        /\ encode(type, p) = FlattenSeq(a)
    <2>1. Partial(type, p) /\ Parts(type, p) = a
      BY PartialStart
    <2>2. encode(type, p) = FlattenSeq(a)
      BY <2>1, PartsIs
    <2> QED
      BY <2>2, PartsIs
  <1> HIDE DEF q
  <1>2. a \in Seq(ByteStrings) /\ c \in Seq(ByteStrings)
    BY <1>1
  <1>3. q = a \o c
    BY <1>1, SplitSeq
  <1> HIDE DEF a, c
  <1>4. FlattenSeq(q) = FlattenSeq(a) \o FlattenSeq(c)
    BY <1>2, <1>3, FlattenConcat
  <1>5. FlattenSeq(c) \in ByteStrings
    <2>1. <<>> \in ByteStrings
      BY DEF ByteStrings
    <2> QED
      BY <1>2, <2>1, FlattenAppend
  <1> QED
    BY <1>1, <1>4, <1>5 DEF a, Extends

(* Two keys of which neither starts with the other differ first in some part. *)
LEMMA FirstPart ==
    ASSUME NEW type, NEW k, NEW l, Partial(type, k), Partial(type, l)
    PROVE  \/ IsPrefix(l, k)
           \/ Len(k) < Len(l)
           \/ \E j \in 1 .. Len(k) : /\ j <= Len(l) /\ k[j] # l[j]
                                     /\ \A i \in 1 .. j - 1 : k[i] = l[i]
  <1> DEFINE D == {j \in 1 .. Len(l) : k[j] # l[j]}
  <1> SUFFICES ASSUME Len(l) <= Len(k), ~IsPrefix(l, k)
               PROVE  \E j \in 1 .. Len(k) : /\ j <= Len(l) /\ k[j] # l[j]
                                            /\ \A i \in 1 .. j - 1 : k[i] = l[i]
    BY DEF Partial
  <1>1. k \in Seq(AnyValue) /\ l \in Seq(AnyValue) /\ Len(k) \in Nat /\ Len(l) \in Nat
    BY DEF Partial
  <1>2. D # {}
    <2> SUFFICES ASSUME \A i \in 1 .. Len(l) : l[i] = k[i] PROVE FALSE
      OBVIOUS
    <2>1. SubSeq(l, 1, Len(l)) = SubSeq(k, 1, Len(l))
      BY <1>1, SameStart
    <2> QED
      BY <1>1, <2>1 DEF IsPrefix
  <1>3. D \in SUBSET Nat
    BY <1>1
  <1>4. PICK j \in D : \A i \in D : j <= i
    BY <1>2, <1>3, LeastNumber
  <1>5. \A i \in 1 .. j - 1 : i \in 1 .. Len(l) /\ i \notin D
    BY <1>1, <1>4
  <1> QED
    BY <1>1, <1>4, <1>5

(* Two keys with the same text and the same variants of enums of mixed signs. *)
SameUnordered(type, k, l) == \A i \in 1 .. Len(type) : type[i] \in Unordered => k[i] = l[i]

(* k comes before l, in the bytes and, where the parts whose order is not kept
   are the same, as keys. *)
KeyBefore(type, k, l) ==
    /\ Below(encode(type, k), encode(type, l))
    /\ SameUnordered(type, k, l) => KeyLess(type, k, l) /\ ~KeyLess(type, l, k)

(* The first part in which two keys differ tells which comes first. *)
LEMMA PartDecides ==
    ASSUME NEW type, NEW k, NEW l, Partial(type, k), Partial(type, l), NEW j \in 1 .. Len(k), j <= Len(l),
           \A i \in 1 .. j - 1 : k[i] = l[i], PartBefore(type[j], k[j], l[j]), k[j] # l[j]
    PROVE  KeyBefore(type, k, l)
  <1>1. /\ Len(k) \in Nat /\ Len(l) \in Nat /\ Len(type) \in Nat
        /\ j \in 1 .. Len(l) /\ j \in 1 .. Len(type) /\ j - 1 \in 0 .. Len(k)
        /\ k \in Seq(AnyValue) /\ l \in Seq(AnyValue)
        /\ DOMAIN k = 1 .. Len(k) /\ DOMAIN l = 1 .. Len(l)
    BY DEF Partial
  <1>2. Below(encode(type, k), encode(type, l))
    <2> DEFINE x == EncodePart(type[j], k[j])
               y == EncodePart(type[j], l[j])
    <2>1. SubSeq(k, 1, j - 1) = SubSeq(l, 1, j - 1)
      BY <1>1, SameStart
    <2>2. PICK a \in ByteStrings, u \in ByteStrings : CutAt(type, k, j, a, u)
      BY EncodeAt
    <2>3. PICK b \in ByteStrings, v \in ByteStrings : CutAt(type, l, j, b, v)
      BY <1>1, EncodeAt
    <2>4. type[j] \in PartTypes /\ k[j] \in Values(type[j]) /\ l[j] \in Values(type[j])
      BY <1>1 DEF Partial
    <2>5. x \in ByteStrings /\ y \in ByteStrings
      BY <2>4, PartBytes
    <2>6. Below(x, y)
      BY DEF PartBefore
    <2>7. a = b /\ encode(type, k) = a \o (x \o u) /\ encode(type, l) = a \o (y \o v)
      BY <2>1, <2>2, <2>3 DEF CutAt
    <2> HIDE DEF x, y
    <2> QED
      BY <2>2, <2>3, <2>7, <2>5, <2>6, BelowInside
  <1>3. ASSUME SameUnordered(type, k, l) PROVE KeyLess(type, k, l) /\ ~KeyLess(type, l, k)
    <2>1. type[j] \notin Unordered
      BY <1>1, <1>3 DEF SameUnordered
    <2>2. PartLess(type[j], k[j], l[j]) /\ ~PartLess(type[j], l[j], k[j])
      BY <2>1 DEF PartBefore
    <2>3. KeyLess(type, k, l)
      BY <1>1, <2>2 DEF KeyLess
    <2>4. ASSUME NEW i \in 1 .. Len(l), PartLess(type[i], l[i], k[i]),
                 \A h \in 1 .. i - 1 : l[h] = k[h]
          PROVE  FALSE
      <3>1. CASE i < j
        <4>1. i \in 1 .. j - 1 /\ i \in 1 .. Len(k) /\ i \in 1 .. Len(type) /\ k[i] = l[i]
          BY <1>1, <3>1
        <4>2. type[i] \in PartTypes /\ k[i] \in Values(type[i])
          BY <4>1 DEF Partial
        <4> QED
          BY <2>4, <4>1, <4>2, PartIrreflexive
      <3>2. CASE i = j
        BY <2>2, <2>4, <3>2
      <3>3. CASE j < i
        <4>1. j \in 1 .. i - 1
          BY <1>1, <3>3
        <4> QED
          BY <2>4, <4>1
      <3> QED
        BY <1>1, <3>1, <3>2, <3>3
    <2> QED
      BY <1>1, <2>3, <2>4 DEF KeyLess
  <1> QED
    BY <1>2, <1>3 DEF KeyBefore

(* Where a key lies, seen from a key or a prefix that is not longer: it starts
   with it, or a part decides. *)
LEMMA Position ==
    ASSUME NEW type, NEW k, NEW l, Partial(type, k), Partial(type, l), Len(l) <= Len(k)
    PROVE  IsPrefix(l, k) \/ KeyBefore(type, k, l) \/ KeyBefore(type, l, k)
  <1>1. Len(k) \in Nat /\ Len(l) \in Nat /\ Len(type) \in Nat /\ Len(l) <= Len(type)
    BY DEF Partial
  <1> SUFFICES ASSUME ~IsPrefix(l, k) PROVE KeyBefore(type, k, l) \/ KeyBefore(type, l, k)
    OBVIOUS
  <1>2. PICK j \in 1 .. Len(k) : j <= Len(l) /\ k[j] # l[j] /\ \A i \in 1 .. j - 1 : k[i] = l[i]
    BY <1>1, FirstPart
  <1>3. j \in 1 .. Len(l) /\ j <= Len(k) /\ j \in 1 .. Len(type) /\ \A i \in 1 .. j - 1 : l[i] = k[i]
    BY <1>1, <1>2
  <1>4. type[j] \in PartTypes /\ k[j] \in Values(type[j]) /\ l[j] \in Values(type[j])
    BY <1>2, <1>3 DEF Partial
  <1>5. PartBefore(type[j], k[j], l[j]) \/ PartBefore(type[j], l[j], k[j])
    BY <1>2, <1>4, PartApart
  <1>6. CASE PartBefore(type[j], k[j], l[j])
    BY <1>2, <1>6, PartDecides
  <1>7. CASE PartBefore(type[j], l[j], k[j])
    BY <1>2, <1>3, <1>7, PartDecides
  <1> QED
    BY <1>5, <1>6, <1>7

(* No key is before itself. *)
LEMMA KeyIrreflexive ==
    ASSUME NEW type, NEW k, Partial(type, k)
    PROVE  ~KeyLess(type, k, k)
  <1> SUFFICES ASSUME NEW i \in DOMAIN k, PartLess(type[i], k[i], k[i]) PROVE FALSE
    BY DEF KeyLess
  <1>1. /\ type \in Seq(PartTypes) /\ i \in 1 .. Len(k) /\ Len(k) <= Len(type)
        /\ Len(k) \in Nat /\ Len(type) \in Nat /\ k[i] \in Values(type[i])
    BY DEF Partial
  <1>2. i \in 1 .. Len(type) /\ type[i] \in PartTypes
    BY <1>1
  <1> QED
    BY <1>1, <1>2, PartIrreflexive

(* A key that starts with another of the same type is the other. *)
LEMMA SameKey ==
    ASSUME NEW type \in Seq(PartTypes), NEW k, NEW l, IsKey(type, k), IsKey(type, l), IsPrefix(l, k)
    PROVE  k = l
  <1>1. k \in Seq(AnyValue) /\ l \in Seq(AnyValue) /\ Len(k) = Len(l) /\ Len(k) \in Nat
    BY KeyIs DEF Partial
  <1>2. l = SubSeq(k, 1, Len(k))
    BY <1>1 DEF IsPrefix
  <1> QED
    BY <1>1, <1>2

(* What comes before in a byte of the encodings is not equal, nor a prefix, nor
   behind. *)
LEMMA KeyBeforeExcludes ==
    ASSUME NEW type, NEW k, NEW l, Partial(type, k), Partial(type, l), KeyBefore(type, k, l)
    PROVE  ~KeyBefore(type, l, k) /\ ~IsPrefix(l, k) /\ ~IsPrefix(k, l) /\ k # l
  <1>1. ASSUME NEW a, NEW b, Partial(type, a), Partial(type, b), IsPrefix(a, b)
        PROVE  IsPrefix(encode(type, a), encode(type, b))
    <2>1. /\ a \in Seq(AnyValue) /\ b \in Seq(AnyValue) /\ Len(a) \in Nat /\ Len(b) \in Nat
          /\ Len(a) <= Len(b) /\ SubSeq(b, 1, Len(a)) = a
      <3>1. a \in Seq(AnyValue) /\ b \in Seq(AnyValue)
        BY <1>1 DEF Partial
      <3>2. SubSeq(a, 1, Len(a)) = a
        BY <3>1
      <3> QED
        BY <1>1, <3>1, <3>2 DEF IsPrefix
    <2>2. Extends(encode(type, b), encode(type, a))
      <3>1. Len(a) \in 0 .. Len(b)
        BY <2>1
      <3> QED
        BY <1>1, <2>1, <3>1, EncodeStart
    <2>3. encode(type, a) \in ByteStrings /\ encode(type, b) \in ByteStrings
      BY <1>1, PartsIs
    <2>4. \A s, t, u \in ByteStrings : t = s \o u => IsPrefix(s, t)
      <3> SUFFICES ASSUME NEW s \in ByteStrings, NEW u \in ByteStrings, s \o u \in ByteStrings
                   PROVE  IsPrefix(s, s \o u)
        OBVIOUS
      <3>1. Len(s) <= Len(s \o u) /\ \A i \in 1 .. Len(s) : s[i] = (s \o u)[i]
        BY DEF ByteStrings
      <3> QED
        BY <3>1, PrefixIs
    <2> QED
      BY <2>2, <2>3, <2>4 DEF Extends
  <1>2. encode(type, k) \in ByteStrings /\ encode(type, l) \in ByteStrings
    BY PartsIs
  <1>3. /\ ByteLess(encode(type, k), encode(type, l)) /\ ~ByteLess(encode(type, l), encode(type, k))
        /\ ~IsPrefix(encode(type, k), encode(type, l)) /\ ~IsPrefix(encode(type, l), encode(type, k))
    BY <1>2, BelowOrders DEF KeyBefore
  <1>4. ~KeyBefore(type, l, k)
    BY <1>2, <1>3, BelowOrders DEF KeyBefore
  <1>5. k # l
    BY <1>2, <1>3, ByteLessIrreflexive
  <1> QED
    BY <1>1, <1>3, <1>4, <1>5

(* Encodings of different keys of a type: neither starts with the other, so
   that a key in front of other bytes has one reading. *)
THEOREM EncodingsApart ==
    ASSUME NEW type \in Seq(PartTypes), NEW k, NEW l, IsKey(type, k), IsKey(type, l), k # l
    PROVE  ~IsPrefix(encode(type, k), encode(type, l))
  <1>1. Partial(type, k) /\ Partial(type, l) /\ Len(l) <= Len(k)
    BY KeyIs DEF Partial
  <1>2. encode(type, k) \in ByteStrings /\ encode(type, l) \in ByteStrings
    BY <1>1, PartsIs
  <1>3. KeyBefore(type, k, l) \/ KeyBefore(type, l, k)
    BY <1>1, Position, SameKey
  <1> QED
    BY <1>2, <1>3, BelowOrders DEF KeyBefore

(* Stores order keys as the program does, where encode keeps the order at all
   (key.rs, macros.rs): for every key type, every list of discriminants and all
   values, the order of encoded keys is the order of the keys, if the keys have
   the same text and the same variants of enums of mixed signs. *)
THEOREM EncodingKeepsOrder ==
    ASSUME NEW type \in Seq(PartTypes), NEW k, NEW l, IsKey(type, k), IsKey(type, l),
           SameUnordered(type, k, l)
    PROVE  KeyLess(type, k, l) <=> ByteLess(encode(type, k), encode(type, l))
  <1>1. Partial(type, k) /\ Partial(type, l) /\ Len(l) <= Len(k)
    BY KeyIs DEF Partial
  <1>2. encode(type, k) \in ByteStrings /\ encode(type, l) \in ByteStrings
    BY <1>1, PartsIs
  <1>3. SameUnordered(type, l, k)
    BY DEF SameUnordered
  <1>4. k = l \/ KeyBefore(type, k, l) \/ KeyBefore(type, l, k)
    BY <1>1, Position, SameKey
  <1>5. CASE k = l
    BY <1>1, <1>2, <1>5, KeyIrreflexive, ByteLessIrreflexive
  <1>6. CASE KeyBefore(type, k, l)
    BY <1>2, <1>6, BelowOrders DEF KeyBefore
  <1>7. CASE KeyBefore(type, l, k)
    BY <1>2, <1>3, <1>7, BelowOrders DEF KeyBefore
  <1> QED
    BY <1>4, <1>5, <1>6, <1>7

(* A key that is put behind another is encoded behind it. *)
Joined(u, s, t) ==
    /\ Len(u) = Len(s) + Len(t)
    /\ \A i \in 1 .. Len(s) : u[i] = s[i]
    /\ \A i \in Len(s) + 1 .. Len(u) : u[i] = t[i - Len(s)]

LEMMA ConcatIs ==
    ASSUME NEW X, NEW s \in Seq(X), NEW t \in Seq(X)
    PROVE  s \o t \in Seq(X) /\ Joined(s \o t, s, t)
  BY DEF Joined

LEMMA EncodeConcat ==
    ASSUME NEW T \in Seq(PartTypes), NEW P \in Seq(PartTypes), NEW k, NEW l, IsKey(T, k), IsKey(P, l)
    PROVE  /\ T \o P \in Seq(PartTypes) /\ IsKey(T \o P, k \o l)
           /\ encode(T \o P, k \o l) = encode(T, k) \o encode(P, l)
  <1>1. /\ Partial(T, k) /\ Len(k) = Len(T) /\ k \in Seq(AnyValue) /\ Len(T) \in Nat
        /\ Partial(P, l) /\ Len(l) = Len(P) /\ l \in Seq(AnyValue) /\ Len(P) \in Nat
    BY KeyIs DEF Partial
  <1> DEFINE R == T \o P
             m == k \o l
  <1>2. /\ R \in Seq(PartTypes) /\ Len(R) = Len(T) + Len(P)
        /\ \A i \in 1 .. Len(T) : R[i] = T[i]
        /\ \A i \in Len(T) + 1 .. Len(R) : R[i] = P[i - Len(T)]
    BY <1>1
  <1>3. /\ m \in Seq(AnyValue) /\ Len(m) = Len(R)
        /\ \A i \in 1 .. Len(T) : m[i] = k[i]
        /\ \A i \in Len(T) + 1 .. Len(R) : m[i] = l[i - Len(T)]
    <2>0. m \in Seq(AnyValue) /\ Joined(m, k, l)
      BY <1>1, ConcatIs
    <2> HIDE DEF R, m
    <2>1. /\ m \in Seq(AnyValue) /\ Len(m) = Len(k) + Len(l)
          /\ \A i \in 1 .. Len(k) : m[i] = k[i]
          /\ \A i \in Len(k) + 1 .. Len(m) : m[i] = l[i - Len(k)]
      BY <2>0 DEF Joined
    <2>2. Len(m) = Len(R)
      BY <1>1, <1>2, <2>1
    <2> QED
      BY <1>1, <2>1, <2>2
  <1> HIDE DEF R, m
  <1>4. \A i \in Len(T) + 1 .. Len(R) : i - Len(T) \in 1 .. Len(P)
    BY <1>1, <1>2
  <1>5. \A i \in 1 .. Len(R) : i \in 1 .. Len(T) \/ i \in Len(T) + 1 .. Len(R)
    BY <1>1, <1>2
  <1>6. \A i \in 1 .. Len(R) : m[i] \in Values(R[i])
    BY <1>1, <1>2, <1>3, <1>4, <1>5 DEF Partial
  <1>7. m = [i \in DOMAIN R |-> m[i]]
    <2>1. DOMAIN m = DOMAIN R /\ m = [i \in DOMAIN m |-> m[i]]
      BY <1>2, <1>3
    <2> QED
      BY <2>1
  <1>8. IsKey(R, m)
    BY <1>2, <1>6, <1>7 DEF IsKey
  <1>9. Partial(R, m)
    BY <1>2, <1>8, KeyIs
  <1> DEFINE a == Parts(T, k)
             c == Parts(P, l)
             q == Parts(R, m)
  <1>10. /\ a \in Seq(ByteStrings) /\ Len(a) = Len(T) /\ encode(T, k) = FlattenSeq(a)
         /\ \A i \in 1 .. Len(T) : a[i] = EncodePart(T[i], k[i])
    BY <1>1, PartsIs
  <1>11. /\ c \in Seq(ByteStrings) /\ Len(c) = Len(P) /\ encode(P, l) = FlattenSeq(c)
         /\ \A i \in 1 .. Len(P) : c[i] = EncodePart(P[i], l[i])
    BY <1>1, PartsIs
  <1>12. /\ q \in Seq(ByteStrings) /\ Len(q) = Len(R) /\ encode(R, m) = FlattenSeq(q)
         /\ \A i \in 1 .. Len(R) : q[i] = EncodePart(R[i], m[i])
    BY <1>3, <1>9, PartsIs
  <1> HIDE DEF a, c, q
  <1>13. q = a \o c
    <2> DEFINE r == a \o c
    <2>0. r \in Seq(ByteStrings) /\ Joined(r, a, c)
      BY <1>10, <1>11, ConcatIs
    <2> HIDE DEF r
    <2>1. /\ r \in Seq(ByteStrings) /\ Len(r) = Len(a) + Len(c)
          /\ \A i \in 1 .. Len(a) : r[i] = a[i]
          /\ \A i \in Len(a) + 1 .. Len(r) : r[i] = c[i - Len(a)]
      BY <2>0 DEF Joined
    <2>2. Len(r) = Len(R) /\ Len(a) = Len(T)
      BY <1>1, <1>2, <1>10, <1>11, <2>1
    <2>3. ASSUME NEW i \in 1 .. Len(T) PROVE q[i] = r[i]
      <3>1. i \in 1 .. Len(R) /\ R[i] = T[i] /\ m[i] = k[i]
        BY <1>1, <1>2, <1>3
      <3> QED
        BY <1>10, <1>12, <2>1, <2>2, <3>1
    <2>4. ASSUME NEW i \in Len(T) + 1 .. Len(R) PROVE q[i] = r[i]
      <3> DEFINE j == i - Len(T)
      <3>1. i \in 1 .. Len(R) /\ R[i] = P[j] /\ m[i] = l[j] /\ j \in 1 .. Len(P)
        BY <1>1, <1>2, <1>3, <1>4
      <3>2. r[i] = c[j]
        BY <2>1, <2>2
      <3> HIDE DEF j
      <3> QED
        BY <1>11, <1>12, <3>1, <3>2
    <2>5. \A i \in 1 .. Len(R) : q[i] = r[i]
      BY <1>5, <2>3, <2>4
    <2>6. q = r
      <3> Len(q) = Len(r) /\ \A i \in 1 .. Len(q) : q[i] = r[i]
        BY <1>12, <2>2, <2>5
      <3> q \in Seq(ByteStrings) /\ r \in Seq(ByteStrings)
        BY <1>12, <2>1
      <3> QED
        BY SMTT(30)
    <2> QED
      BY <2>6 DEF r
  <1>14. FlattenSeq(q) = FlattenSeq(a) \o FlattenSeq(c)
    BY <1>10, <1>11, <1>13, FlattenConcat
  <1> QED
    BY <1>2, <1>8, <1>10, <1>11, <1>12, <1>14 DEF R, m

-------------------------------------------------------------------------------
(* Bounds *)

(* The two halves of RangeContains. *)
From(b, s) ==
    /\ b.bound = "Included" => ~ByteLess(s, b.key)
    /\ b.bound = "Excluded" => ByteLess(b.key, s)

Until(b, s) ==
    /\ b.bound = "Included" => ~ByteLess(b.key, s)
    /\ b.bound = "Excluded" => ByteLess(s, b.key)

LEMMA RangeIs ==
    ASSUME NEW lo, NEW hi, NEW s
    PROVE  RangeContains([start |-> lo, end |-> hi], s) <=> From(lo, s) /\ Until(hi, s)
  BY DEF RangeContains, From, Until

(* The bound that ends the group of a prefix has before it what starts with the
   prefix and what is below it. *)
LEMMA UntilPrefixEnd ==
    ASSUME NEW h \in ByteStrings, NEW s \in ByteStrings
    PROVE  Until(prefix_end(h), s) <=> ByteLess(s, h) \/ IsPrefix(h, s)
  <1>1. \A t \in ByteStrings : IsPrefix(h, t) <=> ~ByteLess(t, h) /\ Until(prefix_end(h), t)
    BY PrefixRangeExact, RangeIs DEF From, Included
  <1>2. IsPrefix(h, h)
    BY PrefixIs
  <1>3. ASSUME ByteLess(s, h) PROVE Until(prefix_end(h), s)
    <2>1. prefix_end(h) = Unbounded \/ \E e \in ByteStrings : prefix_end(h) = Excluded(e)
      BY PrefixEndIs
    <2>2. CASE prefix_end(h) = Unbounded
      BY <2>2 DEF Until, Unbounded
    <2>3. CASE \E e \in ByteStrings : prefix_end(h) = Excluded(e)
      <3>1. PICK e \in ByteStrings : prefix_end(h) = Excluded(e)
        BY <2>3
      <3>2. ByteLess(h, e)
        BY <1>1, <1>2, <3>1 DEF Until, Excluded
      <3>3. ByteLess(s, e)
        BY <1>3, <3>2, ByteLessTransitive
      <3> QED
        BY <3>1, <3>3 DEF Until, Excluded
    <2> QED
      BY <2>1, <2>2, <2>3
  <1> QED
    BY <1>1, <1>3

(* As the start of a range it leaves out the group. *)
LEMMA FromPrefixEndNot ==
    ASSUME NEW h \in ByteStrings, NEW s \in ByteStrings, prefix_end(h) # Unbounded,
           ByteLess(s, h) \/ IsPrefix(h, s)
    PROVE  ~From(prefix_end(h), s)
  <1>1. PICK e \in ByteStrings : prefix_end(h) = Excluded(e)
    BY PrefixEndIs
  <1>2. ByteLess(s, e)
    BY <1>1, UntilPrefixEnd DEF Until, Excluded
  <1>3. ~ByteLess(e, s)
    BY <1>2, ByteLessTransitive, ByteLessIrreflexive
  <1> QED
    BY <1>1, <1>3 DEF From, Excluded

(* It takes in all that is above the group and has something behind its key:
   only the bound itself is left out. *)
LEMMA FromPrefixEnd ==
    ASSUME NEW h \in ByteStrings, NEW c \in ByteStrings, NEW x \in ByteStrings, x # <<>>, Below(h, c)
    PROVE  From(prefix_end(h), c \o x)
  <1> DEFINE s == c \o x
  <1>1. s \in ByteStrings /\ Len(s) = Len(c) + Len(x) /\ Len(c) \in Nat /\ Len(x) \in Nat /\ Len(x) # 0
    BY DEF ByteStrings
  <1>2. PICK i \in 1 .. Len(h) : BelowAt(i, h, c)
    BY DEF Below
  <1>3. BelowAt(i, h, s)
    <2>1. \A j \in 1 .. Len(c) : s[j] = c[j]
      BY DEF ByteStrings
    <2> QED
      BY <1>1, <1>2, <2>1 DEF BelowAt
  <1>4. Below(h, s)
    BY <1>3 DEF Below, BelowAt
  <1> HIDE DEF s
  <1>5. ~ByteLess(s, h) /\ ~IsPrefix(h, s)
    BY <1>1, <1>4, BelowOrders
  <1>6. ~Until(prefix_end(h), s)
    BY <1>1, <1>5, UntilPrefixEnd
  <1>7. PICK m \in 1 .. Len(h), e \in ByteStrings :
            /\ prefix_end(h) = Excluded(e)
            /\ Len(e) = m /\ e[m] = h[m] + 1 /\ \A j \in 1 .. m - 1 : e[j] = h[j]
    <2>1. prefix_end(h) # Unbounded
      BY <1>6 DEF Until, Unbounded
    <2> QED
      BY <2>1, PrefixEndIs
  <1>8. ~ByteLess(s, e)
    BY <1>6, <1>7 DEF Until, Excluded
  <1>9. s # e
    <2> SUFFICES ASSUME s = e PROVE FALSE
      OBVIOUS
    <2>1. /\ i \in 1 .. Len(h) /\ i \in 1 .. Len(c) /\ i \in 1 .. m /\ h[i] < e[i]
          /\ i \in Int /\ m \in Int
      BY <1>1, <1>2, <1>3, <1>7 DEF BelowAt
    <2>2. h[i] \in Int
      BY BytesAreNumbers
    <2>3. i = m
      BY <1>7, <2>1, <2>2
    <2> QED
      BY <1>1, <1>7, <2>1, <2>3
  <1>10. ByteLess(e, s)
    BY <1>1, <1>8, <1>9, ByteLessTotal
  <1> QED
    BY <1>7, <1>10 DEF From, Excluded, s

(* The end of the group of what is below some byte string is a bound. *)
LEMMA PrefixEndBounded ==
    ASSUME NEW h \in ByteStrings, NEW c \in ByteStrings, Below(h, c)
    PROVE  prefix_end(h) # Unbounded
  <1>1. ~ByteLess(c, h) /\ ~IsPrefix(h, c)
    BY BelowOrders
  <1>2. ~Until(prefix_end(h), c)
    BY <1>1, UntilPrefixEnd
  <1> QED
    BY <1>2 DEF Until, Unbounded

(* An entry of a key is stored under the encoded key, in a Multi store with its
   encoded primary key behind it: where it lies, seen from another key. *)
LEMMA StoredAt ==
    ASSUME NEW type, NEW k, NEW l, Partial(type, k), Partial(type, l), Len(l) <= Len(k),
           NEW x \in ByteStrings
    PROVE  LET h == encode(type, l)
               s == encode(type, k) \o x
           IN /\ h \in ByteStrings /\ s \in ByteStrings
              /\ KeyBefore(type, k, l) => Below(s, h)
              /\ KeyBefore(type, l, k) => Below(h, s)
              /\ IsPrefix(l, k) => IsPrefix(h, s) /\ ~ByteLess(s, h)
  <1> DEFINE h == encode(type, l)
             c == encode(type, k)
             s == c \o x
  <1>1. h \in ByteStrings /\ c \in ByteStrings
    BY PartsIs
  <1>2. s \in ByteStrings
    BY <1>1, ConcatBytes
  <1>3. <<>> \in ByteStrings /\ h \o <<>> = h
    BY <1>1 DEF ByteStrings
  <1>4. ASSUME KeyBefore(type, k, l) PROVE Below(s, h)
    <2>1. Below(c, h)
      BY <1>4 DEF KeyBefore
    <2> HIDE DEF h, c
    <2>2. Below(c \o x, h \o <<>>)
      BY <1>1, <1>3, <2>1, BelowBoth
    <2> QED
      BY <1>3, <2>2
  <1>5. ASSUME KeyBefore(type, l, k) PROVE Below(h, s)
    <2>1. Below(h, c)
      BY <1>5 DEF KeyBefore
    <2> HIDE DEF h, c
    <2>2. Below(h \o <<>>, c \o x)
      BY <1>1, <1>3, <2>1, BelowBoth
    <2> QED
      BY <1>3, <2>2
  <1>6. ASSUME IsPrefix(l, k) PROVE IsPrefix(h, s) /\ ~ByteLess(s, h)
    <2>1. /\ k \in Seq(AnyValue) /\ l \in Seq(AnyValue) /\ Len(l) \in 0 .. Len(k)
          /\ SubSeq(l, 1, Len(l)) = l
      BY DEF Partial
    <2>2. l = SubSeq(k, 1, Len(l))
      BY <1>6, <2>1 DEF IsPrefix
    <2>3. Extends(encode(type, k), encode(type, l))
      BY <2>1, <2>2, EncodeStart
    <2> HIDE DEF h, c
    <2>4. PICK w \in ByteStrings : c = h \o w
      BY <2>3 DEF Extends, h, c
    <2>5. PICK y \in ByteStrings : s = h \o y
      <3>1. w \o x \in ByteStrings
        BY ConcatBytes
      <3>2. (h \o w) \o x = h \o (w \o x)
        BY <1>1, ConcatAssociates, Zenon
      <3> QED
        BY <2>4, <3>1, <3>2
    <2>6. Len(h) <= Len(s) /\ \A i \in 1 .. Len(h) : h[i] = s[i]
      <3> HIDE DEF s
      <3> QED
        BY <1>1, <2>5 DEF ByteStrings
    <2>7. IsPrefix(h, s)
      BY <1>1, <1>2, <2>6, PrefixIs
    <2>8. h = s \/ ByteLess(h, s)
      BY <2>7 DEF ByteLess, LexLess, IsStrictPrefix
    <2> HIDE DEF s
    <2> QED
      BY <1>1, <1>2, <2>7, <2>8, ByteLessTransitive, ByteLessIrreflexive
  <1> QED
    BY <1>1, <1>2, <1>4, <1>5, <1>6

(* A start bound lets through the entries of the keys behind it and, when it is
   included, of its own. *)
LEMMA StartBound ==
    ASSUME NEW type \in Seq(PartTypes), NEW k, NEW l, IsKey(type, k), IsKey(type, l),
           NEW x \in ByteStrings, NEW multi \in BOOLEAN, multi <=> x # <<>>,
           NEW b \in {Included(l), Excluded(l)},
           b = Excluded(l) /\ multi => prefix_end(encode(type, l)) # Unbounded
    PROVE  From(encode_start_bound(multi, type, b), encode(type, k) \o x)
               <=> (b = Included(l) /\ k = l) \/ KeyBefore(type, l, k)
  <1> DEFINE h == encode(type, l)
             c == encode(type, k)
             s == c \o x
  <1>1. Partial(type, k) /\ Partial(type, l) /\ Len(l) <= Len(k)
    BY KeyIs DEF Partial
  <1>2. /\ h \in ByteStrings /\ s \in ByteStrings
        /\ KeyBefore(type, k, l) => Below(s, h)
        /\ KeyBefore(type, l, k) => Below(h, s)
        /\ IsPrefix(l, k) => IsPrefix(h, s) /\ ~ByteLess(s, h)
    BY <1>1, StoredAt
  <1>3. IsPrefix(l, k) <=> k = l
    <2>1. IsPrefix(l, l)
      BY DEF IsPrefix
    <2> QED
      BY <2>1, SameKey
  <1>4. k = l \/ KeyBefore(type, k, l) \/ KeyBefore(type, l, k)
    BY <1>1, <1>3, Position
  <1>5. KeyBefore(type, k, l) => ~KeyBefore(type, l, k) /\ k # l
    BY <1>1, KeyBeforeExcludes
  <1>6. KeyBefore(type, l, k) => k # l
    BY <1>1, KeyBeforeExcludes
  <1>7. c \in ByteStrings /\ (KeyBefore(type, l, k) => Below(h, c))
    BY <1>1, PartsIs DEF KeyBefore
  <1>8. ~multi => s = c
    BY <1>7 DEF ByteStrings
  <1>9. Included(l) # Excluded(l) /\ Included(l).bound = "Included" /\ Excluded(l).bound = "Excluded"
        /\ Included(l).key = l /\ Excluded(l).key = l
    BY DEF Included, Excluded
  <1>10. CASE b = Included(l)
    <2>1. encode_start_bound(multi, type, b) = Included(h)
      BY <1>9, <1>10 DEF encode_start_bound
    <2> HIDE DEF h, c, s
    <2>2. From(Included(h), s) <=> ~ByteLess(s, h)
      BY DEF From, Included
    <2>3. KeyBefore(type, k, l) => ByteLess(s, h)
      BY <1>2, BelowOrders
    <2>4. KeyBefore(type, l, k) => ~ByteLess(s, h)
      BY <1>2, BelowOrders
    <2>5. From(Included(h), s) <=> k = l \/ KeyBefore(type, l, k)
      BY <1>2, <1>3, <1>4, <1>5, <2>2, <2>3, <2>4
    <2> QED
      BY <1>10, <2>1, <2>5 DEF s, c
  <1>11. CASE b = Excluded(l) /\ ~multi
    <2>1. encode_start_bound(multi, type, b) = Excluded(h)
      BY <1>9, <1>11 DEF encode_start_bound
    <2>2. k = l => s = h
      BY <1>8, <1>11
    <2> HIDE DEF h, c, s
    <2>3. From(Excluded(h), s) <=> ByteLess(h, s)
      BY DEF From, Excluded
    <2>4. KeyBefore(type, k, l) => ~ByteLess(h, s)
      BY <1>2, BelowOrders
    <2>5. KeyBefore(type, l, k) => ByteLess(h, s)
      BY <1>2, BelowOrders
    <2>6. k = l => ~ByteLess(h, s)
      BY <1>2, <2>2, ByteLessIrreflexive
    <2>7. From(Excluded(h), s) <=> KeyBefore(type, l, k)
      BY <1>4, <1>5, <1>6, <2>3, <2>4, <2>5, <2>6
    <2> QED
      BY <1>9, <1>11, <2>1, <2>7 DEF s, c
  <1>12. CASE b = Excluded(l) /\ multi
    <2>1. encode_start_bound(multi, type, b) = prefix_end(h)
      BY <1>9, <1>12 DEF encode_start_bound
    <2>2. prefix_end(h) # Unbounded /\ x # <<>>
      BY <1>12
    <2>3. KeyBefore(type, l, k) => From(prefix_end(h), s)
      <3> HIDE DEF h, c
      <3> QED
        BY <1>2, <1>7, <2>2, FromPrefixEnd
    <2> HIDE DEF h, c, s
    <2>4. KeyBefore(type, k, l) => ~From(prefix_end(h), s)
      BY <1>2, <2>2, BelowOrders, FromPrefixEndNot
    <2>5. k = l => ~From(prefix_end(h), s)
      BY <1>2, <1>3, <2>2, FromPrefixEndNot
    <2>6. From(prefix_end(h), s) <=> KeyBefore(type, l, k)
      BY <1>4, <1>5, <1>6, <2>3, <2>4, <2>5
    <2> QED
      BY <1>9, <1>12, <2>1, <2>6 DEF s, c
  <1> QED
    BY <1>10, <1>11, <1>12

(* An end bound lets through the entries of the keys before it and, when it is
   included, of its own. *)
LEMMA EndBound ==
    ASSUME NEW type \in Seq(PartTypes), NEW k, NEW l, IsKey(type, k), IsKey(type, l),
           NEW x \in ByteStrings, NEW multi \in BOOLEAN, multi <=> x # <<>>,
           NEW b \in {Included(l), Excluded(l)}
    PROVE  Until(encode_end_bound(multi, type, b), encode(type, k) \o x)
               <=> (b = Included(l) /\ k = l) \/ KeyBefore(type, k, l)
  <1> DEFINE h == encode(type, l)
             c == encode(type, k)
             s == c \o x
  <1>1. Partial(type, k) /\ Partial(type, l) /\ Len(l) <= Len(k)
    BY KeyIs DEF Partial
  <1>2. /\ h \in ByteStrings /\ s \in ByteStrings
        /\ KeyBefore(type, k, l) => Below(s, h)
        /\ KeyBefore(type, l, k) => Below(h, s)
        /\ IsPrefix(l, k) => IsPrefix(h, s) /\ ~ByteLess(s, h)
    BY <1>1, StoredAt
  <1>3. IsPrefix(l, k) <=> k = l
    <2>1. IsPrefix(l, l)
      BY DEF IsPrefix
    <2> QED
      BY <2>1, SameKey
  <1>4. k = l \/ KeyBefore(type, k, l) \/ KeyBefore(type, l, k)
    BY <1>1, <1>3, Position
  <1>5. KeyBefore(type, k, l) => ~KeyBefore(type, l, k) /\ k # l
    BY <1>1, KeyBeforeExcludes
  <1>6. KeyBefore(type, l, k) => k # l
    BY <1>1, KeyBeforeExcludes
  <1>7. c \in ByteStrings
    BY <1>1, PartsIs
  <1>8. ~multi => s = c
    BY <1>7 DEF ByteStrings
  <1>9. Included(l) # Excluded(l) /\ Included(l).bound = "Included" /\ Excluded(l).bound = "Excluded"
        /\ Included(l).key = l /\ Excluded(l).key = l
    BY DEF Included, Excluded
  <1>10. /\ KeyBefore(type, k, l) => ByteLess(s, h) /\ ~ByteLess(h, s)
         /\ KeyBefore(type, l, k) => ByteLess(h, s) /\ ~ByteLess(s, h) /\ ~IsPrefix(h, s)
    BY <1>2, BelowOrders
  <1>11. CASE b = Included(l) /\ ~multi
    <2>1. encode_end_bound(multi, type, b) = Included(h)
      BY <1>9, <1>11 DEF encode_end_bound
    <2>2. k = l => s = h
      BY <1>8, <1>11
    <2> HIDE DEF h, c, s
    <2>3. Until(Included(h), s) <=> ~ByteLess(h, s)
      BY DEF Until, Included
    <2>4. k = l => ~ByteLess(h, s)
      BY <1>2, <2>2, ByteLessIrreflexive
    <2>5. Until(Included(h), s) <=> k = l \/ KeyBefore(type, k, l)
      BY <1>4, <1>5, <1>10, <2>3, <2>4
    <2> QED
      BY <1>11, <2>1, <2>5 DEF s, c
  <1>12. CASE b = Included(l) /\ multi
    <2>1. encode_end_bound(multi, type, b) = prefix_end(h)
      BY <1>9, <1>12 DEF encode_end_bound
    <2> HIDE DEF h, c, s
    <2>2. Until(prefix_end(h), s) <=> ByteLess(s, h) \/ IsPrefix(h, s)
      BY <1>2, UntilPrefixEnd
    <2>3. Until(prefix_end(h), s) <=> k = l \/ KeyBefore(type, k, l)
      BY <1>2, <1>3, <1>4, <1>5, <1>10, <2>2
    <2> QED
      BY <1>12, <2>1, <2>3 DEF s, c
  <1>13. CASE b = Excluded(l)
    <2>1. encode_end_bound(multi, type, b) = Excluded(h)
      BY <1>9, <1>13 DEF encode_end_bound
    <2> HIDE DEF h, c, s
    <2>2. Until(Excluded(h), s) <=> ByteLess(s, h)
      BY DEF Until, Excluded
    <2>3. Until(Excluded(h), s) <=> KeyBefore(type, k, l)
      BY <1>2, <1>3, <1>4, <1>5, <1>6, <1>10, <2>2
    <2> QED
      BY <1>9, <1>13, <2>1, <2>3 DEF s, c
  <1> QED
    BY <1>11, <1>12, <1>13

(* The range of a prefix lets through the keys that start with it; its bounds
   separate them from those before and those behind. *)
LEMMA PrefixBounds ==
    ASSUME NEW type \in Seq(PartTypes), NEW k, NEW p, IsKey(type, k), Partial(type, p), NEW x \in ByteStrings
    PROVE  /\ From(Included(encode(type, p)), encode(type, k) \o x) <=> IsPrefix(p, k) \/ KeyBefore(type, p, k)
           /\ Until(prefix_end(encode(type, p)), encode(type, k) \o x) <=> IsPrefix(p, k) \/ KeyBefore(type, k, p)
  <1> DEFINE h == encode(type, p)
             s == encode(type, k) \o x
  <1>1. Partial(type, k) /\ Len(p) <= Len(k)
    BY KeyIs DEF Partial
  <1>2. /\ h \in ByteStrings /\ s \in ByteStrings
        /\ KeyBefore(type, k, p) => Below(s, h)
        /\ KeyBefore(type, p, k) => Below(h, s)
        /\ IsPrefix(p, k) => IsPrefix(h, s) /\ ~ByteLess(s, h)
    BY <1>1, StoredAt
  <1>3. IsPrefix(p, k) \/ KeyBefore(type, k, p) \/ KeyBefore(type, p, k)
    BY <1>1, Position
  <1> HIDE DEF h, s
  <1>4. /\ KeyBefore(type, k, p) => ByteLess(s, h) /\ ~IsPrefix(p, k) /\ ~KeyBefore(type, p, k)
        /\ KeyBefore(type, p, k) => ~ByteLess(s, h) /\ ~IsPrefix(h, s) /\ ~IsPrefix(p, k)
    BY <1>1, <1>2, BelowOrders, KeyBeforeExcludes
  <1>5. From(Included(h), s) <=> ~ByteLess(s, h)
    BY DEF From, Included
  <1>6. Until(prefix_end(h), s) <=> ByteLess(s, h) \/ IsPrefix(h, s)
    BY <1>2, UntilPrefixEnd
  <1>7. From(Included(h), s) <=> IsPrefix(p, k) \/ KeyBefore(type, p, k)
    BY <1>2, <1>3, <1>4, <1>5
  <1>8. Until(prefix_end(h), s) <=> IsPrefix(p, k) \/ KeyBefore(type, k, p)
    BY <1>2, <1>3, <1>4, <1>6
  <1> QED
    BY <1>7, <1>8 DEF h, s

(* A key before, or behind, the keys with a prefix is so for each of them. *)
LEMMA PrefixSide ==
    ASSUME NEW type \in Seq(PartTypes), NEW k, NEW l, NEW p, IsKey(type, k), IsKey(type, l),
           Partial(type, p), IsPrefix(p, l)
    PROVE  /\ KeyBefore(type, k, p) => KeyBefore(type, k, l)
           /\ KeyBefore(type, p, k) => KeyBefore(type, l, k)
  <1> DEFINE c == encode(type, k)
             g == encode(type, l)
             h == encode(type, p)
  <1>1. /\ Partial(type, k) /\ Partial(type, l) /\ Len(l) <= Len(k)
        /\ p \in Seq(AnyValue) /\ l \in Seq(AnyValue)
    BY KeyIs DEF Partial
  <1>2. c \in ByteStrings /\ g \in ByteStrings /\ h \in ByteStrings
    BY <1>1, PartsIs
  <1>3. k = l \/ KeyBefore(type, k, l) \/ KeyBefore(type, l, k)
    BY <1>1, Position, SameKey
  <1>4. Extends(g, h)
    <2>1. Len(p) \in 0 .. Len(l) /\ SubSeq(p, 1, Len(p)) = p
      <3>1. Len(p) \in Nat /\ Len(l) \in Nat /\ Len(p) <= Len(type) /\ Len(l) = Len(type)
        BY <1>1, KeyIs DEF Partial
      <3> QED
        BY <1>1, <3>1
    <2>2. p = SubSeq(l, 1, Len(p))
      BY <2>1 DEF IsPrefix
    <2> QED
      BY <1>1, <2>1, <2>2, EncodeStart
  <1> HIDE DEF c, g, h
  <1>5. PICK w \in ByteStrings : g = h \o w
    BY <1>4 DEF Extends
  <1>6. <<>> \in ByteStrings /\ c \o <<>> = c
    BY <1>2 DEF ByteStrings
  <1>7. Below(c, h) => Below(c, g)
    <2>1. Below(c, h) => Below(c \o <<>>, h \o w)
      BY <1>2, <1>6, BelowBoth
    <2> QED
      BY <1>5, <1>6, <2>1
  <1>8. Below(h, c) => Below(g, c)
    <2>1. Below(h, c) => Below(h \o w, c \o <<>>)
      BY <1>2, <1>6, BelowBoth
    <2> QED
      BY <1>5, <1>6, <2>1
  <1>9. ASSUME KeyBefore(type, k, p) PROVE KeyBefore(type, k, l)
    <2>1. Below(c, g)
      BY <1>7, <1>9 DEF KeyBefore, c, h
    <2>2. ~Below(g, c) /\ c # g
      BY <1>2, <2>1, BelowOrders, ByteLessIrreflexive
    <2> QED
      BY <1>3, <2>2 DEF KeyBefore, c, g
  <1>10. ASSUME KeyBefore(type, p, k) PROVE KeyBefore(type, l, k)
    <2>1. Below(g, c)
      BY <1>8, <1>10 DEF KeyBefore, c, h
    <2>2. ~Below(c, g) /\ c # g
      BY <1>2, <2>1, BelowOrders, ByteLessIrreflexive
    <2> QED
      BY <1>3, <2>2 DEF KeyBefore, c, g
  <1> QED
    BY <1>9, <1>10

(* Of keys with the same text the bytes tell which is less. *)
LEMMA LessIsBefore ==
    ASSUME NEW type \in Seq(PartTypes), NEW k, NEW l, IsKey(type, k), IsKey(type, l), SameUnordered(type, k, l)
    PROVE  KeyLess(type, k, l) <=> KeyBefore(type, k, l)
  <1>1. Partial(type, k) /\ Partial(type, l) /\ Len(l) <= Len(k)
    BY KeyIs DEF Partial
  <1>2. k = l \/ KeyBefore(type, k, l) \/ KeyBefore(type, l, k)
    BY <1>1, Position, SameKey
  <1>3. SameUnordered(type, l, k)
    BY DEF SameUnordered
  <1> QED
    BY <1>1, <1>2, <1>3, KeyIrreflexive DEF KeyBefore

(* A key is written as some bytes. *)
LEMMA EncodeNotEmpty ==
    ASSUME NEW type \in Seq(PartTypes) \ {<<>>}, NEW k, IsKey(type, k)
    PROVE  encode(type, k) \in ByteStrings /\ encode(type, k) # <<>>
  <1>1. Partial(type, k) /\ Len(k) = Len(type) /\ Len(type) \in Nat /\ Len(type) # 0
    BY KeyIs
  <1>2. 1 \in 1 .. Len(k)
    BY <1>1
  <1>3. PICK a \in ByteStrings, w \in ByteStrings : CutAt(type, k, 1, a, w)
    BY <1>1, <1>2, EncodeAt
  <1>4. type[1] \in PartTypes /\ k[1] \in Values(type[1])
    BY <1>1, <1>2 DEF Partial
  <1>5. PICK y \in ByteStrings : y = EncodePart(type[1], k[1]) /\ y # <<>>
    BY <1>4, PartBytes
  <1>6. encode(type, k) = a \o (y \o w)
    BY <1>3, <1>5 DEF CutAt
  <1>7. y \o w \in ByteStrings /\ Len(y \o w) = Len(y) + Len(w) /\ Len(y) \in Nat \ {0} /\ Len(w) \in Nat
    BY <1>5 DEF ByteStrings
  <1>8. a \o (y \o w) \in ByteStrings /\ Len(a \o (y \o w)) = Len(a) + Len(y \o w) /\ Len(a) \in Nat
    BY <1>7 DEF ByteStrings
  <1>9. Len(a \o (y \o w)) # 0
    BY <1>7, <1>8
  <1> QED
    BY <1>6, <1>8, <1>9
===============================================================================
