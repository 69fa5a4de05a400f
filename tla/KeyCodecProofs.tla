---------------------------- MODULE KeyCodecProofs ----------------------------
(***************************************************************************)
(* Decoding, for byte strings of any length: decode_part of every part     *)
(* type reads what its encoding writes and nothing else, and so does the   *)
(* decoding of tuples in KeyCodec.                                         *)
(***************************************************************************)
EXTENDS KeyCodec, KeyOrderProofs

(* The bytes behind the first n. *)
LEMMA RestIs ==
    ASSUME NEW s \in ByteStrings, NEW n \in 0 .. Len(s)
    PROVE  /\ Rest(s, n) \in ByteStrings /\ Len(Rest(s, n)) = Len(s) - n
           /\ \A j \in 1 .. Len(s) - n : Rest(s, n)[j] = s[n + j]
  <1>1. s \in Seq(Byte) /\ Len(s) \in Nat /\ n \in Nat /\ n <= Len(s)
    BY DEF ByteStrings
  <1>2. \A j \in n + 1 .. Len(s) : j \in 1 .. Len(s)
    BY <1>1
  <1>3. SubSeq(s, n + 1, Len(s)) \in Seq(Byte)
    BY <1>1, <1>2
  <1>4. Len(SubSeq(s, n + 1, Len(s))) = Len(s) - n
    BY <1>1
  <1>5. \A j \in 1 .. Len(s) - n : SubSeq(s, n + 1, Len(s))[j] = s[n + j]
    BY <1>1
  <1> QED
    BY <1>3, <1>4, <1>5 DEF Rest, ByteStrings

(* A byte, and then others. *)
Starts(u, b, t) == u = <<b>> \o t

LEMMA StartsIs ==
    ASSUME NEW b \in Byte, NEW t \in ByteStrings, NEW u, Starts(u, b, t)
    PROVE  u \in ByteStrings /\ Len(u) = Len(t) + 1 /\ u[1] = b
           /\ \A j \in 1 .. Len(t) : u[j + 1] = t[j]
  BY DEF Starts, ByteStrings

LEMMA StartsBytes ==
    ASSUME NEW b \in Byte, NEW t \in ByteStrings, NEW u, Starts(u, b, t)
    PROVE  u \in ByteStrings
  BY StartsIs

LEMMA StartsLen ==
    ASSUME NEW b \in Byte, NEW t \in ByteStrings, NEW u, Starts(u, b, t)
    PROVE  Len(u) = Len(t) + 1
  BY StartsIs

LEMMA StartsOnce ==
    ASSUME NEW b \in Byte, NEW t \in ByteStrings, NEW c \in Byte, NEW v \in ByteStrings,
           NEW u, Starts(u, b, t), Starts(u, c, v)
    PROVE  b = c /\ t = v
  <1>1. /\ Len(u) = Len(t) + 1 /\ u[1] = b /\ \A j \in 1 .. Len(t) : u[j + 1] = t[j]
        /\ Len(u) = Len(v) + 1 /\ u[1] = c /\ \A j \in 1 .. Len(v) : u[j + 1] = v[j]
    BY StartsIs
  <1>2. Len(t) = Len(v) /\ \A j \in 1 .. Len(t) : t[j] = v[j]
    BY <1>1 DEF ByteStrings
  <1> QED
    BY <1>1, <1>2 DEF ByteStrings

LEMMA RestStarts ==
    ASSUME NEW s \in ByteStrings, NEW i \in 1 .. Len(s)
    PROVE  /\ s[i] \in Byte /\ Rest(s, i) \in ByteStrings /\ Rest(s, i - 1) \in ByteStrings
           /\ Starts(Rest(s, i - 1), s[i], Rest(s, i))
  <1>1. Len(s) \in Nat /\ i \in Nat /\ s[i] \in Byte /\ i \in 0 .. Len(s) /\ i - 1 \in 0 .. Len(s)
    BY DEF ByteStrings
  <1> DEFINE r == Rest(s, i)
             q == Rest(s, i - 1)
             u == <<s[i]>> \o r
  <1>2. /\ q \in ByteStrings /\ Len(q) = Len(s) - (i - 1)
        /\ \A j \in 1 .. Len(s) - (i - 1) : q[j] = s[i - 1 + j]
    BY <1>1, RestIs
  <1>3. r \in ByteStrings /\ Len(r) = Len(s) - i /\ \A j \in 1 .. Len(s) - i : r[j] = s[i + j]
    BY <1>1, RestIs
  <1> HIDE DEF r, q
  <1>4. Starts(u, s[i], r)
    BY DEF Starts
  <1>5. u \in ByteStrings /\ Len(u) = Len(r) + 1 /\ u[1] = s[i] /\ \A j \in 1 .. Len(r) : u[j + 1] = r[j]
    BY <1>1, <1>3, <1>4, StartsIs
  <1> HIDE DEF u
  <1>6. Len(u) = Len(q)
    BY <1>1, <1>2, <1>3, <1>5
  <1>7. ASSUME NEW j \in 1 .. Len(u) PROVE u[j] = q[j]
    <2>1. CASE j = 1
      BY <1>1, <1>2, <1>3, <1>5, <2>1
    <2>2. CASE j # 1
      <3>1. PICK k \in 1 .. Len(s) - i : j = k + 1
        <4>1. j - 1 \in 1 .. Len(s) - i /\ j = (j - 1) + 1
          BY <1>1, <1>3, <1>5, <2>2
        <4> QED
          BY <4>1
      <3>2. u[j] = s[i + k]
        BY <1>3, <1>5, <3>1
      <3>3. q[j] = s[i - 1 + (k + 1)]
        BY <1>1, <1>2, <3>1
      <3>4. i - 1 + (k + 1) = i + k
        BY <1>1
      <3> QED
        BY <3>2, <3>3, <3>4
    <2> QED
      BY <2>1, <2>2
  <1>8. u = q
    BY <1>2, <1>5, <1>6, <1>7 DEF ByteStrings
  <1> QED
    BY <1>1, <1>2, <1>3, <1>4, <1>8 DEF r, q

-------------------------------------------------------------------------------
(* Byte strings with escapes and a terminator *)

LEMMA EscapeEmpty == encode_unsized_key_bytes(<<>>) = <<0, 0>>
  <1>1. <<>> \in ByteStrings /\ Len(<<>>) = 0
    BY DEF ByteStrings
  <1>2. EscapedSeq(<<>>) \in Seq(ByteStrings) /\ Len(EscapedSeq(<<>>)) = 0
        /\ encode_unsized_key_bytes(<<>>) = FlattenSeq(EscapedSeq(<<>>)) \o <<0, 0>>
    BY <1>1, EscapedIs
  <1>3. EscapedSeq(<<>>) = <<>>
    BY <1>2
  <1>4. FlattenSeq(<<>>) = <<>>
    BY DEF FlattenSeq
  <1> QED
    BY <1>2, <1>3, <1>4

LEMMA EscapeStarts ==
    ASSUME NEW b \in Byte, NEW v \in ByteStrings, NEW u, Starts(u, b, v)
    PROVE  encode_unsized_key_bytes(u) = Escaped(b) \o encode_unsized_key_bytes(v)
  <1>1. /\ u \in ByteStrings /\ Len(u) = Len(v) + 1 /\ u[1] = b /\ Len(v) \in Nat
        /\ \A j \in 1 .. Len(v) : u[j + 1] = v[j]
    BY StartsIs DEF ByteStrings
  <1>2. Escaped(b) \in ByteStrings /\ <<0, 0>> \in ByteStrings
    BY EscapedBelow
  <1> DEFINE e == Escaped(b)
             p == <<e>>
             q == EscapedSeq(v)
             w == EscapedSeq(u)
  <1>3. /\ q \in Seq(ByteStrings) /\ Len(q) = Len(v) /\ \A i \in 1 .. Len(v) : q[i] = Escaped(v[i])
        /\ encode_unsized_key_bytes(v) = FlattenSeq(q) \o <<0, 0>>
    BY EscapedIs
  <1>4. /\ w \in Seq(ByteStrings) /\ Len(w) = Len(v) + 1 /\ \A i \in 1 .. Len(v) + 1 : w[i] = Escaped(u[i])
        /\ encode_unsized_key_bytes(u) = FlattenSeq(w) \o <<0, 0>>
    BY <1>1, EscapedIs
  <1> HIDE DEF q, w, e
  <1>5. e \in ByteStrings
    BY <1>2 DEF e
  <1>6. w = p \o q
    <2>1. p \in Seq(ByteStrings) /\ Len(p) = 1 /\ p[1] = e
      BY <1>5
    <2>2. p \o q \in Seq(ByteStrings) /\ Len(p \o q) = Len(v) + 1
      BY <1>1, <1>3, <2>1
    <2>3. ASSUME NEW i \in 1 .. Len(v) + 1 PROVE (p \o q)[i] = w[i]
      <3>1. CASE i = 1
        BY <1>1, <1>4, <2>1, <1>3, <3>1 DEF e
      <3>2. CASE i # 1
        <4>1. PICK j \in 1 .. Len(v) : i = j + 1
          <5>1. i - 1 \in 1 .. Len(v) /\ i = (i - 1) + 1
            BY <1>1, <3>2
          <5> QED
            BY <5>1
        <4>2. (p \o q)[i] = q[j]
          BY <1>1, <1>3, <2>1, <4>1
        <4>3. w[i] = Escaped(v[j])
          BY <1>1, <1>4, <4>1
        <4> QED
          BY <1>3, <4>2, <4>3
      <3> QED
        BY <3>1, <3>2
    <2> QED
      BY <1>4, <2>2, <2>3
  <1>7. FlattenSeq(p) = e
    <2>1. <<>> \in Seq(ByteStrings) /\ Append(<<>>, e) = p
      BY <1>5
    <2>2. FlattenSeq(Append(<<>>, e)) = FlattenSeq(<<>>) \o e
      BY <1>5, <2>1, FlattenAppend
    <2>3. FlattenSeq(<<>>) = <<>>
      BY DEF FlattenSeq
    <2>4. <<>> \o e = e
      BY <1>5 DEF ByteStrings
    <2> QED
      BY <2>1, <2>2, <2>3, <2>4
  <1>8. FlattenSeq(w) = e \o FlattenSeq(q) /\ FlattenSeq(q) \in ByteStrings
    <2>1. p \in Seq(ByteStrings)
      BY <1>5
    <2>2. FlattenSeq(p \o q) = FlattenSeq(p) \o FlattenSeq(q)
      BY <1>3, <2>1, FlattenConcat
    <2>3. FlattenSeq(q) \in ByteStrings
      BY <1>2, <1>3, FlattenAppend
    <2> QED
      BY <1>6, <1>7, <2>2, <2>3
  <1>9. (e \o FlattenSeq(q)) \o <<0, 0>> = e \o (FlattenSeq(q) \o <<0, 0>>)
    BY <1>2, <1>5, <1>8, ConcatAssociates
  <1> QED
    BY <1>3, <1>4, <1>8, <1>9 DEF e

(* The encoding of v, and then r. *)
Reads(u, v, r) == v \in ByteStrings /\ r \in ByteStrings /\ u = encode_unsized_key_bytes(v) \o r

(* The three ways it can begin: the terminator, a byte, an escaped zero. *)
ReadsEnd(u, v, r) ==
    v = <<>> /\ \E t \in ByteStrings : Starts(u, 0, t) /\ Starts(t, 0, r)

ReadsByte(u, v, r) ==
    \E b \in Byte \ {0}, w \in ByteStrings, t \in ByteStrings :
        Starts(v, b, w) /\ Starts(u, b, t) /\ Reads(t, w, r)

ReadsZero(u, v, r) ==
    \E w \in ByteStrings, t \in ByteStrings, x \in ByteStrings :
        Starts(v, 0, w) /\ Starts(u, 0, t) /\ Starts(t, MaxByte, x) /\ Reads(x, w, r)

LEMMA ZeroIsByte == 0 \in Byte /\ MaxByte \in Byte /\ MaxByte # 0
  BY ByteAssumption DEF Byte

LEMMA TwoStart ==
    ASSUME NEW a \in Byte, NEW b \in Byte, NEW r \in ByteStrings
    PROVE  Starts(<<a, b>> \o r, a, <<b>> \o r)
  <1>1. <<a>> \in Seq(Byte) /\ <<b>> \in Seq(Byte)
    OBVIOUS
  <1>2. <<a>> \o <<b>> = <<a, b>>
    <2> DEFINE c == <<a>> \o <<b>>
    <2>1. c \in Seq(Byte) /\ Len(c) = 2 /\ c[1] = a /\ c[2] = b
      BY <1>1
    <2> HIDE DEF c
    <2>2. c = <<a, b>>
      BY <2>1
    <2> QED
      BY <2>2 DEF c
  <1>3. PICK x \in ByteStrings, y \in ByteStrings : x = <<a>> /\ y = <<b>>
    BY <1>1 DEF ByteStrings
  <1>4. (x \o y) \o r = x \o (y \o r)
    BY ConcatAssociates
  <1> QED
    BY <1>2, <1>3, <1>4 DEF Starts

LEMMA EmptyOrStarts ==
    ASSUME NEW v \in ByteStrings, v # <<>>
    PROVE  \E b \in Byte : \E w \in ByteStrings : Starts(v, b, w)
  <1>1. v \in Seq(Byte) /\ Len(v) \in Nat /\ Len(v) # 0
    BY DEF ByteStrings
  <1>2. 1 \in 1 .. Len(v)
    BY <1>1
  <1>3. v[1] \in Byte /\ Rest(v, 1) \in ByteStrings /\ Starts(Rest(v, 1 - 1), v[1], Rest(v, 1))
    BY <1>2, RestStarts
  <1>4. Rest(v, 1 - 1) = v
    <2>1. SubSeq(v, 1, Len(v)) = v
      BY <1>1
    <2> QED
      BY <2>1 DEF Rest
  <1> QED
    BY <1>3, <1>4

LEMMA ReadsIs ==
    ASSUME NEW u, NEW v \in ByteStrings, NEW r \in ByteStrings
    PROVE  Reads(u, v, r) <=> ReadsEnd(u, v, r) \/ ReadsByte(u, v, r) \/ ReadsZero(u, v, r)
  <1> DEFINE enc(w) == encode_unsized_key_bytes(w)
  <1>1. \A w \in ByteStrings : enc(w) \in ByteStrings /\ enc(w) \o r \in ByteStrings
    BY UnsizedBytes, ConcatBytes
  <1>2. \A b \in Byte, w \in ByteStrings : Starts(v, b, w) => enc(v) = Escaped(b) \o enc(w)
    BY EscapeStarts
  <1>3. \A b \in Byte : Escaped(b) \in ByteStrings
    BY EscapedBelow
  <1>4. ASSUME NEW b \in Byte, NEW w \in ByteStrings, Starts(v, b, w)
        PROVE  enc(v) \o r = Escaped(b) \o (enc(w) \o r)
    <2>1. enc(v) = Escaped(b) \o enc(w)
      BY <1>2, <1>4
    <2>2. Escaped(b) \in ByteStrings /\ enc(w) \in ByteStrings
      BY <1>1, <1>3
    <2> HIDE DEF enc
    <2>3. (Escaped(b) \o enc(w)) \o r = Escaped(b) \o (enc(w) \o r)
      BY <2>2, ConcatAssociates
    <2> QED
      BY <2>1, <2>3
  <1>5. enc(<<>>) = <<0, 0>>
    BY EscapeEmpty
  <1>6. \A t \in ByteStrings : /\ Starts(<<0, 0>> \o t, 0, <<0>> \o t)
                               /\ Starts(<<0, MaxByte>> \o t, 0, <<MaxByte>> \o t)
                               /\ <<0>> \o t \in ByteStrings /\ <<MaxByte>> \o t \in ByteStrings
    <2>1. <<0>> \in ByteStrings /\ <<MaxByte>> \in ByteStrings
      BY ZeroIsByte DEF ByteStrings
    <2> QED
      BY <2>1, ZeroIsByte, TwoStart, ConcatBytes
  <1> HIDE DEF enc
  <1>7. ASSUME Reads(u, v, r) PROVE ReadsEnd(u, v, r) \/ ReadsByte(u, v, r) \/ ReadsZero(u, v, r)
    <2>1. u = enc(v) \o r
      BY <1>7 DEF Reads, enc
    <2>2. CASE v = <<>>
      <3>1. Starts(u, 0, <<0>> \o r) /\ Starts(<<0>> \o r, 0, r) /\ <<0>> \o r \in ByteStrings
        BY <1>5, <1>6, <2>1, <2>2 DEF Starts
      <3> QED
        BY <2>2, <3>1 DEF ReadsEnd
    <2>3. CASE v # <<>>
      <3>1. PICK b \in Byte, w \in ByteStrings : Starts(v, b, w)
        BY <2>3, EmptyOrStarts
      <3>2. u = Escaped(b) \o (enc(w) \o r) /\ enc(w) \o r \in ByteStrings
        BY <1>1, <1>4, <2>1, <3>1
      <3>3. Reads(enc(w) \o r, w, r)
        BY DEF Reads, enc
      <3>4. CASE b = 0
        <4>1. u = <<0, MaxByte>> \o (enc(w) \o r)
          BY <3>2, <3>4 DEF Escaped
        <4>2. Starts(u, 0, <<MaxByte>> \o (enc(w) \o r)) /\ <<MaxByte>> \o (enc(w) \o r) \in ByteStrings
          BY <1>6, <3>2, <4>1
        <4>3. Starts(<<MaxByte>> \o (enc(w) \o r), MaxByte, enc(w) \o r)
          BY DEF Starts
        <4> QED
          BY <3>1, <3>2, <3>3, <3>4, <4>2, <4>3 DEF ReadsZero
      <3>5. CASE b # 0
        <4>1. Starts(u, b, enc(w) \o r)
          BY <3>2, <3>5 DEF Escaped, Starts
        <4> QED
          BY <3>1, <3>2, <3>3, <3>5, <4>1 DEF ReadsByte
      <3> QED
        BY <3>4, <3>5
    <2> QED
      BY <2>2, <2>3
  <1>8. ASSUME ReadsEnd(u, v, r) PROVE Reads(u, v, r)
    <2>1. PICK t \in ByteStrings : Starts(u, 0, t) /\ Starts(t, 0, r) /\ v = <<>>
      BY <1>8 DEF ReadsEnd
    <2>2. u = <<0>> \o t /\ t = <<0>> \o r
      BY <2>1 DEF Starts
    <2>3. <<0, 0>> \o r = <<0>> \o (<<0>> \o r)
      BY <1>6 DEF Starts
    <2>4. u = enc(v) \o r
      BY <1>5, <2>1, <2>2, <2>3
    <2> QED
      BY <2>4 DEF Reads, enc
  <1>9. ASSUME ReadsByte(u, v, r) PROVE Reads(u, v, r)
    <2>1. PICK b \in Byte \ {0}, w \in ByteStrings, t \in ByteStrings :
              Starts(v, b, w) /\ Starts(u, b, t) /\ Reads(t, w, r)
      BY <1>9 DEF ReadsByte
    <2>2. u = <<b>> \o (enc(w) \o r)
      BY <2>1 DEF Starts, Reads, enc
    <2>3. enc(v) \o r = <<b>> \o (enc(w) \o r)
      BY <1>4, <2>1 DEF Escaped
    <2>4. u = enc(v) \o r
      BY <2>2, <2>3
    <2> QED
      BY <2>4 DEF Reads, enc
  <1>10. ASSUME ReadsZero(u, v, r) PROVE Reads(u, v, r)
    <2>1. PICK w \in ByteStrings, t \in ByteStrings, x \in ByteStrings :
              Starts(v, 0, w) /\ Starts(u, 0, t) /\ Starts(t, MaxByte, x) /\ Reads(x, w, r)
      BY <1>10 DEF ReadsZero
    <2>2. u = <<0>> \o (<<MaxByte>> \o x) /\ x = enc(w) \o r
      BY <2>1 DEF Starts, Reads, enc
    <2>3. <<0, MaxByte>> \o x = <<0>> \o (<<MaxByte>> \o x)
      BY <1>6, <2>1 DEF Starts
    <2>4. enc(v) \o r = <<0, MaxByte>> \o x
      BY <1>4, <2>1, <2>2, ZeroIsByte DEF Escaped
    <2>5. u = enc(v) \o r
      BY <2>2, <2>3, <2>4
    <2> QED
      BY <2>5 DEF Reads, enc
  <1> QED
    BY <1>7, <1>8, <1>9, <1>10

(* The loop of decode_unsized_key_bytes: what it makes of the bytes from place
   i on, given what it makes of those behind. *)
Pushed(b, result) == IF result = Panic THEN Panic ELSE <<<<b>> \o result[1], result[2]>>

Step(f, s, i) ==
    IF i > Len(s) THEN Panic
    ELSE IF s[i] # 0 THEN Pushed(s[i], f[i + 1])
    ELSE IF i = Len(s) THEN Panic
    ELSE IF s[i + 1] = 0 THEN <<<<>>, Rest(s, i + 1)>>
    ELSE IF s[i + 1] = MaxByte THEN Pushed(0, f[i + 2])
    ELSE Panic

Decodes(f, s) == f = [i \in 1 .. Len(s) + 1 |-> Step(f, s, i)]

LEMMA DecodesAt ==
    ASSUME NEW s, NEW f, Decodes(f, s), NEW i \in 1 .. Len(s) + 1
    PROVE  f[i] = Step(f, s, i)
  <1> DEFINE g == [j \in 1 .. Len(s) + 1 |-> Step(f, s, j)]
  <1>1. f = g
    BY DEF Decodes
  <1>2. g[i] = Step(f, s, i)
    OBVIOUS
  <1> HIDE DEF g
  <1> QED
    BY <1>1, <1>2

LEMMA StepBehind ==
    ASSUME NEW s \in ByteStrings, NEW f, NEW g, NEW i \in 1 .. Len(s) + 1,
           \A j \in i + 1 .. Len(s) + 1 : f[j] = g[j]
    PROVE  Step(f, s, i) = Step(g, s, i)
  <1>1. Len(s) \in Nat
    BY DEF ByteStrings
  <1>2. i <= Len(s) => f[i + 1] = g[i + 1]
    BY <1>1
  <1>3. i <= Len(s) /\ i # Len(s) => f[i + 2] = g[i + 2]
    BY <1>1
  <1>4. i > Len(s) \/ i <= Len(s)
    BY <1>1
  <1> QED
    BY <1>2, <1>3, <1>4 DEF Step

LEMMA DecodesExists ==
    ASSUME NEW s \in ByteStrings
    PROVE  \E f : Decodes(f, s)
  <1> DEFINE D == 1 .. Len(s) + 1
             Good(n) == \E f : /\ f = [j \in D |-> f[j]]
                               /\ \A i \in Len(s) + 1 - n .. Len(s) + 1 : i \in D => f[i] = Step(f, s, i)
             T == {n \in Nat : Good(n)}
  <1>1. Len(s) \in Nat
    BY DEF ByteStrings
  <1>2. 0 \in T
    <2> DEFINE f == [j \in D |-> Panic]
    <2>1. f = [j \in D |-> f[j]]
      OBVIOUS
    <2>2. ASSUME NEW i \in Len(s) + 1 - 0 .. Len(s) + 1 PROVE f[i] = Step(f, s, i)
      <3>1. i = Len(s) + 1 /\ i > Len(s) /\ i \in D
        BY <1>1
      <3> QED
        BY <3>1 DEF Step
    <2> HIDE DEF f
    <2>3. Good(0)
      BY <2>1, <2>2
    <2> QED
      BY <2>3
  <1>3. ASSUME NEW n \in Nat, n \in T PROVE n + 1 \in T
    <2>1. PICK f : /\ f = [j \in D |-> f[j]]
                   /\ \A i \in Len(s) + 1 - n .. Len(s) + 1 : i \in D => f[i] = Step(f, s, i)
      BY <1>3
    <2> DEFINE m == Len(s) - n
               g == [j \in D |-> IF j = m THEN Step(f, s, m) ELSE f[j]]
    <2>2. g = [j \in D |-> g[j]]
      OBVIOUS
    <2>3. \A j \in D : j # m => g[j] = f[j]
      OBVIOUS
    <2>4. m \in D => g[m] = Step(f, s, m)
      OBVIOUS
    <2> HIDE DEF g
    <2>5. ASSUME NEW i \in Len(s) + 1 - (n + 1) .. Len(s) + 1, i \in D PROVE g[i] = Step(g, s, i)
      <3>1. \A j \in i + 1 .. Len(s) + 1 : f[j] = g[j]
        BY <1>1, <2>3, <2>5
      <3>2. Step(f, s, i) = Step(g, s, i)
        BY <2>5, <3>1, StepBehind
      <3>3. i = m \/ i \in Len(s) + 1 - n .. Len(s) + 1
        BY <1>1
      <3> QED
        BY <2>1, <2>3, <2>4, <2>5, <3>2, <3>3
    <2>6. Good(n + 1)
      BY <2>2, <2>5
    <2> QED
      BY <2>6
  <1> HIDE DEF Good
  <1>4. Len(s) \in T
    BY <1>1, <1>2, <1>3, SetInduction
  <1>5. PICK f : /\ f = [j \in D |-> f[j]]
                 /\ \A i \in Len(s) + 1 - Len(s) .. Len(s) + 1 : i \in D => f[i] = Step(f, s, i)
    BY <1>4 DEF Good
  <1>6. \A i \in D : f[i] = Step(f, s, i)
    BY <1>1, <1>5
  <1> QED
    BY <1>5, <1>6 DEF Decodes

(* decode_unsized_key_bytes is the table of its loop at the first byte. *)
LEMMA UnsizedIs ==
    ASSUME NEW s \in ByteStrings
    PROVE  \E f : Decodes(f, s) /\ decode_unsized_key_bytes(s) = f[1]
  <1> DEFINE f == CHOOSE f : Decodes(f, s)
  <1>1. Decodes(f, s)
    BY DecodesExists
  <1>2. decode_unsized_key_bytes(s) = f[1]
    BY DEF decode_unsized_key_bytes, Decodes, Step, Pushed
  <1> QED
    BY <1>1, <1>2

(* What is decoded from place i on is what is written there, and nothing is
   decoded only where no encoding begins. *)
DecodedAt(f, s, i) ==
    \/ f[i] = Panic /\ \A v \in ByteStrings, r \in ByteStrings : ~Reads(Rest(s, i - 1), v, r)
    \/ \E v \in ByteStrings, r \in ByteStrings : f[i] = <<v, r>> /\ Reads(Rest(s, i - 1), v, r)

(* A byte in front of what is decoded. *)
LEMMA PushedPanic == \A b, result : result = Panic => Pushed(b, result) = Panic
  BY DEF Pushed

LEMMA PushedIs == \A b, result, v, r : result = <<v, r>> => Pushed(b, result) = <<<<b>> \o v, r>>
  <1>1. \A v, r : <<v, r>> # Panic
    BY DEF Panic
  <1> QED
    BY <1>1 DEF Pushed

(* One turn of the loop: a place is decoded rightly if the places behind it are. *)
LEMMA DecodedStep ==
    ASSUME NEW s \in ByteStrings, NEW f, Decodes(f, s), NEW i \in 1 .. Len(s) + 1,
           \A j \in i + 1 .. Len(s) + 1 : DecodedAt(f, s, j)
    PROVE  DecodedAt(f, s, i)
  <1> DEFINE u == Rest(s, i - 1)
  <1>1. Len(s) \in Nat /\ i \in Nat /\ s \in Seq(Byte)
    BY DEF ByteStrings
  <1>2. f[i] = Step(f, s, i)
    BY DecodesAt
  <1>3. u \in ByteStrings
    BY <1>1, RestIs
  <1>4. 0 \in Byte /\ MaxByte \in Byte /\ MaxByte # 0
    BY ZeroIsByte
  <1>5. CASE i = Len(s) + 1
    <2>1. f[i] = Panic
      BY <1>1, <1>2, <1>5 DEF Step
    <2>2. Len(u) = 0
      BY <1>1, <1>5, RestIs
    <2>3. ASSUME NEW v \in ByteStrings, NEW r \in ByteStrings, Reads(u, v, r) PROVE FALSE
      <3>1. encode_unsized_key_bytes(v) \in ByteStrings /\ encode_unsized_key_bytes(v) # <<>>
        BY UnsizedBytes
      <3>2. PICK e \in Seq(Byte) : e = encode_unsized_key_bytes(v) /\ e # <<>> /\ u = e \o r
        BY <2>3, <3>1 DEF Reads, ByteStrings
      <3>3. Len(e \o r) = Len(e) + Len(r) /\ Len(e) > 0 /\ Len(r) \in Nat
        BY <3>2 DEF ByteStrings
      <3> QED
        BY <2>2, <3>2, <3>3
    <2> QED
      BY <2>1, <2>3 DEF DecodedAt
  <1>6. CASE i <= Len(s)
    <2> DEFINE t == Rest(s, i)
    <2>1. s[i] \in Byte /\ t \in ByteStrings /\ Starts(u, s[i], t)
      BY <1>1, <1>6, RestStarts
    <2>2. \A v \in ByteStrings, r \in ByteStrings :
              Reads(u, v, r) <=> ReadsEnd(u, v, r) \/ ReadsByte(u, v, r) \/ ReadsZero(u, v, r)
      BY ReadsIs
    <2>3. \A b \in Byte, x \in ByteStrings : Starts(u, b, x) => b = s[i] /\ x = t
      BY <2>1, StartsOnce
    <2>4. i + 1 \in i + 1 .. Len(s) + 1 /\ i + 1 - 1 = i
      BY <1>1, <1>6
    <2>5. \/ f[i + 1] = Panic /\ \A v \in ByteStrings, r \in ByteStrings : ~Reads(t, v, r)
          \/ \E v \in ByteStrings, r \in ByteStrings : f[i + 1] = <<v, r>> /\ Reads(t, v, r)
      BY <2>4 DEF DecodedAt
    <2> HIDE DEF u, t
    <2>6. CASE s[i] # 0
      <3>1. f[i] = Pushed(s[i], f[i + 1])
        BY <1>1, <1>2, <1>6, <2>6 DEF Step
      <3>2. CASE f[i + 1] = Panic /\ \A v \in ByteStrings, r \in ByteStrings : ~Reads(t, v, r)
        <4>1. ASSUME NEW v \in ByteStrings, NEW r \in ByteStrings, Reads(u, v, r) PROVE FALSE
          <5>1. ~ReadsEnd(u, v, r) /\ ~ReadsZero(u, v, r)
            BY <1>4, <2>3, <2>6 DEF ReadsEnd, ReadsZero
          <5>2. ReadsByte(u, v, r)
            BY <2>2, <4>1, <5>1
          <5>3. PICK b \in Byte, w \in ByteStrings, x \in ByteStrings : Starts(u, b, x) /\ Reads(x, w, r)
            BY <5>2 DEF ReadsByte
          <5> QED
            BY <2>3, <3>2, <5>3
        <4>2. f[i] = Panic
          BY <3>1, <3>2, PushedPanic
        <4> QED
          BY <4>1, <4>2 DEF DecodedAt, u
      <3>3. CASE \E v \in ByteStrings, r \in ByteStrings : f[i + 1] = <<v, r>> /\ Reads(t, v, r)
        <4>1. PICK w \in ByteStrings, r \in ByteStrings : f[i + 1] = <<w, r>> /\ Reads(t, w, r)
          BY <3>3
        <4>2. PICK v : Starts(v, s[i], w)
          BY DEF Starts
        <4>3. v \in ByteStrings /\ f[i] = <<v, r>>
          <5>1. v \in ByteStrings
            BY <2>1, <4>2, StartsBytes
          <5>2. Pushed(s[i], f[i + 1]) = <<<<s[i]>> \o w, r>>
            <6>1. \A b : Pushed(b, f[i + 1]) = <<<<b>> \o w, r>>
              BY <4>1, PushedIs
            <6> QED
              BY <6>1
          <5>3. v = <<s[i]>> \o w
            BY <4>2 DEF Starts
          <5> QED
            BY <3>1, <5>1, <5>2, <5>3
        <4>4. ReadsByte(u, v, r)
          BY <2>1, <2>6, <4>1, <4>2 DEF ReadsByte
        <4>5. Reads(u, v, r)
          BY <2>2, <4>3, <4>4
        <4> QED
          BY <4>3, <4>5 DEF DecodedAt, u
      <3> QED
        BY <2>5, <3>2, <3>3
    <2>7. CASE s[i] = 0 /\ i = Len(s)
      <3>1. f[i] = Panic
        BY <1>1, <1>2, <2>7 DEF Step
      <3>2. Len(t) = 0
        BY <1>1, <2>7, RestIs DEF t
      <3>3. \A b \in Byte, x \in ByteStrings : ~Starts(t, b, x)
        <4> SUFFICES ASSUME NEW b \in Byte, NEW x \in ByteStrings, Starts(t, b, x) PROVE FALSE
          OBVIOUS
        <4>1. Len(t) = Len(x) + 1
          BY StartsLen
        <4>2. PICK n \in Nat : Len(x) = n
          BY DEF ByteStrings
        <4> QED
          BY <3>2, <4>1, <4>2
      <3>4. ASSUME NEW v \in ByteStrings, NEW r \in ByteStrings PROVE ~Reads(u, v, r)
        <4>1. ~ReadsEnd(u, v, r)
          BY <1>4, <2>3, <3>3 DEF ReadsEnd
        <4>2. ~ReadsZero(u, v, r)
          BY <1>4, <2>3, <3>3 DEF ReadsZero
        <4>3. ~ReadsByte(u, v, r)
          BY <2>3, <2>7 DEF ReadsByte
        <4> QED
          BY <2>2, <4>1, <4>2, <4>3
      <3> QED
        BY <3>1, <3>4 DEF DecodedAt, u
    <2>8. CASE s[i] = 0 /\ i < Len(s)
      <3> DEFINE x == Rest(s, i + 1)
      <3>1. s[i + 1] \in Byte /\ x \in ByteStrings /\ Starts(t, s[i + 1], x)
        <4>1. i + 1 \in 1 .. Len(s) /\ i + 1 - 1 = i
          BY <1>1, <2>8
        <4> QED
          BY <4>1, RestStarts DEF t
      <3>2. \A b \in Byte, y \in ByteStrings : Starts(t, b, y) => b = s[i + 1] /\ y = x
        BY <2>1, <3>1, StartsOnce
      <3>3. \/ f[i + 2] = Panic /\ \A v \in ByteStrings, r \in ByteStrings : ~Reads(x, v, r)
            \/ \E v \in ByteStrings, r \in ByteStrings : f[i + 2] = <<v, r>> /\ Reads(x, v, r)
        <4>1. i + 2 \in i + 1 .. Len(s) + 1 /\ i + 2 - 1 = i + 1
          BY <1>1, <2>8
        <4> QED
          BY <4>1 DEF DecodedAt
      <3>4. /\ s[i + 1] = 0 => f[i] = <<<<>>, x>>
            /\ s[i + 1] = MaxByte => f[i] = Pushed(0, f[i + 2])
            /\ s[i + 1] \notin {0, MaxByte} => f[i] = Panic
        BY <1>1, <1>2, <1>4, <2>8 DEF Step
      <3>5. \A v \in ByteStrings, r \in ByteStrings : ~ReadsByte(u, v, r)
        BY <2>3, <2>8 DEF ReadsByte
      <3> HIDE DEF x
      <3>6. CASE s[i + 1] = 0
        <4>1. <<>> \in ByteStrings
          BY DEF ByteStrings
        <4>2. ReadsEnd(u, <<>>, x)
          BY <2>1, <2>8, <3>1, <3>6 DEF ReadsEnd
        <4>3. Reads(u, <<>>, x)
          BY <2>2, <3>1, <4>1, <4>2
        <4> QED
          BY <3>1, <3>4, <3>6, <4>1, <4>3 DEF DecodedAt, u
      <3>7. CASE s[i + 1] = MaxByte
        <4>1. f[i] = Pushed(0, f[i + 2])
          BY <3>4, <3>7
        <4>2. \A v \in ByteStrings, r \in ByteStrings : ~ReadsEnd(u, v, r)
          BY <1>4, <2>3, <3>2, <3>7 DEF ReadsEnd
        <4>3. CASE f[i + 2] = Panic /\ \A v \in ByteStrings, r \in ByteStrings : ~Reads(x, v, r)
          <5>1. \A v \in ByteStrings, r \in ByteStrings : ~ReadsZero(u, v, r)
            BY <1>4, <2>3, <3>2, <4>3 DEF ReadsZero
          <5>2. f[i] = Panic
            BY <4>1, <4>3, PushedPanic
          <5> QED
            BY <2>2, <3>5, <4>2, <5>1, <5>2 DEF DecodedAt, u
        <4>4. CASE \E v \in ByteStrings, r \in ByteStrings : f[i + 2] = <<v, r>> /\ Reads(x, v, r)
          <5>1. PICK w \in ByteStrings, r \in ByteStrings : f[i + 2] = <<w, r>> /\ Reads(x, w, r)
            BY <4>4
          <5>2. PICK v : Starts(v, 0, w)
            BY DEF Starts
          <5>3. v \in ByteStrings /\ f[i] = <<v, r>>
            <6>1. v \in ByteStrings
              BY <1>4, <5>2, StartsBytes
            <6>2. Pushed(0, f[i + 2]) = <<<<0>> \o w, r>>
              BY <5>1, PushedIs
            <6>3. v = <<0>> \o w
              BY <5>2 DEF Starts
            <6> QED
              BY <4>1, <6>1, <6>2, <6>3
          <5>4. ReadsZero(u, v, r)
            BY <2>1, <2>8, <3>1, <3>7, <5>1, <5>2 DEF ReadsZero
          <5>5. Reads(u, v, r)
            BY <2>2, <5>3, <5>4
          <5> QED
            BY <5>3, <5>5 DEF DecodedAt, u
        <4> QED
          BY <3>3, <4>3, <4>4
      <3>8. CASE s[i + 1] \notin {0, MaxByte}
        <4>1. \A v \in ByteStrings, r \in ByteStrings : ~ReadsEnd(u, v, r) /\ ~ReadsZero(u, v, r)
          BY <1>4, <2>3, <3>2, <3>8 DEF ReadsEnd, ReadsZero
        <4> QED
          BY <2>2, <3>4, <3>5, <3>8, <4>1 DEF DecodedAt, u
      <3> QED
        BY <3>6, <3>7, <3>8
    <2> QED
      BY <1>1, <1>6, <2>6, <2>7, <2>8
  <1> QED
    BY <1>1, <1>5, <1>6

(* decode_unsized_key_bytes reads what encode_unsized_key_bytes writes, whatever
   follows it, and nothing else. *)
THEOREM UnsizedDecoded ==
    ASSUME NEW s \in ByteStrings
    PROVE  LET result == decode_unsized_key_bytes(s)
           IN \/ result = Panic /\ \A v \in ByteStrings, r \in ByteStrings : ~Reads(s, v, r)
              \/ \E v \in ByteStrings, r \in ByteStrings : result = <<v, r>> /\ Reads(s, v, r)
  <1>1. PICK f : Decodes(f, s) /\ decode_unsized_key_bytes(s) = f[1]
    BY UnsizedIs
  <1>2. Len(s) \in Nat /\ s \in Seq(Byte)
    BY DEF ByteStrings
  <1> DEFINE T == {n \in Nat : \A i \in 1 .. Len(s) + 1 : i >= Len(s) + 1 - n => DecodedAt(f, s, i)}
  <1>3. 0 \in T
    <2> SUFFICES ASSUME NEW i \in 1 .. Len(s) + 1, i >= Len(s) + 1 - 0 PROVE DecodedAt(f, s, i)
      OBVIOUS
    <2>1. \A j \in i + 1 .. Len(s) + 1 : FALSE
      BY <1>2
    <2> QED
      BY <1>1, <2>1, DecodedStep
  <1>4. ASSUME NEW n \in Nat, n \in T PROVE n + 1 \in T
    <2> SUFFICES ASSUME NEW i \in 1 .. Len(s) + 1, i >= Len(s) + 1 - (n + 1) PROVE DecodedAt(f, s, i)
      OBVIOUS
    <2>1. \A j \in i + 1 .. Len(s) + 1 : j \in 1 .. Len(s) + 1 /\ j >= Len(s) + 1 - n
      BY <1>2
    <2>2. \A j \in i + 1 .. Len(s) + 1 : DecodedAt(f, s, j)
      BY <1>4, <2>1
    <2> QED
      BY <1>1, <2>2, DecodedStep
  <1> HIDE DEF T
  <1>5. Len(s) \in T
    BY <1>2, <1>3, <1>4, SetInduction
  <1>6. DecodedAt(f, s, 1)
    <2>1. 1 \in 1 .. Len(s) + 1 /\ 1 >= Len(s) + 1 - Len(s)
      BY <1>2
    <2> QED
      BY <1>5, <2>1 DEF T
  <1>7. Rest(s, 1 - 1) = s
    <2>1. SubSeq(s, 1, Len(s)) = s
      BY <1>2
    <2> QED
      BY <2>1 DEF Rest
  <1> QED
    BY <1>1, <1>6, <1>7 DEF DecodedAt

-------------------------------------------------------------------------------
(* Numbers *)

BaseIs == Base \in Nat /\ Base > 1 /\ Byte = 0 .. Base - 1

LEMMA BaseType == BaseIs
  BY ByteAssumption DEF Base, Byte, BaseIs

(* Two digits and the number they are read as. *)
LEMMA DigitsNumber ==
    ASSUME NEW a \in Byte, NEW b \in Byte, NEW n, n = Base * a + b
    PROVE  n \in 0 .. Base * Base - 1 /\ n \div Base = a /\ n % Base = b
  <1>1. PICK c \in Nat : c = Base /\ c > 1 /\ a \in 0 .. c - 1 /\ b \in 0 .. c - 1
    BY BaseType DEF BaseIs
  <1>2. c * a \in Nat /\ c * a <= c * (c - 1)
    BY <1>1
  <1>3. c * (c - 1) = c * c - c /\ c * c \in Nat
    BY <1>1
  <1>4. n \in 0 .. c * c - 1
    BY <1>1, <1>2, <1>3
  <1>5. PICK q \in Byte, r \in Byte : n = Base * q + r /\ n \div Base = q /\ n % Base = r
    BY <1>1, <1>4, TwoDigits
  <1>6. q \in 0 .. c - 1 /\ r \in 0 .. c - 1 /\ c * a + b = c * q + r
    BY <1>1, <1>5, BaseType DEF BaseIs
  <1>7. ASSUME NEW x \in 0 .. c - 1, NEW y \in 0 .. c - 1, NEW k \in 0 .. c - 1, NEW l \in 0 .. c - 1,
               c * x + k = c * y + l, x + 1 <= y
        PROVE  FALSE
    <2>1. c * (x + 1) <= c * y
      BY <1>1, <1>7
    <2>2. c * (x + 1) = c * x + c
      BY <1>1
    <2>3. c * x \in Int /\ c * y \in Int
      BY <1>1
    <2> QED
      BY <1>1, <1>7, <2>1, <2>2, <2>3
  <1>8. a = q
    <2>1. a + 1 <= q \/ q + 1 <= a \/ a = q
      BY <1>1, <1>6
    <2>2. c * q + r = c * a + b
      BY <1>6
    <2> QED
      BY <1>1, <1>6, <1>7, <2>1, <2>2
  <1>9. b = r
    <2>1. c * a \in Int /\ c * a = c * q
      BY <1>1, <1>8
    <2> QED
      BY <1>1, <1>6, <2>1
  <1> QED
    BY <1>1, <1>4, <1>5, <1>8, <1>9

LEMMA NumberIs ==
    ASSUME NEW x \in ByteStrings, Len(x) \in {1, 2}
    PROVE  from_be_bytes(x) = IF Len(x) = 1 THEN x[1] ELSE Base * x[1] + x[2]
  <1> DEFINE Eq(f) == f = [i \in 0 .. Len(x) |-> IF i = 0 THEN 0 ELSE Base * f[i - 1] + x[i]]
             table == [i \in 0 .. Len(x) |-> IF i = 0 THEN 0 ELSE IF i = 1 THEN x[1] ELSE Base * x[1] + x[2]]
             value == CHOOSE f : Eq(f)
  <1>1. Base \in Nat /\ \A i \in 1 .. Len(x) : x[i] \in Int
    BY BaseType, BytesAreNumbers DEF BaseIs
  <1>2. ASSUME NEW i \in 0 .. Len(x) PROVE table[i] = IF i = 0 THEN 0 ELSE Base * table[i - 1] + x[i]
    <2>1. CASE i = 0
      BY <2>1
    <2>2. CASE i = 1
      <3>1. table[0] = 0 /\ table[1] = x[1] /\ x[1] \in Int
        BY <1>1, <2>2
      <3>2. Base * 0 + x[1] = x[1]
        BY <1>1, <3>1
      <3> QED
        BY <2>2, <3>1, <3>2
    <2>3. CASE i = 2
      <3>1. table[1] = x[1] /\ table[2] = Base * x[1] + x[2]
        BY <2>3
      <3> QED
        BY <2>3, <3>1
    <2> QED
      BY <2>1, <2>2, <2>3
  <1>3. Eq(table)
    BY <1>2
  <1> HIDE DEF table
  <1>4. Eq(value)
    BY <1>3
  <1>5. from_be_bytes(x) = value[Len(x)]
    BY DEF from_be_bytes
  <1> HIDE DEF value
  <1>6. ASSUME NEW i \in 0 .. Len(x) PROVE value[i] = IF i = 0 THEN 0 ELSE Base * value[i - 1] + x[i]
    BY <1>4
  <1>7. value[0] = 0
    BY <1>6
  <1>8. value[1] = Base * 0 + x[1] /\ x[1] \in Int
    BY <1>1, <1>6, <1>7
  <1>9. value[1] = x[1]
    BY <1>1, <1>8
  <1>10. CASE Len(x) = 1
    BY <1>5, <1>9, <1>10
  <1>11. CASE Len(x) = 2
    <2>1. value[2] = Base * value[1] + x[2]
      BY <1>6, <1>11
    <2> QED
      BY <1>5, <1>9, <1>11, <2>1
  <1> QED
    BY <1>10, <1>11

(* What is read as a number of w digits is written as the same bytes. *)
LEMMA NumberDecoded ==
    ASSUME NEW w \in {1, 2}, NEW x \in ByteStrings, Len(x) = w
    PROVE  from_be_bytes(x) \in 0 .. Power[w] - 1 /\ to_be_bytes(from_be_bytes(x), w) = x
  <1> DEFINE n == from_be_bytes(x)
             y == to_be_bytes(n, w)
  <1>1. Base \in Nat /\ Base > 1 /\ Byte = 0 .. Base - 1
    BY BaseType DEF BaseIs
  <1>2. \A i \in 1 .. w : y[i] = (n \div Power[w - i]) % Base
    BY DEF to_be_bytes
  <1>3. \A i \in 1 .. w : x[i] \in Byte
    BY DEF ByteStrings
  <1>4. CASE w = 1
    <2>1. n = x[1] /\ x[1] \in 0 .. Base - 1
      BY <1>1, <1>3, <1>4, NumberIs
    <2> HIDE DEF n, y
    <2>2. n \in 0 .. Power[1] - 1
      BY <2>1, PowerIs
    <2>3. y[1] = (n \div 1) % Base
      BY <1>2, <1>4, PowerIs
    <2>4. (n \div 1) % Base = n
      BY <1>1, <2>1
    <2>5. y \in ByteStrings /\ Len(y) = 1
      BY <1>4, <2>2, IntBytes DEF y
    <2>6. y = x
      BY <1>4, <2>1, <2>3, <2>4, <2>5 DEF ByteStrings
    <2> QED
      BY <1>4, <2>2, <2>6 DEF n, y
  <1>5. CASE w = 2
    <2>1. n = Base * x[1] + x[2] /\ x[1] \in Byte /\ x[2] \in Byte
      BY <1>3, <1>5, NumberIs
    <2> HIDE DEF n, y
    <2>2. n \in 0 .. Base * Base - 1 /\ n \div Base = x[1] /\ n % Base = x[2]
      BY <2>1, DigitsNumber
    <2>3. y[1] = (n \div Base) % Base /\ y[2] = (n \div 1) % Base
      BY <1>2, <1>5, PowerIs
    <2>4. x[1] % Base = x[1] /\ n \div 1 = n
      <3>1. n \in Int /\ n \div 1 = n
        BY <2>2
      <3>2. x[1] \in 0 .. Base - 1
        BY <1>1, <2>1
      <3>3. PICK b \in Nat : b = Base /\ b > 1
        BY <1>1
      <3>4. x[1] % b = x[1]
        BY <3>2, <3>3
      <3> QED
        BY <3>1, <3>3, <3>4
    <2>5. y[1] = x[1] /\ y[2] = x[2]
      BY <2>2, <2>3, <2>4
    <2>6. y \in ByteStrings /\ Len(y) = 2
      BY <1>5, <2>2, IntBytes, PowerIs DEF y
    <2>7. y = x
      BY <1>5, <2>5, <2>6 DEF ByteStrings
    <2> QED
      BY <1>5, <2>2, <2>7, PowerIs DEF n, y
  <1> QED
    BY <1>4, <1>5

LEMMA EvenRange ==
    ASSUME NEW w \in {1, 2}
    PROVE  \E n \in Nat, h \in Nat : n = Power[w] /\ n = 2 * h /\ h > 0 /\ Power[w] \div 2 = h
  <1>1. PICK c \in Nat : MaxByte + 1 = 2 * c /\ c > 0
    <2>1. MaxByte \in Nat /\ MaxByte % 2 = 1
      BY ByteAssumption
    <2>2. (MaxByte + 1) \div 2 \in Nat /\ MaxByte + 1 = 2 * ((MaxByte + 1) \div 2)
          /\ (MaxByte + 1) \div 2 > 0
      BY <2>1
    <2> QED
      BY <2>2
  <1>2. Base = 2 * c /\ Base * Base = 2 * (2 * c * c) /\ 2 * c * c \in Nat /\ 2 * c * c > 0
    BY <1>1 DEF Base
  <1>3. \E h \in Nat : Power[w] = 2 * h /\ h > 0
    BY <1>1, <1>2, PowerIs
  <1>4. PICK h \in Nat : Power[w] = 2 * h /\ h > 0
    BY <1>3
  <1>5. (2 * h) \div 2 = h /\ 2 * h \in Nat
    OBVIOUS
  <1> QED
    BY <1>4, <1>5

(* Flipping the sign bit and reading a signed integer takes half the range
   away, which is what encoding adds. *)
LEMMA SignDecoded ==
    ASSUME NEW w \in {1, 2}, NEW u \in 0 .. Power[w] - 1
    PROVE  as_signed(flip_sign(u, w), w) = u - Power[w] \div 2
  <1>1. PICK h \in Nat : Power[w] = 2 * h /\ h > 0
    BY EvenRange
  <1>2. Power[w] \div 2 = h /\ u \in 0 .. 2 * h - 1
    BY <1>1
  <1>3. flip_sign(u, w) = (u + h) % (2 * h)
    BY <1>1, <1>2 DEF flip_sign
  <1>4. CASE u < h
    <2>1. (u + h) % (2 * h) = u + h
      BY <1>1, <1>2, <1>4
    <2> QED
      BY <1>1, <1>2, <1>3, <1>4, <2>1 DEF as_signed
  <1>5. CASE u >= h
    <2>1. (u + h) % (2 * h) = u - h
      <3>1. u - h \in 0 .. 2 * h - 1 /\ u + h = (u - h) + 2 * h
        BY <1>1, <1>2, <1>5
      <3>2. ASSUME NEW n \in Nat, n > 0, NEW k \in 0 .. n - 1 PROVE (k + n) % n = k
        BY <3>2
      <3> QED
        BY <1>1, <3>1, <3>2
    <2>2. u - h < h
      BY <1>2
    <2> QED
      BY <1>1, <1>2, <1>3, <2>1, <2>2 DEF as_signed
  <1> QED
    BY <1>2, <1>4, <1>5

-------------------------------------------------------------------------------
(* Decoding one part *)

(* s is the encoding of v, and then r. *)
PartReads(t, s, v, r) == v \in Values(t) /\ r \in ByteStrings /\ s = EncodePart(t, v) \o r

(* result is what decoding a value of type t from s should give. *)
PartResult(t, s, result) ==
    \/ result = Panic /\ \A v \in Values(t), r \in ByteStrings : ~PartReads(t, s, v, r)
    \/ \E v \in Values(t), r \in ByteStrings : result = <<v, r>> /\ PartReads(t, s, v, r)

(* The first bytes and the others. *)
LEMMA CutFixed ==
    ASSUME NEW s \in ByteStrings, NEW n \in {1, 2}, n <= Len(s)
    PROVE  /\ SubSeq(s, 1, n) \in ByteStrings /\ Len(SubSeq(s, 1, n)) = n
           /\ s[1] \in Byte /\ SubSeq(s, 1, n)[1] = s[1]
           /\ Rest(s, n) \in ByteStrings /\ s = SubSeq(s, 1, n) \o Rest(s, n)
  <1>1. s \in Seq(Byte) /\ Len(s) \in Nat /\ n \in 0 .. Len(s)
    BY DEF ByteStrings
  <1>2. s = SubSeq(s, 1, n) \o Rest(s, n)
    BY <1>1, SplitSeq DEF Rest
  <1>3. Rest(s, n) \in ByteStrings
    BY <1>1, RestIs
  <1>4. \A j \in 1 .. n : j \in 1 .. Len(s)
    BY <1>1
  <1>5. SubSeq(s, 1, n) \in Seq(Byte) /\ Len(SubSeq(s, 1, n)) = n /\ SubSeq(s, 1, n)[1] = s[1]
    BY <1>1, <1>4
  <1>6. s[1] \in Byte
    BY <1>1
  <1> QED
    BY <1>2, <1>3, <1>5, <1>6 DEF ByteStrings

(* What begins with e is as long as e and has its bytes. *)
LEMMA NotShort ==
    ASSUME NEW e \in ByteStrings, NEW r \in ByteStrings, NEW s, s = e \o r
    PROVE  s \in ByteStrings /\ Len(e) <= Len(s) /\ \A i \in 1 .. Len(e) : s[i] = e[i]
  <1>1. s \in Seq(Byte) /\ Len(s) = Len(e) + Len(r) /\ Len(e) \in Nat /\ Len(r) \in Nat
        /\ \A i \in 1 .. Len(e) : s[i] = e[i]
    BY DEF ByteStrings
  <1> QED
    BY <1>1 DEF ByteStrings

(* A type of fixed width: bytes that are too few do not decode, nor do bytes
   that are no value; others are the encoding of the value returned. *)
LEMMA FixedDecoded ==
    ASSUME NEW t \in PartTypes, NEW s \in ByteStrings, NEW n \in {1, 2}, NEW valid \in BOOLEAN, NEW v,
           \A x \in Values(t) : Len(EncodePart(t, x)) = n,
           n <= Len(s) /\ valid => v \in Values(t) /\ EncodePart(t, v) = SubSeq(s, 1, n),
           n <= Len(s) /\ ~valid => \A x \in Values(t) : \E i \in 1 .. n : EncodePart(t, x)[i] # s[i]
    PROVE  PartResult(t, s, DecodeFixed(s, n, valid, v))
  <1>1. Len(s) \in Nat
    BY DEF ByteStrings
  <1>2. \A x \in Values(t) : EncodePart(t, x) \in ByteStrings
    BY PartBytes
  <1>3. CASE n <= Len(s) /\ valid
    <2>1. DecodeFixed(s, n, valid, v) = <<v, Rest(s, n)>>
      BY <1>1, <1>3 DEF DecodeFixed
    <2>2. Rest(s, n) \in ByteStrings /\ s = SubSeq(s, 1, n) \o Rest(s, n)
      BY <1>3, CutFixed
    <2>3. PartReads(t, s, v, Rest(s, n))
      BY <1>3, <2>2 DEF PartReads
    <2> QED
      BY <1>3, <2>1, <2>2, <2>3 DEF PartResult
  <1>4. CASE ~(n <= Len(s) /\ valid)
    <2>1. DecodeFixed(s, n, valid, v) = Panic
      BY <1>1, <1>4 DEF DecodeFixed
    <2>2. ASSUME NEW x \in Values(t), NEW r \in ByteStrings, PartReads(t, s, x, r) PROVE FALSE
      <3>1. PICK e \in ByteStrings : e = EncodePart(t, x) /\ s = e \o r
        BY <1>2, <2>2 DEF PartReads
      <3>2. Len(e) = n /\ Len(e) <= Len(s) /\ \A i \in 1 .. Len(e) : s[i] = e[i]
        BY <3>1, NotShort
      <3> QED
        BY <1>4, <3>1, <3>2
    <2> QED
      BY <2>1, <2>2 DEF PartResult
  <1> QED
    BY <1>3, <1>4

(* The part types, one by one: each is read as it is written. *)
LEMMA ArrayDecoded ==
    ASSUME NEW s \in ByteStrings
    PROVE  PartResult("array", s, decode_part("array", s))
  <1> DEFINE v == SubSeq(s, 1, 2)
  <1>1. decode_part("array", s) = DecodeFixed(s, 2, TRUE, v)
    BY DEF decode_part
  <1>2. \A x : EncodePart("array", x) = x
    BY DEF EncodePart
  <1>3. Values("array") = [1 .. 2 -> Byte]
    BY DEF Values
  <1>4. \A x \in Values("array") : Len(EncodePart("array", x)) = 2
    BY <1>2, <1>3, ArrayIs
  <1>5. ASSUME 2 <= Len(s) PROVE v \in Values("array")
    <2>1. v \in Seq(Byte) /\ Len(v) = 2
      BY <1>5, CutFixed DEF ByteStrings
    <2> HIDE DEF v
    <2>2. v \in [1 .. Len(v) -> Byte]
      BY <2>1, LenProperties
    <2> QED
      BY <1>3, <2>1, <2>2
  <1> HIDE DEF v
  <1>6. "array" \in PartTypes
    BY DEF PartTypes
  <1> QED
    BY <1>1, <1>2, <1>4, <1>5, <1>6, FixedDecoded DEF v

LEMMA UnsignedDecoded ==
    ASSUME NEW t \in {"u8", "u16"}, NEW s \in ByteStrings
    PROVE  PartResult(t, s, decode_part(t, s))
  <1> DEFINE w == Width[t]
             x == SubSeq(s, 1, w)
             v == from_be_bytes(x)
  <1>1. decode_part(t, s) = DecodeFixed(s, w, TRUE, v)
    BY DEF decode_part
  <1>2. w \in {1, 2} /\ Values(t) = 0 .. Power[w] - 1 /\ \A y : EncodePart(t, y) = to_be_bytes(y, w)
    BY UnsignedPart
  <1>3. t \in PartTypes
    BY DEF PartTypes
  <1>4. ASSUME w <= Len(s) PROVE v \in Values(t) /\ EncodePart(t, v) = x
    BY <1>2, <1>4, CutFixed, NumberDecoded
  <1> HIDE DEF w, x, v
  <1>5. \A y \in Values(t) : Len(EncodePart(t, y)) = w
    BY <1>2, IntBytes
  <1> QED
    BY <1>1, <1>2, <1>3, <1>4, <1>5, FixedDecoded DEF x

LEMMA SignedDecoded ==
    ASSUME NEW t \in {"i8", "i16"}, NEW s \in ByteStrings
    PROVE  PartResult(t, s, decode_part(t, s))
  <1> DEFINE w == Width[t]
             x == SubSeq(s, 1, w)
             u == from_be_bytes(x)
             h == Power[w] \div 2
             v == as_signed(flip_sign(u, w), w)
  <1>1. decode_part(t, s) = DecodeFixed(s, w, TRUE, v)
    BY DEF decode_part
  <1>2. /\ w \in {1, 2} /\ h \in Int
        /\ \A y \in Values(t) : y + h \in 0 .. Power[w] - 1 /\ EncodePart(t, y) = to_be_bytes(y + h, w)
    BY SignedPart
  <1>3. t \in PartTypes
    BY DEF PartTypes
  <1>4. ASSUME w <= Len(s) PROVE v \in Values(t) /\ EncodePart(t, v) = x
    <2>1. x \in ByteStrings /\ Len(x) = w
      BY <1>2, <1>4, CutFixed
    <2>2. u \in 0 .. Power[w] - 1 /\ to_be_bytes(u, w) = x
      BY <1>2, <2>1, NumberDecoded
    <2>3. v = u - h
      BY <1>2, <2>2, SignDecoded
    <2> HIDE DEF x, u, v
    <2>4. PICK n \in Nat, m \in Nat : n = Power[w] /\ n = 2 * m /\ h = m
      BY <1>2, EvenRange
    <2>5. Values(t) = -h .. h - 1
      BY DEF Values
    <2> HIDE DEF h
    <2>6. v \in Values(t) /\ v + h = u
      BY <2>2, <2>3, <2>4, <2>5
    <2> QED
      BY <1>2, <2>2, <2>6
  <1> HIDE DEF w, x, v
  <1>5. \A y \in Values(t) : Len(EncodePart(t, y)) = w
    BY <1>2, IntBytes
  <1> QED
    BY <1>1, <1>2, <1>3, <1>4, <1>5, FixedDecoded DEF x

LEMMA OneByte ==
    ASSUME NEW b \in Byte
    PROVE  /\ to_be_bytes(b, 1) \in ByteStrings /\ Len(to_be_bytes(b, 1)) = 1
           /\ to_be_bytes(b, 1)[1] = b
  <1>1. Base \in Nat /\ Base > 1 /\ Byte = 0 .. Base - 1
    BY BaseType DEF BaseIs
  <1>2. b \in 0 .. Power[1] - 1
    BY <1>1, PowerIs
  <1>3. to_be_bytes(b, 1)[1] = (b \div 1) % Base
    BY PowerIs DEF to_be_bytes
  <1>4. (b \div 1) % Base = b
    BY <1>1
  <1> QED
    BY <1>2, <1>3, <1>4, IntBytes

LEMMA OneByteIs ==
    ASSUME NEW e \in ByteStrings, NEW f \in ByteStrings, Len(e) = 1, Len(f) = 1, e[1] = f[1]
    PROVE  e = f
  BY DEF ByteStrings

(* A byte is read as the discriminant that is written as this byte. *)
EnumRead(t, b) == IF t = "enum" THEN b ELSE as_signed(b, 1)

LEMMA EnumInverts ==
    ASSUME NEW t \in {"enum", "signed_enum"}, NEW x \in Values(t), NEW b \in Byte
    PROVE  EnumCode(t, x) = b <=> Discriminant[t][x] = EnumRead(t, b)
  <1>1. PICK h \in Nat : h = Base \div 2 /\ Base = 2 * h /\ h > 0
    BY ByteAssumption DEF Base
  <1>2. Power[1] = 2 * h /\ Power[1] \div 2 = h
    <2>1. Power[1] = Base
      BY PowerIs
    <2> QED
      BY <1>1, <2>1
  <1>3. b \in 0 .. 2 * h - 1
    BY <1>1, ByteAssumption DEF Byte, Base
  <1>4. PICK d \in Int : d = Discriminant[t][x]
    BY EnumPart
  <1>5. EnumCode(t, x) = d % (2 * h)
    BY <1>2, <1>4 DEF EnumCode
  <1>6. CASE t = "enum"
    <2>1. d \in 0 .. MaxByte /\ MaxByte = 2 * h - 1
      BY <1>1, <1>4, <1>6, EnumAssumption, ByteAssumption DEF Values, Byte, Base
    <2>2. d % (2 * h) = d
      BY <1>1, <2>1
    <2> QED
      BY <1>4, <1>5, <1>6, <2>2 DEF EnumRead
  <1>7. CASE t = "signed_enum"
    <2>1. -h <= d /\ d < h
      BY <1>1, <1>4, <1>7, EnumAssumption DEF Values
    <2>2. PICK n \in Nat : n = 2 * h
      BY <1>1
    <2>3. d % n = IF d < 0 THEN d + n ELSE d
      BY <1>1, <2>1, <2>2
    <2>4. EnumRead(t, b) = IF b < h THEN b ELSE b - n
      BY <1>2, <1>7, <2>2 DEF EnumRead, as_signed
    <2> QED
      BY <1>1, <1>3, <1>4, <1>5, <2>1, <2>2, <2>3, <2>4
  <1> QED
    BY <1>6, <1>7

LEMMA EnumDecoded ==
    ASSUME NEW t \in {"enum", "signed_enum"}, NEW s \in ByteStrings
    PROVE  PartResult(t, s, decode_part(t, s))
  <1> DEFINE n == EnumRead(t, s[1])
             named == {v \in DOMAIN Discriminant[t] : Discriminant[t][v] = n}
             v == CHOOSE v \in named : TRUE
  <1>1. decode_part(t, s) = DecodeFixed(s, 1, named # {}, v)
    <2>1. CASE t = "enum"
      <3>1. n = s[1]
        BY <2>1 DEF EnumRead
      <3> QED
        BY <2>1, <3>1 DEF decode_part
    <2>2. CASE t = "signed_enum"
      <3>1. n = as_signed(s[1], 1)
        BY <2>2 DEF EnumRead
      <3> QED
        BY <2>2, <3>1 DEF decode_part
    <2> QED
      BY <2>1, <2>2
  <1>2. Values(t) = DOMAIN Discriminant[t]
    BY DEF Values
  <1>3. ASSUME NEW x \in Values(t)
        PROVE  /\ EncodePart(t, x) \in ByteStrings /\ Len(EncodePart(t, x)) = 1
               /\ EncodePart(t, x)[1] = EnumCode(t, x) /\ EnumCode(t, x) \in Byte
    <2>1. EnumCode(t, x) \in Byte
      BY EnumPart, PowerIs, BaseType DEF BaseIs
    <2> QED
      BY <2>1, EnumPart, OneByte
  <1>4. ASSUME 1 <= Len(s), named # {}
        PROVE  v \in Values(t) /\ EncodePart(t, v) = SubSeq(s, 1, 1)
    <2>1. v \in named
      BY <1>4
    <2>2. v \in Values(t) /\ Discriminant[t][v] = n
      BY <1>2, <2>1
    <2> HIDE DEF v
    <2>3. SubSeq(s, 1, 1) \in ByteStrings /\ Len(SubSeq(s, 1, 1)) = 1 /\ SubSeq(s, 1, 1)[1] = s[1]
      BY <1>4, CutFixed
    <2>4. s[1] \in Byte
      BY <1>4 DEF ByteStrings
    <2>5. EnumCode(t, v) = s[1]
      BY <2>2, <2>4, EnumInverts
    <2> QED
      BY <1>3, <2>2, <2>3, <2>5, OneByteIs
  <1>5. ASSUME named = {}, 1 <= Len(s) PROVE \A x \in Values(t) : EncodePart(t, x)[1] # s[1]
    <2> SUFFICES ASSUME NEW x \in Values(t), EnumCode(t, x) = s[1] PROVE FALSE
      BY <1>3
    <2>1. Discriminant[t][x] = n
      BY <1>3, EnumInverts
    <2> QED
      BY <1>2, <1>5, <2>1
  <1>6. t \in PartTypes /\ (named # {}) \in BOOLEAN
    BY DEF PartTypes
  <1> HIDE DEF n, named, v
  <1>7. 1 <= Len(s) /\ named # {} => v \in Values(t) /\ EncodePart(t, v) = SubSeq(s, 1, 1)
    BY <1>4
  <1>8. 1 <= Len(s) /\ ~(named # {}) =>
            \A x \in Values(t) : \E i \in 1 .. 1 : EncodePart(t, x)[i] # s[i]
    BY <1>5
  <1>9. \A x \in Values(t) : Len(EncodePart(t, x)) = 1
    BY <1>3
  <1>10. PICK valid \in BOOLEAN : valid = (named # {})
    BY <1>6
  <1> QED
    BY <1>1, <1>6, <1>7, <1>8, <1>9, <1>10, FixedDecoded

LEMMA BoolPart ==
    ASSUME NEW x \in BOOLEAN
    PROVE  /\ EncodePart("bool", x) \in ByteStrings /\ Len(EncodePart("bool", x)) = 1
           /\ EncodePart("bool", x)[1] \in {0, 1} /\ (EncodePart("bool", x)[1] = 1 <=> x)
  <1>1. <<0>> \in ByteStrings /\ <<1>> \in ByteStrings
    <2>1. 0 \in Byte /\ 1 \in Byte
      BY BaseType DEF BaseIs
    <2> QED
      BY <2>1 DEF ByteStrings
  <1>2. CASE x
    <2>1. EncodePart("bool", x) = <<1>>
      BY <1>2 DEF EncodePart
    <2>2. Len(EncodePart("bool", x)) = 1 /\ EncodePart("bool", x)[1] = 1
      BY <2>1
    <2> QED
      BY <1>1, <1>2, <2>1, <2>2
  <1>3. CASE ~x
    <2>1. EncodePart("bool", x) = <<0>>
      BY <1>3 DEF EncodePart
    <2>2. Len(EncodePart("bool", x)) = 1 /\ EncodePart("bool", x)[1] = 0
      BY <2>1
    <2> QED
      BY <1>1, <1>3, <2>1, <2>2
  <1> QED
    BY <1>2, <1>3

LEMMA BoolDecoded ==
    ASSUME NEW s \in ByteStrings
    PROVE  PartResult("bool", s, decode_part("bool", s))
  <1>1. PICK v \in BOOLEAN : v <=> s[1] = 1
    OBVIOUS
  <1>2. PICK valid \in BOOLEAN : valid <=> s[1] \in {0, 1}
    OBVIOUS
  <1>3. decode_part("bool", s) = DecodeFixed(s, 1, valid, v)
    <2>1. (s[1] = 1) = v
      BY <1>1
    <2>2. decode_part("bool", s) = DecodeFixed(s, 1, s[1] \in {0, 1}, s[1] = 1)
      BY DEF decode_part
    <2> QED
      BY <1>2, <2>1, <2>2 DEF DecodeFixed
  <1>4. Values("bool") = BOOLEAN /\ "bool" \in PartTypes
    BY DEF Values, PartTypes
  <1>5. 1 <= Len(s) /\ valid => v \in Values("bool") /\ EncodePart("bool", v) = SubSeq(s, 1, 1)
    <2> SUFFICES ASSUME 1 <= Len(s), valid PROVE EncodePart("bool", v) = SubSeq(s, 1, 1)
      BY <1>4
    <2>1. EncodePart("bool", v)[1] = s[1]
      BY <1>1, <1>2, BoolPart
    <2>2. SubSeq(s, 1, 1) \in ByteStrings /\ Len(SubSeq(s, 1, 1)) = 1 /\ SubSeq(s, 1, 1)[1] = s[1]
      BY CutFixed
    <2>3. EncodePart("bool", v) \in ByteStrings /\ Len(EncodePart("bool", v)) = 1
      BY BoolPart
    <2> QED
      BY <2>1, <2>2, <2>3, OneByteIs
  <1>6. 1 <= Len(s) /\ ~valid =>
            \A x \in Values("bool") : \E i \in 1 .. 1 : EncodePart("bool", x)[i] # s[i]
    BY <1>2, <1>4, BoolPart
  <1>7. \A x \in Values("bool") : Len(EncodePart("bool", x)) = 1
    BY <1>4, BoolPart
  <1> QED
    BY <1>3, <1>4, <1>5, <1>6, <1>7, FixedDecoded

(* The place of the first byte that ends text, or 0. *)
LEMMA FirstEnd ==
    ASSUME NEW s \in ByteStrings
    PROVE  \E end \in 0 .. Len(s) :
               /\ decode_str(s) = IF end = 0 THEN Panic ELSE <<SubSeq(s, 1, end - 1), Rest(s, end)>>
               /\ end = 0 => \A i \in 1 .. Len(s) : s[i] # MaxByte
               /\ end # 0 => s[end] = MaxByte /\ \A i \in 1 .. end - 1 : s[i] # MaxByte
  <1> DEFINE I == {i \in 1 .. Len(s) : s[i] = MaxByte}
             end == IF I # {} THEN Min(I) ELSE 0
  <1>1. Len(s) \in Nat
    BY DEF ByteStrings
  <1>2. SelectInSeq(s, LAMBDA b : b = MaxByte) = end
    BY DEF SelectInSeq
  <1>3. decode_str(s) = IF end = 0 THEN Panic ELSE <<SubSeq(s, 1, end - 1), Rest(s, end)>>
    BY <1>2 DEF decode_str
  <1>4. CASE I = {}
    <2>1. end = 0
      BY <1>4
    <2>2. \A i \in 1 .. Len(s) : s[i] # MaxByte
      BY <1>4
    <2> HIDE DEF end
    <2>3. end \in 0 .. Len(s)
      BY <1>1, <2>1
    <2> QED
      BY <1>3, <2>1, <2>2, <2>3
  <1>5. CASE I # {}
    <2>1. PICK n \in I : TRUE
      BY <1>5
    <2>2. I \in SUBSET Nat
      BY <1>1
    <2> HIDE DEF I
    <2>3. \E m \in I : \A k \in I : m <= k
      BY <2>1, <2>2, LeastNumber
    <2>4. Min(I) \in I /\ \A k \in I : Min(I) <= k
      BY <2>3 DEF Min
    <2>5. end = Min(I)
      BY <1>5
    <2> HIDE DEF end
    <2>6. end \in I /\ \A k \in I : end <= k
      BY <2>4, <2>5
    <2>7. end \in 1 .. Len(s) /\ s[end] = MaxByte
      BY <2>6 DEF I
    <2>8. ASSUME NEW i \in 1 .. end - 1, s[i] = MaxByte PROVE FALSE
      <3>1. i \in I
        BY <1>1, <2>7, <2>8 DEF I
      <3> QED
        BY <2>6, <2>7, <3>1
    <2>9. end \in 0 .. Len(s) /\ end # 0
      BY <1>1, <2>7
    <2> QED
      BY <1>3, <2>7, <2>8, <2>9
  <1> QED
    BY <1>4, <1>5

(* Text and its end. *)
LEMMA Terminated ==
    ASSUME NEW v \in Seq(Byte \ {MaxByte})
    PROVE  /\ v \in ByteStrings /\ Append(v, MaxByte) \in ByteStrings
           /\ Len(Append(v, MaxByte)) = Len(v) + 1 /\ Append(v, MaxByte)[Len(v) + 1] = MaxByte
           /\ \A i \in 1 .. Len(v) : Append(v, MaxByte)[i] = v[i]
  <1>1. Len(v) \in Nat /\ \A i \in 1 .. Len(v) : v[i] \in Byte
    OBVIOUS
  <1>2. v \in [1 .. Len(v) -> Byte]
    <2>1. v = [i \in 1 .. Len(v) |-> v[i]]
      OBVIOUS
    <2> QED
      BY <1>1, <2>1
  <1>3. v \in Seq(Byte)
    BY <1>1, <1>2
  <1>4. MaxByte \in Byte
    BY ZeroIsByte
  <1>5. Append(v, MaxByte) \in Seq(Byte)
    BY <1>3, <1>4
  <1>6. Len(Append(v, MaxByte)) = Len(v) + 1 /\ Append(v, MaxByte)[Len(v) + 1] = MaxByte
        /\ \A i \in 1 .. Len(v) : Append(v, MaxByte)[i] = v[i]
    BY <1>1, <1>3
  <1> QED
    BY <1>3, <1>5, <1>6 DEF ByteStrings

LEMMA TextDecoded ==
    ASSUME NEW s \in ByteStrings
    PROVE  PartResult("str", s, decode_part("str", s))
  <1>1. decode_part("str", s) = decode_str(s)
    BY DEF decode_part
  <1>2. Values("str") = Seq(Byte \ {MaxByte}) /\ \A v : EncodePart("str", v) = Append(v, MaxByte)
    BY DEF Values, EncodePart
  <1>3. Len(s) \in Nat /\ s \in Seq(Byte)
    BY DEF ByteStrings
  <1>4. PICK end \in 0 .. Len(s) :
            /\ decode_str(s) = IF end = 0 THEN Panic ELSE <<SubSeq(s, 1, end - 1), Rest(s, end)>>
            /\ end = 0 => \A i \in 1 .. Len(s) : s[i] # MaxByte
            /\ end # 0 => s[end] = MaxByte /\ \A i \in 1 .. end - 1 : s[i] # MaxByte
    BY FirstEnd
  <1>5. CASE end = 0
    <2>1. ASSUME NEW v \in Values("str"), NEW r \in ByteStrings, PartReads("str", s, v, r) PROVE FALSE
      <3>1. s = Append(v, MaxByte) \o r /\ v \in Seq(Byte \ {MaxByte})
        BY <1>2, <2>1 DEF PartReads
      <3>2. PICK e \in ByteStrings : e = Append(v, MaxByte) /\ Len(e) = Len(v) + 1 /\ e[Len(v) + 1] = MaxByte
        BY <3>1, Terminated
      <3>3. PICK n \in Nat : Len(v) = n
        BY <3>1
      <3>4. Len(e) = n + 1 /\ e[n + 1] = MaxByte
        BY <3>2, <3>3
      <3>5. Len(e) <= Len(s) /\ \A i \in 1 .. Len(e) : s[i] = e[i]
        BY <3>1, <3>2, NotShort
      <3>6. n + 1 \in 1 .. Len(s) /\ s[n + 1] = MaxByte
        BY <1>3, <3>4, <3>5
      <3> QED
        BY <1>4, <1>5, <3>6
    <2> QED
      BY <1>1, <1>4, <1>5, <2>1 DEF PartResult
  <1>6. CASE end # 0
    <2> DEFINE v == SubSeq(s, 1, end - 1)
               e == SubSeq(s, 1, end)
    <2>1. /\ v \in Seq(Byte) /\ Len(v) = end - 1 /\ \A i \in 1 .. end - 1 : v[i] = s[i]
          /\ e \in Seq(Byte) /\ Len(e) = end /\ \A i \in 1 .. end : e[i] = s[i]
      <3>1. end - 1 \in 0 .. Len(s) /\ \A i \in 1 .. end : i \in 1 .. Len(s)
        BY <1>3, <1>6
      <3>2. v \in Seq(Byte) /\ Len(v) = end - 1 /\ \A i \in 1 .. end - 1 : v[i] = s[i]
        BY <1>3, <3>1
      <3>3. e \in Seq(Byte) /\ Len(e) = end /\ \A i \in 1 .. end : e[i] = s[i]
        BY <1>3, <3>1
      <3> QED
        BY <3>2, <3>3
    <2>2. s = e \o Rest(s, end) /\ Rest(s, end) \in ByteStrings
      <3>1. Rest(s, end) \in ByteStrings
        BY RestIs
      <3> QED
        BY <1>3, <3>1, SplitSeq DEF Rest
    <2>3. decode_str(s) = <<v, Rest(s, end)>>
      BY <1>4, <1>6
    <2> HIDE DEF v, e
    <2>4. v \in Values("str")
      <3>1. \A i \in 1 .. Len(v) : v[i] \in Byte \ {MaxByte}
        BY <1>4, <1>6, <2>1
      <3> QED
        BY <1>2, <2>1, <3>1
    <2>5. Append(v, MaxByte) = e
      <3>1. PICK f \in ByteStrings :
                /\ f = Append(v, MaxByte) /\ Len(f) = Len(v) + 1 /\ f[Len(v) + 1] = MaxByte
                /\ \A i \in 1 .. Len(v) : f[i] = v[i]
        BY <1>2, <2>4, Terminated
      <3>2. Len(v) + 1 = end
        BY <1>3, <2>1
      <3>3. ASSUME NEW i \in 1 .. end PROVE f[i] = e[i]
        <4>1. CASE i = end
          BY <1>4, <1>6, <2>1, <3>1, <3>2, <4>1
        <4>2. CASE i # end
          <5>1. i \in 1 .. end - 1
            BY <1>3, <4>2
          <5> QED
            BY <2>1, <3>1, <5>1
        <4> QED
          BY <4>1, <4>2
      <3> QED
        BY <2>1, <3>1, <3>2, <3>3 DEF ByteStrings
    <2>6. PartReads("str", s, v, Rest(s, end))
      BY <1>2, <2>2, <2>4, <2>5 DEF PartReads
    <2> QED
      BY <1>1, <2>2, <2>3, <2>4, <2>6 DEF PartResult
  <1> QED
    BY <1>5, <1>6

LEMMA BytesDecoded ==
    ASSUME NEW s \in ByteStrings
    PROVE  PartResult("bytes", s, decode_part("bytes", s))
  <1>1. decode_part("bytes", s) = decode_unsized_key_bytes(s)
    BY DEF decode_part
  <1>2. Values("bytes") = ByteStrings /\ \A v : EncodePart("bytes", v) = encode_unsized_key_bytes(v)
    BY DEF Values, EncodePart, ByteStrings
  <1>3. \A v, r : PartReads("bytes", s, v, r) <=> Reads(s, v, r)
    BY <1>2 DEF PartReads, Reads
  <1> QED
    BY <1>1, <1>2, <1>3, UnsizedDecoded DEF PartResult

(* decode_part inverts encode, for every part type: what it accepts is the
   encoding of the value it returns followed by the bytes it leaves, and it
   panics only where no encoding begins. *)
THEOREM PartDecoded ==
    ASSUME NEW t \in PartTypes, NEW s \in ByteStrings
    PROVE  PartResult(t, s, decode_part(t, s))
  BY UnsignedDecoded, SignedDecoded, EnumDecoded, BoolDecoded, ArrayDecoded, TextDecoded, BytesDecoded
     DEF PartTypes

-------------------------------------------------------------------------------
(* Keys *)

(* A key, or the start of one, with one more part. *)
LEMMA PartialAppend ==
    ASSUME NEW kt \in Seq(PartTypes), NEW k, Partial(kt, k), Len(k) < Len(kt),
           NEW v \in Values(kt[Len(k) + 1])
    PROVE  /\ Partial(kt, Append(k, v)) /\ Len(Append(k, v)) = Len(k) + 1
           /\ encode(kt, Append(k, v)) = encode(kt, k) \o EncodePart(kt[Len(k) + 1], v)
  <1> DEFINE t == kt[Len(k) + 1]
             l == Append(k, v)
  <1>1. k \in Seq(AnyValue) /\ Len(k) \in Nat /\ Len(kt) \in Nat /\ Len(k) + 1 \in 1 .. Len(kt)
    BY DEF Partial
  <1>2. t \in PartTypes
    BY <1>1
  <1>3. v \in AnyValue
    BY <1>2 DEF AnyValue
  <1>4. l \in Seq(AnyValue) /\ Len(l) = Len(k) + 1 /\ l[Len(k) + 1] = v
        /\ \A i \in 1 .. Len(k) : l[i] = k[i]
    BY <1>1, <1>3
  <1> HIDE DEF t, l
  <1>5. Partial(kt, l)
    <2>1. ASSUME NEW i \in 1 .. Len(l) PROVE l[i] \in Values(kt[i])
      <3>1. CASE i = Len(k) + 1
        BY <1>4, <3>1
      <3>2. CASE i # Len(k) + 1
        <4>1. i \in 1 .. Len(k)
          BY <1>1, <1>4, <3>2
        <4> QED
          BY <1>4, <4>1 DEF Partial
      <3> QED
        BY <3>1, <3>2
    <2> QED
      BY <1>1, <1>4, <2>1 DEF Partial
  <1> DEFINE p == Parts(kt, k)
             q == Parts(kt, l)
             e == EncodePart(t, v)
  <1>6. /\ p \in Seq(ByteStrings) /\ Len(p) = Len(k) /\ \A i \in 1 .. Len(k) : p[i] = EncodePart(kt[i], k[i])
        /\ encode(kt, k) = FlattenSeq(p)
    BY PartsIs
  <1>7. /\ q \in Seq(ByteStrings) /\ Len(q) = Len(k) + 1
        /\ \A i \in 1 .. Len(k) + 1 : q[i] = EncodePart(kt[i], l[i])
        /\ encode(kt, l) = FlattenSeq(q)
    BY <1>4, <1>5, PartsIs
  <1>8. e \in ByteStrings
    BY <1>2, PartBytes DEF t
  <1> HIDE DEF p, q, e
  <1>9. q = Append(p, e)
    <2> DEFINE r == Append(p, e)
    <2>1. r \in Seq(ByteStrings)
      BY <1>6, <1>8
    <2>2. Len(r) = Len(p) + 1 /\ r[Len(p) + 1] = e /\ \A i \in 1 .. Len(p) : r[i] = p[i]
      BY <1>6, <1>8, AppendProperties
    <2> HIDE DEF r
    <2>3. ASSUME NEW i \in 1 .. Len(k) + 1 PROVE q[i] = r[i]
      <3>1. CASE i = Len(k) + 1
        BY <1>4, <1>6, <1>7, <2>2, <3>1 DEF e, t
      <3>2. CASE i # Len(k) + 1
        <4>1. i \in 1 .. Len(k)
          BY <1>1, <3>2
        <4> QED
          BY <1>4, <1>6, <1>7, <2>2, <4>1
      <3> QED
        BY <3>1, <3>2
    <2> QED
      BY <1>6, <1>7, <2>1, <2>3, <2>2 DEF r
  <1>10. FlattenSeq(q) = FlattenSeq(p) \o e
    BY <1>6, <1>8, <1>9, FlattenAppend
  <1> QED
    BY <1>4, <1>5, <1>6, <1>7, <1>10 DEF l, e, t

(* A part is not longer than its encoding. *)
LEMMA EscapedLonger ==
    ASSUME NEW s \in ByteStrings
    PROVE  Len(s) <= Len(encode_unsized_key_bytes(s))
  <1> DEFINE enc(x) == encode_unsized_key_bytes(x)
             T == {n \in Nat : \A x \in ByteStrings : Len(x) = n => Len(x) <= Len(enc(x))}
  <1>1. \A x \in ByteStrings : enc(x) \in ByteStrings
    BY UnsizedBytes
  <1>2. \A x \in ByteStrings : Len(x) \in Nat
    BY DEF ByteStrings
  <1>3. 0 \in T
    <2> SUFFICES ASSUME NEW x \in ByteStrings, Len(x) = 0 PROVE Len(x) <= Len(enc(x))
      OBVIOUS
    <2>1. Len(enc(x)) \in Nat
      BY <1>1, <1>2
    <2> QED
      BY <2>1
  <1>4. ASSUME NEW n \in Nat, n \in T PROVE n + 1 \in T
    <2> SUFFICES ASSUME NEW x \in ByteStrings, Len(x) = n + 1 PROVE Len(x) <= Len(enc(x))
      OBVIOUS
    <2>1. x # <<>>
      OBVIOUS
    <2>2. PICK b \in Byte, y \in ByteStrings : Starts(x, b, y)
      BY <2>1, EmptyOrStarts
    <2>3. Len(x) = Len(y) + 1 /\ Len(y) \in Nat
      BY <1>2, <2>2, StartsLen
    <2>4. Len(y) = n
      BY <2>3
    <2>5. Len(y) <= Len(enc(y))
      BY <1>4, <2>4
    <2>6. enc(x) = Escaped(b) \o enc(y)
      BY <2>2, EscapeStarts
    <2>7. Escaped(b) \in ByteStrings /\ Len(Escaped(b)) \in Nat /\ Len(Escaped(b)) >= 1
      BY EscapedBelow DEF Escaped
    <2>8. enc(y) \in ByteStrings
      BY <1>1
    <2> HIDE DEF enc
    <2>9. Len(Escaped(b) \o enc(y)) = Len(Escaped(b)) + Len(enc(y)) /\ Len(enc(y)) \in Nat
      BY <2>7, <2>8 DEF ByteStrings
    <2> QED
      BY <2>3, <2>5, <2>6, <2>7, <2>9
  <1> HIDE DEF T
  <1>5. Len(s) \in T
    BY <1>2, <1>3, <1>4, SetInduction
  <1> QED
    BY <1>5 DEF T

(* Text and byte strings are no longer than their encodings. *)
LEMMA PartLonger ==
    ASSUME NEW t \in {"str", "bytes"}, NEW v \in Values(t)
    PROVE  Len(v) <= Len(EncodePart(t, v)) /\ Len(v) \in Nat /\ Len(EncodePart(t, v)) \in Nat
  <1>1. CASE t = "str"
    <2>1. v \in Seq(Byte \ {MaxByte}) /\ EncodePart(t, v) = Append(v, MaxByte)
      BY <1>1 DEF Values, EncodePart
    <2>2. Len(Append(v, MaxByte)) = Len(v) + 1 /\ Len(v) \in Nat
      BY <2>1, Terminated
    <2> QED
      BY <2>1, <2>2
  <1>2. CASE t = "bytes"
    <2>1. v \in ByteStrings /\ EncodePart(t, v) = encode_unsized_key_bytes(v)
      BY <1>2 DEF Values, EncodePart, ByteStrings
    <2>2. encode_unsized_key_bytes(v) \in ByteStrings /\ Len(v) <= Len(encode_unsized_key_bytes(v))
      BY <2>1, UnsizedBytes, EscapedLonger
    <2> QED
      BY <2>1, <2>2 DEF ByteStrings
  <1> QED
    BY <1>1, <1>2

(* Values up to a length are values, and values that are not longer are among
   them. *)
LEMMA BoundedIs ==
    ASSUME NEW X, NEW n \in Int
    PROVE  /\ BoundedSeq(X, n) \subseteq Seq(X)
           /\ \A x \in Seq(X) : Len(x) <= n => x \in BoundedSeq(X, n)
           /\ \A x \in BoundedSeq(X, n) : Len(x) <= n
  <1>1. BoundedSeq(X, n) = UNION {[1 .. m -> X] : m \in 0 .. n}
    BY DEF BoundedSeq, SeqOf
  <1>2. ASSUME NEW x \in BoundedSeq(X, n) PROVE x \in Seq(X) /\ Len(x) <= n
    <2>1. PICK m \in 0 .. n : x \in [1 .. m -> X]
      BY <1>1
    <2>2. x \in Seq(X) /\ Len(x) = m
      BY <2>1
    <2> QED
      BY <2>2
  <1>3. ASSUME NEW x \in Seq(X), Len(x) <= n PROVE x \in BoundedSeq(X, n)
    <2>1. x \in [1 .. Len(x) -> X] /\ Len(x) \in Nat
      BY LenProperties
    <2>2. Len(x) \in 0 .. n
      BY <1>3, <2>1
    <2> QED
      BY <1>1, <2>1, <2>2
  <1> QED
    BY <1>2, <1>3

(* ValuesOf is Values up to a length. *)
LEMMA ValuesOfIs ==
    ASSUME NEW t \in PartTypes, NEW n \in Int
    PROVE  /\ ValuesOf(t, n) \subseteq Values(t)
           /\ \A v \in Values(t) :
                 (t \in {"str", "bytes"} => Len(v) <= n) => v \in ValuesOf(t, n)
  <1>1. CASE t = "str"
    <2>1. ValuesOf(t, n) = BoundedSeq(Byte \ {MaxByte}, n) /\ Values(t) = Seq(Byte \ {MaxByte})
      BY <1>1 DEF ValuesOf, Values
    <2> QED
      BY <1>1, <2>1, BoundedIs
  <1>2. CASE t = "bytes"
    <2>1. ValuesOf(t, n) = BoundedSeq(Byte, n) /\ Values(t) = Seq(Byte)
      BY <1>2 DEF ValuesOf, Values
    <2> QED
      BY <1>2, <2>1, BoundedIs
  <1>3. CASE t \notin {"str", "bytes"}
    BY <1>3 DEF ValuesOf
  <1> QED
    BY <1>1, <1>2, <1>3

(* The keys of a type, part by part. *)
KeysNext(K, kt, i) == {Append(k, v) : k \in K, v \in ValuesOf(kt[i], MaxLength - 1)}

KeysStep(f, kt, i) == IF i = 0 THEN {<<>>} ELSE KeysNext(f[i - 1], kt, i)

KeysTable(f, kt) == f = [i \in 0 .. Len(kt) |-> KeysStep(f, kt, i)]

(* The recursion in KeysOf has a function that satisfies it. *)
LEMMA KeysTableExists ==
    ASSUME NEW kt \in Seq(PartTypes)
    PROVE  \E f : KeysTable(f, kt)
  <1> DEFINE D == 0 .. Len(kt)
             Good(n) == \E f : f = [j \in D |-> f[j]] /\ \A i \in D : i <= n => f[i] = KeysStep(f, kt, i)
             T == {n \in Nat : Good(n)}
  <1>1. Len(kt) \in Nat
    OBVIOUS
  <1>2. 0 \in T
    <2> DEFINE f == [j \in D |-> {<<>>}]
    <2>1. f = [j \in D |-> f[j]]
      OBVIOUS
    <2>2. \A i \in D : i <= 0 => f[i] = KeysStep(f, kt, i)
      BY DEF KeysStep
    <2> HIDE DEF f
    <2>3. Good(0)
      BY <2>1, <2>2
    <2> QED
      BY <2>3
  <1>3. ASSUME NEW n \in Nat, n \in T PROVE n + 1 \in T
    <2>1. PICK f : f = [j \in D |-> f[j]] /\ \A i \in D : i <= n => f[i] = KeysStep(f, kt, i)
      BY <1>3
    <2> DEFINE g == [j \in D |-> IF j = n + 1 THEN KeysStep(f, kt, j) ELSE f[j]]
    <2>2. g = [j \in D |-> g[j]]
      OBVIOUS
    <2>3. \A j \in D : g[j] = IF j = n + 1 THEN KeysStep(f, kt, j) ELSE f[j]
      OBVIOUS
    <2> HIDE DEF g
    <2>4. ASSUME NEW i \in D, i <= n + 1 PROVE g[i] = KeysStep(g, kt, i)
      <3>1. KeysStep(f, kt, i) = KeysStep(g, kt, i)
        <4>1. i # 0 => i - 1 \in D /\ i - 1 # n + 1
          BY <1>1, <2>4
        <4>2. i # 0 => f[i - 1] = g[i - 1]
          BY <2>3, <4>1
        <4>3. CASE i = 0
          BY <4>3 DEF KeysStep
        <4>4. CASE i # 0
          <5>1. KeysNext(f[i - 1], kt, i) = KeysNext(g[i - 1], kt, i)
            BY <4>2, <4>4, Zenon
          <5> QED
            BY <4>4, <5>1 DEF KeysStep
        <4> QED
          BY <4>3, <4>4
      <3>2. i = n + 1 \/ i <= n
        BY <2>4
      <3>3. CASE i = n + 1
        BY <2>3, <3>1, <3>3
      <3>4. CASE i <= n
        BY <2>1, <2>3, <3>1, <3>4
      <3> QED
        BY <3>2, <3>3, <3>4
    <2>5. Good(n + 1)
      BY <2>2, <2>4
    <2> QED
      BY <2>5
  <1> HIDE DEF Good
  <1>4. Len(kt) \in T
    BY <1>1, <1>2, <1>3, SetInduction
  <1>5. PICK f : f = [j \in D |-> f[j]] /\ \A i \in D : i <= Len(kt) => f[i] = KeysStep(f, kt, i)
    BY <1>4 DEF Good
  <1>6. \A i \in D : f[i] = KeysStep(f, kt, i)
    BY <1>1, <1>5
  <1> QED
    BY <1>5, <1>6 DEF KeysTable

LEMMA KeysOfIs ==
    ASSUME NEW kt \in Seq(PartTypes)
    PROVE  \E f : KeysTable(f, kt) /\ KeysOf(kt) = f[Len(kt)]
  <1> DEFINE f == CHOOSE f : KeysTable(f, kt)
  <1>1. KeysTable(f, kt)
    BY KeysTableExists
  <1>2. KeysOf(kt) = f[Len(kt)]
    BY DEF KeysOf, KeysTable, KeysStep, KeysNext
  <1> QED
    BY <1>1, <1>2

(* A start of a key as long as the type is a key. *)
LEMMA PartialIsKey ==
    ASSUME NEW kt, NEW k, Partial(kt, k), Len(k) = Len(kt)
    PROVE  IsKey(kt, k)
  <1>1. k \in Seq(AnyValue) /\ kt \in Seq(PartTypes)
    BY DEF Partial
  <1>2. k = [i \in 1 .. Len(k) |-> k[i]] /\ DOMAIN kt = 1 .. Len(kt)
    BY <1>1
  <1> QED
    BY <1>2 DEF IsKey, Partial

(* What KeysOf lists are keys. *)
LEMMA KeysAreKeys ==
    ASSUME NEW kt \in Seq(PartTypes), NEW k \in KeysOf(kt)
    PROVE  IsKey(kt, k)
  <1>1. PICK f : KeysTable(f, kt) /\ KeysOf(kt) = f[Len(kt)]
    BY KeysOfIs
  <1>2. Len(kt) \in Nat
    OBVIOUS
  <1>3. \A i \in 0 .. Len(kt) : f[i] = KeysStep(f, kt, i)
    BY <1>1 DEF KeysTable
  <1> DEFINE Good(n) == n <= Len(kt) => \A x \in f[n] : Partial(kt, x) /\ Len(x) = n
             T == {n \in Nat : Good(n)}
  <1>4. 0 \in T
    <2>1. f[0] = {<<>>}
      BY <1>2, <1>3 DEF KeysStep
    <2>2. Partial(kt, <<>>) /\ Len(<<>>) = 0
      BY <1>2 DEF Partial
    <2>3. Good(0)
      BY <2>1, <2>2
    <2> QED
      BY <2>3
  <1>5. ASSUME NEW n \in Nat, n \in T PROVE n + 1 \in T
    <2>1. ASSUME n + 1 <= Len(kt), NEW x \in f[n + 1] PROVE Partial(kt, x) /\ Len(x) = n + 1
      <3>1. n + 1 \in 1 .. Len(kt) /\ n + 1 \in 0 .. Len(kt) /\ (n + 1) - 1 = n /\ n + 1 # 0
        BY <1>2, <2>1
      <3>2. f[n + 1] = KeysNext(f[n], kt, n + 1)
        BY <1>3, <3>1 DEF KeysStep
      <3>3. PICK y \in f[n] : \E v \in ValuesOf(kt[n + 1], MaxLength - 1) : x = Append(y, v)
        BY <2>1, <3>2 DEF KeysNext
      <3>4. PICK v \in ValuesOf(kt[n + 1], MaxLength - 1) : x = Append(y, v)
        BY <3>3
      <3>5. Partial(kt, y) /\ Len(y) = n
        BY <1>5, <3>1, <3>3
      <3>6. kt[n + 1] \in PartTypes
        BY <3>1
      <3>7. MaxLength - 1 \in Int
        BY KeyTypesAssumption
      <3>8. v \in Values(kt[n + 1])
        BY <3>4, <3>6, <3>7, ValuesOfIs
      <3>9. Len(y) < Len(kt) /\ v \in Values(kt[Len(y) + 1])
        BY <3>1, <3>5, <3>8, <1>2
      <3>10. Partial(kt, Append(y, v)) /\ Len(Append(y, v)) = Len(y) + 1
        BY <3>5, <3>9, PartialAppend
      <3> QED
        BY <3>4, <3>5, <3>10
    <2>2. Good(n + 1)
      BY <2>1
    <2> QED
      BY <2>2
  <1> HIDE DEF Good
  <1>6. Len(kt) \in T
    BY <1>2, <1>4, <1>5, SetInduction
  <1>7. Partial(kt, k) /\ Len(k) = Len(kt)
    BY <1>1, <1>2, <1>6 DEF Good
  <1> QED
    BY <1>7, PartialIsKey

-------------------------------------------------------------------------------
(* The invariant *)

(* No value of the next part, followed by anything, is what the bytes are. *)
Stuck(kt, k, b) == \A v \in Values(kt[Len(k) + 1]), r \in ByteStrings :
                       ~PartReads(kt[Len(k) + 1], b, v, r)

(* What is read and what is left make up the input, part by part; a panic in
   decode_part means that no reading of the next part exists. *)
CodecInv ==
    /\ type \in KeyTypes
    /\ input \in BoundedSeq(Byte, MaxLength)
    /\ status \in Statuses
    /\ bytes \in ByteStrings
    /\ Partial(type, key)
    /\ input = encode(type, key) \o bytes
    /\ status \in {"returned", "ok", "left_over"} => Len(key) = Len(type)
    /\ status = "ok" => bytes = <<>>
    /\ status = "panicked" => Len(key) < Len(type) /\ Stuck(type, key, bytes)

(* The key types of the specification, and the inputs. *)
LEMMA CodecTypes ==
    /\ \A kt \in KeyTypes : kt \in Seq(PartTypes)
    /\ BoundedSeq(Byte, MaxLength) \subseteq ByteStrings
  <1>1. MaxLength \in Int
    BY KeyTypesAssumption
  <1> QED
    BY <1>1, KeyTypesAssumption, BoundedIs DEF ByteStrings

(* Before the first part nothing has been read. *)
LEMMA EmptyKey ==
    ASSUME NEW kt \in Seq(PartTypes)
    PROVE  Partial(kt, <<>>) /\ encode(kt, <<>>) = <<>>
  <1>1. Partial(kt, <<>>)
    BY DEF Partial
  <1>2. /\ Parts(kt, <<>>) \in Seq(ByteStrings) /\ Len(Parts(kt, <<>>)) = 0
        /\ encode(kt, <<>>) = FlattenSeq(Parts(kt, <<>>))
    BY <1>1, PartsIs
  <1>3. PICK q \in Seq(ByteStrings) : q = Parts(kt, <<>>)
    BY <1>2
  <1>4. PICK f : Joins(f, q)
    BY JoinsExists
  <1>5. FlattenSeq(q) = <<>>
    BY <1>2, <1>3, <1>4, FlattenIs
  <1> QED
    BY <1>1, <1>2, <1>3, <1>5

(* The invariant holds when decode_part begins. *)
LEMMA CodecInit == Init => CodecInv
  <1> SUFFICES ASSUME Init PROVE CodecInv
    OBVIOUS
  <1>1. type \in Seq(PartTypes) /\ input \in ByteStrings
    BY CodecTypes DEF Init
  <1>2. Partial(type, <<>>) /\ encode(type, <<>>) = <<>>
    BY <1>1, EmptyKey
  <1>3. input = <<>> \o input
    BY <1>1 DEF ByteStrings
  <1> QED
    BY <1>1, <1>2, <1>3 DEF Init, CodecInv, Statuses

(* A part that decodes moves its encoding from the unread bytes to the key. *)
LEMMA CodecDecodePart == CodecInv /\ DecodePart => CodecInv'
  <1> SUFFICES ASSUME CodecInv, DecodePart PROVE CodecInv'
    OBVIOUS
  <1> DEFINE t == type[Len(key) + 1]
             result == decode_part(t, bytes)
  <1>1. type \in Seq(PartTypes) /\ bytes \in ByteStrings /\ Partial(type, key)
    BY CodecTypes DEF CodecInv
  <1>2. Len(key) \in Nat /\ Len(key) < Len(type) /\ t \in PartTypes
    <2>1. Len(key) \in Nat /\ Len(key) < Len(type)
      BY <1>1 DEF Partial, DecodePart
    <2> QED
      BY <1>1, <2>1
  <1>3. PartResult(t, bytes, result)
    BY <1>1, <1>2, PartDecoded
  <1>4. UNCHANGED <<type, input>> /\ status = "decoding"
    BY DEF DecodePart
  <1>5. CASE result = Panic
    <2>1. status' = "panicked" /\ UNCHANGED <<key, bytes>>
      BY <1>5 DEF DecodePart
    <2>2. \A v, r : <<v, r>> # Panic
      BY DEF Panic
    <2>3. \A v \in Values(t), r \in ByteStrings : ~PartReads(t, bytes, v, r)
      BY <1>3, <1>5, <2>2 DEF PartResult
    <2>4. Stuck(type, key, bytes)
      BY <2>3 DEF Stuck
    <2> QED
      BY <1>2, <1>4, <2>1, <2>4 DEF CodecInv, Statuses
  <1>6. CASE result # Panic
    <2>1. key' = Append(key, result[1]) /\ bytes' = result[2] /\ status' = status
      BY <1>6 DEF DecodePart
    <2>2. PICK v \in Values(t), r \in ByteStrings : result = <<v, r>> /\ PartReads(t, bytes, v, r)
      BY <1>3, <1>6 DEF PartResult
    <2>3. key' = Append(key, v) /\ bytes' = r
      BY <2>1, <2>2
    <2>4. /\ Partial(type, Append(key, v)) /\ Len(Append(key, v)) = Len(key) + 1
          /\ encode(type, Append(key, v)) = encode(type, key) \o EncodePart(t, v)
      BY <1>1, <1>2, PartialAppend
    <2>5. encode(type, key) \in ByteStrings /\ EncodePart(t, v) \in ByteStrings
      BY <1>1, <1>2, PartsIs, PartBytes
    <2>6. bytes = EncodePart(t, v) \o r
      BY <2>2 DEF PartReads
    <2>7. input = encode(type, key) \o (EncodePart(t, v) \o r)
      BY <2>6 DEF CodecInv
    <2>8. input = encode(type, Append(key, v)) \o r
      BY <2>4, <2>5, <2>7, ConcatAssociates
    <2> QED
      BY <1>4, <2>1, <2>3, <2>4, <2>8 DEF CodecInv, Statuses
  <1> QED
    BY <1>5, <1>6

(* The invariant is kept by every step of decode_part and decode. *)
LEMMA CodecNext == CodecInv /\ [Next]_vars => CodecInv'
  <1> SUFFICES ASSUME CodecInv, [Next]_vars PROVE CodecInv'
    OBVIOUS
  <1>1. CASE DecodePart
    BY <1>1, CodecDecodePart
  <1>2. CASE DecodeReturn
    BY <1>2 DEF DecodeReturn, CodecInv, Statuses
  <1>3. CASE Decode
    BY <1>3 DEF Decode, CodecInv, Statuses
  <1>4. CASE UNCHANGED vars
    BY <1>4 DEF vars, CodecInv
  <1> QED
    BY <1>1, <1>2, <1>3, <1>4 DEF Next

(* CodecInv in every state: what decode_part has read so far, encoded again,
   followed by what it has not read, is its input, and it panics only where the
   next part cannot be read. *)
THEOREM CodecInvariant == Spec => []CodecInv
  BY CodecInit, CodecNext, PTL DEF Spec

-------------------------------------------------------------------------------
(* The properties *)

(* A concatenation has the one as a prefix and the other as a suffix. *)
LEMMA ConcatEnds ==
    ASSUME NEW a \in ByteStrings, NEW b \in ByteStrings, NEW s, s = a \o b
    PROVE  s \in ByteStrings /\ Len(s) = Len(a) + Len(b) /\ Len(a) \in Nat /\ Len(b) \in Nat
           /\ IsPrefix(a, s) /\ IsSuffix(b, s)
  <1>1. s \in ByteStrings /\ Len(s) = Len(a) + Len(b) /\ Len(a) \in Nat /\ Len(b) \in Nat
    BY DEF ByteStrings
  <1>2. \A i \in 1 .. Len(a) : s[i] = a[i]
    BY DEF ByteStrings
  <1>3. \A i \in 1 .. Len(b) : s[Len(a) + i] = b[i]
    BY DEF ByteStrings
  <1>4. IsPrefix(a, s)
    <2>1. Len(a) <= Len(s) /\ \A i \in 1 .. Len(a) : a[i] = s[i]
      BY <1>1, <1>2
    <2> QED
      BY <1>1, <2>1, PrefixIs
  <1>5. PICK m \in Nat, n \in Nat : m = Len(a) /\ n = Len(b) /\ Len(s) = m + n
    BY <1>1
  <1>6. PICK x : x = Reverse(b)
    OBVIOUS
  <1>7. PICK y : y = Reverse(s)
    OBVIOUS
  <1>8. x = [i \in 1 .. n |-> b[(n - i) + 1]]
    BY <1>5, <1>6 DEF Reverse
  <1>9. y = [i \in 1 .. m + n |-> s[(m + n - i) + 1]]
    BY <1>5, <1>7 DEF Reverse
  <1>10. ASSUME NEW i \in 1 .. n PROVE b[(n - i) + 1] \in Byte /\ y[i] = b[(n - i) + 1]
    <2>1. (n - i) + 1 \in 1 .. n /\ i \in 1 .. m + n /\ (m + n - i) + 1 = m + ((n - i) + 1)
      BY <1>5
    <2>2. y[i] = s[(m + n - i) + 1]
      BY <1>9, <2>1
    <2>3. PICK j \in 1 .. n : j = (n - i) + 1
      BY <2>1
    <2>4. s[m + j] = b[j] /\ b[j] \in Byte
      BY <1>3, <1>5 DEF ByteStrings
    <2> QED
      BY <2>1, <2>2, <2>3, <2>4
  <1>11. ASSUME NEW i \in 1 .. m + n PROVE y[i] \in Byte
    <2>1. (m + n - i) + 1 \in 1 .. m + n
      BY <1>5
    <2>2. PICK j \in 1 .. m + n : j = (m + n - i) + 1
      BY <2>1
    <2>3. s[j] \in Byte
      BY <1>1, <1>5 DEF ByteStrings
    <2> QED
      BY <1>9, <2>2, <2>3
  <1>12. x \in ByteStrings /\ Len(x) = n /\ \A i \in 1 .. n : x[i] = b[(n - i) + 1]
    <2>1. x \in [1 .. n -> Byte]
      BY <1>8, <1>10
    <2>2. x \in Seq(Byte) /\ Len(x) = n
      BY <2>1
    <2> QED
      BY <1>8, <2>2 DEF ByteStrings
  <1>13. y \in ByteStrings /\ Len(y) = m + n
    <2>1. y \in [1 .. m + n -> Byte]
      BY <1>9, <1>11
    <2>2. m + n \in Nat
      BY <1>5
    <2>3. y \in Seq(Byte) /\ Len(y) = m + n
      BY <2>1, <2>2
    <2> QED
      BY <2>3 DEF ByteStrings
  <1>14. IsPrefix(x, y)
    BY <1>5, <1>10, <1>12, <1>13, PrefixIs
  <1>15. IsSuffix(b, s)
    BY <1>6, <1>7, <1>14 DEF IsSuffix
  <1> QED
    BY <1>1, <1>4, <1>15

(* The bytes behind a prefix. *)
LEMMA PrefixRest ==
    ASSUME NEW a \in ByteStrings, NEW s \in ByteStrings, IsPrefix(a, s)
    PROVE  \E r \in ByteStrings : s = a \o r
  <1>1. Len(a) <= Len(s) /\ \A i \in 1 .. Len(a) : a[i] = s[i]
    BY PrefixIs
  <1>2. Len(a) \in Nat /\ Len(s) \in Nat /\ a \in Seq(Byte) /\ s \in Seq(Byte)
    BY DEF ByteStrings
  <1>3. PICK n \in 0 .. Len(s) : n = Len(a)
    BY <1>1, <1>2
  <1>4. s = SubSeq(s, 1, n) \o SubSeq(s, n + 1, Len(s))
    BY <1>2, SplitSeq
  <1>5. SubSeq(s, 1, n) = a
    <2>1. n \in 0 .. Len(a) /\ n <= Len(s)
      BY <1>1, <1>2, <1>3
    <2>2. SubSeq(a, 1, n) = SubSeq(s, 1, n)
      BY <1>1, <1>2, <1>3, <2>1, SameStart
    <2>3. SubSeq(a, 1, n) = a
      BY <1>2, <1>3
    <2> QED
      BY <2>2, <2>3
  <1>6. SubSeq(s, n + 1, Len(s)) \in ByteStrings
    BY <1>2 DEF ByteStrings
  <1> QED
    BY <1>4, <1>5, <1>6

(* Byte strings with the same bytes are the same. *)
LEMMA SameBytes ==
    ASSUME NEW b \in ByteStrings, NEW c \in ByteStrings, Len(b) = Len(c),
           \A i \in 1 .. Len(b) : b[i] = c[i]
    PROVE  b = c
  BY DEF ByteStrings

(* What follows the same bytes in the same whole is the same. *)
LEMMA SameRest ==
    ASSUME NEW a \in ByteStrings, NEW b \in ByteStrings, NEW c \in ByteStrings, a \o b = a \o c
    PROVE  b = c
  <1>1. PICK s : s = a \o b
    OBVIOUS
  <1>2. s = a \o c
    BY <1>1
  <1>3. Len(s) = Len(a) + Len(b) /\ Len(a) \in Nat /\ Len(b) \in Nat /\ Len(s) = Len(a) + Len(c) /\ Len(c) \in Nat
    BY <1>1, <1>2, ConcatEnds
  <1>4. Len(b) = Len(c)
    BY <1>3
  <1>5. \A i \in 1 .. Len(b) : s[Len(a) + i] = b[i]
    BY <1>1 DEF ByteStrings
  <1>6. \A i \in 1 .. Len(c) : s[Len(a) + i] = c[i]
    BY <1>2 DEF ByteStrings
  <1>7. ASSUME NEW i \in 1 .. Len(b) PROVE b[i] = c[i]
    <2>1. s[Len(a) + i] = b[i]
      BY <1>5
    <2>2. i \in 1 .. Len(c)
      BY <1>4
    <2>3. s[Len(a) + i] = c[i]
      BY <1>6, <2>2
    <2> QED
      BY <2>1, <2>3
  <1> QED
    BY <1>4, <1>7, SameBytes

(* Two prefixes of the same bytes: one is a prefix of the other. *)
LEMMA PrefixesCompare ==
    ASSUME NEW a \in ByteStrings, NEW b \in ByteStrings, NEW s \in ByteStrings,
           IsPrefix(a, s), IsPrefix(b, s)
    PROVE  IsPrefix(a, b) \/ IsPrefix(b, a)
  <1>1. /\ Len(a) <= Len(s) /\ \A i \in 1 .. Len(a) : a[i] = s[i]
        /\ Len(b) <= Len(s) /\ \A i \in 1 .. Len(b) : b[i] = s[i]
    BY PrefixIs
  <1>2. Len(a) \in Nat /\ Len(b) \in Nat
    BY DEF ByteStrings
  <1>3. CASE Len(a) <= Len(b)
    BY <1>1, <1>2, <1>3, PrefixIs
  <1>4. CASE Len(b) <= Len(a)
    BY <1>1, <1>2, <1>4, PrefixIs
  <1> QED
    BY <1>2, <1>3, <1>4

(* A part is among the values of its type that are as long as the input. *)
LEMMA PartsFit ==
    ASSUME CodecInv, NEW i \in 1 .. Len(key)
    PROVE  key[i] \in ValuesOf(type[i], MaxLength)
  <1>1. type \in Seq(PartTypes) /\ Partial(type, key) /\ bytes \in ByteStrings
    BY CodecTypes DEF CodecInv
  <1>2. Len(key) \in Nat /\ Len(key) <= Len(type) /\ key[i] \in Values(type[i])
    BY <1>1 DEF Partial
  <1>3. type[i] \in PartTypes
    BY <1>1, <1>2
  <1>4. PICK t \in PartTypes : t = type[i]
    BY <1>3
  <1>5. PICK v \in Values(t) : v = key[i]
    BY <1>2, <1>4
  <1>6. MaxLength \in Int
    BY KeyTypesAssumption
  <1>7. ASSUME t \in {"str", "bytes"} PROVE Len(v) <= MaxLength
    <2>1. Len(v) <= Len(EncodePart(t, v)) /\ Len(v) \in Nat /\ Len(EncodePart(t, v)) \in Nat
      BY <1>7, PartLonger
    <2>2. PICK e \in ByteStrings : e = EncodePart(t, v)
      BY PartBytes
    <2>3. PICK a \in ByteStrings, w \in ByteStrings : CutAt(type, key, i, a, w)
      BY <1>1, EncodeAt
    <2>4. encode(type, key) = a \o (e \o w)
      BY <1>4, <1>5, <2>2, <2>3 DEF CutAt
    <2>5. e \o w \in ByteStrings /\ Len(e \o w) = Len(e) + Len(w) /\ Len(w) \in Nat
      BY ConcatEnds
    <2>6. PICK x \in ByteStrings : x = e \o w
      BY <2>5
    <2>7. encode(type, key) = a \o x
      BY <2>4, <2>6
    <2>8. PICK y \in ByteStrings : y = encode(type, key)
      BY <1>1, PartsIs
    <2>9. Len(y) = Len(a) + Len(x) /\ Len(a) \in Nat /\ Len(x) \in Nat
      BY <2>7, <2>8, ConcatEnds
    <2>10. input = y \o bytes
      BY <2>8 DEF CodecInv
    <2>11. Len(input) = Len(y) + Len(bytes) /\ Len(bytes) \in Nat
      BY <1>1, <2>10, ConcatEnds
    <2>12. Len(input) <= MaxLength
      BY <1>6, BoundedIs DEF CodecInv
    <2>13. Len(x) = Len(e) + Len(w)
      BY <2>5, <2>6
    <2> QED
      BY <1>6, <2>1, <2>2, <2>5, <2>9, <2>11, <2>12, <2>13
  <1> QED
    BY <1>4, <1>5, <1>6, <1>7, ValuesOfIs

LEMMA CodecTypeOK == CodecInv => TypeOK
  <1> SUFFICES ASSUME CodecInv PROVE TypeOK
    OBVIOUS
  <1>1. type \in Seq(PartTypes) /\ Partial(type, key) /\ bytes \in ByteStrings
    BY CodecTypes DEF CodecInv
  <1>2. encode(type, key) \in ByteStrings /\ input = encode(type, key) \o bytes
    BY <1>1, PartsIs DEF CodecInv
  <1>3. IsSuffix(bytes, input)
    BY <1>1, <1>2, ConcatEnds
  <1>4. Len(key) <= Len(type) /\ DOMAIN key = 1 .. Len(key)
    BY <1>1 DEF Partial
  <1>5. \A i \in DOMAIN key : key[i] \in ValuesOf(type[i], MaxLength)
    BY <1>4, PartsFit
  <1> QED
    BY <1>3, <1>4, <1>5 DEF TypeOK, CodecInv

(* TypeOK for every MaxByte, key type and length: what decode_part has read so
   far are values of the part types of the tuple, no longer than the input, and
   what it has not read is the end of the input. *)
THEOREM CodecTypeCorrect == Spec => []TypeOK
  BY CodecInvariant, CodecTypeOK, PTL

LEMMA CodecCanonical == CodecInv => DecodeIsCanonical
  <1> SUFFICES ASSUME CodecInv PROVE DecodeIsCanonical
    OBVIOUS
  <1>1. type \in Seq(PartTypes) /\ Partial(type, key)
    BY CodecTypes DEF CodecInv
  <1>2. PICK e \in ByteStrings : e = encode(type, key)
    BY <1>1, PartsIs
  <1>3. e \o <<>> = e
    BY DEF ByteStrings
  <1> QED
    BY <1>2, <1>3 DEF CodecInv, DecodeIsCanonical

(* DecodeIsCanonical for every MaxByte, key type and length: decode_part accepts
   only bytes that begin with what encode makes of the key it returns, and
   decode only what encode makes. *)
THEOREM DecodeIsCanonicalHolds == Spec => []DecodeIsCanonical
  BY CodecInvariant, CodecCanonical, PTL

(* s is a, and then b. *)
Cut(s, a, b) == s = a \o b

(* What begins with a and then b begins with a, and the others begin with b. *)
LEMMA CutAgain ==
    ASSUME NEW a \in ByteStrings, NEW b \in ByteStrings, NEW c \in ByteStrings, NEW x, NEW s,
           Cut(x, a, b), Cut(s, x, c)
    PROVE  \E y \in ByteStrings : Cut(s, a, y) /\ Cut(y, b, c)
  <1>1. b \o c \in ByteStrings
    BY ConcatBytes
  <1>2. PICK y \in ByteStrings : y = b \o c
    BY <1>1
  <1>3. (a \o b) \o c = a \o (b \o c)
    BY ConcatAssociates
  <1>4. Cut(s, a, y) /\ Cut(y, b, c)
    BY <1>2, <1>3 DEF Cut
  <1> QED
    BY <1>4

(* What follows the same beginning is the same. *)
LEMMA CutSame ==
    ASSUME NEW a \in ByteStrings, NEW b \in ByteStrings, NEW c \in ByteStrings, NEW s,
           Cut(s, a, b), Cut(s, a, c)
    PROVE  b = c
  <1>1. a \o b = a \o c
    BY DEF Cut
  <1> QED
    BY <1>1, SameRest

(* When the input begins with the encoding of a key, decode_part does not panic
   on any of its parts. *)
LEMMA NotStuck ==
    ASSUME CodecInv, Len(key) < Len(type), Stuck(type, key, bytes),
           NEW k, IsKey(type, k), IsPrefix(encode(type, k), input)
    PROVE  FALSE
  <1>1. /\ type \in Seq(PartTypes) /\ Partial(type, key) /\ bytes \in ByteStrings
        /\ input \in ByteStrings
    BY CodecTypes DEF CodecInv
  <1>2. Partial(type, k) /\ Len(k) = Len(type)
    BY <1>1, KeyIs
  <1>3. Len(key) \in Nat /\ Len(k) \in Nat /\ Len(key) <= Len(k)
    BY <1>1, <1>2 DEF Partial
  <1>4. PICK e \in ByteStrings : e = encode(type, key)
    BY <1>1, PartsIs
  <1>5. PICK c \in ByteStrings : c = encode(type, k)
    BY <1>2, PartsIs
  <1>6. input = e \o bytes /\ IsPrefix(e, input) /\ IsPrefix(c, input)
    BY <1>1, <1>4, <1>5, ConcatEnds DEF CodecInv
  <1>7. IsPrefix(e, c) \/ IsPrefix(c, e)
    BY <1>1, <1>6, PrefixesCompare
  <1>8. ~KeyBefore(type, k, key) /\ ~KeyBefore(type, key, k)
    BY <1>4, <1>5, <1>7, BelowOrders DEF KeyBefore
  <1>9. IsPrefix(key, k)
    BY <1>1, <1>2, <1>3, <1>8, Position
  <1>10. PICK i \in 1 .. Len(k) : i = Len(key) + 1
    BY <1>2, <1>3
  <1>11. PICK a \in ByteStrings, w \in ByteStrings : CutAt(type, k, i, a, w)
    BY <1>2, EncodeAt
  <1>12. SubSeq(k, 1, i - 1) = key
    <2>1. SubSeq(key, 1, Len(key)) = SubSeq(k, 1, Len(key)) /\ i - 1 = Len(key)
      BY <1>3, <1>9, <1>10 DEF IsPrefix
    <2>2. key \in Seq(AnyValue)
      BY <1>1 DEF Partial
    <2>3. SubSeq(key, 1, Len(key)) = key
      BY <2>2
    <2> QED
      BY <2>1, <2>3
  <1>13. a = e
    BY <1>4, <1>11, <1>12 DEF CutAt
  <1>14. type[i] \in PartTypes /\ k[i] \in Values(type[i])
    BY <1>1, <1>2 DEF Partial
  <1>15. PICK p \in ByteStrings : p = EncodePart(type[i], k[i])
    BY <1>14, PartBytes
  <1>16. PICK x \in ByteStrings : Cut(x, p, w) /\ Cut(c, e, x)
    <2>1. p \o w \in ByteStrings
      BY ConcatBytes
    <2>2. c = e \o (p \o w)
      BY <1>5, <1>11, <1>13, <1>15 DEF CutAt
    <2> QED
      BY <2>1, <2>2 DEF Cut
  <1>17. PICK r \in ByteStrings : Cut(input, c, r)
    BY <1>1, <1>6, PrefixRest DEF Cut
  <1>18. PICK y \in ByteStrings : Cut(input, e, y) /\ Cut(y, x, r)
    BY <1>16, <1>17, CutAgain
  <1>19. PICK z \in ByteStrings : Cut(y, p, z)
    BY <1>16, <1>18, CutAgain
  <1>20. bytes = y
    <2>1. Cut(input, e, bytes)
      BY <1>6 DEF Cut
    <2> QED
      BY <1>1, <1>18, <2>1, CutSame
  <1>21. PartReads(type[i], bytes, k[i], z)
    BY <1>14, <1>15, <1>19, <1>20 DEF PartReads, Cut
  <1> QED
    BY <1>10, <1>14, <1>21 DEF Stuck

(* Two keys whose encodings begin the same input are the same. *)
LEMMA CodecSelfDelimiting == CodecInv => EncodingIsSelfDelimiting
  <1> SUFFICES ASSUME CodecInv, status \in {"returned", "panicked"}, NEW k \in KeysOf(type),
                      IsPrefix(encode(type, k), input)
               PROVE  status = "returned" /\ key = k
    BY DEF EncodingIsSelfDelimiting
  <1>1. /\ type \in Seq(PartTypes) /\ Partial(type, key) /\ bytes \in ByteStrings
        /\ input \in ByteStrings
    BY CodecTypes DEF CodecInv
  <1>2. IsKey(type, k)
    BY <1>1, KeysAreKeys
  <1>3. status # "panicked"
    BY <1>2, NotStuck DEF CodecInv
  <1>4. status = "returned"
    BY <1>3
  <1>5. IsKey(type, key)
    BY <1>1, <1>4, PartialIsKey DEF CodecInv
  <1>6. PICK e \in ByteStrings : e = encode(type, key)
    BY <1>1, PartsIs
  <1>7. PICK c \in ByteStrings : c = encode(type, k)
    BY <1>1, <1>2, KeyIs, PartsIs
  <1>8. IsPrefix(e, input) /\ IsPrefix(c, input)
    BY <1>1, <1>6, <1>7, ConcatEnds DEF CodecInv
  <1>9. IsPrefix(e, c) \/ IsPrefix(c, e)
    BY <1>1, <1>8, PrefixesCompare
  <1>10. key = k
    BY <1>1, <1>2, <1>5, <1>6, <1>7, <1>9, EncodingsApart
  <1> QED
    BY <1>4, <1>10

(* EncodingIsSelfDelimiting for every MaxByte, key type and length: bytes that
   begin with the encoding of a key are read by decode_part as that key, never
   as another, and without a panic. *)
THEOREM SelfDelimitingHolds == Spec => []EncodingIsSelfDelimiting
  BY CodecInvariant, CodecSelfDelimiting, PTL

LEMMA CodecOrder == CodecInv => OrderPreserved
  <1> SUFFICES ASSUME CodecInv, status = "ok", Ordered(type), NEW l \in KeysOf(type)
               PROVE  KeyLess(type, key, l) <=> ByteLess(encode(type, key), encode(type, l))
    BY DEF OrderPreserved, OrdersLike
  <1>1. type \in Seq(PartTypes) /\ Partial(type, key)
    BY CodecTypes DEF CodecInv
  <1>2. IsKey(type, l)
    BY <1>1, KeysAreKeys
  <1>3. IsKey(type, key)
    BY <1>1, PartialIsKey DEF CodecInv
  <1>4. SameUnordered(type, key, l)
    BY <1>1 DEF SameUnordered, Ordered
  <1> QED
    BY <1>1, <1>2, <1>3, <1>4, EncodingKeepsOrder

(* OrderPreserved for every MaxByte, list of discriminants, key type and length:
   the bytes of keys are ordered as the keys are, in every type without text and
   without enums that have discriminants of both signs. *)
THEOREM OrderPreservedHolds == Spec => []OrderPreserved
  BY CodecInvariant, CodecOrder, PTL
===============================================================================
