----------------------------- MODULE KeyEncoding -----------------------------
(***************************************************************************)
(* The ordered key encodings of key.rs and macros.rs.                      *)
(*                                                                         *)
(* A key is a tuple of parts and a key type a tuple of part types; a       *)
(* scalar key is a tuple of one part, which the code encodes alike.  Bytes *)
(* are 0..MaxByte: MaxByte is the code's 0xff and also the largest digit   *)
(* of an integer, so a small MaxByte keeps every boundary and leaves out   *)
(* only bytes in the middle.  Text is a sequence of bytes below MaxByte    *)
(* (UTF-8 never has 0xff).                                                 *)
(***************************************************************************)
EXTENDS Integers, Sequences, SequencesExt

CONSTANTS
    MaxByte,
    Discriminant    \* Discriminant[t][v]: what an impl_enum_key! invocation lists for variant v,
                    \* t being "enum" or "signed_enum"

Base == MaxByte + 1
Byte == 0 .. MaxByte

ASSUME ByteAssumption == MaxByte \in Nat \ {0} /\ MaxByte % 2 = 1

(* An enum is given discriminants of an unsigned or of a signed integer type,
   here of one byte; as patterns of a match they differ. *)
ASSUME EnumAssumption ==
    /\ \A v \in DOMAIN Discriminant["enum"] : Discriminant["enum"][v] \in Byte
    /\ \A v \in DOMAIN Discriminant["signed_enum"] :
           Discriminant["signed_enum"][v] \in -(Base \div 2) .. (Base \div 2) - 1
    /\ \A t \in {"enum", "signed_enum"} : IsInjective(Discriminant[t])

PartTypes ==
    {"u8", "u16", "i8", "i16", "bool", "enum", "signed_enum", "array", "str", "bytes"}

(* Bytes of the integer types. *)
Width == [u8 |-> 1, u16 |-> 2, i8 |-> 1, i16 |-> 2]

(* Numbers of w digits: Base to the power w. *)
MaxWidth == 2
Power[w \in 0 .. MaxWidth] == IF w = 0 THEN 1 ELSE Base * Power[w - 1]

-------------------------------------------------------------------------------
(* Encoding *)

(* Mutant: little-endian. *)
to_be_bytes_Little(n, w) == [i \in 1 .. w |-> (n \div Power[i - 1]) % Base]

(* to_be_bytes: the w digits of n, most significant first.  (% Power[w] gives
   the digits of a signed integer, which are those of its two's complement.) *)
to_be_bytes(n, w) == [i \in 1 .. w |-> (n \div Power[w - i]) % Base]

from_be_bytes(s) ==
    LET value[i \in 0 .. Len(s)] == IF i = 0 THEN 0 ELSE Base * value[i - 1] + s[i]
    IN value[Len(s)]

(* `(x as unsigned) ^ MIN as unsigned' for a w-byte integer: flipping the
   highest bit adds half the range, modulo the range. *)
flip_sign(x, w) == (x + Power[w] \div 2) % Power[w]

(* Mutant: the bits are not read as a signed integer again. *)
as_signed_Unsigned(u, w) == u

(* The same bits read as a signed integer. *)
as_signed(u, w) == IF u < Power[w] \div 2 THEN u ELSE u - Power[w]

(* Mutant: zero bytes are not escaped. *)
encode_unsized_key_bytes_Raw(s) == s \o <<0, 0>>

(* 0x00 becomes 0x00 0xff, and 0x00 0x00 ends the value. *)
encode_unsized_key_bytes(s) ==
    FlattenSeq([i \in DOMAIN s |-> IF s[i] = 0 THEN <<0, MaxByte>> ELSE <<s[i]>>]) \o <<0, 0>>

EncodePart(t, v) ==
    CASE t \in {"u8", "u16"} -> to_be_bytes(v, Width[t])
      [] t \in {"i8", "i16"} -> to_be_bytes(flip_sign(v, Width[t]), Width[t])
      [] t = "enum"          -> to_be_bytes(Discriminant[t][v], 1)
      [] t = "signed_enum"   -> to_be_bytes(Discriminant[t][v] % Power[1], 1)
      [] t = "bool"          -> IF v THEN <<1>> ELSE <<0>>
      [] t = "array"         -> v
      [] t = "str"           -> Append(v, MaxByte)
      [] t = "bytes"         -> encode_unsized_key_bytes(v)

(* Tuples: the encodings of the parts, one after the other.  A key may be
   shorter than its type: then it is a prefix. *)
encode(type, key) == FlattenSeq([i \in DOMAIN key |-> EncodePart(type[i], key[i])])

-------------------------------------------------------------------------------
(* Decoding: <<value, unread bytes>>, or Panic *)

Panic == <<>>

Rest(s, n) == SubSeq(s, n + 1, Len(s))

(* decode_unsized_key_bytes: from position i on, the value and the position
   behind its terminator. *)
decode_unsized_key_bytes(s) ==
    LET Push(b, result) == IF result = Panic THEN Panic ELSE <<<<b>> \o result[1], result[2]>>
        from[i \in 1 .. Len(s) + 1] ==
            IF i > Len(s) THEN Panic
            ELSE IF s[i] # 0 THEN Push(s[i], from[i + 1])
            ELSE IF i = Len(s) THEN Panic
            ELSE IF s[i + 1] = 0 THEN <<<<>>, Rest(s, i + 1)>>
            ELSE IF s[i + 1] = MaxByte THEN Push(0, from[i + 2])
            ELSE Panic
    IN from[1]

(* Mutant: the terminator stays in the unread bytes. *)
decode_str_KeepsEnd(s) ==
    LET end == SelectInSeq(s, LAMBDA b : b = MaxByte)
    IN IF end = 0 THEN Panic ELSE <<SubSeq(s, 1, end - 1), Rest(s, end - 1)>>

(* <&str as Key>::decode_part *)
decode_str(s) ==
    LET end == SelectInSeq(s, LAMBDA b : b = MaxByte)
    IN IF end = 0 THEN Panic ELSE <<SubSeq(s, 1, end - 1), Rest(s, end)>>

(* split_at(n) of s, where the first n bytes stand for v if they are valid. *)
DecodeFixed(s, n, valid, v) ==
    IF Len(s) < n \/ ~valid THEN Panic ELSE <<v, Rest(s, n)>>

decode_part(t, s) ==
    LET uint(w) == from_be_bytes(SubSeq(s, 1, w))
        named(n) == {v \in DOMAIN Discriminant[t] : Discriminant[t][v] = n}
        variant(n) == DecodeFixed(s, 1, named(n) # {}, CHOOSE v \in named(n) : TRUE)
    IN CASE t \in {"u8", "u16"} -> DecodeFixed(s, Width[t], TRUE, uint(Width[t]))
         [] t \in {"i8", "i16"} ->
                DecodeFixed(s, Width[t], TRUE, as_signed(flip_sign(uint(Width[t]), Width[t]), Width[t]))
         [] t = "enum"  -> variant(s[1])
         [] t = "signed_enum" -> variant(as_signed(s[1], 1))
         [] t = "bool"  -> DecodeFixed(s, 1, s[1] \in {0, 1}, s[1] = 1)
         [] t = "array" -> DecodeFixed(s, 2, TRUE, SubSeq(s, 1, 2))
         [] t = "str"   -> decode_str(s)
         [] t = "bytes" -> decode_unsized_key_bytes(s)

-------------------------------------------------------------------------------
(* The values and their logical order *)

(* The values of a part type. *)
Values(t) ==
    CASE t \in {"u8", "u16"} -> 0 .. Power[Width[t]] - 1
      [] t \in {"i8", "i16"} -> -(Power[Width[t]] \div 2) .. (Power[Width[t]] \div 2) - 1
      [] t \in {"enum", "signed_enum"} -> DOMAIN Discriminant[t]
      [] t = "bool"  -> BOOLEAN
      [] t = "array" -> [1 .. 2 -> Byte]
      [] t = "str"   -> Seq(Byte \ {MaxByte})
      [] t = "bytes" -> Seq(Byte)

(* The same, with text and byte strings up to length n. *)
ValuesOf(t, n) ==
    CASE t = "str"   -> BoundedSeq(Byte \ {MaxByte}, n)
      [] t = "bytes" -> BoundedSeq(Byte, n)
      [] OTHER       -> Values(t)

(* A tuple with one value for each part of a key type. *)
IsKey(type, k) ==
    /\ k = [i \in DOMAIN type |-> k[i]]
    /\ \A i \in DOMAIN type : k[i] \in Values(type[i])

(* Sequences over an order: the first difference decides, and a sequence is
   above its proper prefixes. *)
LexLess(less(_, _), s, t) ==
    \/ IsStrictPrefix(s, t)
    \/ \E i \in DOMAIN s \intersect DOMAIN t :
           less(s[i], t[i]) /\ \A j \in 1 .. i - 1 : s[j] = t[j]

(* How ordered stores compare keys. *)
ByteLess(s, t) == LexLess(LAMBDA a, b : a < b, s, t)

(* Ord of the Rust type (for an enum, of the integers it is given). *)
PartLess(t, v, w) ==
    CASE t \in {"u8", "u16", "i8", "i16"} -> v < w
      [] t \in {"enum", "signed_enum"} -> Discriminant[t][v] < Discriminant[t][w]
      [] t = "bool" -> ~v /\ w
      [] t \in {"array", "str", "bytes"} -> ByteLess(v, w)

(* Ord of a tuple. *)
KeyLess(type, k, l) ==
    \E i \in DOMAIN k \intersect DOMAIN l :
        PartLess(type[i], k[i], l[i]) /\ \A j \in 1 .. i - 1 : k[j] = l[j]

(* Enums of which some discriminants are negative and others are not. *)
MixedSigns ==
    \E v, w \in DOMAIN Discriminant["signed_enum"] :
        Discriminant["signed_enum"][v] < 0 /\ 0 <= Discriminant["signed_enum"][w]

(* The part types of which encode does not keep the order ... *)
Unordered == {"str"} \union {t \in {"signed_enum"} : MixedSigns}

(* ... and the key types that have none of them. *)
Ordered(type) == \A i \in DOMAIN type : type[i] \notin Unordered
===============================================================================
