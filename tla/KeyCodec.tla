------------------------------- MODULE KeyCodec -------------------------------
(***************************************************************************)
(* Decoding of arbitrary bytes as a key: Key::decode_part of a tuple, which *)
(* decodes the parts one after the other and panics at the first that does *)
(* not decode, and Key::decode, which also panics on bytes left over.      *)
(***************************************************************************)
EXTENDS KeyEncoding

CONSTANTS
    KeyTypes,    \* the key types considered
    MaxLength    \* bound on the encoded bytes considered

VARIABLES
    type,    \* the key type
    input,   \* the bytes given to decode_part
    bytes,   \* those not read yet
    key,     \* the parts decoded so far
    status   \* where decode is, see Statuses

vars == <<type, input, bytes, key, status>>

(* decode_part is running, has returned or has panicked; then decode has
   returned, or has panicked because bytes are left over. *)
Statuses == {"decoding", "returned", "panicked", "ok", "left_over"}

ASSUME KeyTypesAssumption == KeyTypes \subseteq Seq(PartTypes) /\ MaxLength \in Nat

Init ==
    /\ type \in KeyTypes
    /\ input \in BoundedSeq(Byte, MaxLength)
    /\ bytes = input
    /\ key = <<>>
    /\ status = "decoding"

(* The next part of the tuple. *)
DecodePart ==
    /\ status = "decoding" /\ Len(key) < Len(type)
    /\ LET result == decode_part(type[Len(key) + 1], bytes)
       IN IF result = Panic
          THEN status' = "panicked" /\ UNCHANGED <<key, bytes>>
          ELSE /\ key' = Append(key, result[1])
               /\ bytes' = result[2]
               /\ UNCHANGED status
    /\ UNCHANGED <<type, input>>

(* All parts are decoded: the key and the unread bytes are returned. *)
DecodeReturn ==
    /\ status = "decoding" /\ Len(key) = Len(type)
    /\ status' = "returned"
    /\ UNCHANGED <<type, input, bytes, key>>

(* The rest of Key::decode. *)
Decode ==
    /\ status = "returned"
    /\ status' = IF bytes = <<>> THEN "ok" ELSE "left_over"
    /\ UNCHANGED <<type, input, bytes, key>>

Next == DecodePart \/ DecodeReturn \/ Decode

Spec == Init /\ [][Next]_vars

-------------------------------------------------------------------------------
(* The keys of a type; text and byte strings as long as MaxLength bytes hold. *)
KeysOf(t) ==
    LET keys[i \in 0 .. Len(t)] ==
            IF i = 0 THEN {<<>>}
            ELSE {Append(k, v) : k \in keys[i - 1], v \in ValuesOf(t[i], MaxLength - 1)}
    IN keys[Len(t)]

TypeOK ==
    /\ type \in KeyTypes
    /\ input \in BoundedSeq(Byte, MaxLength)
    /\ IsSuffix(bytes, input)
    /\ Len(key) <= Len(type)
    /\ \A i \in DOMAIN key : key[i] \in ValuesOf(type[i], MaxLength)
    /\ status \in Statuses

(* Concatenation keeps keys apart: bytes that start with the encoding of a key
   decode to that key and to no other, whatever follows it.  (The escaping and
   framing of variable-size parts, so that a composite key has one reading.) *)
EncodingIsSelfDelimiting ==
    status \in {"returned", "panicked"} =>
        \A k \in KeysOf(type) :
            IsPrefix(encode(type, k), input) => status = "returned" /\ key = k

(* Nothing but an encoding decodes: what decode_part accepts is, byte by byte,
   what encode makes of the key it returns, followed by the bytes it leaves,
   and decode accepts an encoding only. *)
DecodeIsCanonical ==
    /\ status = "returned" => encode(type, key) \o bytes = input
    /\ status = "ok" => encode(type, key) = input

(* Stores order keys as the program does: the order of encoded keys is the
   order of the keys. *)
OrdersLike(k) ==
    \A l \in KeysOf(type) :
        KeyLess(type, k, l) <=> ByteLess(encode(type, k), encode(type, l))

(* Integers, bool, arrays, byte strings, enums whose discriminants all have one
   sign, and tuples of them keep their order when encoded, in both directions. *)
OrderPreserved == status = "ok" /\ Ordered(type) => OrdersLike(key)

(* The same for text, as the Key trait demands of every implementation. *)
TextOrderPreserved ==
    status = "ok" /\ Contains(type, "str") => OrdersLike(key)
===============================================================================
