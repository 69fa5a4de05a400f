----------------------------- MODULE MCKeyCodec -----------------------------
EXTENDS KeyCodec

(* Every part type, and tuples in which a part of variable size comes first,
   last and twice. *)
MCKeyTypes ==
    {<<"u8">>, <<"i8">>, <<"u16">>, <<"i16">>, <<"bool">>, <<"enum">>, <<"array">>, <<"bytes">>,
     <<"str">>, <<"i8", "u16">>, <<"enum", "bool", "i8">>, <<"bytes", "u8">>, <<"i8", "bytes">>,
     <<"str", "u8">>, <<"bytes", "str">>, <<"bytes", "bytes">>, <<"signed_enum">>,
     <<"signed_enum", "enum", "u8">>}

MCTextTypes == {<<"str">>}

(* Enums with the largest and the smallest discriminants. *)
MCDiscriminant ==
    [enum |-> [Queued |-> MaxByte, Running |-> 1, Done |-> 0],
     signed_enum |-> [Cold |-> -1, Frozen |-> -(Base \div 2), Warm |-> 0, Hot |-> (Base \div 2) - 1]]
=============================================================================
