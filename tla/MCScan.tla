------------------------------- MODULE MCScan -------------------------------
EXTENDS Scan

MCDiscriminant == [enum |-> [Queued |-> 0], signed_enum |-> [Cold |-> -1, Warm |-> 0]]

(* A store of every key of a type, with primary keys of which the last is the
   largest. *)
Full(kind, type, keys, pktype, pks) ==
    [kind |-> kind, type |-> type, pktype |-> pktype, keys |-> keys, pks |-> pks, start |-> keys,
     cursors |-> {}, commits |-> 0]

WithCursors(sch) ==
    [sch EXCEPT !.cursors = {e \in Entries(sch) : \E n \in 0 .. 3 : e.key \in {<<n>>, <<n, n>>}}]

Digits == {0, 1, MaxByte}
Ids == {<<0>>, <<MaxByte>>}

(* Keys and values at the borders of every carry, under each kind of store. *)
MCSchemas ==
    << WithCursors(Full("multi", <<"u8", "u8">>, Digits \X Digits, <<"u8">>, Ids)),
       WithCursors(Full("unique", <<"u8", "u8">>, Digits \X Digits, <<"u8">>, {<<0>>})),
       WithCursors(Full("primary", <<"u16">>, {<<n>> : n \in {0, 3, 4, 14, 15}}, <<"u16">>, {<<0>>})),
       Full("multi", <<"i8">>, {<<n>> : n \in -2 .. 1}, <<"bytes">>, {<<<<>>>>, <<<<0>>>>, <<<<3>>>>}),
       Full("multi", <<"bytes">>,
            {<<s>> : s \in {<<>>, <<0>>, <<1>>, <<3>>, <<0, 0>>, <<0, 3>>, <<3, 3>>}}, <<"u8">>, Ids),
       Full("unique", <<"u8", "bool", "u8">>, {0, MaxByte} \X BOOLEAN \X {0, MaxByte}, <<"u8">>, {<<0>>}),
       Full("multi", <<"str", "u8">>, {<<>>, <<0>>, <<2>>, <<0, 2>>} \X {0, MaxByte}, <<"u8">>, Ids),
       Full("unique", <<"signed_enum", "u8">>, {"Cold", "Warm"} \X {0, 1, MaxByte}, <<"u8">>, {<<0>>}) >>

(* A small store that others change while the client pages through it. *)
MCPagedSchemas ==
    << [kind |-> "multi", type |-> <<"u8">>, pktype |-> <<"u8">>, keys |-> {<<0>>, <<1>>, <<3>>},
        pks |-> Ids, start |-> {<<0>>, <<3>>}, cursors |-> {}, commits |-> 2],
       [kind |-> "unique", type |-> <<"u8">>, pktype |-> <<"u8">>, keys |-> {<<n>> : n \in 0 .. 3},
        pks |-> {<<0>>}, start |-> {<<n>> : n \in {0, 1, 3}}, cursors |-> {},
        commits |-> 2] >>

MCAllSchemas == MCSchemas \o MCPagedSchemas

(* A Multi index over one byte. *)
MCByteSchema == << Full("multi", <<"u8">>, {<<n>> : n \in Byte}, <<"u8">>, Ids) >>
=============================================================================
