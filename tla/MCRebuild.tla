------------------------------ MODULE MCRebuild ------------------------------
(***************************************************************************)
(* Rebuild for TLC: two records and two index types, a Unique and a Multi   *)
(* one, each with a store of its own.                                      *)
(***************************************************************************)
EXTENDS Rebuild, TLC

CONSTANTS v1, v2, k1, k2

(* Records of equal value clash in a Unique index, and may be there before it
   is registered. *)
OwnNames == <<1, 2>>
OwnKeys == [i \in 1 .. 2 |-> [r \in Records |-> IF r.val = v1 THEN k1 ELSE k2]]

MCDecode == [r \in Records |-> r]

(* The values may change places if the keys do. *)
Swap == (v1 :> v2) @@ (v2 :> v1) @@ (k1 :> k2) @@ (k2 :> k1)
MCSymmetry == Permutations(Pks) \union {p @@ Swap : p \in Permutations(Pks)}
===============================================================================
