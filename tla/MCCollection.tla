----------------------------- MODULE MCCollection -----------------------------
(***************************************************************************)
(* Collection for TLC: two clients, two primary keys, three values and     *)
(* three indexes in registry order Multi, Unique, Unique, so that a write  *)
(* can fail on the second or third index after earlier ones are staged.    *)
(***************************************************************************)
EXTENDS Collection, TLC

CONSTANTS v1, v2, v3, k1, k2

(* Index 1 groups v1 and v2; index 2 tells v1 from the others; index 3 tells
   v3 from the others: two records may clash in one unique index and not in
   the other. *)
MCIndexKey ==
    [i \in 1 .. 3 |-> [r \in Records |->
        CASE i = 1 -> IF r.val = v3 THEN k2 ELSE k1
          [] i = 2 -> IF r.val = v1 THEN k1 ELSE k2
          [] i = 3 -> IF r.val = v3 THEN k2 ELSE k1]]

(* A codec that gives back the record it was given. *)
MCDecode == [r \in Records |-> r]

MCSelections == {IndexKeys, {k1}}

(* Clients are interchangeable, and so are primary keys: no index looks at them. *)
MCSymmetry == Permutations(Clients) \union Permutations(Pks)
===============================================================================
