---------------------------- MODULE MCRedbBackend ----------------------------
(***************************************************************************)
(* RedbBackend for TLC: threads that are each a reader, a writer or a      *)
(* build, one namespace that is built with different indexes, so that a    *)
(* build drops one and adds one, and one that is always built the same.    *)
(***************************************************************************)
EXTENDS RedbBackend

MCLists ==
    [n \in Namespaces |-> IF n = "users" THEN {{"main", "age"}, {"main", "city"}} ELSE {{"main"}}]
===============================================================================
