--------------------------- MODULE MCMemoryBackend ---------------------------
(***************************************************************************)
(* MemoryBackend for TLC: three threads (an open writer, a waiting writer  *)
(* and a latecomer), or four (the first two, a queued prepare and a        *)
(* reader behind it).                                                      *)
(***************************************************************************)
EXTENDS MemoryBackend, TLC

CONSTANT primary    \* the main store, which every build lists

MCSymmetry == Permutations(Threads)

(* Builds with and without the other stores, and always the same build. *)
MCLists == {{primary}, StoreNames}
SameList == {StoreNames}
===============================================================================
