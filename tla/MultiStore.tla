------------------------------ MODULE MultiStore ------------------------------
(***************************************************************************)
(* The contract of a storage backend (store.rs) as a collection relies on  *)
(* it, for one prepared namespace: a read handle is a stable snapshot of   *)
(* all stores; a write handle is exclusive, stages its changes on a copy   *)
(* of what is committed and publishes all of them or none.                 *)
(*                                                                         *)
(* The collection is built on this contract; MemoryBackend is shown to     *)
(* implement it.                                                           *)
(***************************************************************************)
CONSTANTS
    Clients,    \* threads that hold handles
    StoreNames, \* stores of the namespace
    Keys,       \* encoded keys
    Bytes,      \* encoded values
    None

VARIABLES
    committed,  \* the published contents of every store
    writer,     \* the client whose write handle is open, or None
    staged,     \* staged[c]: contents as seen through c's write handle, or None
    snapshot    \* snapshot[c]: contents as seen through c's read handle, or None

vars == <<committed, writer, staged, snapshot>>

KVStore == [Keys -> Bytes \union {None}]
Contents == [StoreNames -> KVStore]

Init ==
    /\ committed = [s \in StoreNames |-> [k \in Keys |-> None]]
    /\ writer = None
    /\ staged = [c \in Clients |-> None]
    /\ snapshot = [c \in Clients |-> None]

(* MultiStore::read *)
Read(c) ==
    /\ snapshot[c] = None
    /\ snapshot' = [snapshot EXCEPT ![c] = committed]
    /\ UNCHANGED <<committed, writer, staged>>

(* The read handle, with every iterator made from it, is dropped. *)
CloseRead(c) ==
    /\ snapshot[c] # None
    /\ snapshot' = [snapshot EXCEPT ![c] = None]
    /\ UNCHANGED <<committed, writer, staged>>

(* MultiStore::write returns: it waits until no other write handle is open. *)
Write(c) ==
    /\ writer = None
    /\ writer' = c
    /\ staged' = [staged EXCEPT ![c] = committed]
    /\ UNCHANGED <<committed, snapshot>>

(* Calls of set and remove through the write handle leave store s as kv. *)
Stage(c, s, kv) ==
    /\ writer = c
    /\ staged' = [staged EXCEPT ![c] = [@ EXCEPT ![s] = kv]]
    /\ UNCHANGED <<committed, writer, snapshot>>

(* MultiStoreWriteHandle::commit *)
Commit(c) ==
    /\ writer = c
    /\ committed' = staged[c]
    /\ writer' = None
    /\ staged' = [staged EXCEPT ![c] = None]
    /\ UNCHANGED snapshot

(* The write handle is dropped without commit. *)
Drop(c) ==
    /\ writer = c
    /\ writer' = None
    /\ staged' = [staged EXCEPT ![c] = None]
    /\ UNCHANGED <<committed, snapshot>>

(* The process ends and starts again on the same backend: handles are gone,
   what is committed stays. *)
Restart ==
    /\ writer' = None
    /\ staged' = [c \in Clients |-> None]
    /\ snapshot' = [c \in Clients |-> None]
    /\ UNCHANGED committed

(* WriteKVStore::set and remove of one key, in a store that the handle has. *)
Put(c, s, k, v) ==
    /\ writer = c /\ staged[c][s] # None
    /\ Stage(c, s, [staged[c][s] EXCEPT ![k] = v])
Set(c, s, k, v) == Put(c, s, k, v)
Remove(c, s, k) == Put(c, s, k, None)

Next ==
    \/ Restart
    \/ \E c \in Clients :
          \/ Read(c) \/ CloseRead(c) \/ Write(c) \/ Commit(c) \/ Drop(c)
          \/ \E s \in StoreNames, k \in Keys :
                 \/ \E v \in Bytes : Set(c, s, k, v)
                 \/ Remove(c, s, k)

Spec == Init /\ [][Next]_vars
===============================================================================
