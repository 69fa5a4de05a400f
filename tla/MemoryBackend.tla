---------------------------- MODULE MemoryBackend ----------------------------
(***************************************************************************)
(* The in-memory backend (backend/memory.rs) at the level of its locks,    *)
(* for one namespace that has been prepared once and any number of threads. *)
(*                                                                         *)
(*   - the map of namespaces is behind one RwLock: `read' and `write' hold *)
(*     it shared, `prepare' exclusively; `write' keeps it while it waits   *)
(*     for the namespace's writer gate;                                    *)
(*   - the writer gate is a Mutex<bool> with a Condvar;                    *)
(*   - the published stores are an Arc behind an RwLock that is only held  *)
(*     to copy or to replace the Arc, so each of those is one step.        *)
(*                                                                         *)
(* A thread runs one call at a time and may hold one read handle and one   *)
(* write handle between calls.                                             *)
(***************************************************************************)
CONSTANTS
    Threads, StoreNames, Keys, Bytes, None,
    Lists,              \* the lists of stores that later builds of the namespace prepare
    Prepares,           \* calls of prepare that threads make: of a "new" namespace, or of this one "again"
    WriterPreferring    \* whether a waiting exclusive lock holds up new shared ones (std leaves it open)

VARIABLES
    published,  \* the Arc of the namespace's stores; None stands for a store it does not have
    gateOpen,   \* WriterGate::open: a write handle exists
    staged,     \* staged[t]: the stores of t's write handle, or None
    snapshot,   \* snapshot[t]: the stores of t's read handle, or None
    current,    \* current[t]: the stores that t's prepare is about to publish, or None
    pc          \* pc[t]: where t is in its call, "idle" between calls

vars == <<published, gateOpen, staged, snapshot, current, pc>>

KVStore == [Keys -> Bytes \union {None}]
Empty == [k \in Keys |-> None]
Contents == [StoreNames -> KVStore \union {None}]

ASSUME MemoryAssumption ==
    /\ None \notin Contents /\ None \notin KVStore
    /\ Lists \subseteq SUBSET StoreNames
    /\ None \notin Threads
    /\ Prepares \subseteq {"new", "again"}
    /\ WriterPreferring \in BOOLEAN

Labels == {"idle", "read_lock",
           "write_lock", "acquire", "waiting", "woken", "snapshot", "release",
           "prepare_new", "prepare_again", "in_new", "in_again", "prepare_write"}

(* Threads inside `write' that hold the map's lock, threads inside `prepare'
   that hold it exclusively, threads that wait to hold it exclusively.
   (`read' holds it for one step only.) *)
Shared == {t \in Threads : pc[t] \in {"acquire", "waiting", "woken", "snapshot"}}
Exclusive == {t \in Threads : pc[t] \in {"in_new", "in_again", "prepare_write"}}
Queued == {t \in Threads : pc[t] \in {"prepare_new", "prepare_again"}}

CanShare == Exclusive = {} /\ (WriterPreferring => Queued = {})

Goto(t, label) == pc' = [pc EXCEPT ![t] = label]

Init ==
    /\ published = [s \in StoreNames |-> Empty]
    /\ gateOpen = FALSE
    /\ staged = [t \in Threads |-> None]
    /\ snapshot = [t \in Threads |-> None]
    /\ current = [t \in Threads |-> None]
    /\ pc = [t \in Threads |-> "idle"]

-------------------------------------------------------------------------------
(* read *)

ReadCall(t) ==
    /\ pc[t] = "idle" /\ snapshot[t] = None
    /\ Goto(t, "read_lock")
    /\ UNCHANGED <<published, gateOpen, staged, snapshot, current>>

(* Takes the map's lock shared, copies the Arc and lets go of the lock. *)
ReadSnapshot(t) ==
    /\ pc[t] = "read_lock" /\ CanShare
    /\ snapshot' = [snapshot EXCEPT ![t] = published]
    /\ Goto(t, "idle")
    /\ UNCHANGED <<published, gateOpen, staged, current>>

DropRead(t) ==
    /\ pc[t] = "idle" /\ snapshot[t] # None
    /\ snapshot' = [snapshot EXCEPT ![t] = None]
    /\ UNCHANGED <<published, gateOpen, staged, current, pc>>

-------------------------------------------------------------------------------
(* write *)

(* A thread does not ask for a second write handle: it would wait for itself. *)
WriteCall(t) ==
    /\ pc[t] = "idle" /\ staged[t] = None
    /\ Goto(t, "write_lock")
    /\ UNCHANGED <<published, gateOpen, staged, snapshot, current>>

WriteLock(t) ==
    /\ pc[t] = "write_lock" /\ CanShare
    /\ Goto(t, "acquire")
    /\ UNCHANGED <<published, gateOpen, staged, snapshot, current>>

(* Mutant: `if *open' instead of `while *open': no second look after a wakeup. *)
WriterGateAcquire_If(t) ==
    /\ pc[t] \in {"acquire", "woken"}
    /\ \/ /\ pc[t] = "acquire" /\ gateOpen
          /\ Goto(t, "waiting")
          /\ UNCHANGED gateOpen
       \/ /\ pc[t] = "woken" \/ ~gateOpen
          /\ gateOpen' = TRUE
          /\ Goto(t, "snapshot")
    /\ UNCHANGED <<published, staged, snapshot, current>>

(* WriterGate::acquire: the test of the flag and the start of the wait, or the
   test and the setting of the flag, are under the mutex.  A woken thread
   comes back here, and may find that another thread was faster. *)
WriterGateAcquire(t) ==
    /\ pc[t] \in {"acquire", "woken"}
    /\ \/ /\ gateOpen
          /\ Goto(t, "waiting")
          /\ UNCHANGED gateOpen
       \/ /\ ~gateOpen
          /\ gateOpen' = TRUE
          /\ Goto(t, "snapshot")
    /\ UNCHANGED <<published, staged, snapshot, current>>

(* Condvar::wait may return without a notification. *)
SpuriousWakeup(t) ==
    /\ pc[t] = "waiting"
    /\ Goto(t, "woken")
    /\ UNCHANGED <<published, gateOpen, staged, snapshot, current>>

(* The permit is held: the stores are copied, `write' returns and the map's
   lock is released. *)
WriteSnapshot(t) ==
    /\ pc[t] = "snapshot"
    /\ staged' = [staged EXCEPT ![t] = published]
    /\ Goto(t, "idle")
    /\ UNCHANGED <<published, gateOpen, snapshot, current>>

(* The stores c with v under key k of store s. *)
Put(c, s, k, v) == [c EXCEPT ![s] = [c[s] EXCEPT ![k] = v]]

(* Mutant: key and value swapped. *)
Set_Swapped(t, s, k, v) ==
    /\ pc[t] = "idle" /\ staged[t] # None /\ staged[t][s] # None
    /\ staged' = [staged EXCEPT ![t] = Put(staged[t], s, k, k)]
    /\ UNCHANGED <<published, gateOpen, snapshot, current, pc>>

(* Mutant: the write handle shares its maps with what is published. *)
Set_InPlace(t, s, k, v) ==
    /\ pc[t] = "idle" /\ staged[t] # None /\ staged[t][s] # None
    /\ staged' = [staged EXCEPT ![t] = Put(staged[t], s, k, v)]
    /\ published' = Put(published, s, k, v)
    /\ UNCHANGED <<gateOpen, snapshot, current, pc>>

(* open_store of a store that the handle has (of another one it panics:
   DropWrite), then InMemoryWriteStore::set or remove. *)
Set(t, s, k, v) ==
    /\ pc[t] = "idle" /\ staged[t] # None /\ staged[t][s] # None
    /\ staged' = [staged EXCEPT ![t] = Put(staged[t], s, k, v)]
    /\ UNCHANGED <<published, gateOpen, snapshot, current, pc>>

Remove(t, s, k) ==
    /\ pc[t] = "idle" /\ staged[t] # None /\ staged[t][s] # None
    /\ staged' = [staged EXCEPT ![t] = Put(staged[t], s, k, None)]
    /\ UNCHANGED <<published, gateOpen, snapshot, current, pc>>

(* Mutant: the permit is not given back. *)
CommitPublish_KeepsPermit(t) ==
    /\ pc[t] = "idle" /\ staged[t] # None
    /\ published' = staged[t]
    /\ staged' = [staged EXCEPT ![t] = None]
    /\ UNCHANGED <<gateOpen, snapshot, current, pc>>

(* commit: the Arc is replaced while the permit is still held ... *)
CommitPublish(t) ==
    /\ pc[t] = "idle" /\ staged[t] # None
    /\ published' = staged[t]
    /\ staged' = [staged EXCEPT ![t] = None]
    /\ Goto(t, "release")
    /\ UNCHANGED <<gateOpen, snapshot, current>>

(* The handle is dropped without commit, on an early return or a panic. *)
DropWrite(t) ==
    /\ pc[t] = "idle" /\ staged[t] # None
    /\ staged' = [staged EXCEPT ![t] = None]
    /\ Goto(t, "release")
    /\ UNCHANGED <<published, gateOpen, snapshot, current>>

(* Mutant: nobody is notified. *)
WriterPermitDrop_Silent(t) ==
    /\ pc[t] = "release"
    /\ gateOpen' = FALSE
    /\ Goto(t, "idle")
    /\ UNCHANGED <<published, staged, snapshot, current>>

(* ... and WriterPermit::drop reopens the gate and notifies one waiting
   thread, if there is one. *)
WriterPermitDrop(t) ==
    /\ pc[t] = "release"
    /\ gateOpen' = FALSE
    /\ \/ /\ \A u \in Threads : pc[u] # "waiting"
          /\ Goto(t, "idle")
       \/ \E u \in Threads :
              /\ pc[u] = "waiting"
              /\ pc' = [pc EXCEPT ![t] = "idle", ![u] = "woken"]
    /\ UNCHANGED <<published, staged, snapshot, current>>

-------------------------------------------------------------------------------
(* prepare *)

(* A thread does not prepare while it holds a write handle: a writer that
   waits for that handle holds the lock prepare needs. *)
PrepareCall(t) ==
    /\ pc[t] = "idle" /\ staged[t] = None
    /\ \/ "new" \in Prepares /\ Goto(t, "prepare_new")
       \/ "again" \in Prepares /\ Goto(t, "prepare_again")
    /\ UNCHANGED <<published, gateOpen, staged, snapshot, current>>

PrepareLock(t) ==
    /\ pc[t] \in {"prepare_new", "prepare_again"}
    /\ Shared = {} /\ Exclusive = {}
    /\ Goto(t, IF pc[t] = "prepare_new" THEN "in_new" ELSE "in_again")
    /\ UNCHANGED <<published, gateOpen, staged, snapshot, current>>

(* Another namespace is inserted into the map. *)
PrepareNew(t) ==
    /\ pc[t] = "in_new"
    /\ Goto(t, "idle")
    /\ UNCHANGED <<published, gateOpen, staged, snapshot, current>>

(* The listed stores, as they are where they exist and empty where not. *)
Listed(stores, list) ==
    [s \in StoreNames |->
        IF s \in list THEN (IF stores[s] = None THEN Empty ELSE stores[s]) ELSE None]

(* This namespace exists: its stores are copied under the shared lock, and the
   listed ones taken from the copy ... *)
PrepareRead(t) ==
    /\ pc[t] = "in_again"
    /\ \E list \in Lists : current' = [current EXCEPT ![t] = Listed(published, list)]
    /\ Goto(t, "prepare_write")
    /\ UNCHANGED <<published, gateOpen, staged, snapshot>>

(* ... and published.  Open write handles are not looked at. *)
PrepareWrite(t) ==
    /\ pc[t] = "prepare_write"
    /\ published' = current[t]
    /\ current' = [current EXCEPT ![t] = None]
    /\ Goto(t, "idle")
    /\ UNCHANGED <<gateOpen, staged, snapshot>>

-------------------------------------------------------------------------------
InWrite(t) == WriteLock(t) \/ WriterGateAcquire(t) \/ WriteSnapshot(t) \/ WriterPermitDrop(t)
EndWrite(t) == CommitPublish(t) \/ DropWrite(t)
InPrepare(t) == PrepareLock(t) \/ PrepareNew(t) \/ PrepareRead(t) \/ PrepareWrite(t)

Next ==
    \E t \in Threads :
        \/ ReadCall(t) \/ ReadSnapshot(t) \/ DropRead(t)
        \/ WriteCall(t) \/ InWrite(t) \/ EndWrite(t) \/ SpuriousWakeup(t)
        \/ \E s \in StoreNames, k \in Keys : Remove(t, s, k) \/ \E v \in Bytes : Set(t, s, k, v)
        \/ PrepareCall(t) \/ InPrepare(t)

Spec == Init /\ [][Next]_vars

(* Threads keep running inside a call, and the owner of a write handle ends
   its transaction, as every collection operation does. *)
Fairness ==
    \A t \in Threads :
        WF_vars(InWrite(t)) /\ WF_vars(EndWrite(t)) /\ WF_vars(ReadSnapshot(t)) /\ WF_vars(InPrepare(t))

FairSpec == Spec /\ Fairness

-------------------------------------------------------------------------------
(* Properties *)

TypeOK ==
    /\ published \in Contents
    /\ gateOpen \in BOOLEAN
    /\ staged \in [Threads -> Contents \union {None}]
    /\ snapshot \in [Threads -> Contents \union {None}]
    /\ current \in [Threads -> Contents \union {None}]
    /\ pc \in [Threads -> Labels]

(* The threads that own a WriterPermit. *)
Permits == {t \in Threads : pc[t] \in {"snapshot", "release"} \/ staged[t] # None}

(* At most one permit exists, however releases, wakeups and late-coming
   writers interleave, and the gate's flag says whether one does. *)
MutualExclusion ==
    /\ gateOpen <=> Permits # {}
    /\ \A t, u \in Permits : t = u

(* When the gate is free and threads sleep on the condvar, one thread is awake
   and about to try the gate: notify_one is never spent on nobody. *)
NoLostWakeup ==
    ~gateOpen /\ (\E t \in Threads : pc[t] = "waiting")
        => \E t \in Threads : pc[t] \in {"acquire", "woken"}

(* A thread that cannot go on by itself. *)
Blocked(t) ==
    \/ pc[t] \in {"read_lock", "write_lock"} /\ ~CanShare
    \/ pc[t] \in {"prepare_new", "prepare_again"} /\ (Shared # {} \/ Exclusive # {})
    \/ pc[t] = "waiting"
    \/ pc[t] \in {"acquire", "woken"} /\ gateOpen

(* Threads never all wait for each other, although writers wait for the gate
   inside the map's lock: while one is blocked, another is in the middle of
   something and can go on. *)
NoStandstill ==
    (\E t \in Threads : Blocked(t))
        => \E t \in Threads : ~Blocked(t) /\ (pc[t] # "idle" \/ staged[t] # None)

(* The thread that has a write handle. *)
Owner ==
    IF \E t \in Threads : staged[t] # None
    THEN CHOOSE t \in Threads : staged[t] # None
    ELSE None

Abstract ==
    INSTANCE MultiStore WITH
        Clients <- Threads,
        committed <- published,
        writer <- Owner

(* The backend is a MultiStore, also next to a prepare of this namespace that
   comes at any point: read handles are stable snapshots, a write handle starts
   from everything published before it and publishes all its stores at once.
   The exception is the step in which that prepare publishes. *)
ImplementsMultiStore ==
    /\ Abstract!Init
    /\ [][Abstract!Next \/ \E t \in Threads : PrepareWrite(t)]_(Abstract!vars)

StoresOf(c) == {s \in StoreNames : c[s] # None}

(* store.rs asks that prepare be "safe to call repeatedly for the same
   namespace and stores": doing so leaves what is published as it is. *)
PrepareIsSafe ==
    [][(\E t \in Threads : PrepareWrite(t)) /\ StoresOf(published') = StoresOf(published)
           => published' = published]_vars

(* A thread is in `write', or holds its handle. *)
Writing(t) ==
    \/ pc[t] \in {"write_lock", "acquire", "waiting", "woken", "snapshot", "release"}
    \/ staged[t] # None

(* A sleeping writer is not forgotten: once no other thread writes, its call
   of `write' returns, behind queued prepares as well.  (While others keep
   writing, the Condvar promises nothing: a latecomer may always be faster.
   While others keep calling prepare, the map's lock promises nothing.) *)
WaiterServed ==
    \A t \in Threads :
        /\ <>[](\A u \in Threads \ {t} : ~Writing(u))
        /\ <>[][\A u \in Threads : ~PrepareCall(u)]_vars
        => (pc[t] = "write_lock" ~> staged[t] # None)

(* Where a queued `prepare' holds up new readers, a reader waits for it, it
   waits for the writers inside the map's lock, and they wait for the owner of
   the gate.  All of them get through in the end, and the reader has its
   snapshot, if threads stop calling prepare some day and do not read while
   they hold a write handle, as no collection operation does: the owner would
   wait for itself. *)
ReaderServed ==
    /\ [](\A t \in Threads : pc[t] = "read_lock" => staged[t] = None)
    /\ <>[][\A t \in Threads : ~PrepareCall(t)]_vars
    => \A t \in Threads : pc[t] = "read_lock" ~> pc[t] = "idle"
===============================================================================
