----------------------------- MODULE MemoryProofs -----------------------------
(***************************************************************************)
(* Proofs about MemoryBackend, for any number of threads, stores and keys. *)
(***************************************************************************)
EXTENDS MemoryBackend, TLAPS

(* What a thread holds at each place of its calls. *)
CallInv ==
    \A t \in Threads :
        /\ pc[t] = "prepare_write" => current[t] # None
        /\ staged[t] # None => pc[t] \in {"idle", "read_lock"}
        /\ pc[t] = "read_lock" => snapshot[t] = None

(* The inductive invariant of the writer gate. *)
GateInv == TypeOK /\ MutualExclusion /\ CallInv

(* Staging one key keeps a handle's stores typed. *)
LEMMA StageType ==
    ASSUME NEW c \in Contents, NEW s \in StoreNames, NEW k \in Keys, NEW v \in Bytes \union {None},
           c[s] # None
    PROVE  Put(c, s, k, v) \in Contents
  <1>1. c[s] \in KVStore
    BY DEF Contents
  <1>2. [c[s] EXCEPT ![k] = v] \in KVStore
    BY <1>1 DEF KVStore
  <1> QED
    BY <1>2 DEF Contents, Put

(* What a build lists are stores. *)
LEMMA ListedType ==
    ASSUME NEW c \in Contents, NEW list
    PROVE  Listed(c, list) \in Contents
  <1>1. Empty \in KVStore
    BY DEF Empty, KVStore
  <1> QED
    BY <1>1 DEF Listed, Contents

(* The effect of set and remove on the handles. *)
LEMMA StageEffect ==
    ASSUME TypeOK, NEW t \in Threads, NEW s \in StoreNames, NEW k \in Keys,
           Remove(t, s, k) \/ \E v \in Bytes : Set(t, s, k, v)
    PROVE  /\ staged' \in [Threads -> Contents \union {None}]
           /\ staged[t] \in Contents /\ staged'[t] \in Contents /\ staged'[t] # None
           /\ \A u \in Threads : u # t => staged'[u] = staged[u]
           /\ UNCHANGED <<published, gateOpen, snapshot, current, pc>>
  <1>1. CASE Remove(t, s, k)
    <2> DEFINE X == Put(staged[t], s, k, None)
    <2>1. staged[t] \in Contents /\ X \in Contents
      BY <1>1, StageType DEF TypeOK, Remove
    <2>2. staged' = [staged EXCEPT ![t] = X]
      BY <1>1 DEF Remove
    <2> HIDE DEF X
    <2> QED
      BY <1>1, <2>1, <2>2, MemoryAssumption DEF TypeOK, Remove
  <1>2. ASSUME NEW v \in Bytes, Set(t, s, k, v)
        PROVE  /\ staged' \in [Threads -> Contents \union {None}]
               /\ staged[t] \in Contents /\ staged'[t] \in Contents /\ staged'[t] # None
               /\ \A u \in Threads : u # t => staged'[u] = staged[u]
               /\ UNCHANGED <<published, gateOpen, snapshot, current, pc>>
    <2> DEFINE X == Put(staged[t], s, k, v)
    <2>1. staged[t] \in Contents /\ X \in Contents
      BY <1>2, StageType DEF TypeOK, Set
    <2>2. staged' = [staged EXCEPT ![t] = X]
      BY <1>2 DEF Set
    <2> HIDE DEF X
    <2> QED
      BY <1>2, <2>1, <2>2, MemoryAssumption DEF TypeOK, Set
  <1> QED
    BY <1>1, <1>2

(* Every step keeps the types. *)
LEMMA TypeStep ==
    ASSUME TypeOK, CallInv, [Next]_vars
    PROVE  TypeOK' /\ CallInv'
  <1> DEFINE Inv == TypeOK /\ CallInv
  <1> USE DEF CallInv
  <1>1. ASSUME NEW t \in Threads, ReadCall(t) \/ ReadSnapshot(t) \/ DropRead(t) PROVE Inv'
    BY <1>1 DEF TypeOK, ReadCall, ReadSnapshot, DropRead, Goto, Labels
  <1>2. ASSUME NEW t \in Threads, WriteCall(t) \/ WriteLock(t) \/ SpuriousWakeup(t) PROVE Inv'
    BY <1>2 DEF TypeOK, WriteCall, WriteLock, SpuriousWakeup, Goto, Labels
  <1>3. ASSUME NEW t \in Threads, WriterGateAcquire(t) \/ WriteSnapshot(t) PROVE Inv'
    BY <1>3 DEF TypeOK, WriterGateAcquire, WriteSnapshot, Goto, Labels
  <1>4. ASSUME NEW t \in Threads, WriterPermitDrop(t) PROVE Inv'
    BY <1>4 DEF TypeOK, WriterPermitDrop, Goto, Labels
  <1>5. ASSUME NEW t \in Threads, CommitPublish(t) \/ DropWrite(t) PROVE Inv'
    BY <1>5 DEF TypeOK, CommitPublish, DropWrite, Goto, Labels
  <1>6. ASSUME NEW t \in Threads, NEW s \in StoreNames, NEW k \in Keys,
               Remove(t, s, k) \/ \E v \in Bytes : Set(t, s, k, v)
        PROVE  Inv'
    BY <1>6, StageEffect DEF TypeOK, Remove, Set
  <1>7. ASSUME NEW t \in Threads, PrepareCall(t) \/ InPrepare(t) PROVE Inv'
    <2>1. CASE PrepareRead(t)
      <3>1. PICK list \in Lists : current' = [current EXCEPT ![t] = Listed(published, list)]
        BY <2>1 DEF PrepareRead
      <3> DEFINE X == Listed(published, list)
      <3>2. X \in Contents /\ X # None /\ current' = [current EXCEPT ![t] = X]
        BY <3>1, ListedType, MemoryAssumption DEF TypeOK
      <3> HIDE DEF X
      <3> QED
        BY <2>1, <3>2 DEF TypeOK, PrepareRead, Goto, Labels
    <2>2. CASE PrepareCall(t) \/ PrepareLock(t) \/ PrepareNew(t) \/ PrepareWrite(t)
      BY <2>2, MemoryAssumption
         DEF TypeOK, PrepareCall, PrepareLock, PrepareNew, PrepareWrite, Goto, Labels
    <2> QED
      BY <1>7, <2>1, <2>2 DEF InPrepare
  <1>8. CASE UNCHANGED vars
    BY <1>8 DEF TypeOK, vars
  <1> QED
    BY <1>1, <1>2, <1>3, <1>4, <1>5, <1>6, <1>7, <1>8 DEF Next, InWrite, EndWrite

(* MutualExclusion after a step of t that leaves every other thread's permit
   alone, given how it changes the gate and t's own permit. *)
LEMMA PermitStep ==
    ASSUME GateInv, NEW t \in Threads,
           \A u \in Threads : u # t => (u \in Permits' <=> u \in Permits),
           \/ gateOpen' = gateOpen /\ (t \in Permits' <=> t \in Permits)
           \/ ~gateOpen /\ gateOpen' = TRUE /\ t \in Permits'
           \/ t \in Permits /\ gateOpen' = FALSE /\ t \notin Permits'
    PROVE  MutualExclusion'
  <1>1. Permits \subseteq Threads /\ Permits' \subseteq Threads
    BY DEF Permits
  <1>2. gateOpen \in BOOLEAN /\ MutualExclusion
    BY DEF GateInv, TypeOK
  <1>3. (gateOpen <=> Permits # {}) /\ \A v, w \in Permits : v = w
    BY <1>2 DEF MutualExclusion
  <1> DEFINE P == Permits
             Q == Permits'
  <1>4. /\ \A u \in Threads : u # t => (u \in Q <=> u \in P)
        /\ P \subseteq Threads /\ Q \subseteq Threads
    BY <1>1
  <1> HIDE DEF P, Q
  <1>5. (gateOpen' <=> Q # {}) /\ \A v, w \in Q : v = w
    <2>1. CASE gateOpen' = gateOpen /\ (t \in Q <=> t \in P)
      <3>1. Q = P
        BY <1>4, <2>1
      <3> QED
        BY <1>3, <2>1, <3>1 DEF P
    <2>2. CASE ~gateOpen /\ gateOpen' = TRUE /\ t \in Q
      BY <1>3, <1>4, <2>2 DEF P
    <2>3. CASE t \in P /\ gateOpen' = FALSE /\ t \notin Q
      BY <1>3, <1>4, <2>3 DEF P
    <2> QED
      BY <2>1, <2>2, <2>3 DEF P, Q
  <1> QED
    BY <1>5 DEF MutualExclusion, Q

(* Every step keeps at most one permit. *)
LEMMA GateStep ==
    ASSUME GateInv, [Next]_vars
    PROVE  GateInv'
  <1>0. TypeOK' /\ CallInv'
    BY TypeStep DEF GateInv
  <1>1. ASSUME NEW t \in Threads, ReadCall(t) \/ ReadSnapshot(t) \/ DropRead(t) PROVE MutualExclusion'
    BY <1>1, PermitStep
       DEF GateInv, TypeOK, Permits, ReadCall, ReadSnapshot, DropRead, Goto
  <1>2. ASSUME NEW t \in Threads, WriteCall(t) \/ WriteLock(t) \/ SpuriousWakeup(t)
        PROVE  MutualExclusion'
    BY <1>2, PermitStep DEF GateInv, TypeOK, Permits, WriteCall, WriteLock, SpuriousWakeup, Goto
  <1>3. ASSUME NEW t \in Threads, WriterGateAcquire(t) PROVE MutualExclusion'
    BY <1>3, PermitStep DEF GateInv, TypeOK, Permits, WriterGateAcquire, Goto
  <1>4. ASSUME NEW t \in Threads, WriteSnapshot(t) PROVE MutualExclusion'
    <2>1. published # None
      BY MemoryAssumption DEF GateInv, TypeOK
    <2> QED
      BY <1>4, <2>1, PermitStep DEF GateInv, TypeOK, Permits, WriteSnapshot, Goto
  <1>5. ASSUME NEW t \in Threads, CommitPublish(t) \/ DropWrite(t) PROVE MutualExclusion'
    BY <1>5, PermitStep DEF GateInv, TypeOK, Permits, CommitPublish, DropWrite, Goto
  <1>6. ASSUME NEW t \in Threads, WriterPermitDrop(t) PROVE MutualExclusion'
    <2>1. staged[t] = None
      BY <1>6 DEF GateInv, CallInv, WriterPermitDrop
    <2> QED
      BY <1>6, <2>1, PermitStep DEF GateInv, TypeOK, Permits, WriterPermitDrop, Goto
  <1>7. ASSUME NEW t \in Threads, NEW s \in StoreNames, NEW k \in Keys,
               Remove(t, s, k) \/ \E v \in Bytes : Set(t, s, k, v)
        PROVE  MutualExclusion'
    <2>1. /\ staged[t] # None /\ staged'[t] # None /\ gateOpen' = gateOpen /\ pc' = pc
          /\ \A u \in Threads : u # t => staged'[u] = staged[u]
      BY <1>7, StageEffect, MemoryAssumption DEF GateInv
    <2> QED
      BY <2>1, PermitStep DEF Permits
  <1>8. ASSUME NEW t \in Threads, PrepareCall(t) \/ InPrepare(t) PROVE MutualExclusion'
    BY <1>8, PermitStep
       DEF GateInv, TypeOK, Permits, PrepareCall, InPrepare, PrepareLock, PrepareNew, PrepareRead,
           PrepareWrite, Goto
  <1>9. ASSUME UNCHANGED vars PROVE MutualExclusion'
    BY <1>9 DEF GateInv, MutualExclusion, Permits, vars
  <1>10. MutualExclusion'
    BY <1>1, <1>2, <1>3, <1>4, <1>5, <1>6, <1>7, <1>8, <1>9 DEF Next, InWrite, EndWrite
  <1> QED
    BY <1>0, <1>10 DEF GateInv

(* Nothing is locked at the start. *)
LEMMA GateInit ==
    Init => GateInv
  <1> SUFFICES ASSUME Init PROVE GateInv
    OBVIOUS
  <1>1. TypeOK
    BY DEF Init, TypeOK, Contents, KVStore, Empty, Labels
  <1>2. Permits = {}
    BY DEF Init, Permits
  <1> QED
    BY <1>1, <1>2 DEF Init, GateInv, MutualExclusion, CallInv

(* Every state of the backend is typed. *)
THEOREM MemoryTypeCorrect ==
    Spec => []TypeOK
  <1>1. GateInv => TypeOK
    BY DEF GateInv
  <1> QED
    BY <1>1, GateInit, GateStep, PTL DEF Spec

(* Write handles are exclusive, whatever wakeups, latecomers and prepares do. *)
THEOREM MutualExclusionHolds ==
    Spec => []MutualExclusion
  <1>1. GateInv => MutualExclusion
    BY DEF GateInv
  <1> QED
    BY <1>1, GateInit, GateStep, PTL DEF Spec

(* Every step keeps a free gate attended to. *)
LEMMA WakeupStep ==
    ASSUME GateInv, NoLostWakeup, [Next]_vars
    PROVE  NoLostWakeup'
  <1> USE DEF GateInv
  <1>1. ASSUME NEW t \in Threads, ReadCall(t) \/ ReadSnapshot(t) \/ DropRead(t) PROVE NoLostWakeup'
    BY <1>1 DEF TypeOK, NoLostWakeup, ReadCall, ReadSnapshot, DropRead, Goto
  <1>2. ASSUME NEW t \in Threads, WriteCall(t) \/ WriteLock(t) \/ SpuriousWakeup(t)
        PROVE  NoLostWakeup'
    BY <1>2 DEF TypeOK, NoLostWakeup, WriteCall, WriteLock, SpuriousWakeup, Goto
  <1>3. ASSUME NEW t \in Threads, WriterGateAcquire(t) PROVE NoLostWakeup'
    BY <1>3 DEF TypeOK, NoLostWakeup, WriterGateAcquire, Goto
  <1>4. ASSUME NEW t \in Threads, WriteSnapshot(t) PROVE NoLostWakeup'
    <2>1. gateOpen
      BY <1>4 DEF MutualExclusion, Permits, WriteSnapshot
    <2> QED
      BY <1>4, <2>1 DEF NoLostWakeup, WriteSnapshot
  <1>5. ASSUME NEW t \in Threads, CommitPublish(t) \/ DropWrite(t) PROVE NoLostWakeup'
    <2>1. gateOpen
      BY <1>5 DEF MutualExclusion, Permits, CommitPublish, DropWrite
    <2> QED
      BY <1>5, <2>1 DEF NoLostWakeup, CommitPublish, DropWrite
  <1>6. ASSUME NEW t \in Threads, WriterPermitDrop(t) PROVE NoLostWakeup'
    <2>1. CASE (\A u \in Threads : pc[u] # "waiting") /\ Goto(t, "idle")
      BY <2>1 DEF TypeOK, NoLostWakeup, Goto
    <2>2. CASE \E u \in Threads :
                  pc[u] = "waiting" /\ pc' = [pc EXCEPT ![t] = "idle", ![u] = "woken"]
      BY <1>6, <2>2 DEF TypeOK, NoLostWakeup, WriterPermitDrop
    <2> QED
      BY <1>6, <2>1, <2>2 DEF WriterPermitDrop
  <1>7. ASSUME NEW t \in Threads, NEW s \in StoreNames, NEW k \in Keys,
               Remove(t, s, k) \/ \E v \in Bytes : Set(t, s, k, v)
        PROVE  NoLostWakeup'
    BY <1>7 DEF NoLostWakeup, Remove, Set
  <1>8. ASSUME NEW t \in Threads, PrepareCall(t) \/ InPrepare(t) PROVE NoLostWakeup'
    BY <1>8
       DEF TypeOK, NoLostWakeup, PrepareCall, InPrepare, PrepareLock, PrepareNew, PrepareRead,
           PrepareWrite, Goto
  <1>9. CASE UNCHANGED vars
    BY <1>9 DEF NoLostWakeup, vars
  <1> QED
    BY <1>1, <1>2, <1>3, <1>4, <1>5, <1>6, <1>7, <1>8, <1>9 DEF Next, InWrite, EndWrite

(* A thread asleep on the condvar is never left behind at a free gate. *)
THEOREM NoLostWakeupHolds ==
    Spec => []NoLostWakeup
  <1>1. Init => NoLostWakeup
    BY DEF Init, NoLostWakeup
  <1> QED
    BY <1>1, GateInit, GateStep, WakeupStep, PTL DEF Spec

-------------------------------------------------------------------------------
(* Nobody waits for everybody *)

(* No thread asks for a read handle while it has a write handle. *)
NoReadInWrite == \A t \in Threads : staged[t] # None => pc[t] # "read_lock"

(* Whoever is blocked, someone is in the middle of something and can go on: a
   thread with the map's lock to itself, the owner of the permit, or, at a
   free gate, a writer that is awake. *)
LEMMA SomeoneGoesOn ==
    ASSUME GateInv, NoLostWakeup, WriterPreferring => NoReadInWrite
    PROVE  NoStandstill
  <1> SUFFICES ASSUME NEW t \in Threads, Blocked(t)
               PROVE  \E u \in Threads : ~Blocked(u) /\ (pc[u] # "idle" \/ staged[u] # None)
    BY DEF NoStandstill
  <1>1. CASE Exclusive # {}
    <2>1. PICK u \in Threads : pc[u] \in {"in_new", "in_again", "prepare_write"}
      BY <1>1 DEF Exclusive
    <2> QED
      BY <2>1 DEF Blocked
  <1>2. CASE Exclusive = {} /\ Shared = {}
    <2>1. pc[t] \in {"read_lock", "write_lock"} /\ ~CanShare
      BY <1>2 DEF Blocked, Shared
    <2>2. PICK u \in Threads : pc[u] \in {"prepare_new", "prepare_again"}
      BY <1>2, <2>1 DEF CanShare, Queued
    <2> QED
      BY <1>2, <2>2 DEF Blocked
  <1>3. CASE Exclusive = {} /\ gateOpen
    <2>1. PICK u \in Threads : pc[u] \in {"snapshot", "release"} \/ staged[u] # None
      BY <1>3 DEF GateInv, MutualExclusion, Permits
    <2>2. CASE pc[u] \in {"snapshot", "release"}
      BY <2>2 DEF Blocked
    <2>3. CASE staged[u] # None
      <3>1. pc[u] = "idle" \/ (pc[u] = "read_lock" /\ ~WriterPreferring)
        BY <2>3, MemoryAssumption DEF GateInv, CallInv, NoReadInWrite
      <3>2. ~Blocked(u)
        BY <1>3, <3>1 DEF Blocked, CanShare
      <3> QED
        BY <2>3, <3>2
    <2> QED
      BY <2>1, <2>2, <2>3
  <1>4. CASE Shared # {} /\ ~gateOpen
    <2>1. PICK u \in Threads : pc[u] \in {"acquire", "waiting", "woken", "snapshot"}
      BY <1>4 DEF Shared
    <2>2. pc[u] # "snapshot"
      BY <1>4 DEF GateInv, MutualExclusion, Permits
    <2>3. PICK w \in Threads : pc[w] \in {"acquire", "woken"}
      BY <1>4, <2>1, <2>2 DEF NoLostWakeup
    <2> QED
      BY <1>4, <2>3 DEF Blocked
  <1> QED
    BY <1>1, <1>2, <1>3, <1>4

(* The map's lock, the gate and the condvar never make all threads wait for
   each other, although a writer waits for the gate inside the map's lock. *)
THEOREM MemoryNoStandstill ==
    ~WriterPreferring => (Spec => []NoStandstill)
  <1> SUFFICES ASSUME ~WriterPreferring PROVE Spec => []NoStandstill
    OBVIOUS
  <1>1. Init => NoLostWakeup
    BY DEF Init, NoLostWakeup
  <1>2. GateInv /\ NoLostWakeup => NoStandstill
    BY SomeoneGoesOn
  <1> QED
    BY <1>1, <1>2, GateInit, GateStep, WakeupStep, PTL DEF Spec

(* Where a waiting exclusive lock holds up new readers, it takes that no
   thread calls `read' with a write handle of its own. *)
THEOREM MemoryNoStandstillWriterFirst ==
    Spec => [](NoReadInWrite => NoStandstill)
  <1>1. Init => NoLostWakeup
    BY DEF Init, NoLostWakeup
  <1>2. GateInv /\ NoLostWakeup => (NoReadInWrite => NoStandstill)
    BY SomeoneGoesOn
  <1> QED
    BY <1>1, <1>2, GateInit, GateStep, WakeupStep, PTL DEF Spec

-------------------------------------------------------------------------------
(* The backend implements MultiStore, except for the step in which a prepare of
   the namespace publishes its stores; and without exception as long as nobody
   prepares the namespace again. *)

NoRepeat == \A t \in Threads : pc[t] \notin {"prepare_again", "in_again", "prepare_write"}

(* Without "again" in Prepares, no thread is in a repeated prepare. *)
LEMMA NoRepeatStep ==
    ASSUME "again" \notin Prepares, TypeOK, NoRepeat, [Next]_vars
    PROVE  NoRepeat'
  <1>1. ASSUME NEW t \in Threads, ReadCall(t) \/ ReadSnapshot(t) \/ DropRead(t) PROVE NoRepeat'
    BY <1>1 DEF TypeOK, NoRepeat, ReadCall, ReadSnapshot, DropRead, Goto
  <1>2. ASSUME NEW t \in Threads, WriteCall(t) \/ EndWrite(t) \/ SpuriousWakeup(t) PROVE NoRepeat'
    BY <1>2 DEF TypeOK, NoRepeat, WriteCall, EndWrite, CommitPublish, DropWrite, SpuriousWakeup, Goto
  <1>3. ASSUME NEW t \in Threads, InWrite(t) PROVE NoRepeat'
    BY <1>3
       DEF TypeOK, NoRepeat, InWrite, WriteLock, WriterGateAcquire, WriteSnapshot,
           WriterPermitDrop, Goto
  <1>4. ASSUME NEW t \in Threads, NEW s \in StoreNames, NEW k \in Keys,
               Remove(t, s, k) \/ \E v \in Bytes : Set(t, s, k, v)
        PROVE  NoRepeat'
    BY <1>4 DEF NoRepeat, Remove, Set
  <1>5. ASSUME NEW t \in Threads, PrepareCall(t) \/ InPrepare(t) PROVE NoRepeat'
    BY <1>5
       DEF TypeOK, NoRepeat, PrepareCall, InPrepare, PrepareLock, PrepareNew, PrepareRead,
           PrepareWrite, Goto
  <1>6. CASE UNCHANGED vars
    BY <1>6 DEF NoRepeat, vars
  <1> QED
    BY <1>1, <1>2, <1>3, <1>4, <1>5, <1>6 DEF Next

(* Owner is the thread with a write handle, if there is one. *)
LEMMA OwnerIs ==
    ASSUME GateInv
    PROVE  /\ \A t \in Threads : staged[t] # None => Owner = t
           /\ (\A t \in Threads : staged[t] = None) => Owner = None
  <1>1. \A t, u \in Threads : staged[t] # None /\ staged[u] # None => t = u
    BY DEF GateInv, MutualExclusion, Permits
  <1> QED
    BY <1>1 DEF Owner

(* The same after a step. *)
LEMMA OwnerIsNext ==
    ASSUME GateInv'
    PROVE  /\ \A t \in Threads : staged'[t] # None => Owner' = t
           /\ (\A t \in Threads : staged'[t] = None) => Owner' = None
  <1>1. \A t, u \in Threads : staged'[t] # None /\ staged'[u] # None => t = u
    BY DEF GateInv, MutualExclusion, Permits
  <1> QED
    BY <1>1 DEF Owner

(* A step of the backend is a step of MultiStore or the publication of a
   prepare, or it leaves the variables of MultiStore alone. *)
LEMMA MultiStoreStep ==
    ASSUME GateInv, GateInv', [Next]_vars
    PROVE  [Abstract!Next \/ \E t \in Threads : PrepareWrite(t)]_(Abstract!vars)
  <1> DEFINE Stutter == UNCHANGED <<published, Owner, staged, snapshot>>
  <1>0. staged' = staged => Owner' = Owner
    BY DEF Owner
  <1>1. ASSUME NEW t \in Threads, ReadSnapshot(t) PROVE Abstract!Read(t)
    BY <1>0, <1>1 DEF GateInv, CallInv, ReadSnapshot, Abstract!Read
  <1>2. ASSUME NEW t \in Threads, DropRead(t) PROVE Abstract!CloseRead(t)
    BY <1>0, <1>2 DEF DropRead, Abstract!CloseRead
  <1>3. ASSUME NEW t \in Threads, WriteSnapshot(t) PROVE Abstract!Write(t)
    <2>1. t \in Permits
      BY <1>3 DEF Permits, WriteSnapshot
    <2>2. staged[t] = None
      BY <1>3 DEF GateInv, CallInv, WriteSnapshot
    <2>3. \A u \in Threads : staged[u] = None
      BY <2>1, <2>2 DEF GateInv, MutualExclusion, Permits
    <2>4. staged'[t] # None
      BY <1>3, MemoryAssumption DEF WriteSnapshot, GateInv, TypeOK
    <2>5. Owner = None /\ Owner' = t
      BY <2>3, <2>4, OwnerIs, OwnerIsNext
    <2> QED
      BY <1>3, <2>5 DEF WriteSnapshot, Abstract!Write
  <1>4. ASSUME NEW t \in Threads, CommitPublish(t) \/ DropWrite(t)
        PROVE  Abstract!Commit(t) \/ Abstract!Drop(t)
    <2>1. Owner = t
      BY <1>4, OwnerIs DEF CommitPublish, DropWrite
    <2>2. \A u \in Threads : staged'[u] = None
      <3>1. \A u \in Threads : u # t => staged[u] = None
        BY <1>4 DEF GateInv, MutualExclusion, Permits, CommitPublish, DropWrite
      <3> QED
        BY <1>4, <3>1 DEF CommitPublish, DropWrite, GateInv, TypeOK
    <2>3. Owner' = None
      BY <2>2, OwnerIsNext
    <2> QED
      BY <1>4, <2>1, <2>3 DEF CommitPublish, DropWrite, Abstract!Commit, Abstract!Drop
  <1>5. ASSUME NEW t \in Threads, NEW s \in StoreNames, NEW k \in Keys, Remove(t, s, k)
        PROVE  Abstract!Remove(t, s, k)
    <2>1. Owner = t /\ Owner' = t
      BY <1>5, StageEffect, OwnerIs, OwnerIsNext, MemoryAssumption DEF GateInv
    <2> QED
      BY <1>5, <2>1 DEF Remove, Put, Abstract!Remove, Abstract!Put, Abstract!Stage
  <1>6. ASSUME NEW t \in Threads, NEW s \in StoreNames, NEW k \in Keys, NEW v \in Bytes,
               Set(t, s, k, v)
        PROVE  Abstract!Set(t, s, k, v)
    <2>1. Owner = t /\ Owner' = t
      BY <1>6, StageEffect, OwnerIs, OwnerIsNext, MemoryAssumption DEF GateInv
    <2> QED
      BY <1>6, <2>1 DEF Set, Put, Abstract!Set, Abstract!Put, Abstract!Stage
  <1>7. ASSUME NEW t \in Threads,
               \/ ReadCall(t) \/ WriteCall(t) \/ WriteLock(t) \/ WriterGateAcquire(t)
               \/ WriterPermitDrop(t) \/ SpuriousWakeup(t) \/ PrepareCall(t) \/ PrepareLock(t)
               \/ PrepareNew(t) \/ PrepareRead(t)
        PROVE  Stutter
    BY <1>0, <1>7
       DEF ReadCall, WriteCall, WriteLock, WriterGateAcquire, WriterPermitDrop, SpuriousWakeup,
           PrepareCall, PrepareLock, PrepareNew, PrepareRead
  <1>8. CASE UNCHANGED vars
    BY <1>0, <1>8 DEF vars, Abstract!vars
  <1> QED
    BY <1>1, <1>2, <1>3, <1>4, <1>5, <1>6, <1>7, <1>8
       DEF Next, InWrite, EndWrite, InPrepare, Abstract!Next, Abstract!vars

(* Initially nobody has a write handle. *)
LEMMA MultiStoreInit ==
    ASSUME Init
    PROVE  Abstract!Init
  <1>1. Owner = None
    BY GateInit, OwnerIs DEF Init
  <1> QED
    BY <1>1 DEF Init, Empty, Abstract!Init

(* The in-memory backend keeps the contract of store.rs that the collection
   is built on: stable snapshots, exclusive writers that lose no earlier
   commit, atomic publication.  Prepares of the namespace may come at any
   point; the only steps outside the contract are those in which they publish. *)
THEOREM MemoryImplementsMultiStore == Spec => ImplementsMultiStore
  <1>1. Init => GateInv /\ Abstract!Init
    BY GateInit, MultiStoreInit
  <1>2. GateInv /\ [Next]_vars => GateInv'
    BY GateStep
  <1>3. GateInv /\ GateInv' /\ [Next]_vars
            => [Abstract!Next \/ \E t \in Threads : PrepareWrite(t)]_(Abstract!vars)
    BY MultiStoreStep
  <1> QED
    BY <1>1, <1>2, <1>3, PTL DEF Spec, ImplementsMultiStore

(* When no existing namespace is prepared again there are no such steps, and
   the backend is a MultiStore (InMemoryMultiStore::read, write, commit). *)
THEOREM MemoryIsMultiStore == "again" \notin Prepares => (Spec => Abstract!Spec)
  <1> SUFFICES ASSUME "again" \notin Prepares PROVE Spec => Abstract!Spec
    OBVIOUS
  <1>1. Init => GateInv /\ NoRepeat /\ Abstract!Init
    BY GateInit, MultiStoreInit DEF Init, NoRepeat
  <1>2. GateInv /\ NoRepeat /\ [Next]_vars => (GateInv /\ NoRepeat)'
    BY GateStep, NoRepeatStep DEF GateInv
  <1>3. GateInv /\ GateInv' /\ NoRepeat /\ [Next]_vars => [Abstract!Next]_(Abstract!vars)
    <2>1. NoRepeat => \A t \in Threads : ~PrepareWrite(t)
      BY DEF NoRepeat, PrepareWrite
    <2> QED
      BY <2>1, MultiStoreStep
  <1> QED
    BY <1>1, <1>2, <1>3, PTL DEF Spec, Abstract!Spec
===============================================================================
