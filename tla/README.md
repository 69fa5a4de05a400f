# Collette, specified and verified

Collette (`src/src/`, a Rust crate) is a typed embedded collection: records with a primary key
and secondary indexes, kept in ordered byte stores that a pluggable backend provides. This
directory holds TLA+ specifications of it, model-checked with TLC on small instances, and TLAPS
proofs of the results that matter most for instances of any size.

## The system

| part | state | operations | source |
|---|---|---|---|
| collection | none of its own: a namespace, its stores, the index registry | `insert`, `update`, `save`, `remove`, `get`, `scan`, `index_scan` | `collection.rs` |
| indexes | one store per index: logical key (`Unique`) or logical and primary key (`Multi`) to primary key | `Index::update`, `Index::remove`, `Index::cursor` | `index.rs`, `index_registry.rs` |
| scans | prefix, bounds, direction, cursor; a read handle; an iterator | `prefix`, `range`, `rev`, `after`, `iter`, `get`, `next` | `scan.rs`, `iter.rs`, `bounds.rs`, `prefix.rs` |
| keys | none | `encode`, `decode`, `decode_part` of integers, bool, enums, arrays, byte strings, text, tuples | `key.rs`, `macros.rs` |
| storage contract | named stores of one namespace | `prepare`, `read`, `write`, `set`, `remove`, `commit`, drop | `store.rs` |
| memory backend | map of namespaces behind an `RwLock`; per namespace a published `Arc` and a writer gate (`Mutex<bool>`, `Condvar`) | the contract | `backend/memory.rs` |
| redb backend | registry of prepared tables behind an `RwLock`; a redb database | the contract | `backend/redb.rs` |
| builder | the index types registered so far | `with_index`, `build` | `collection.rs` |
| items, errors | the user's codec (`to_bytes`, `from_bytes`), error variants | | `item.rs`, `error.rs` |

How they interact. A collection operation opens one handle of the backend, reads and writes
several stores through it and ends by committing or dropping it. A write operation first changes
the main store, then walks the registry (a `Cons` list, last added index first), where each index
may refuse the record; any error leaves the function and drops the handle. Queries read one
snapshot: an index scan follows each index entry to the main store of the same handle. Backends
promise stable snapshots, one write handle at a time and atomic commits.

What is hard here:

- write operations touch several stores and may fail between any two;
- index entries are found again by recomputing their key from the *decoded* old record;
- threads share a backend; the memory backend waits for its writer gate while it holds another lock;
- logical ranges become byte ranges: carries over `0xff`, groups of a `Multi` index, prefixes, cursors;
- pages of a scan are read from different snapshots;
- the redb backend keeps its list of tables apart from the tables: it is published after them, copied
  before a transaction begins, and lost when the process ends;
- a collection may be built again with other indexes while older ones are in use and have write
  handles open, over records that nobody looks at when an index is added.

`PROJECT.json` lists these hazards line by line, with the properties that would catch each.

## Modules

| module | models | correspondence |
|---|---|---|
| `Schema` | records, indexes, layouts of entries, the codec, requests | `Registry` is the `Cons` list head first; `store_key` is `IndexKind::store_key`; `Decode[r]` is `from_bytes(to_bytes(r))` |
| `MultiStore` | the storage contract for one prepared namespace | `Read`, `Write`, `Set`, `Remove`, `Commit`, `Drop`: one action per call; `Restart`: the process ends and opens its data again |
| `RecordMap` | what a caller of a collection may rely on | a set of records; every operation is one atomic step or a failure |
| `Collection` | every collection operation, as steps of concurrent threads over a `MultiStore` | `pc` is the place in the function; `old` and `pos` are its locals; `Abort` is an early return or `?` |
| `MemoryBackend` | the memory backend at the level of its locks | `pc` is the place in `read`, `write`, `prepare` or a drop; locks are held exactly at the labels in `Shared` and `Exclusive` |
| `RedbBackend` | the redb backend: registry, its lock, redb's transactions, the end of the process | `pc` is the place in `read`, `write` or `prepare`, or the handle held; `registry` is `tables` of `RedbMultiStore`, `tables[t]` the copy in a handle; `Restart` is `open` of the same file |
| `Rebuild` | the builder and later builds of the same namespace, over either backend, against open write handles | a build is two steps: `PrepareRead` and `PrepareWrite` in memory, `PrepareTables` and `PublishRegistry` in redb; so is a write: `OpenCopy` or `OpenTransaction` gets the handle, `Write` or `Remove` changes its stores and commits them |
| `KeyEncoding`, `KeyCodec` | every built-in key type; decoding of arbitrary bytes | one operator per `encode` and `decode_part`; `KeyCodec` reads a tuple part by part (`decode_part`), then looks for bytes left over (`decode`) |
| `ScanBounds`, `Scan` | compilation of scan builders to byte ranges; a client that pages while others commit | `prefix_end`, the two bound encoders and each builder are operators; `Begin`, `Iter`, `Take`, `Resume` are calls |
| `CollectionProofs`, `RecordMapProofs`, `MemoryProofs`, `RedbProofs`, `RebuildProofs`, `KeyOrderProofs`, `KeyCodecProofs`, `ScanProofs` | theorems | |
| `MC*` | instances for TLC | |

`Collection` instantiates `MultiStore` with its own variables, so every step on a store is a step of
the contract; `MemoryBackend` is shown to implement the same module, and `RedbBackend` one instance of
it for each namespace (`Abstract(n)`). Operators with a suffix
(`Abort_Commits`, `prefix_end_KeepsTail`, ...) are mutants: plausible bugs that must violate a
property. They are not part of any specification.

Abstractions:

- In `Collection` keys are abstract. A store key stands for its encoding: `KeyCodec` checks that
  encodings are one to one and self-delimiting. A scan's range is the set of logical keys it selects;
  `Scan` is about which entries a range really selects.
- The steps of one operation on the main store (look up, decode, encode, set) are one action, and so
  are those on one index: the write handle is exclusive, so no other thread sees anything between
  them, and failures between them leave the same published state. Backend failures, codec failures
  and early returns are separate outcomes of each action.
- In `MemoryBackend` the inner `RwLock` around the published `Arc` is held only to copy or replace the
  `Arc`; each of these is one step. Lock poisoning is left out: it needs a panic while a lock is held.
  A `prepare` of the namespace takes any list of `Lists`; a store that is not in the list is then absent
  (`None`) from what is published, and from handles opened later.
- In `RedbBackend` redb is external: one write transaction at a time in the whole database, readers see
  what was committed when they began, a commit is atomic and durable. `read` and `write` keep the guard
  of the registry until the expression that builds the handle ends, so `write` waits for its transaction
  inside the lock. A table's name is the hex form of namespace and store, one to one, and is left out.
- In `Rebuild` what an operation does to the stores of its handle is one step with its commit, since only
  the handle sees them; builds, other writes and reopenings come before it and after. `persistent` chooses
  the backend. In memory a build waits for no write handle, and a commit publishes all stores of its
  handle, whatever was built meanwhile; in redb both are write transactions. One redb write at a time
  waits for its transaction, with the copy of the registry it has taken, and two builds with the same list
  are one.
- A byte has `MaxByte + 1` values. Arithmetic on keys keeps its width (`% 2^w` of the scaled width).
- The discriminants of an enum are a constant. There is one enum over an unsigned type and one over a
  signed type, of one byte each; of wider types the code is the same (`to_be_bytes`, `from_be_bytes`).

## Model checking

Runs that pass:

| run | checks | bounds |
|---|---|---|
| `collection` | indexes describe records exactly (`IndexConsistent`), unique keys, no `Unexpected`, the proof's inductive invariant, `ImplementsRecordMap` | 2 threads, 2 primary keys, 3 values, registry Multi, Unique, Unique |
| `collection_liveness` | `WriterReleased`, `QueriesReturn` | 2 threads, 1 primary key, 2 values, the same registry |
| `memory_gate` | `MutualExclusion`, `NoLostWakeup`, `NoStandstill`, `ImplementsMultiStore` | 3 threads, `prepare` of another namespace and of this one with two lists of stores |
| `memory_served` | `WaiterServed`, `ReaderServed` | 4 threads, no data, `prepare` of another namespace, the `RwLock` that holds readers back behind a queued `prepare` |
| `key_codec` | `EncodingIsSelfDelimiting`, `DecodeIsCanonical`, `OrderPreserved` | all byte strings up to 4 bytes of 4 values, 18 key types, enums over an unsigned type and over a signed one (discriminants of both signs) |
| `scan` | `IterExact`, `CursorChecked`, `NoPanic`, `PagesComplete` | 8 layouts that hold every key, every prefix, pair of bounds and direction, cursors for three of them; 2 small stores with 2 commits by others, every way to cut pages |
| `redb` | `HandlesComplete`, `NoStandstill`, `ImplementsMultiStore` | 2 threads, 2 namespaces (one with two lists of stores), 1 key, both kinds of `RwLock` |
| `redb_prepare` | `PrepareServed` | 4 threads, 1 namespace, both kinds of `RwLock` |
| `rebuild` | `IndexSound`, `StableIndexExact` | 2 primary keys, 2 values, a `Unique` and a `Multi` index type, 2 collections in use or being built, one open write handle, both backends |

Why the bounds are enough for the cases that matter. Three indexes let a write be refused at the
second and third position after earlier stores were staged, and values are chosen so that two records
clash in one unique index and not in the other. Two threads are a writer and whoever it disturbs:
only one can write at a time. At the gate, three threads are an owner, a sleeper and a latecomer,
the smallest setting in which a wakeup can be stolen. The four of `memory_served` are the links of
a chain: the owner of the gate, a writer that sleeps inside the map's lock, the queued `prepare` that waits
for that lock, and a reader behind it. In `redb` the second namespace is there because the write transaction is shared by all, and two lists that overlap in the main store only let a build
drop a store, add one, and meet a handle of the other build. `redb_prepare` needs a thread for each part
in what might hold a `prepare` up: the owner of the write transaction, a writer that waits for it inside
the registry's lock, the `prepare`, and a reader. In `rebuild` two collections in use are an
old and a new build, and while one has a write handle open the other may be built; two records that
clash in the `Unique` index may be there before it is registered. The signed enum of the key runs has the largest and
the smallest discriminants of its type, and those next to zero. Bytes
of two bits have a largest value, a value below it that carries, and zero, which is all that
escaping, carries and terminators look at; keys of up to four bytes hold two escaped parts. Every
operator on bytes is indifferent to how many values lie in between.

Clients, and primary keys in `collection`, are interchangeable (no index of the instance looks at the
primary key), so runs without liveness use symmetry.

Fairness. In `Collection` each thread keeps running (weak fairness of its write steps, read steps and
return); failures are not assumed to happen or not to happen, and nothing is assumed about which
waiting writer gets the handle: so no property says that a given writer is served. In
`MemoryBackend` threads keep running inside calls, and the owner of a write handle ends its
transaction, which `WriterReleased` shows of collection operations. `WaiterServed` promises a writer
its handle only if the others eventually stop writing, since `Condvar` and `Mutex` are not fair, and
calling `prepare`, since the lock lets one `prepare` after the other pass a queued reader.
`ReaderServed` is stated for the `RwLock` that holds readers back behind a queued writer, under two
conditions that it cannot do without: no thread reads while it has a write handle (the observation about
`NoStandstill` below), and threads at last stop calling `prepare` for the same reason.
In `RedbBackend`, too, threads keep running inside calls and write handles are ended; nothing is assumed
of read handles, of failures or of restarts. `PrepareServed` is stated where the `RwLock` lets a queued
exclusive lock go first (otherwise readers may keep it away for ever) and if threads at last stop calling
`prepare`: a `write` that waits for its transaction inside the lock competes for it with the first half
of every `prepare`, and redb promises no order. Calls of `prepare` that are under way are no exception.
`KeyCodec` runs without the deadlock check: decoding ends.

### Disagreements between code and documentation

Each is a run in which TLC must find the documented property violated.

| run | what the code does |
|---|---|
| `memory_prepare_again` | `prepare` of an existing namespace copies and writes back the stores outside the writer gate and undoes a commit in between; `store.rs` asks that it be safe to repeat. |
| `key_text_order` | Text ends in `0xff`, so `"a"` is above `"ab"`; the `Key` trait demands that order be preserved. |
| `scan_empty_range` | On a `Multi` index, a range that starts behind a key whose bytes are all `0xff` has no start bound and yields the whole index. |

Further observations, visible in the models without a run of their own:

- The `Item` trait's example has a `from_bytes` that sets `id: 0` (`item.rs:34-38`). `Collection::remove`
  passes the key of the decoded record to the indexes (`collection.rs:191`; `IndexRemove` with `old[c]`), so with
  such a codec the entry of another key is removed from a `Multi` index and the record's own stays.
  `IndexConsistent` therefore needs a codec that gives back the primary key (`CodecKeepsKeys`).
- `impl_enum_key!` writes a discriminant's `to_be_bytes` whatever its integer type (`macros.rs:96`), without
  flipping the sign bit as integers do, so a variant with discriminant -1 (`ff`) is above one with 0 (`00`), while
  `macros.rs:65-66` promises the order of the integers. The model has such an enum; `Ordered` of
  `KeyEncoding` leaves types with discriminants of both signs out of `OrderPreserved`.
- On a `Multi` index both bounds of `(Excluded(k), Included(k))` become `Excluded(prefix_end(k))`
  (`bounds.rs:82,91`), and `BTreeMap::range` panics on two equal excluded bounds (`backend/memory.rs:229`), though
  on the keys themselves it takes that range for an empty one. `NoPanic` is about ranges that hold some key.
- In memory the commit of a write handle that was opened before a build with one more index takes away the store
  that the build has added (`backend/memory.rs:279`), although the builder is documented to prepare the stores
  of the collection (`collection.rs:358-359`); operations of the new collection then panic. `Rebuild` has
  these steps (`OpenCopy`, `PrepareWrite`, `Commit`), and its type invariant claims prepared stores for redb only.
- redb keeps the table of an index that a build leaves out (`backend/redb.rs:120`); the build that lists it again
  finds the entries of records removed in between, on which an index scan ends in `Error::Unexpected`, documented as
  an internal invariant failure (`error.rs:30`). Such an index is not `maintained`.
- `Begin` of `Scan` takes the snapshot, as `Collection::index_scan` does (`collection.rs:290`), although
  the method is documented not to access the backend before `iter` (`collection.rs:220-222`).
- `MemoryBackend` with `WriterPreferring = TRUE` violates `NoStandstill`: where the `RwLock` holds readers
  back behind a queued writer (std does not say), a `write` that waits for the gate inside the map's
  lock, a queued `prepare` and a read by the gate's owner wait for each other for ever. The redb backend
  has the same shape and not the problem (`NoStandstill` there holds for both kinds): `prepare` has
  committed its transaction before it asks for the registry's lock.
- In memory a write handle that was opened before a build publishes the stores of the build before when it
  commits (`Commit` of `Rebuild`). Stores that the build dropped come back as they were; if it was a
  collection without the index that wrote, they come back with entries of records that it removed, and a
  build that lists the index again keeps them. Such an index is not `maintained`, as that write belongs to
  the history of its store.
- An index that is registered over existing records starts empty. Saving a record again does not add its
  entry while the key stays the same, since `Index::update` returns early; so such an index is sound
  (`IndexSound`) and not exact.
- A collection that was built with fewer indexes than a later one, and goes on writing, leaves the others'
  entries as they are. `maintained` in `Rebuild` excludes these as well.
- Nothing stops an index from being named `__main`; `NameAssumption` leaves it out.

The passing scan run states its properties for ranges that hold some key and cross neither text nor enums
with discriminants of both signs: the conditions `Admits` and `KeepsOrder` of `Scan` leave out exactly these cases.

## Proofs

`CollectionProofs`, for every set of threads, schema, number and kinds of indexes:

- `TypeCorrect`: the type invariant, for any codec that succeeds or fails.
- `TransactionCorrect`: the inductive invariant `TransactionInv`.
- `IndexesConsistent`, `UniqueKeysHold`, `NoUnexpectedHolds`: what follows from it.

All but the first assume `CodecKeepsKeys`: decoding a stored record gives back its primary key and
index keys. The first observation above shows that the assumption is needed.

`IndexConsistent` alone is not inductive: it says nothing of what a transaction has staged.
`TransactionInv` adds which handle an operation holds at each step (`HandleInv`); that records are
stored under their own keys (`WellFormed`); that a transaction that has not begun to write equals
what is published; and, for one in the middle (`MidTransaction`), that `old` is the decoded published
record, that the main store differs from the published one in the operation's key only, that indexes
before `pos` agree with the staged main store and that the others are untouched. The step of an index
rests on three lemmas about `Agrees`, one per way an index changes: `UpdateAgrees` (old entry out, new
entry in), `SameAgrees` (left alone), `RemoveAgrees`. A commit needs `pos` behind the last index, and
then all agree. Uniqueness follows since a unique entry holds one primary key; `NoUnexpected` since a
query follows entries within one snapshot.

`RecordMapProofs`: `CollectionImplementsRecordMap`, under the same assumption. The records of the map are
the published main store. A query takes effect when its snapshot is taken (`Seen`, `Answers`), a write
when it commits; so a step that fails after that, while a query follows its entries, is the second
disjunct of `Fail`. The steps that matter are those of the indexes: an index
that refuses a record shows that another record has its key (`TakenClashes`), and when the last index has
taken it, the staged indexes agree with the staged records and leave no clash (`CommitNoClash`). The
answer of an index query is computed from index entries; `IndexConsistent` of the snapshot makes it the
set of matching records.

`MemoryProofs`, for every number of threads, stores, keys and either kind of `RwLock`:

- `MemoryTypeCorrect`, `MutualExclusionHolds`, `NoLostWakeupHolds`;
- `MemoryNoStandstill`: no standstill if readers need not queue behind a writer (`~WriterPreferring`), and
  `MemoryNoStandstillWriterFirst`: with the other kind of lock none in states where no thread calls `read`
  while it has a write handle (`NoReadInWrite`). Whoever is blocked, a thread with the map's lock to
  itself, the owner of the permit or, at a free gate, a writer that is awake can go on
  (`SomeoneGoesOn`); that there is such a writer is `NoLostWakeup`;
- `MemoryImplementsMultiStore`: every step of the locks is a step of the contract or a stutter, except for
  the step in which a `prepare` of the namespace publishes its stores (`memory_prepare_again` shows that this
  one may undo a commit); `MemoryIsMultiStore`: without exception, if no existing namespace is prepared again
  (`"again" \notin Prepares`). The mapping takes the thread with a write handle as `writer`; that there is at
  most one is `MutualExclusion`.

`RedbProofs`, for every number of threads and namespaces, any lists of stores and either kind of
`RwLock`, with calls failing and the process ending anywhere:

- `RedbTypeCorrect`, `HandlesCompleteHolds`, `RedbNoStandstill`, from the inductive invariant `RedbInv`;
- `RedbImplementsMultiStore`: the contract of each namespace. A step of one namespace stutters in all
  others; the one write transaction of the database belongs to one thread, hence to one namespace.

`HandlesComplete` speaks of open handles only. `RedbInv` follows the tables from where they are created:
what the registry lists is on disk, so is what a thread has copied or is about to publish, a transaction
has every table that is on disk (so that a commit removes none), and the write transaction belongs to
the one thread whose `pc` is inside it. `OwnStep` reduces an action to what it does to its own thread:
other threads are disturbed only by `disk'`, which changes in the owner's steps and only grows.
`NoStandstill` then follows: whoever has the transaction can go on, and when nobody has it the
threads inside the registry's lock can.

`RebuildProofs`, for any index types, lists of indexes and number of collections in use, over both
backends, under `CodecKeepsKeys`: `RebuildTypeCorrect`, `IndexSoundHolds`, `StableIndexExactHolds`.
What is published, what a build has copied and what an open handle writes to are versions of the
namespace, and any of them may be published next. So the invariant `RebuildInv` demands `Valid` of all
three alike: a maintained index has its store, without dangling entries, and a complete one is full. A
build and a commit each make one version from another, and each makes a valid one (the lemmas on
`Prepare` and `Commit`); which version is replaced does not matter, and so neither does what was published
between opening a handle and its commit. This is why `maintained` and `complete` are part of a version
and not of the collection: a commit takes them back along with the stores. Next to it `RebuildInv`
has that collections have one index for a name, that an open handle's registry has all its stores in
the handle's version, and that in redb prepared tables exist. The lemmas about one index are again one
for each way it changes; `IndexUpdate` may leave a gap as it was (early return) but never a dangling
entry, since the old entry is computed from the record that is replaced.

`KeyOrderProofs`, about byte strings of any length and every odd `MaxByte` (so for 255 as well):

- `PrefixRangeExact`: the range from the bytes of a prefix to `prefix_end` holds exactly the strings
  that start with it, or has no end where all its bytes are `0xff`;
- `EncodingsApart`: no encoding of a key starts with that of another key of its type;
- `EncodingKeepsOrder`: encodings are ordered as keys are, for any list of discriminants, where the keys
  have the same text and the same variants of enums with discriminants of both signs (`SameUnordered`);
  `key_text_order` shows that the first condition is needed, the observation on `impl_enum_key!` that the
  second is.

All three rest on one relation: `Below(s, t)` holds when the first byte in which `s` and `t` differ exists
and is smaller in `s`. Unlike `ByteLess`, it survives whatever is appended to either side. Two values of
a part type are `Below` one another (`PartApart`: digits, sign bit, escapes and terminators, one case per
type); so are two keys, from the first part that differs on (`PartDecides`). Text and enums of mixed signs are the exception
to "in the order of values", not to `Below`: for an enum over a signed type a discriminant `d` is written as
`d % Base` (`EnumNumbers`), one to one, and in order as long as no discriminant is negative or all are. Concatenation is a fold in the model; `Joins` states it as the
function that satisfies the recursion, and `SetInduction` (a set of numbers closed under successor) does
the inductions.

`KeyCodecProofs`, for all key types, input of any length and every odd `MaxByte`: `CodecTypeCorrect`,
`DecodeIsCanonicalHolds`, `SelfDelimitingHolds`, `OrderPreservedHolds`. They rest on `PartDecoded`: for
each part type, `decode_part` returns `<<v, r>>` exactly when the bytes are the encoding of `v` followed by
`r`, and panics exactly when no value and no `r` would do. For byte strings that is `UnsizedDecoded`,
by induction from the last place of the loop to the first (`DecodedStep`); text ends at its first
`0xff`; integers of one and two digits are computed. With it, `CodecInv` is inductive: the parts read so
far, encoded, followed by the unread bytes are the input, and a panic means that the next part cannot be
read. That the key read is the only one then follows from `EncodingsApart`, and that there is no panic
where a key's encoding was put in from the part at which that key goes on (`NotStuck`).

`ScanProofs`, for all key types, stores, prefixes, bounds, directions and cursors, and any number of pages
and of commits between them: `ScanTypeCorrect`, `IterExactHolds`, `CursorCheckedHolds`, `NoPanicHolds`,
`PagesCompleteHolds`, each as `Spec => []P` with no condition besides `Regular`, which is part of the
properties. There are two halves:

- `FaithfulHolds`, about the request alone: the compiled byte range holds exactly the wanted keys, and on
  those the order of the bytes is the order of the entries. A key lies before the prefix, behind it or
  starts with it; in the last case what follows the prefix is compared with the bound (`StartIs`, `EndIs`).
  That the excluded start of a `Multi` group excludes all its entries needs primary keys of at least one
  byte; that the all-`0xff` case cannot drop the start bound is `Admits`.
- `PageInvariant`, about the steps: the iterator is what the snapshot still has beyond the cursor, what
  was seen is in order and up to the cursor, and stable entries up to the cursor were seen. It needs
  the order only to be transitive and irreflexive.

Assumptions on constants. `EnumAssumption` says that discriminants are in the range of their type and that
different variants have different ones. `SchemaAssumption`, `ClientsAssumption`, `MemoryAssumption`, `RedbAssumption`,
`NameAssumption` are types and `None` being no other value. `ByteAssumption` makes `MaxByte` odd, so that
half the range is a number. `ScanAssumption` says that stores hold keys of their types, and that key types
have a part; a key that is encoded as no bytes at all (`[u8; 0]`) is thereby left out, and as primary key
of a `Multi` index it would break the excluded start of a group. Integers have one or two digits
(`MaxWidth`), enums one, which is what TLC runs with; the wider types of the code are the same code with more
digits. TLC evaluates the assumptions in the runs.

Only model-checked: liveness (`WriterReleased`, `QueriesReturn`, `WaiterServed`, `ReaderServed`,
`PrepareServed`), which is out of the prover's reach with fairness.

## Not modelled, and what comes next

All parts that keep state at run time are modelled, and every safety property of the passing runs is
proved. What is left is width: integers of more than two digits (`MaxWidth`), for which the digits would
need an induction of their own, and the key with no bytes that `ScanAssumption` excludes.

Left out for good: the mock backend and the test suites (read for what they expect), the crate root,
the release script and workflows, which keep no state at run time; wording of errors; the inline
buffer type of encoded keys.
