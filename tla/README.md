# Verification of chton

TLA+ models of chton's media, of its storage core and of what concurrent callers
see of it, the TLC runs that check them on small instances, and TLAPS proofs of
their safety for every size: the allocator, the tree and the map with failing
writes, the cell, the key encoding, the file storage, and that the store, the
shared stores and the origins implement their abstract specifications. Paths below
are relative to `src/`; `M!D` is definition `D` of module `M.tla`.

1. [The system](#1-the-system)
2. [Modules and what they stand for](#2-modules-and-what-they-stand-for)
3. [Runs](#3-runs)
4. [Proofs](#4-proofs)
5. [What the code does and its docs do not say](#5-what-the-code-does-and-its-docs-do-not-say)
6. [Abstractions and limits](#6-abstractions-and-limits)
7. [Plan](#7-plan)

## 1. The system

chton keeps a sparse map from coordinate paths to byte values in one flat byte
region. From the bottom up:

| Component | State | Operations | Works with |
|---|---|---|---|
| `Origin`: `MemoryOrigin`, `FileOrigin`, `MappedFileOrigin`, `BlockOrigin`/`BlockSlice` (`chton/src/origin/`) | bytes, a length, a file cursor or a mapping | `open`, `read`, `write`, `erase`, `flush`, `len` | the medium |
| `TreeStrategy<N>` (`chton/src/binding/mod.rs`) | `bump`, `free_head`, `record_count` in memory; header, nodes, records and free list on the origin | `alloc_node`, `alloc_record`, `free_record`, `locate`, `locate_or_create`, `write_leaf`, `iter`, `count_records`, `reset`, `flush`, `load_or_new` | takes the origin as an argument of each call |
| `CoordMapStore<N>` (`chton/src/map/mod.rs`) | strategy, origin, `len`, `dirty` | `put_path`, `get_path`, `remove_path`, `iter`, `clear_checked`, `flush`, `load`, proximity and bounding box queries | owns strategy and origin |
| `Cell2<T>` (`chton/src/cell.rs`) | the process-wide critical section, a `RefCell` flag, the guards alive | `borrow`, `borrow_mut`, drop of `Ref`/`RefMut` | threads |
| Key encoding (`chton/src/store/mod.rs`, `str_to_coordpath`) | none (a function) | canonical syllables, base 11172 by long division | `CoordEntityStore` |
| `MemoryEntityStore`, `CoordEntityStore`, `MapEntityStore` (`chton/src/store/mod.rs`) | a map behind a `Cell2` | `get`, `contains_key`, `insert`, `remove`, `len`, `values`, `clear`, `replace_from`, `axis_filtered`, `proximity`, `flush`, `is_buffered` | one borrow of the cell per operation, but one per path in `proximity` |
| `CoordMapStoreIo` (`chton/src/io/coord_map_io.rs`) | a `CoordMapStore` behind a `Cell2` | `read`, `write`, `delete`, `list`, `flush`, `apply_batch` | `apply_batch` borrows anew for every step |
| `FsIo` (`chton/src/io/fs_io.rs`) | a directory | `read`, `write`, `list`, `delete`, each several calls of `std::fs` | other callers and processes, through the file system |
| `FileIo`, `BatchIo`, `BufferIo`, `BlockingIo` (`chton/src/io/file_io.rs`) | none | default batch loop, paging, blocking adapter | applications |

**What is hard here.** Records are recycled through a list threaded through the
records themselves, so one word written in the wrong order corrupts a map long
afterwards. Every operation is a sequence of origin writes, any of which may
fail with `?`, and nothing is rolled back. What makes a store reopenable (the
header) is written only by `flush` and `clear`, so a process that ends in
between leaves a tree newer than its header. The same entries can be found in
two ways (slots for `get`, bitmaps for `iter`). Guards of one thread share one
restore state. A batch and a proximity query drop their borrow between steps.
A file has one cursor for all its readers, and a length kept beside it that
failures can make wrong. `FsIo` has no lock at all: what callers see between two
calls of the file system is what the file system holds. The list of all
hazards, each at its line with the properties that would catch it, is in
`PROJECT.json`.

**What makes each component correct.**

- Allocation: no two spans in use share a word, a record is handed out once,
  the free list ends, and no state the code writes is refused as corrupt.
- Origins: every medium is the one byte region the tree is written for, a
  mapping covers what it says, and what was flushed survives a loss of power.
- Tree and map: `get` and `iter` agree, `len` counts the entries, a store that
  is not dirty reopens as it was, every answer is a map's answer, and a failed
  put damages no other key.
- Cell: a guard is alive only inside the critical section, a borrow never meets
  another thread's, and the section is given back after a panic.
- Keys: the encoding loses nothing, a path tells the key it came from, and
  exactly the keys beyond capacity are refused.
- Shared stores: each operation takes effect at once for all callers, a batch
  that answers Ok is on the medium, and a proximity query is right about every
  key nobody changed while it ran.
- FsIo: a key on which no two calls meet holds the whole of the last value
  written, and is read and listed as such.

## 2. Modules and what they stand for

```
TreeAllocator ........ TreeAllocatorProofs       MCTreeAllocator
     ^ implements
TreeStrategy <- CoordMapStore <- CoordMapStoreRefinement <- MCCoordMapStore
     :               |    :  implements
     :               |    +.. CoordMapStoreProofs (on TreeStrategyProofs)
     :               v
     :          CoordMapSpec
     +.. TreeStrategyProofs
Cell2 ................ Cell2Proofs               MCCell2
KeyEncoding .......... KeyEncodingProofs         MCKeyEncoding
StoreKinds <- SharedStores .. SharedStoresProofs  MCSharedStores
     ^             | implements
     +---- EntityStoreSpec
ByteRegion <- Origins ....... OriginsProofs       MCOrigins
     ^             | implements
     +---- OriginSpec
FsIo ................. FsIoProofs                MCFsIo
```

`PROJECT.json` "map" gives the lines of every definition.

**TreeAllocator**: `TreeStrategy` seen from the origin. `bump`, `free_head` and
`header` are the struct's fields and the fields of the header that allocation
uses; `word` and `origin_len` are the origin; `nodes`, `records` and `free` are
history: what was handed out and what came back. `alloc_node` is `AllocNode`,
or `AllocNodeFails` when its zeroing write fails after `bump` has moved;
`alloc_record` is `AllocRecordFromBump` or `AllocRecordFromFreeList`;
`free_record` is `FreeRecord`; `reset` is `Reset`, or `ResetFails` when zeroing
the root fails after the allocations were forgotten, followed by `WriteHeader`;
`load` is `Reopen` with the checks in `LoadAccepts`. The map layer is the
environment: `WriteSlot` writes a word of a node it holds, `WriteRecord` the
length prefix or the payload of a record it holds, each any of `Words`. It has no
bound but `MAX_OFFSET`, which is `u64::MAX` in the code.

**TreeStrategy**: the storage format as operators on an origin. `Locate` and
`NodesTo` are the walk of `locate`, `CorruptPath` is `check_child_in_bounds`,
`IterPaths` the bitmap walk of `iter`, `IterIsCorrupt` its end at a child out of
bounds, `WriteSlotWord` and `WriteSlotBit` the two writes of `write_slot`, `LoadOrNew` and `LoadIsCorrupt`
are `load_or_new`.

**CoordMapStore**: the map, one step per origin write. `op` says between which
two writes an operation is and holds its locals. A step of an operation named
in `FaultyOps` may fail: the operation ends with the error and keeps the
changes to the in-memory strategy made so far (`Fails`). Its reads may fail too:
at every level of a put (`PutUnread`) and before the first write of a remove
(`RemoveFails`). `put_path` is `Put`,
then per missing level `PutAllocNode`, `PutLinkNode`, `PutLinkNodeBit`, then
`PutAllocRecord`, `PutLeaf`, `PutLeafBit`, `PutLength`, `PutPayload`; an
existing key takes `PutOverwrite`; `PutRefused` and `PutTooLarge` are its
refusals. `remove_path` is `Remove` (the free list link), `RemoveLeaf`,
`RemoveLeafBit`; `clear_checked` is `Clear`, `ClearHeader`; `flush` is `Flush`,
`FlushOrigin`. `Reopen` is `load`, allowed when the store is not dirty, when
the header is up to date, or at any moment (a process that ends), according to
`ReopenWhen`. `get_path` is the operator `Lookup` and `iter` the operator
`Entries` (the values, or the error that ends the listing): they change nothing,
and the properties evaluate them in every idle state. `synced`, `wounds`,
`unmarked` and `torn` are history: whether every write so far was followed by an
origin flush; what failed operations have left that the properties must except
(`"header"`: the strategy changed and `dirty` did not, until the header is next
written; `"spans"`: a remove or a clear failed, until a clear succeeds); the slots
whose bit was not written when last it should have been; and the keys of which a
put was cut off after its leaf.

**CoordMapSpec**: what callers are promised, a map whose put and remove answer
with the old value. **CoordMapStoreRefinement** maps the detailed store to it,
and to `TreeAllocator`. An operation takes effect with its last write; until
then its key reads as `op.prev` (`Effective`). A node is in use from its
allocation on and a record until `free_record`, which is before its slot is
cleared (`NodesInUse`, `RecordsInUse`). The freed records, which the allocator
keeps as history, are read off the links on the origin (`FreeOldestFirst`).

**Cell2**: `owner` is the critical section, `flag` the `RefCell` of each cell,
`guards` the live `Ref`s and `RefMut`s of each thread, oldest first. Taking a
guard is `Acquire` (which may return "nested") then `Borrow` or `Panic`;
dropping one is `DropInner` then `Release`, in field order. A panic unwinds by
dropping the thread's guards, last first, and is caught. `LastFirst` says
whether running code drops guards only in that order. The critical section is
the std implementation of the `critical-section` crate: a lock with a
per-thread flag, whose release does nothing for a nested acquire.

**KeyEncoding**: `str_to_coordpath`; one step of `Divide` is one call of
`divmod_11172`, which is `DivMod`: a recursive function along the bytes, with
`DivByte` for each. Both bases are parameters, and the character tables of
`tagma_core` are the functions `Utf8` and `CoordOf`. `Number` and `Power` state
the properties: the number a vector of digits is, and a base to a power.

**StoreKinds, EntityStoreSpec, SharedStores**: several callers of one store of
each kind. An operation under one borrow is one step; `replace_from` holds its
borrow over a step per entry; `apply_batch` is a step per operation, then
`BatchCheck` (`is_buffered`), then `BatchFlush`; `proximity` is a step per path
(`ProximityNext`). `axis_filtered` is `Subtree` for checks that are a prefix and
`Scan` for all others, as in the code; `EntityStoreSpec!Matching` says what both
must answer. `EntityStoreSpec` is the atomic store; `SharedStores!Visible` is
what other callers can have seen: `before` while a `replace_from` holds the
cell. `unsettled` and `touched` are history: what a batch changed and nobody
flushed yet, and what changed since a proximity query began.

**ByteRegion, OriginSpec, Origins**: the media. `ByteRegion` has what they do to
bytes: `Extended` is the `resize` and copy of `MemoryOrigin`, `Overwritten` the
copy into a slice, `Slice` the clamped read. In `Origins`, `content` is the
`Vec`, the slice or the file, `durable` what of the file is on the medium,
`len`, `mapped` and `cursor` the fields of the file origins. A
`FileOrigin::read` is `FileSeek` then `FileRead`, because it takes `&self` and
another reader may come in between, and may return less than is there
(`Starts`); writes take `&mut self` and are one step. A write of a `FileOrigin` may fail after any part of the data (`FileWriteFails`);
one of a `MappedFileOrigin` may fail between `set_len` and `map_mut`
(`MappedRemapFails`). `PowerLoss` leaves of every byte the old or the new value
and of the file the old or the new length. `flushed` is history. `OriginSpec` is
one byte region with atomic calls, implemented under `bytes <- Visible`, the
part of the file below `len` for a mapping. `TreeStrategy` models its origin
directly, in words; its writes happen whole or, in `Fails`, not at all.

**FsIo**: `write` is `WriteDirs` (`create_dir_all`, which makes all the
directories or stops at any of them), `WriteOpen` (create and truncate),
`WriteWord` for each part, `WriteEnds`, or `WriteFails` at the open or any part; `read` is `Read` (open),
`ReadWord`, `ReadEnds`; `delete` is `DeleteTest` (`exists`) then `DeleteFile` or
`DeleteFails`; `list` walks a directory a step. `Batch` is
`default_apply_batch`, also for single operations. A file that is removed while
it is open lives on without its name (`orphan`). `possible` is history: what a
key may hold given the calls that ended, were cut short, or met on it (`ANY`);
`sure` says which keys a call had to itself so far.

Operators named in comments as "Mutant" are plausible bugs. No specification
uses them; each is paired in `PROJECT.json` with the property that detects it.

## 3. Runs

| Run (cfg) | Question | Bounds |
|---|---|---|
| `alloc` (MCTreeAllocator) | Do allocation, frees, failed writes, resets and reopens keep spans apart and the list threaded, whatever the owner writes? Is `IInv` an invariant? | node and record of 2 words, room for three spans after the root |
| `store_implements` (MCStoreImplements) | Is the store, write by write, a map for its callers and a `TreeAllocator` for its origin? | 2 keys on 2 leaf nodes, values that are empty, one word and one word too long; `Words` are the offsets, which is all the store writes at this size |
| `store_faults` (MCStoreFaults) | What do tree, free list, bitmaps, `len` and header agree on after any sequence of operations, of which any may fail at any read or write? | 2 keys on one leaf, 2 levels, fan-out 2, the same values, 2 failures, offsets run out |
| `origins` (MCOrigins) | Is each medium one byte region, with failing calls, reopening and power loss? | 2 byte values, 3 bytes, writes of 0 to 2, 2 readers |
| `cell` (MCCell2) | Are borrows exclusive, is the section held and given back, also by a panic? | 2 threads, 2 cells, 3 guards a thread |
| `keys` (MCKeyEncoding) | Is the encoding injective and its capacity exact? | bytes below 4, coordinates below 5, 3 payload axes, strings of up to 4 of 6 characters, and longer ones of two |
| `shared` (MCSharedStores) | Do concurrent callers see atomic operations, does a batch that answers Ok leave nothing unflushed, is a proximity query right about untouched keys? | 2 callers, 2 keys and one that is refused, 2 values one of which is too large, 8 sets of axis checks |
| `fs` (MCFsIo) | What holds of `FsIo` between the calls of the file system it makes, with errors and restarts? | 2 callers, 3 keys of which one is a directory above another, two deep; values of no and of two parts; callers interchangeable |
| `stale_header`, `clear_buffered`, `cell_any_order`, `shared_cursor` | Documented statements that the code does not keep; see section 5. | as small as shows it |

Why the bounds are enough. A slot position matters only as first, last or
neighbour of another in the same bitmap: fan-out 2 has all three. Two levels
have an inner node, a leaf, and a node shared by two keys or not. The free list
reaches two elements (last in, first out, and the link of the older one), and
allocation runs out of offsets in every run with a small `MAX_OFFSET`, so the
refusals are reached with the list empty and not. Values differ as empty, one
word and one word too long. Two failures are the least that let one failure
meet what another left. `store_faults` follows a behaviour in which a remove or
a clear has failed only through further clears (`ThenCleared`): before one
succeeds the properties claim nothing, since spans may be shared. It identifies
states that differ only in the last answer and in `synced` (`VIEW`): no step reads
them, and its properties only ask what a step answers (`PutTakesEffect`), which
TLC looks at on every step. Three guards
give a thread an oldest, a middle and a newest one, so that a nested guard is
both kept and dropped below another; two threads are enough because only one is ever inside. In
`keys`, bytes and bases are scaled down with the same order (byte below base),
so that numbers beyond capacity, quotients with inner zero bytes, leading zero
bytes, and lengths beyond the marker all occur. In `origins` a write of up to
two bytes into a region of up to three can lie before, across, at and past the
end, and the extension by one that failed can be followed by a longer or shorter
one. In `shared` the axis checks are a prefix, out of order, with a gap, doubled,
empty, and beyond the coordinates and the depth. In `fs` a value of two parts is
the least of which a part can be seen, and it mixes with an empty one written
beside it; a key below another key is the least with which a file is in the way
of a directory, and two directories above it let their making stop in between.
Callers differ in nothing but their name (`SYMMETRY`).

`CHECK_DEADLOCK FALSE` appears only in `MCKeyEncoding.cfg`: a function returns.

**The properties worth reading first.** `SpansDisjoint` relates the tree, the
free list and `bump` after whole operations. `IterAgreesWithGet` says
what `iter` answers given what `get` does: which entries a failed bitmap write
hides, and which failures can make the whole store impossible to list.
`ImplementsAllocator` is what carries the allocator theorems over to the store.
`OtherKeysUntouched` and `PutTakesEffect` say what failed writes may not do:
change another readable key, or make a put that answers Ok read back as
something else. `LenWithinFaults` bounds the error of `len`. `SectionIsReturned`
covers the acquire whose state a panic loses. `ImplementsEntityStore` includes
the two ways `replace_from` fails and the two ways `axis_filtered` answers;
`ProximityRightOfUntouched` is what remains of a query that is no snapshot.
`ImplementsOrigin` is the contract the tree relies on, `FlushedSurvives` what
`flush` is for. `KeysAreWhole` says exactly when a file of `FsIo` can hold
something that nobody wrote.

**Fairness.** Only `Cell2!FairSpec` has any: weak fairness of the steps of a
thread that is unwinding. These steps never block (`DropInner`, `Release` and
`Caught` wait for no one), so a scheduler that runs runnable threads provides
it. Nothing obliges a thread to borrow or to drop a guard it still uses. Under
it, `PanicFreesSection` holds: a panicking thread leaves the section. The other
components are sequences of calls made by callers; nothing in the code promises
that a caller goes on, so they state no liveness.

## 4. Proofs

**TreeAllocatorProofs**, for every root offset, node size, record size,
`MAX_OFFSET` and set of words the owner writes (`SizesAssumption`: sizes are at
least 1 and the root fits). The invariant is `TreeAllocator!IInv`:

- `NoOverlap` alone is not inductive: a span is fresh only because everything
  lies below `bump`, hence `BelowBump`.
- A recycled record is unused only because freed records are apart from
  everything in use and from each other, hence `FreeIsApart`.
- The next head is a freed record only because the link stored in it is the
  next older one, hence `FreeListThreaded`. It survives the owner's writes
  because these fall inside spans in use, which are apart from freed ones.
- A head is never past the end of the origin, because a freed record was
  written; a reopen needs the same of the header on the origin, hence
  `LoadAccepts`.

The theorems hold of stores that are flushed before they are reopened: `Reopen`
requires the header on the origin to be the strategy in memory. What happens
otherwise is the run `stale_header`.

One lemma per action shows `IInv'`; the theorems are `InductiveInvariant`,
`TypeCorrect`, `AllocationsNeverOverlap`, `FreeListStaysThreaded`,
`RecordsAreHandedOutOnce` and `CorruptionIsNeverReported`.

**Cell2Proofs**, for any number of threads, cells and guards, under the
assumption `LastFirst` (without which `GuardHoldsSection` is false). The
invariant is `Cell2!IInv`: a thread is inside exactly when it has a guard or
one in progress (`InsideWhileGuarded`), only its oldest guard carries the
releasing state (`OldestIsOutermost`), and each `RefCell` counts the guards of
the thread inside (`FlagsCountGuards`). The last is what exclusivity needs: a
flag of 0 must mean no guard at all, so the count must be exact, and it is kept
so by `CountsMore` and `CountsFewer`, which add and remove one index of the set
of guards on a cell. The theorems are `InductiveInvariant`, `TypeCorrect`,
`GuardsAreInside`, `BorrowsAreExclusive`, `SectionIsAlwaysReturned` and the
action property `OnlyReentryPanics`.

**SharedStoresProofs**, for any callers, keys, values, lists, batches, axis
checks and cubes (`SharedAssumption`, `CallsAssumption`: the kinds of keys and
values are apart, and a cube names no key twice). The inductive invariant has
one part per thing that spans steps:

- `BatchInv`: a batch under way works on the `io` kind, whose cell is free
  between steps, and what it left unsettled keeps `buffered` true. From it
  follow `Settled` and, since a batch answers Ok only from an unbuffered check
  or its own flush, `OkMeansSettled`.
- `HolderInv`, `ReplaceInv`: the caller inside `replace_from` is the holder,
  everything after its position is still to do, and the store is what the
  entries so far make of an empty one (`HoldsFirst`). With `KeysInv` (a store
  holds no key it cannot represent) each step of `replace_from` but the last is
  a stutter of `EntityStoreSpec` and the last one is its `Replace` or
  `ReplaceFails`: `Implements`. `FilterMatches` shows that a subtree walk and a
  scan select the same entries.
- `ProximityInv`: of the paths a query has asked for, the result has exactly
  the untouched ones that are in the store: `ProximityIsRight`.

**OriginsProofs**, for any bytes, offsets, data, images and readers. The
invariant is `TypeOK`, `LenIsExact`, `MappingCoversLen`, `Kept` (bytes flushed
and not written since are in the file and on the medium, which is what makes
`FlushedSurvives` survive a loss of power) and, for the refinement, `Aimed`: a
locked reader between its seek and its read finds the cursor where it put it.
`Implements` has `Locked` as its hypothesis; without it the statement is false
(run `shared_cursor`). The theorems are `TypeCorrect`, `LenStaysExact`,
`MappingIsWhole`, `FlushedIsKept` and `Implements`.

**TreeStrategyProofs** has the lemmas about the storage format, for every depth,
fan-out and record size. `NodesTo` and `Bit` are recursive functions; that they
satisfy their own equations (`NodesToIs`, `BitIs`) is shown by building the
approximations up to each level and taking the least level where something goes
wrong (`LeastNat`, `UpTo`), because the library's induction theorems take an
operator as a parameter. On these rest:

- the tree: `Tree` says that every child lies inside the origin and that no two
  paths reach a node or record in two ways (`SharedWay`, `SlotsAreOwn`). A write
  outside the slots of a walk leaves the walk alone (`WayKept`, `PathKept`), one
  to a slot changes just the paths through it (`LeafWritten`, `ChildLinked`,
  `SlotWritten`);
- the bitmap: setting or taking one bit changes no other (`BitAdded`, `BitTaken`);
- the free list: `Chain` is a list threaded through the words, `Laid` says that
  its records, the nodes and the records in use lie apart below `bump`; both
  survive every allocation, free and write (`ChainKept`, `LaidNode`, `LaidRecord`,
  `LaidPop`, `LaidPush`).

**CoordMapStoreProofs**, for any depth, fan-out, record size, keys and values,
and any number of failing writes. The inductive invariant `IInv` is, at every
place inside every operation:

- `OpNamed`: where an operation is tells which one it is and what its locals are;
  `HeaderSound` and `StrategySound`: a header or strategy never points past what
  was written, which is what makes `load` succeed;
- while the store is `Whole` (no failed remove or clear is waiting for a clear):
  `Tree`; `SomeFreeList`, that is `Chain` and `Laid` of some list, for the spans of
  the tree with the one an operation has allocated and not linked yet and
  without the one it has freed already; `InFlight`, what the locals say about the
  origin between two writes; `Counted`, `len` against the entries, with the one an
  operation has half added or taken and one more per failure; and `Marked`, that
  a slot has its bit exactly when it is in use, but for the slots in `unmarked`
  and the one being written.

`SpansDisjoint` alone is not inductive: between operations it says nothing of a
node that is zeroed and not linked, and a link that is about to be written
must be known to lead to a node of zeros that nobody else has.

`TypeOK`, `SpansDisjoint`, `IterAgreesWithGet`, `LenWithinFaults`,
`LoadNeverRefused`, `OtherKeysUntouched` and `PutTakesEffect` hold of the
behaviours that stay `Covered`: after a failed remove or clear only a clear
follows, and a store is not reopened with a header that is behind. The first is
what `store_faults` is constrained to, and section 5 says what happens otherwise;
the second is what the run `stale_header` shows the code to need. `FailedPutsAreHarmless` has no such hypothesis but two on the constants:
where only puts and flushes fail and a store is reopened with its header up to
date, every behaviour is covered, and all of it holds. `DirtyTracksHeader` is
proved of every behaviour, from an invariant of its own (`DirtyInv`).
`OtherKeysUntouched` follows from one lemma per write that its words are none of
those another key is read from (`StepSpares`, `SparedReads`).

`IterAnswersAsGet` needs one thing more than `IInv`. `Marked`, down a path, says
that the bitmaps lead to an entry exactly when its slots do and none of them is
in `unmarked`. Which entries can be read is `KeysRead`: a key that answers with
an error is in `torn` or is being put. It is kept because a write spares the words
other keys are read from (`StepSpares`) and the record of the key itself is
unreadable only between its leaf and its payload.

The two refinements are theorems about stores whose writes succeed
(`FaultyOps = {}`); what fails is not a map's step, and a node that a failed put
allocated and did not link is in use for the allocator and unknown to the tree.

`ImplementsTheMap` is about what callers see, for a store that is reopened when it
is not dirty or its header is up to date (`ReopenWhen # "crash"`), while the
offsets last (`HasRoom`: a put that is refused for want of them is no answer of a
map). Its invariant is `MapInv`: `IInv`, no wounds, and two things `IInv` need not
know. `AllRead` says that every key but the one between its leaf and its payload
reads as a value or as nothing; a put elsewhere might otherwise repair it.
`NothingBefore` says that a put on the way to a new leaf found nothing, and that its
key has no record yet: the old value it will answer with is what the key reads as
until its last write. Other keys are `SparedReads` again.

`ImplementsTheAllocator` maps each write to a step of `TreeAllocator` or to none,
with an owner who may write any number (`Words = Nat`). It needs `Covered` but no
room: a refused put has nothing in flight. The nodes and records that `IInv` holds
apart are those in use for the allocator (`InUseIs`); the `Chain` of `IInv` is
`FreeOldestFirst`, read backwards (`SpeltIs`, `ChainSpelt`), and it is read off
completely because records that lie apart below `MAX_OFFSET` are at most that many
(`FewFree`). On that there is one lemma per kind of step: a node zeroed
(`AllocatesNode`), linked (`LinksNode`) or marked (`SetsLinkBit`), a record
taken (`AllocatesRecord`), written (`WritesLength`, `WritesPayload`) or freed
(`FreesRecord`), a leaf set or cleared (`WritesLeaf`, `WritesLeafBit`), a clear
(`ResetsAll`), a header (`WritesHeader`), a reopen (`AllocReopens`), and the steps
that write nothing (`AllocStutters`). `AlwaysTheAllocator` has hypotheses on the
constants only: no failing writes, and a store reopened with its header up to date.

**KeyEncodingProofs**, for any bases, depth, characters and keys
(`EncodingAssumption`: the base is above a byte and a character has at least one
byte). A recursive function is shown to exist and to be unique before anything is
said of it (`Recursion`, `SameRecursion`, `StaysIn`). From the arithmetic of one
step of a long division (`DivisionIs`, `Quotient`) follows `DivByteIs`: the
quotient of a byte is a byte again, so that the `% BYTE` of the code cuts nothing
off; hence `DivModIs`: quotient times base plus remainder is the number divided.
`BelowPower` and `DigitRead` are about positions: digits below a base make a
number below its power, and are what a division by a power reads back. The
invariant is the type, the three properties, `Unfilled` (the axes not divided for
yet are still 0, without which `NothingLost` says nothing of the next division)
and `OnlyGeneral` (only keys that are neither canonical nor empty are divided).

**FsIoProofs**, for any callers, keys, values, batches and prefixes, with every
call of the file system failing or the process restarting at any moment. There is
no hypothesis but `FsAssumption`. The invariant is `KeysAreWhole` with

- `Rooted`: directories are closed upwards, files stand in directories and are
  none; `OpenOf`: an open file has content, by its name it is the file of its key;
- `AloneOf`: nobody else changes what a call is `sure` of; `ChangeOf`: what a call
  that has its key to itself may still leave behind is among the `possible` (all
  prefixes of its value, since it may be cut anywhere), and where it is not
  alone, `ANY` is;
- `ReadOf`: what a reader that has its key to itself has read is how the file
  begins, hence `ReadsAreWhole`; `WalkOf`: a file not found yet lies below a
  directory still to be walked, hence `ListSeesQuietKeys`.

**Model-checked only.** Liveness (`PanicFreesSection`): fairness and ENABLED are
outside the prover. Every invariant, action property and refinement of the passing
runs is stated by a theorem. Induction over data is done over sets of naturals where a proof
needs it. No module uses a RECURSIVE operator, so none is barred from proofs.

## 5. What the code does and its docs do not say

Runs that TLC refutes, each holding the code to a sentence of its docs:

- `stale_header`: after a process ends without `flush`, `load` adopts a header
  whose `bump` lies below linked nodes and records, and allocates over them.
- `clear_buffered`: `clear_checked` sets `dirty` to false without an origin
  flush, also when earlier puts were not flushed.
- `cell_any_order`: dropping the older guard first releases the section under
  the newer one; `chton/tests/cell.rs` drops in that order.
- `shared_cursor`: two threads that read one `FileOrigin` move each other's
  cursor, and one gets bytes of another offset. Inside chton a shared origin is
  behind a `Cell2`, whose critical section orders the readers: `Locked`.

Seen in the code and left to this description:

- A reopened store takes `len` from the header, which is older than the tree
  when the process ended before `flush`; the doc of `CoordMapStore` says it
  walks the tree (`chton/src/map/mod.rs:109-111`). With a header that is up to
  date `LenWithinFaults` holds across the reopen.
- `put_path` and `remove_path` set `dirty` only at their end, so one that fails
  leaves a changed strategy in a store that says it is not buffered, though the
  field's doc says "True when the strategy header is not yet written to the
  origin" (`map/mod.rs:116`). It needs no failing write: a put that is refused a
  record after it was given a node, because the offsets ran out, does the same.
  `DirtyTracksHeader` excepts headers so wounded, and holds of all others.

- "The mapping always covers the full file length"
  (`chton/src/origin/mapped_file.rs:5-6`): a `MappedFileOrigin` whose remap failed
  has a longer file than its mapping, as the comment at lines 90-92 admits by
  promising reads "within the previous length" only. The rest reads as zeros once
  the file is reopened, and a later, shorter `set_len` cuts it again.
  `MappingCoversLen` holds of `len`, not of the file.

Met while modelling, with no sentence to hold the code to:

- A put that fails between its leaf and its length write leaves a slot whose
  record was never written. It reads as `CorruptRecord` when it lies at the end
  of the origin, otherwise as whatever the recycled record holds; `iter` then
  fails for the whole store or lists that value. While it reads as an error,
  `put_path` and `remove_path` of that key fail too, since both read the old
  value first. `OtherKeysUntouched` therefore excepts keys that already read as
  an error: later writes that extend the origin make them readable.
- A put that fails between a slot and its bitmap bit leaves an entry that `get`
  finds and `iter` and `count_records` do not. If the slot is one of an inner
  node this hides every key below it, for good: nothing writes that bit again.
- `remove_path` frees the record before it clears the slot. If the slot write
  fails the record is both referenced and free: another key can take it, and a
  second remove links it to itself. If the bitmap write fails, `len` stays one
  too large. `reset` forgets the allocations before it zeroes the root; if that
  write fails the old tree stays reachable while its spans are handed out again,
  and a header written then can make `load` refuse the store. A clear that
  succeeds heals all of it; until then `SpansDisjoint`, `LoadNeverRefused` and
  the others say nothing (`wounds`).
- Two overlapping writes of one key through `FsIo` can leave a mix that nobody
  wrote, and a read beside a write can answer a part of it; the module says
  "Thread-safe via the OS filesystem (no internal locks needed)".
- A key of `FsIo` and a key below it exclude each other, in either order, also
  after deletes: directories are never removed. `read` of a key that is a
  directory or lies below a file is an error and not `None`.
- `FsIo::list` of a prefix that is no directory lists nothing;
  `CoordMapStoreIo::list` takes any leading part of a path.
- `FsIo` never syncs: what a loss of power leaves of its files is not modelled.
- A `FileOrigin` write of nothing past the end raises `len` only, and a write
  that fails beyond the end leaves the file longer than `len`.
- Capacity of a general key is by value: a key with leading NUL bytes longer
  than the nominal capacity is accepted, and still decodes.

## 6. Abstractions and limits

- One model word is 8 bytes; a bitmap is one word (in the code 1397 bytes); the
  header is one unit at offset 0. A record slot is a whole number of words.
- A failing write of the store writes nothing; partial writes are modelled in
  `Origins` and `FsIo` only.
- A read of the store is whole or fails. A read that returns fewer bytes than are
  there is in `Origins`; the tree and the map report one as corruption, as they do a
  record beyond the end, except `load`, which ignores how many bytes of the
  header it got (`binding/mod.rs:224`).
- Keys of `FsIo` are names below its root; a key with `..` or a leading `/` is not
  modelled. Nor are `exists()` answering false because it could not look (a
  `delete` then answers Ok and removes nothing), a read of a file that fails
  part-way, and another call between two of the `mkdir` of one `create_dir_all`.
- In `CoordMapStore`, ending the process keeps every write made (the page cache
  survives); what a loss of power would do appears there only as `synced`, and
  byte by byte in `Origins`.
- External, and modelled from how the code uses it: the file system (`FsIo`:
  names, open files, directories; `Origins`: what a sync promises), the
  critical section, `catch_unwind`, `iter_prefix` of the coordinate space (the
  entries whose path starts with the prefix), and the paths `proximity` visits
  (given as a constant sequence of distinct ones).
- `MAX_OFFSET` stands for `u64::MAX`; every other bound is a constant of a cfg:
  `MAX_FAULTS`, `MAX_GUARDS`, `MAX_END`, and the sets of keys, values, lists,
  batches, checks and cubes.
- The readers of `Origins` are threads of one process; a second process that
  changes the file under an open origin is not modelled. The one-thread contract
  of `BlockOrigin` is an assumption of the trait (`unsafe`), so views and writes
  never overlap in the model.
- `EntityStore` operations do not fail for reasons of the origin in
  `SharedStores`; such failures are in `CoordMapStore`. `BatchFlush` may fail.

**Not modelled.** `bounding_box_range` and the proximity query of a store that
nobody shares (loops of `get_path` that change nothing); `iter_filtered` and
`iter_prefix_filtered` (a caller's closure over the entries that `values` and
`axis_filtered` give); `count_records`, which walks as `iter` does and reads no
record; the string keys of the `CoordMap` trait (an external
conversion, then `put_path` and the others); the path prefix in a value of
`CoordMapStoreIo` and the prefix filter of its `list`; the `block_on` adapter,
`ReadyIo` and `list_page` (no state); capabilities and error texts (static); the
wasm `Cell2` (a plain `RefCell` on one thread); benches.

## 7. Plan

Done: allocator and its proofs; tree and map with failures of every operation
and reopening, and the proofs of their invariants; the two refinements of the
store, checked and proved; the cell and its proofs; key encoding and its proofs; shared stores with
their queries, and the proof that they implement `EntityStoreSpec`; the origins,
and the proof that they implement `OriginSpec`; `FsIo` and its proofs.

What would add most next:

1. **Composition** of `Cell2` with the stores and the origins: that a caller's
   borrow is the atomic step `SharedStores` takes it for, and `Origins!Locked`.
2. **The store over `Origins`**: power loss between the writes of a put, with
   `FlushedSurvives` as the only thing the medium promises.
3. **The map with failing writes.** An abstract map in which a put that failed has
   either happened or not, and a key half written reads as an error.
