# TLA+ models of PartitionAlloc components

These modules model the parts of this PartitionAlloc tree whose correctness depends on interleavings, call orders or bit-level encodings. The TLC configurations beside them check those parts. Every action is translated from the source file and lines that `PROJECT.json` ("map") names.

## The system and how its parts interact

| Part | Source | What it does |
|---|---|---|
| `AddressPoolManager::Pool` | `src/address_pool_manager.cc` | A bitmap of super pages with a first-fit `FindChunk` and `FreeChunk`, plus a `bit_hint_` below which no bit is free. `AddressPoolManager` maps 1-based handles to pools. |
| `PartitionAddressSpace` | `src/partition_address_space.{h,cc}` | `Init` reserves one region, aligns its start up and `Add`s the non-BRP and BRP pools to `AddressPoolManager`, which hands out the first free 1-based handle. The header keeps each pool's base and handle in `setup_` and classifies an address by `(address & base_mask) == base`. Before `Init` the bases are the offset masks, which no address matches. The freelist asks it for a pointer's pool. |
| `PoolOffsetFreelistEntry` | `pool_offset_freelist.h` | A free slot's first two words. `next_` is the next entry as an offset into the pool, keeping MTE tag bits. `shadow_` is `~next_`. `GetNext` decodes `next_` and crashes unless `IsWellFormed`. |
| Scheduler-loop quarantine (SLQ) branches | `scheduler_loop_quarantine.{h,cc}` | `free()` puts objects into a branch instead of freeing them. When a branch is over capacity, it evicts random entries. The shared branch (`<false>`) takes a lock and frees evicted entries after unlocking, in batches of at most `kMaxFreeTimesPerPurge`. The thread-bound branch (`<true>`) frees them inline. Every branch updates its `SchedulerLoopQuarantineRoot`'s relaxed atomic counters. |
| Runtime stats | `scheduler_loop_quarantine_runtime_stats.cc` | Rolling windows of zap, purge and total times. A zap far above the average pauses the quarantine. |
| Shim root singleton and entry points | `shim/allocator_shim_default_dispatch_to_partition_alloc.cc` | `LeakySingleton`: each allocation token's root is built lazily under a CAS spin lock. `Malloc` and friends allocate from `Allocator(token)`. `Realloc` takes the root from the address, and `Free` returns a block to its own root. `EnablePartitionAllocMemoryReclaimer` registers the roots. `ConfigurePartitions` then builds new allocators and, token by token, switches the new root's bucket distribution, records the old root, `Replace`s it and purges it. |
| LightweightQuarantine | `lightweight_quarantine.cc` | An older quarantine with a root-wide byte budget. `Quarantine` loads the capacity without the lock, checks the other branches' bytes, purges and inserts under the branch lock, and adds to the root's counters after unlocking. |

How the parts interact:
- The shim's roots allocate from pools.
- Freed slots go through the quarantine and then onto freelists.
- The runtime stats time each quarantine call.

## Modules

| Module | Models | State ↔ code |
|---|---|---|
| `AddressPoolAbstract` | What a pool promises | A set of disjoint live chunks. `Alloc` returns the first run of free pages that fits. |
| `AddressPool` | `Pool::Pool`, `FindChunk`, `FreeChunk` | `alloc_bitset` = `alloc_bitset_`, `bit_hint` = `bit_hint_`. `live` is the chunks callers hold. `InnerScan`/`OuterScan` are the two loops of `FindChunk`, recursively. It refines `AddressPoolAbstract` (`chunks <- live`). |
| `PoolOffsetFreelist` (+ `MCPoolOffsetFreelist`) | `SetNext`, `ClearForAllocation`, `GetNext`, `EncodeToOffset`, `DecodeFromOffset`, `IsWellFormed` | `next`/`shadow` hold the words of each pool address. Addresses are 6-bit words, so `&`, `|` and `~` are the code's operations at a smaller width. |
| `SLQGlobalBranch` (+ `MCSLQGlobalBranch`) | `Quarantine<false>`, `Purge`, `SetCapacityInBytes`, `PurgeInternalWithDefferedFree`, `BatchFree`, `QuarantineEpilogue` | One `pc` per thread, with `Quarantine` split at its atomic steps: exchange of the working memory, locked section, each `BatchFree` iteration, exchange back, unlocked stats, epilogue. |
| `SLQThreadBound` (+ `MCSLQThreadBound`) | The member initialisers of the branch and of the root's counters (`Init`, `RootInit`), `Configure`, `Quarantine<true>`, `Purge`, `SetCapacityInBytes`, `ScopedQuarantineExclusion`, destructor, and the query `IsQuarantinedForTesting` | Each call is atomic on its own thread's branch. Two threads share the root's counters. |
| `SLQRuntimeStats` (+ `MCSLQRuntimeStats`) | `InitOrResetStats`, `AddStats`, `ShouldPause`, `ReportedStats`, `BucketStats::{Reset,Reported,RecordValue}` | `AddStats` takes the phase lengths of one quarantine. One bucket index stands for all of them, since the indices never interact. |
| `LightweightQuarantine` (+ `MCLightweightQuarantine`) | `LightweightQuarantineBranch::Quarantine`, `PurgeInternal`, `Purge`, `SetCapacityInBytes` | `slots` = `slots_` (sizes only), `bsize` = `branch_size_in_bytes_`, the root variables = its relaxed atomics, `capacity` = `capacity_in_bytes_`. `Quarantine` is split where another thread can act: the relaxed load of the capacity, the locked check, the locked purge and insert, and the root `fetch_add`s after unlocking. `cap[t]` and `usable[t]` are what a thread loaded before it took the lock. Sizes are `size_t` modulo `SizeMod`. `PurgeCount` is the purge loop, recursively. |
| `PartitionAddressSpace` (+ `MCPartitionAddressSpace`) | `PartitionAddressSpace::Init`, `UninitForTesting`, `InitConfigurablePool` (from the spec), the header's `setup_` defaults and queries, `AddressPoolManager::Add`, `ResetForTesting`, `GetPool`, `Alloc`, `Free` | `setup[k]` = the base and handle fields of `setup_`, `pools` = `AddressPoolManager::pools_`, `reservedStart`/`reservedBase` = the statics of the `.cc`, `chunks` = the ranges callers hold. Addresses are 6-bit words. `CageInit(s)` takes the reservation start `s` from every value `SystemAllocPages` may return. The pools allocate as `AddressPoolAbstract` does. |
| `ShimRootSingleton` (+ `MCShimRootSingleton`) | `LeakySingleton::Get`, `GetSlowPath`, `Replace`, `SimpleScopedSpinLocker`, `Allocator`, the allocating entry points, `Realloc`, `AlignedRealloc`, the `Free` family, `EnablePartitionAllocMemoryReclaimer`, `ConfigurePartitions` | Per token: `instance` = `instance_`, `lock` = `initialization_lock_`, `original` = `g_original_roots`. `finalized` = `g_roots_finalized`. `dist` is each root's bucket distribution. `allocs` is the set of live blocks, each with its root and the distribution it was allocated under. Roots are `Buffer(k)` (the lazily built root) and `NewRoot(k)` (`new_main_allocators[k]`). |

Order of construction:
1. pool;
2. freelist;
3. shared branch;
4. thread-bound branch;
5. stats;
6. shim;
7. lightweight quarantine;
8. address space with the handle table.

`AddressPool` instantiates `AddressPoolAbstract` for its refinement. The SLQ modules both model the root's counters, each from its own branch type. Mutation variants (`...NoPop`, `...KeepHint` and so on) sit directly before the definition they replace. They are not part of any specification.

## Runs

| Run | Expect | What it checks | Bounds |
|---|---|---|---|
| AddressPool | pass | `TypeOK`, `BitmapMatchesLive` (bit set iff a live chunk covers it), `HintSound` (all bits below the hint set), `FindChunkIsFirstFit`, and the refinement `AbstractSpec` | 5 super pages, requests of 1, 2 and 3 pages. This fragments the pool, fills it exactly, and fails by one page. |
| SLQGlobalBranch | pass | `TypeOK` (no direct-mapped object in the quarantine), `EveryObjectInOnePlace` (no double free or leak), `BufferOwnership` (one user per working buffer), `RootCountersTrackBranch` (in every state, the root's `count_` and `size_in_bytes_` equal the branch's contents less the `fetch_add`s of threads past the unlock), `SlotsBoundedBySoftCap` (although the capacity is soft, the entry count stays within the largest capacity over the smallest usable size, and no purge saves more than the `ToBeFreedArray` holds), `DeferredEventuallyFreed` (liveness) | 2 threads; objects of size 1, 1 and 2 plus one direct-mapped object; capacity 2 or 1; `kMaxFreeTimesPerPurge` scaled to 1; 3 calls |
| SLQEpilogueRace | violation | `EpilogueWritesHeldObject` | Same as SLQGlobalBranch |
| SLQThreadBound | pass | `TypeOK`, `EveryObjectInOnePlace`, `RootStatsMatchBranches` (root counters = sum over branches, with leaked entries kept), `GrowthWithinCapacity` (action property), `FreedObjectStaysQuarantined` (action property: a `free()` the branch takes leaves the object in `slots_`, as `IsQuarantinedForTesting` reports) | 2 threads, one pause level, 4 calls, configs enabled with or without leak and disabled |
| PoolOffsetFreelist | pass | `TypeOK` (the head is null or in the pool), `NoFalseCorruption`, `AcceptedNextConfined`, `SingleWriteNeverMisallocates` | 3 slots in one 4-word super page of an 8-word pool; 1 corrupting write from 5 values |
| FreelistZeroWrite | violation | `SingleWordCorruptionDetected` | Same as PoolOffsetFreelist |
| SLQRuntimeStats | pass | `TypeOK` (index in the window), `WindowSumExact`, `ValidMeansWindowFull` | Window 2; 5 calls; phases (1,1,1) and (1,1,3) |
| SLQStatsFirstFillPause | violation | `PauseOnlyAgainstValidAverage` | Threshold 1 |
| LightweightQuarantine | pass | `TypeOK`, `RootTracksBranches` (each branch's size = its slots; the root = the branches minus inserts not yet published) | 3 threads: t1 and t2 on branch b1, t3 on b2, one root; sizes 1 and 2; capacities 2 and 3 with `SetCapacityInBytes` between them; 2 slots; `size_t` modulo 32; 2 calls per thread; symmetry between t1 and t2 |
| LQSharedBranchDCheck | violation | `InsertWithinLoadedCapacity` (action property: after the locked purge and insert, the branch fits the capacity the thread loaded, the `PA_DCHECK` at line 47) | Same as LightweightQuarantine |
| PartitionAddressSpace | pass | `TypeOK`, `NoneWithoutHandle` (an address is classified into a pool only when that pool has a handle), `ClassificationMatchesManager` (`setup_` and `AddressPoolManager` agree on every handle, and each mask test equals the range the manager holds), `CarvedInsideReservation` (the pools lie in the reserved region), `ChunksClassifyToTheirPool` (every byte of an allocated chunk is classified into the pool it came from, with the right offset) | 6-bit addresses; pools of 8 and a configurable pool of 4; alignment 16; reservation 30; every reservation start; the configurable pool before or after `Init`; `UninitForTesting` and re-`Init`; 2 chunks of 2 or 4 |
| ShimRootSingleton | pass | `GetNeverReturnsNull` (never null, never another token's root), `ConstructedAtMostOnce`, `DistributionStableForAllocations` (a live block's root still has the distribution the block was allocated under), `GetEventuallyReturns` | 2 tokens; 2 callers × 2 calls; frees unbounded (they only shrink the set); 1 configurer that may first register with the reclaimer; both distributions |

Why these bounds are enough: each bound is the smallest one at which the interesting case occurs, and a run below that size would miss it.
- A window of 2 fills, wraps and is overwritten within 5 calls.
- Two threads are enough for every pairwise interleaving of the branch's steps.
- An object of size 2 in a branch of capacity 2 forces a two-entry eviction, which a cap of 1 breaks off.

For every property of a passing run, `PROJECT.json` lists a mutant: a plausible bug in a mapped definition that TLC catches with that property. This shows the property is not vacuous.

## Findings

1. **SLQEpilogueRace (code bug).** `Quarantine<false>` zaps the object (`QuarantineEpilogue`, line 198) after unlocking. The trace is:
   1. thread 1 quarantines o1;
   2. thread 2's `Purge` frees o1;
   3. thread 1's `SecureMemset` writes freed memory.
2. **FreelistZeroWrite.** A 0 written over `next_` returns null before any check runs. The rest of the list is silently dropped.
3. **SLQStatsFirstFillPause (code bug).** `AddStats` compares against the average read before the record, but checks `valid()` after it. The first full window is therefore judged against an average of 0.
4. **LQSharedBranchDCheck (code bug).** `Quarantine` takes the branch's `lock_` (`lightweight_quarantine.cc:23-26`), so threads share a branch. The trace is:
   1. thread t1 inserts a 1-byte entry into b1 under the lock and unlocks, but has not yet done its root `fetch_add`s;
   2. thread t2, also on b1, computes `size_in_bytes_held_by_others = root size - branch_size_in_bytes_`, which wraps in `size_t` because the root lacks t1's byte;
   3. the fit check passes on the wrapped sum, and `PurgeInternal`, purging against the root size it loaded, frees nothing;
   4. t2 inserts a 2-byte entry: the branch holds 3 bytes against a loaded capacity of 2, and the `PA_DCHECK` at line 47 fails.

Disagreements that TLC shows but that have no run of their own:
- **A zero-length stats phase.** `RecordValue` (`scheduler_loop_quarantine_runtime_stats.cc:140`) adds 1 to `sum_` for a zero value but stores 0. When that slot is overwritten, 0 is subtracted, so `sum_` stays above the window's sum. With a phase of length 0 in `MCPhases`, `WindowSumExact` fails. The SLQRuntimeStats run uses nonzero phases so that the property can check the rest of the bookkeeping.
- **The shared root's `count_` wraps.** `RootCountersTrackBranch` holds, and it admits `root_count = -1`: thread 1 inserts o1 and unlocks; thread 2's `Purge` evicts o1 and does its `fetch_sub`; thread 1's `fetch_add` comes last. In between, `AccumulateStats` would report `count_` as `SIZE_MAX`. The spec allows drift in these relaxed statistics.
- **The shared branch grows past its capacity.** `SLQGlobalBranch` keeps `BranchWithinCapacity`. Checked with a capacity of 2, it is violated after one insertion, because at most `kMaxFreeTimesPerPurge` entries are evicted per call. The spec states `size <= capacity` as an invariant but calls the capacity a soft cap in its configuration table. So this is a wording conflict in the spec, not a code bug. What the soft cap does guarantee is checked as `SlotsBoundedBySoftCap`. A call that has to purge pops at least one entry before its `push_back`, so `slots_` only grows in a step that ends within the capacity the caller loaded.
- **Spurious misses on a shared lightweight branch.** In the same configuration, a property that a miss happens only when the other branches plus the entry exceed the loaded capacity also fails: the root still counts an entry that a thread of the same branch has since purged, so the call misses although the entry fits. The code makes no promise about misses, so no run checks this.
- **The GigaCage `static_assert`s are too weak.** A reservation of 18 with alignment 16 and two pools of 8 meets every `static_assert` in `partition_address_space.cc`. Aligning up can then leave less than 16 bytes, and `CarvedInsideReservation` fails: this is the `DCHECK_LE` at line 73.
- **Tagged freelist entries.** `IsWellFormed` rejects a `next_` with bits in `pool_info.base_mask`, and its comment (`pool_offset_freelist.h:207`) exempts the MTE tag bits, which `EncodeToOffset` keeps. The model's `PoolBaseMask` therefore leaves out `TagMask`. `pool_info` comes from `GetPoolInfo`, which this tree's `partition_address_space.h` predates, and the runs use `TagMask = 0`.

## Fairness

**SLQGlobalBranch.** The fairness is weak fairness on each thread's steps after it has started a `Quarantine` call. `lock_` is held for one step, so a started call is never blocked for good. Starting a call, `Purge` and `malloc` are not fair: the program need not call them.

**LightweightQuarantine, PartitionAddressSpace.** No fairness: their properties are safety properties. Deadlock checking is on. A lightweight-quarantine thread can always finish its call, and `Free` and `UninitForTesting` are always eventually enabled. The lightweight-quarantine runs use symmetry between t1 and t2: they run the same code on the same branch, and their properties are safety properties, for which symmetry is sound.

**ShimRootSingleton.** The fairness is weak fairness on each thread's steps inside a call (Get, the spin, the slow path, the allocation that follows) and on the configurer's steps. Starting a call and `Free` are not fair: the program need not make them. The spin lock is not fair. `GetEventuallyReturns` holds because the number of calls is finite, so the lock is eventually left free. Deadlock checking is off where the program really stops:
- in ShimRootSingleton and PoolOffsetFreelist, when all calls are done or the allocator has crashed;
- in SLQThreadBound, when all threads have exited.

## Not modelled, and why

- **`AddressPoolManager::Remove`.** It has no caller in `src/`. `UninitForTesting` is the path that empties the handle table, and it is modelled. It runs only once no chunk is outstanding, as tests arrange.
- **The pool order.** `partition_address_space.cc` adds `direct_map_pool_` and `normal_bucket_pool_` and has no BRP pool, while the header and the spec have non-BRP and BRP pools. The order in which `Init` carves them (`CageKinds`) is taken from the spec (spec.md:109).
- **The store into `setup_`.** `partition_address_space.cc` and `.h` are different versions, and the header's `setup_` is never written in `src/`. `CageInit` stores what `Add` returned, BRP first, as the spec describes. `InitConfigurablePool` is modelled from the spec. `OffsetInBRPPool` and the other pure getters are covered by `GetPoolAndOffset`.
- **`lightweight_quarantine.h`.** It is not in this tree. The branch constructor, `Purge()` and `SetCapacityInBytes` are modelled from the spec. Object addresses and the freeing of purged objects (`FreeNoHooksImmediate`) are left out: the properties are about sizes and counts.
- **Racy reads of `enable_quarantine_`/`pause_quarantine_` on the shared branch.**
- **`SchedulerLoopQuarantineRoot::AccumulateStats`.** It is a read with no effect on state. What it would return in each state is what `RootCountersTrackBranch` describes.
- **The shim's delegate dispatch (`Delegated*Fn`, `InstallCustomDispatch`).** Every `Delegated*Fn` loads `g_delegate_dispatch` and calls through it. `InstallCustomDispatch` sets `dispatch->next` and then publishes the dispatch with a relaxed store (line 905). The code comment says no ordering is needed there. For the constinit advanced-checks dispatch, the store rewrites values that are already in place. The functions it reaches are `PartitionRoot` calls outside `src/`, so there is no state of this tree to check. So it is not modelled.
- **`BatchMalloc`/`BatchFree`, `GetSizeEstimate`, the Apple and Cast system-deallocation paths, the Apple headers, `PlatformThread`, and the unit tests.** They only forward, have no state of their own, or are pure I/O. `PartitionRoot` itself (buckets, `PurgeMemory`) is not in `src/`. A block is a record of its root and distribution, so two blocks with equal records are one element of `allocs`.
- **The push and pop of freelist heads.** They live in slot-span code outside `src/` and are modelled from the spec (`Free`, `Alloc` in `PoolOffsetFreelist`).
