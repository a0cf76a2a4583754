--------------------------- MODULE SLQGlobalBranch ---------------------------
(***************************************************************************)
(* The shared Scheduler-Loop Quarantine branch,                            *)
(* SchedulerLoopQuarantineBranch<false> (GlobalSchedulerLoopQuarantine-    *)
(* Branch), with its root's statistics, as several threads free objects    *)
(* into it concurrently (src/src/partition_alloc/scheduler_loop_           *)
(* quarantine.cc).                                                         *)
(*                                                                         *)
(* One Quarantine call is cut into the steps between which another thread  *)
(* can act:                                                                *)
(*   Start       fast reject / capacity load / miss / borrow the           *)
(*               to_be_freed working memory (atomic exchange)              *)
(*   Locked      under lock_: PurgeInternalWithDefferedFree, push_back,    *)
(*               random swap                                               *)
(*   BatchFree   one FreeNoHooksImmediate per saved slot, lock released    *)
(*   GiveBack    exchange the buffer back, delete what comes out           *)
(*   Stats       the four relaxed fetch_adds on the root                   *)
(*   Epilogue    QuarantineEpilogue: zap and BRP hook on the object        *)
(* Everything under lock_ is one step: nothing else touches slots_ or      *)
(* branch_size_in_bytes_ without the lock.  Purge() is one step under the  *)
(* lock; SetCapacityInBytes is one relaxed store.                          *)
(*                                                                         *)
(* The allocator root is the variable `heap`: FreeNoHooksImmediate makes   *)
(* an object Free, and a later allocation (Malloc) may hand it out again.  *)
(***************************************************************************)
EXTENDS Naturals, Integers, Sequences, SequencesExt, FiniteSets

CONSTANTS
  Threads,               \* threads calling free() into this branch
  Objects,               \* slots that can be freed (slot_start / object)
  UsableSize,            \* Objects -> usable size in model bytes
  DirectMapped,          \* objects in a direct-mapped bucket
  InitCapacity,          \* config.branch_capacity_in_bytes at Configure
  Capacities,            \* values SetCapacityInBytes may store
  MaxFreeTimesPerPurge,  \* kMaxFreeTimesPerPurge (1024 in the code)
  EnableZapping,         \* config.enable_zapping
  BrpEnabled,            \* allocator_root_->brp_enabled()
  BufferIds,             \* identities for ToBeFreedArray allocations
  NoBuffer,              \* nullptr for to_be_freed_working_memory_
  MaxCalls               \* bound on quarantined + missed calls

ASSUME UsableSize \in [Objects -> Nat \ {0}]
ASSUME DirectMapped \subseteq Objects
ASSUME MaxFreeTimesPerPurge \in Nat \ {0}
ASSUME Cardinality(BufferIds) >= Cardinality(Threads) + 1
ASSUME NoBuffer \notin BufferIds

VARIABLES
  heap,              \* allocator root's view: "Allocated" | "Free"
  released,          \* history: free() was called on the object since its allocation
  slots,             \* slots_: sequence of objects (usable_size from UsableSize)
  branch_size,       \* branch_size_in_bytes_
  capacity,          \* branch_capacity_in_bytes_ (atomic)
  working_memory,    \* to_be_freed_working_memory_ (atomic pointer)
  buffers,           \* ToBeFreedArray allocations alive
  pc,                \* per thread: where in Quarantine it is
  obj,               \* per thread: the object of its Quarantine call
  cap_read,          \* per thread: capacity_in_bytes loaded at the start
  buf,               \* per thread: the to_be_freed array it holds
  to_be_freed,       \* per thread: saved slot_starts, in save order
  root_count,        \* root_->count_
  root_size,         \* root_->size_in_bytes_
  cumulative_count,  \* root_->cumulative_count_
  cumulative_size,   \* root_->cumulative_size_in_bytes_
  miss_count         \* root_->quarantine_miss_count_

vars == <<heap, released, slots, branch_size, capacity, working_memory, buffers,
          pc, obj, cap_read, buf, to_be_freed, root_count, root_size,
          cumulative_count, cumulative_size, miss_count>>

threadVars == <<pc, obj, cap_read, buf, to_be_freed>>
rootVars == <<root_count, root_size, cumulative_count, cumulative_size, miss_count>>

Pcs == {"Idle", "Locked", "BatchFree", "GiveBack", "Stats", "Epilogue"}

NoObject == CHOOSE o \in Objects : TRUE  \* placeholder for a dead local

SizeOf(s) == FoldLeft(LAMBDA acc, o : acc + UsableSize[o], 0, s)

(* Objects the quarantine holds: in slots_ or saved in some to_be_freed. *)
HeldObjects == Range(slots) \cup UNION {Range(to_be_freed[t]) : t \in Threads}

InFlight == {t \in Threads : pc[t] # "Idle"}

(* Entries of all to_be_freed arrays that are object o. *)
SavedCopies(o) ==
  Cardinality(UNION {{<<t, i>> : i \in {j \in DOMAIN to_be_freed[t] : to_be_freed[t][j] = o}}
                     : t \in Threads})

(***************************************************************************)
(* PurgeInternalWithDefferedFree: while target < branch_size_in_bytes_,    *)
(* pop slots_.back() into to_be_freed, and break once                      *)
(* kMaxFreeTimesPerPurge have been saved.  Returns the remaining slots,    *)
(* the remaining byte count and the saved objects.                         *)
(***************************************************************************)
(* Mutation variant: the saved entry is not popped from slots_. *)
RECURSIVE DeferredPurgeNoPop(_, _, _, _)
DeferredPurgeNoPop(s, size, target, saved) ==
  IF ~(target < size) THEN [slots |-> s, size |-> size, saved |-> saved]
  ELSE LET victim == s[Len(s) - Len(saved)]
           saved2 == Append(saved, victim)
           size2  == size - UsableSize[victim]
       IN  IF Len(saved2) >= MaxFreeTimesPerPurge
           THEN [slots |-> s, size |-> size2, saved |-> saved2]
           ELSE DeferredPurgeNoPop(s, size2, target, saved2)

(* Mutation variant: the kMaxFreeTimesPerPurge test runs before the pop,  *)
(* counting the entry about to be saved.                                 *)
RECURSIVE DeferredPurgeCapFirst(_, _, _, _)
DeferredPurgeCapFirst(s, size, target, saved) ==
  IF ~(target < size) \/ Len(saved) + 1 >= MaxFreeTimesPerPurge
  THEN [slots |-> s, size |-> size, saved |-> saved]
  ELSE LET victim == s[Len(s)]
       IN  DeferredPurgeCapFirst(Front(s), size - UsableSize[victim], target,
                                 Append(saved, victim))

RECURSIVE DeferredPurge(_, _, _, _)
DeferredPurge(s, size, target, saved) ==
  IF ~(target < size) THEN [slots |-> s, size |-> size, saved |-> saved]
  ELSE LET victim == s[Len(s)]
           saved2 == Append(saved, victim)
           size2  == size - UsableSize[victim]
       IN  IF Len(saved2) >= MaxFreeTimesPerPurge
           THEN [slots |-> Front(s), size |-> size2, saved |-> saved2]
           ELSE DeferredPurge(Front(s), size2, target, saved2)

(* std::swap(slots_[i], slots_.back()) *)
SwapWithLast(s, i) == [s EXCEPT ![i] = s[Len(s)], ![Len(s)] = s[i]]

(* The state after Configure(root, config) with enable_quarantine: empty  *)
(* branch, capacity from the config, the working memory pre-allocated.    *)
Init ==
  /\ heap = [o \in Objects |-> "Allocated"]
  /\ released = [o \in Objects |-> FALSE]
  /\ slots = <<>>
  /\ branch_size = 0
  /\ capacity = InitCapacity
  /\ working_memory = CHOOSE b \in BufferIds : TRUE
  /\ buffers = {working_memory}
  /\ pc = [t \in Threads |-> "Idle"]
  /\ obj = [t \in Threads |-> NoObject]
  /\ cap_read = [t \in Threads |-> 0]
  /\ buf = [t \in Threads |-> NoBuffer]
  /\ to_be_freed = [t \in Threads |-> <<>>]
  /\ root_count = 0
  /\ root_size = 0
  /\ cumulative_count = 0
  /\ cumulative_size = 0
  /\ miss_count = 0

(* The program calls free(o) on an object it owns, at most MaxCalls times *)
(* through the quarantine.                                                *)
CanFree(t, o) ==
  /\ pc[t] = "Idle"
  /\ heap[o] = "Allocated"
  /\ ~released[o]
  /\ cumulative_count + miss_count + Cardinality(InFlight) < MaxCalls

(* Mutation variant of Start: the working memory is read, not exchanged. *)
StartLoadOnly(t, o) ==
  /\ CanFree(t, o)
  /\ o \notin DirectMapped
  /\ UsableSize[o] <= capacity
  /\ released' = [released EXCEPT ![o] = TRUE]
  /\ obj' = [obj EXCEPT ![t] = o]
  /\ cap_read' = [cap_read EXCEPT ![t] = capacity]
  /\ pc' = [pc EXCEPT ![t] = "Locked"]
  /\ IF working_memory # NoBuffer
     THEN /\ buf' = [buf EXCEPT ![t] = working_memory]
          /\ UNCHANGED <<working_memory, buffers>>
     ELSE LET b == CHOOSE b \in BufferIds : b \notin buffers
          IN  /\ buf' = [buf EXCEPT ![t] = b]
              /\ buffers' = buffers \cup {b}
              /\ UNCHANGED working_memory
  /\ UNCHANGED <<heap, slots, branch_size, capacity, to_be_freed, rootVars>>

(* Mutation variant of Start: direct-mapped objects are quarantined too. *)
StartNoDirectMapCheck(t, o) ==
  /\ CanFree(t, o)
  /\ released' = [released EXCEPT ![o] = TRUE]
  /\ \/ /\ capacity < UsableSize[o]
        /\ heap' = [heap EXCEPT ![o] = "Free"]
        /\ miss_count' = miss_count + 1
        /\ UNCHANGED <<slots, branch_size, capacity, working_memory, buffers,
                       threadVars, root_count, root_size, cumulative_count,
                       cumulative_size>>
     \/ /\ UsableSize[o] <= capacity
        /\ obj' = [obj EXCEPT ![t] = o]
        /\ cap_read' = [cap_read EXCEPT ![t] = capacity]
        /\ pc' = [pc EXCEPT ![t] = "Locked"]
        /\ working_memory' = NoBuffer
        /\ IF working_memory # NoBuffer
           THEN /\ buf' = [buf EXCEPT ![t] = working_memory]
                /\ UNCHANGED buffers
           ELSE LET b == CHOOSE b \in BufferIds : b \notin buffers
                IN  /\ buf' = [buf EXCEPT ![t] = b]
                    /\ buffers' = buffers \cup {b}
        /\ UNCHANGED <<heap, slots, branch_size, capacity, to_be_freed, rootVars>>

(***************************************************************************)
(* Quarantine<false>, up to taking the lock (lines 130-158):               *)
(*  - direct-mapped bucket: FreeNoHooksImmediate and return;               *)
(*  - capacity (relaxed load) < usable_size: free now, miss_count + 1;     *)
(*  - otherwise exchange the working memory with nullptr, and when it was  *)
(*    already taken allocate a new ToBeFreedArray.                         *)
(* enable_quarantine_ is on and pause_quarantine_ is 0 after Configure.    *)
(***************************************************************************)
Start(t, o) ==
  /\ CanFree(t, o)
  /\ released' = [released EXCEPT ![o] = TRUE]
  /\ \/ /\ o \in DirectMapped
        /\ heap' = [heap EXCEPT ![o] = "Free"]
        /\ UNCHANGED <<slots, branch_size, capacity, working_memory, buffers,
                       threadVars, rootVars>>
     \/ /\ o \notin DirectMapped
        /\ capacity < UsableSize[o]
        /\ heap' = [heap EXCEPT ![o] = "Free"]
        /\ miss_count' = miss_count + 1
        /\ UNCHANGED <<slots, branch_size, capacity, working_memory, buffers,
                       threadVars, root_count, root_size, cumulative_count,
                       cumulative_size>>
     \/ /\ o \notin DirectMapped
        /\ UsableSize[o] <= capacity
        /\ obj' = [obj EXCEPT ![t] = o]
        /\ cap_read' = [cap_read EXCEPT ![t] = capacity]
        /\ pc' = [pc EXCEPT ![t] = "Locked"]
        /\ working_memory' = NoBuffer
        /\ IF working_memory # NoBuffer
           THEN /\ buf' = [buf EXCEPT ![t] = working_memory]
                /\ UNCHANGED buffers
           ELSE LET b == CHOOSE b \in BufferIds : b \notin buffers
                IN  /\ buf' = [buf EXCEPT ![t] = b]
                    /\ buffers' = buffers \cup {b}
        /\ UNCHANGED <<heap, slots, branch_size, capacity, to_be_freed, rootVars>>

(***************************************************************************)
(* The section under lock_ (lines 160-176): deferred purge down to         *)
(* capacity - usable_size, root count/size decreased by what was saved,    *)
(* push_back the new entry, then swap it with a random slot                *)
(* (RandUint32() % size, any index).                                       *)
(***************************************************************************)
Locked(t) ==
  LET o == obj[t]
      p == DeferredPurge(slots, branch_size, cap_read[t] - UsableSize[o], <<>>)
      s == Append(p.slots, o)
  IN  /\ pc[t] = "Locked"
      /\ \E i \in 1 .. Len(s) : slots' = SwapWithLast(s, i)
      /\ branch_size' = p.size + UsableSize[o]
      /\ to_be_freed' = [to_be_freed EXCEPT ![t] = p.saved]
      /\ root_size' = root_size - SizeOf(p.saved)
      /\ root_count' = root_count - Len(p.saved)
      /\ pc' = [pc EXCEPT ![t] = "BatchFree"]
      /\ UNCHANGED <<heap, released, capacity, working_memory, buffers, obj,
                     cap_read, buf, cumulative_count, cumulative_size, miss_count>>

(* BatchFree, one iteration: FreeNoHooksImmediate(to_be_freed[i]). *)
BatchFreeOne(t) ==
  /\ pc[t] = "BatchFree"
  /\ to_be_freed[t] # <<>>
  /\ heap' = [heap EXCEPT ![Head(to_be_freed[t])] = "Free"]
  /\ to_be_freed' = [to_be_freed EXCEPT ![t] = Tail(@)]
  /\ UNCHANGED <<released, slots, branch_size, capacity, working_memory, buffers,
                 pc, obj, cap_read, buf, rootVars>>

(* Mutation variant of GiveBack: taken before the batch has been freed. *)
GiveBackSkipBatch(t) ==
  /\ pc[t] = "BatchFree"
  /\ working_memory' = buf[t]
  /\ buffers' = buffers \ ({working_memory} \ {NoBuffer})
  /\ buf' = [buf EXCEPT ![t] = NoBuffer]
  /\ pc' = [pc EXCEPT ![t] = "Stats"]
  /\ UNCHANGED <<heap, released, slots, branch_size, capacity, obj, cap_read,
                 to_be_freed, rootVars>>

(***************************************************************************)
(* After BatchFree (lines 188-189): exchange the held buffer into          *)
(* to_be_freed_working_memory_ and delete whatever came out of it.         *)
(***************************************************************************)
GiveBack(t) ==
  /\ pc[t] = "BatchFree"
  /\ to_be_freed[t] = <<>>
  /\ working_memory' = buf[t]
  /\ buffers' = buffers \ ({working_memory} \ {NoBuffer})
  /\ buf' = [buf EXCEPT ![t] = NoBuffer]
  /\ pc' = [pc EXCEPT ![t] = "Stats"]
  /\ UNCHANGED <<heap, released, slots, branch_size, capacity, obj, cap_read,
                 to_be_freed, rootVars>>

(* Update stats, not locked (lines 192-196). *)
Stats(t) ==
  /\ pc[t] = "Stats"
  /\ root_count' = root_count + 1
  /\ root_size' = root_size + UsableSize[obj[t]]
  /\ cumulative_count' = cumulative_count + 1
  /\ cumulative_size' = cumulative_size + UsableSize[obj[t]]
  /\ pc' = [pc EXCEPT ![t] = "Epilogue"]
  /\ UNCHANGED <<heap, released, slots, branch_size, capacity, working_memory,
                 buffers, obj, cap_read, buf, to_be_freed, miss_count>>

(* QuarantineEpilogue: SecureMemset of the object when zapping, and the   *)
(* BRP PreReleaseFromAllocator on its in-slot metadata.  Neither changes  *)
(* modelled state; what matters is which memory it writes (see           *)
(* EpilogueWritesHeldObject).  The call returns: its locals (the object   *)
(* and the capacity it read) are dead and reset to their initial values.  *)
Epilogue(t) ==
  /\ pc[t] = "Epilogue"
  /\ pc' = [pc EXCEPT ![t] = "Idle"]
  /\ obj' = [obj EXCEPT ![t] = NoObject]
  /\ cap_read' = [cap_read EXCEPT ![t] = 0]
  /\ UNCHANGED <<heap, released, slots, branch_size, capacity, working_memory,
                 buffers, buf, to_be_freed, rootVars>>

(* Mutation variant of Purge: the root's count and size are not lowered. *)
PurgeNoStats(t) ==
  /\ pc[t] = "Idle"
  /\ heap' = [o \in Objects |-> IF o \in Range(slots) THEN "Free" ELSE heap[o]]
  /\ slots' = <<>>
  /\ branch_size' = 0
  /\ UNCHANGED <<released, capacity, working_memory, buffers, threadVars, rootVars>>

(***************************************************************************)
(* Purge(): under lock_, PurgeInternal(0) frees every entry inline and     *)
(* lowers the root's count and size by what it freed; shrink_to_fit.       *)
(***************************************************************************)
Purge(t) ==
  /\ pc[t] = "Idle"
  /\ heap' = [o \in Objects |-> IF o \in Range(slots) THEN "Free" ELSE heap[o]]
  /\ slots' = <<>>
  /\ branch_size' = 0
  /\ root_count' = root_count - Len(slots)
  /\ root_size' = root_size - SizeOf(slots)
  /\ UNCHANGED <<released, capacity, working_memory, buffers, threadVars,
                 cumulative_count, cumulative_size, miss_count>>

(* SetCapacityInBytes: a relaxed store, from any thread at any time. *)
SetCapacityInBytes(c) ==
  /\ capacity' = c
  /\ UNCHANGED <<heap, released, slots, branch_size, working_memory, buffers,
                 threadVars, rootVars>>

(* The allocator hands a freed slot out again; the program owns it. *)
Malloc(o) ==
  /\ heap[o] = "Free"
  /\ heap' = [heap EXCEPT ![o] = "Allocated"]
  /\ released' = [released EXCEPT ![o] = FALSE]
  /\ UNCHANGED <<slots, branch_size, capacity, working_memory, buffers,
                 threadVars, rootVars>>

ThreadStep(t) ==
  \/ \E o \in Objects : Start(t, o)
  \/ Locked(t)
  \/ BatchFreeOne(t)
  \/ GiveBack(t)
  \/ Stats(t)
  \/ Epilogue(t)

Next ==
  \/ \E t \in Threads : ThreadStep(t) \/ Purge(t)
  \/ \E c \in Capacities : SetCapacityInBytes(c)
  \/ \E o \in Objects : Malloc(o)

(* A thread inside Quarantine is runnable and never blocks for good: the *)
(* lock is held only for one step, so each of its steps is eventually    *)
(* taken.  Starting a call, Purge and the environment are not fair.      *)
Fairness ==
  \A t \in Threads :
    WF_vars(Locked(t) \/ BatchFreeOne(t) \/ GiveBack(t) \/ Stats(t) \/ Epilogue(t))

Spec == Init /\ [][Next]_vars /\ Fairness

-----------------------------------------------------------------------------
(* Properties *)

TypeOK ==
  /\ heap \in [Objects -> {"Allocated", "Free"}]
  /\ released \in [Objects -> BOOLEAN]
  /\ slots \in Seq(Objects \ DirectMapped)
  /\ branch_size \in Nat
  /\ capacity \in Capacities \cup {InitCapacity}
  /\ working_memory \in BufferIds \cup {NoBuffer}
  /\ buffers \subseteq BufferIds
  /\ pc \in [Threads -> Pcs]
  /\ obj \in [Threads -> Objects]
  /\ buf \in [Threads -> BufferIds \cup {NoBuffer}]
  /\ to_be_freed \in [Threads -> Seq(Objects \ DirectMapped)]
  /\ {root_count, root_size} \subseteq Int
  /\ {cumulative_count, cumulative_size, miss_count} \subseteq Nat

(***************************************************************************)
(* Every object is in exactly one place.  An object the program freed is   *)
(* held by exactly one of: the thread still before its locked section,     *)
(* one entry of slots_, one entry of one thread's to_be_freed array, or    *)
(* the allocator (Free); an object the program owns is in none.  Breaks on *)
(* a double free (an entry both saved and left in slots_, or saved by two  *)
(* threads) and on a leak (an entry dropped without being freed), across   *)
(* the interleavings of quarantining threads, Purge and reallocation.      *)
(***************************************************************************)
Occurrences(o, s) == Cardinality({i \in DOMAIN s : s[i] = o})

Holders(o) ==
    Occurrences(o, slots)
  + SavedCopies(o)
  + (IF heap[o] = "Free" THEN 1 ELSE 0)
  + Cardinality({t \in Threads : pc[t] = "Locked" /\ obj[t] = o})

EveryObjectInOnePlace ==
  \A o \in Objects :
    IF released[o] THEN Holders(o) = 1
    ELSE Holders(o) = 0 /\ heap[o] = "Allocated"

(***************************************************************************)
(* The ToBeFreedArray buffers are owned exclusively: every live buffer is  *)
(* either the cached working memory or held by exactly one thread, and no  *)
(* two threads, nor a thread and the cache, share one.  This is what the   *)
(* atomic exchange on to_be_freed_working_memory_ buys: two threads        *)
(* filling one array would free each other's entries; a buffer owned by    *)
(* no one is a leak.                                                       *)
(***************************************************************************)
BufferOwnership ==
  LET held == {t \in Threads : buf[t] # NoBuffer}
  IN  /\ \A t \in held : buf[t] # working_memory
      /\ \A t1, t2 \in held : t1 # t2 => buf[t1] # buf[t2]
      /\ buffers = ({working_memory} \ {NoBuffer}) \cup {buf[t] : t \in held}

(***************************************************************************)
(* The soft cap still bounds the quarantine.  kMaxFreeTimesPerPurge lets a *)
(* Quarantine call leave branch_size_in_bytes_ above the capacity          *)
(* (scheduler_loop_quarantine.cc:312), but a call that must purge pops at  *)
(* least one entry before its push_back, so slots_ only grows in a step    *)
(* that ends within the capacity the caller loaded: the number of entries  *)
(* never exceeds the largest capacity over the smallest usable size, and   *)
(* no purge saves more entries than the ToBeFreedArray of                  *)
(* kMaxFreeTimesPerPurge holds.                                            *)
(***************************************************************************)
SlotsBoundedBySoftCap ==
  /\ Len(slots) <= Max(Capacities \cup {InitCapacity})
                     \div Min({UsableSize[o] : o \in Objects \ DirectMapped})
  /\ \A t \in Threads : Len(to_be_freed[t]) <= MaxFreeTimesPerPurge

(* Threads past the locked section whose root fetch_adds are still to come. *)
Unpublished == {t \in Threads : pc[t] \in {"BatchFree", "GiveBack", "Stats"}}

(***************************************************************************)
(* The root's relaxed counters track the branch in every state: count_ is  *)
(* the number of entries and size_in_bytes_ their bytes, less the entries  *)
(* of the calls that have inserted under lock_ but not yet run their       *)
(* fetch_adds, and branch_size_in_bytes_ is the sum of the entries.  The   *)
(* decrements of Locked and Purge happen under the lock and the increments *)
(* after it, so another thread's Purge can take an entry out of count_     *)
(* before it was ever added: count_ then wraps below 0 (SIZE_MAX for       *)
(* AccumulateStats) until the fetch_add lands.  A decrement of the wrong   *)
(* amount, or one lost, breaks the relation for good.                      *)
(***************************************************************************)
RootCountersTrackBranch ==
  /\ root_count = Len(slots) - Cardinality(Unpublished)
  /\ root_size = branch_size - MapThenSumSet(LAMBDA t : UsableSize[obj[t]], Unpublished)
  /\ branch_size = SizeOf(slots)

(***************************************************************************)
(* Every entry the deferred purge saves is eventually handed to the        *)
(* allocator: phase 2 of the two-phase purge always runs to the end, so no *)
(* dequarantined slot is lost between the lock and the free.               *)
(***************************************************************************)
DeferredEventuallyFreed ==
  \A o \in Objects :
    (\E t \in Threads : o \in Range(to_be_freed[t])) ~> heap[o] = "Free"

(***************************************************************************)
(* The epilogue writes only memory the quarantine still holds: when a      *)
(* thread is about to zap its object (or touch its BRP ref-count), that    *)
(* object is still in slots_ or saved for freeing, not already given back  *)
(* to the allocator, which may have handed it to another owner.            *)
(***************************************************************************)
EpilogueWritesHeldObject ==
  \A t \in Threads :
    (pc[t] = "Epilogue" /\ (EnableZapping \/ BrpEnabled)) => obj[t] \in HeldObjects

(***************************************************************************)
(* A branch never holds more bytes than its capacity (spec, section 8).    *)
(* Checked with a capacity that does not change.                           *)
(***************************************************************************)
BranchWithinCapacity == branch_size <= capacity

==============================================================================
