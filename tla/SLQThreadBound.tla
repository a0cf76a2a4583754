---------------------------- MODULE SLQThreadBound ----------------------------
(***************************************************************************)
(* Thread-bound Scheduler-Loop Quarantine branches,                        *)
(* SchedulerLoopQuarantineBranch<true>, one per thread (owned by its       *)
(* ThreadCache), all reporting to one SchedulerLoopQuarantineRoot          *)
(* (src/src/partition_alloc/scheduler_loop_quarantine.{h,cc}).             *)
(*                                                                         *)
(* A thread-bound branch is touched only by its own thread (no lock_), so  *)
(* each of its operations is one step; threads interleave between them.   *)
(* The shared state is the root's relaxed counters, the allocator, and     *)
(* branch_capacity_in_bytes_, which any thread may store.                  *)
(* enable_zapping_ only decides what QuarantineEpilogue writes; it changes *)
(* no modelled state and is left out.                                      *)
(***************************************************************************)
EXTENDS Naturals, Sequences, SequencesExt, FiniteSets, Folds

CONSTANTS
  Threads,       \* threads, each with its own branch
  Objects,       \* slots that can be freed
  UsableSize,    \* Objects -> usable size in model bytes
  DirectMapped,  \* objects in a direct-mapped bucket
  Configs,       \* SchedulerLoopQuarantineConfig values Configure may get
  Capacities,    \* values SetCapacityInBytes may store
  MaxPause,      \* bound on nested ScopedQuarantineExclusion
  MaxCalls       \* bound on quarantined + missed calls

ASSUME UsableSize \in [Objects -> Nat \ {0}]
ASSUME DirectMapped \subseteq Objects
ASSUME Configs \subseteq [branch_capacity_in_bytes : Nat,
                          leak_on_destruction : BOOLEAN,
                          enable_quarantine : BOOLEAN]

VARIABLES
  heap,              \* allocator's view: "Allocated" | "Free"
  released,          \* free() was called on the object since its allocation
  alive,             \* the thread's branch exists (not yet destroyed)
  enabled,           \* enable_quarantine_
  leak,              \* leak_on_destruction_
  pause,             \* pause_quarantine_
  slots,             \* slots_ (objects; usable_size from UsableSize)
  branch_size,       \* branch_size_in_bytes_
  capacity,          \* branch_capacity_in_bytes_ (atomic)
  leaked,            \* entries a leak_on_destruction branch abandoned
  root_count,        \* root_->count_
  root_size,         \* root_->size_in_bytes_
  cumulative_count,  \* root_->cumulative_count_
  miss_count         \* root_->quarantine_miss_count_

vars == <<heap, released, alive, enabled, leak, pause, slots, branch_size,
          capacity, leaked, root_count, root_size, cumulative_count, miss_count>>

branchVars == <<alive, enabled, leak, pause, slots, branch_size, capacity>>
rootVars == <<root_count, root_size, cumulative_count, miss_count>>

SizeOf(s) == FoldLeft(LAMBDA acc, o : acc + UsableSize[o], 0, s)

(***************************************************************************)
(* PurgeInternal(target): while target < branch_size_in_bytes_, free       *)
(* slots_.back() right away and pop it.  Returns the remaining slots, the  *)
(* remaining size and the freed entries.                                   *)
(***************************************************************************)
RECURSIVE PurgeInternal(_, _, _, _)
PurgeInternal(s, size, target, freed) ==
  IF ~(target < size) THEN [slots |-> s, size |-> size, freed |-> freed]
  ELSE PurgeInternal(Front(s), size - UsableSize[Last(s)], target,
                     Append(freed, Last(s)))

FreeAll(objs) == [o \in Objects |-> IF o \in objs THEN "Free" ELSE heap[o]]

SwapWithLast(s, i) == [s EXCEPT ![i] = s[Len(s)], ![Len(s)] = s[i]]

(* SchedulerLoopQuarantineRoot: its stats counters start at 0.         *)
RootInit ==
  /\ root_count = 0
  /\ root_size = 0
  /\ cumulative_count = 0
  /\ miss_count = 0

(* Constructed branches, not yet configured: the member initialisers   *)
(* leave quarantine off, nothing paused and the branch empty.          *)
Init ==
  /\ heap = [o \in Objects |-> "Allocated"]
  /\ released = [o \in Objects |-> FALSE]
  /\ alive = [t \in Threads |-> TRUE]
  /\ enabled = [t \in Threads |-> FALSE]
  /\ leak = [t \in Threads |-> FALSE]
  /\ pause = [t \in Threads |-> 0]
  /\ slots = [t \in Threads |-> <<>>]
  /\ branch_size = [t \in Threads |-> 0]
  /\ capacity = [t \in Threads |-> 0]
  /\ leaked = {}
  /\ RootInit

(***************************************************************************)
(* Configure: PA_CHECK(pause_quarantine_ == 0); if already enabled,        *)
(* PurgeInternal(0) (the root's counters lowered by what it frees), then   *)
(* take the new config.  The working memory is not used by a thread-bound  *)
(* branch.                                                                 *)
(***************************************************************************)
Configure(t, cfg) ==
  LET p == PurgeInternal(slots[t], branch_size[t], 0, <<>>)
      purge == enabled[t]
  IN  /\ alive[t]
      /\ pause[t] = 0
      /\ heap' = IF purge THEN FreeAll(Range(p.freed)) ELSE heap
      /\ slots' = [slots EXCEPT ![t] = IF purge THEN p.slots ELSE @]
      /\ branch_size' = [branch_size EXCEPT ![t] = IF purge THEN p.size ELSE @]
      /\ root_count' = root_count - (IF purge THEN Len(p.freed) ELSE 0)
      /\ root_size' = root_size - (IF purge THEN SizeOf(p.freed) ELSE 0)
      /\ enabled' = [enabled EXCEPT ![t] = cfg.enable_quarantine]
      /\ leak' = [leak EXCEPT ![t] = cfg.leak_on_destruction]
      /\ capacity' = [capacity EXCEPT ![t] = cfg.branch_capacity_in_bytes]
      /\ UNCHANGED <<released, alive, pause, leaked, cumulative_count, miss_count>>

(* Mutation variant of Quarantine: push_back and the random swap come     *)
(* before the purge, which may then evict the new entry itself.          *)
QuarantinePushBeforePurge(t, o) ==
  LET cap == capacity[t]
  IN  \/ /\ ~enabled[t] \/ pause[t] > 0 \/ o \in DirectMapped
         /\ heap' = [heap EXCEPT ![o] = "Free"]
         /\ UNCHANGED <<branchVars, leaked, rootVars>>
      \/ /\ enabled[t] /\ pause[t] = 0 /\ o \notin DirectMapped
         /\ cap < UsableSize[o]
         /\ heap' = [heap EXCEPT ![o] = "Free"]
         /\ miss_count' = miss_count + 1
         /\ UNCHANGED <<branchVars, leaked, root_count, root_size, cumulative_count>>
      \/ /\ enabled[t] /\ pause[t] = 0 /\ o \notin DirectMapped
         /\ UsableSize[o] <= cap
         /\ \E i \in 1 .. Len(slots[t]) + 1 :
              LET p == PurgeInternal(SwapWithLast(Append(slots[t], o), i),
                                     branch_size[t] + UsableSize[o], cap, <<>>)
              IN  /\ slots' = [slots EXCEPT ![t] = p.slots]
                  /\ branch_size' = [branch_size EXCEPT ![t] = p.size]
                  /\ heap' = FreeAll(Range(p.freed))
                  /\ root_count' = root_count - Len(p.freed) + 1
                  /\ root_size' = root_size - SizeOf(p.freed) + UsableSize[o]
         /\ cumulative_count' = cumulative_count + 1
         /\ UNCHANGED <<alive, enabled, leak, pause, capacity, leaked, miss_count>>

(* Mutation variant of Quarantine: purges down to the capacity, not to    *)
(* capacity - usable_size.                                                *)
QuarantinePurgeToCapacity(t, o) ==
  LET cap == capacity[t]
      p   == PurgeInternal(slots[t], branch_size[t], cap, <<>>)
      s   == Append(p.slots, o)
  IN  /\ enabled[t] /\ pause[t] = 0 /\ o \notin DirectMapped
      /\ UsableSize[o] <= cap
      /\ \E i \in 1 .. Len(s) : slots' = [slots EXCEPT ![t] = SwapWithLast(s, i)]
      /\ branch_size' = [branch_size EXCEPT ![t] = p.size + UsableSize[o]]
      /\ heap' = FreeAll(Range(p.freed))
      /\ root_count' = root_count - Len(p.freed) + 1
      /\ root_size' = root_size - SizeOf(p.freed) + UsableSize[o]
      /\ cumulative_count' = cumulative_count + 1
      /\ UNCHANGED <<alive, enabled, leak, pause, capacity, leaked, miss_count>>

(* Mutation variant of Quarantine: no IsDirectMappedBucket early return. *)
QuarantineNoDirectMapCheck(t, o) ==
  LET cap == capacity[t]
      p   == PurgeInternal(slots[t], branch_size[t], cap - UsableSize[o], <<>>)
      s   == Append(p.slots, o)
  IN  \/ /\ ~enabled[t] \/ pause[t] > 0
         /\ heap' = [heap EXCEPT ![o] = "Free"]
         /\ UNCHANGED <<branchVars, leaked, rootVars>>
      \/ /\ enabled[t] /\ pause[t] = 0
         /\ cap < UsableSize[o]
         /\ heap' = [heap EXCEPT ![o] = "Free"]
         /\ miss_count' = miss_count + 1
         /\ UNCHANGED <<branchVars, leaked, root_count, root_size, cumulative_count>>
      \/ /\ enabled[t] /\ pause[t] = 0
         /\ UsableSize[o] <= cap
         /\ \E i \in 1 .. Len(s) : slots' = [slots EXCEPT ![t] = SwapWithLast(s, i)]
         /\ branch_size' = [branch_size EXCEPT ![t] = p.size + UsableSize[o]]
         /\ heap' = FreeAll(Range(p.freed))
         /\ root_count' = root_count - Len(p.freed) + 1
         /\ root_size' = root_size - SizeOf(p.freed) + UsableSize[o]
         /\ cumulative_count' = cumulative_count + 1
         /\ UNCHANGED <<alive, enabled, leak, pause, capacity, leaked, miss_count>>

(***************************************************************************)
(* Quarantine<true>(o) by the branch's own thread, the whole call:         *)
(*  - disabled, paused or direct-mapped: FreeNoHooksImmediate;             *)
(*  - capacity < usable_size: free now, quarantine_miss_count_ + 1;        *)
(*  - otherwise PurgeInternal(capacity - usable_size) frees inline,        *)
(*    push_back and a random swap, then the root's counters.               *)
(* QuarantineEpilogue writes only the object, still in slots_.             *)
(***************************************************************************)
Quarantine(t, o) ==
  LET cap == capacity[t]
      p   == PurgeInternal(slots[t], branch_size[t], cap - UsableSize[o], <<>>)
      s   == Append(p.slots, o)
  IN  \/ /\ ~enabled[t] \/ pause[t] > 0 \/ o \in DirectMapped
         /\ heap' = [heap EXCEPT ![o] = "Free"]
         /\ UNCHANGED <<branchVars, leaked, rootVars>>
      \/ /\ enabled[t] /\ pause[t] = 0 /\ o \notin DirectMapped
         /\ cap < UsableSize[o]
         /\ heap' = [heap EXCEPT ![o] = "Free"]
         /\ miss_count' = miss_count + 1
         /\ UNCHANGED <<branchVars, leaked, root_count, root_size, cumulative_count>>
      \/ /\ enabled[t] /\ pause[t] = 0 /\ o \notin DirectMapped
         /\ UsableSize[o] <= cap
         /\ \E i \in 1 .. Len(s) : slots' = [slots EXCEPT ![t] = SwapWithLast(s, i)]
         /\ branch_size' = [branch_size EXCEPT ![t] = p.size + UsableSize[o]]
         /\ heap' = FreeAll(Range(p.freed))
         /\ root_count' = root_count - Len(p.freed) + 1
         /\ root_size' = root_size - SizeOf(p.freed) + UsableSize[o]
         /\ cumulative_count' = cumulative_count + 1
         /\ UNCHANGED <<alive, enabled, leak, pause, capacity, leaked, miss_count>>

(* free(o) by thread t on an object the program owns goes to t's branch. *)
Free(t, o) ==
  /\ alive[t]
  /\ heap[o] = "Allocated"
  /\ ~released[o]
  /\ cumulative_count + miss_count < MaxCalls
  /\ released' = [released EXCEPT ![o] = TRUE]
  /\ Quarantine(t, o)

(* Mutation variant of Purge: the root's counters are left alone. *)
PurgeNoRootUpdate(t) ==
  LET p == PurgeInternal(slots[t], branch_size[t], 0, <<>>)
  IN  /\ alive[t]
      /\ heap' = FreeAll(Range(p.freed))
      /\ slots' = [slots EXCEPT ![t] = p.slots]
      /\ branch_size' = [branch_size EXCEPT ![t] = p.size]
      /\ UNCHANGED <<released, alive, enabled, leak, pause, capacity, leaked, rootVars>>

(* Purge(): PurgeInternal(0), every entry of this branch freed. *)
Purge(t) ==
  LET p == PurgeInternal(slots[t], branch_size[t], 0, <<>>)
  IN  /\ alive[t]
      /\ heap' = FreeAll(Range(p.freed))
      /\ slots' = [slots EXCEPT ![t] = p.slots]
      /\ branch_size' = [branch_size EXCEPT ![t] = p.size]
      /\ root_count' = root_count - Len(p.freed)
      /\ root_size' = root_size - SizeOf(p.freed)
      /\ UNCHANGED <<released, alive, enabled, leak, pause, capacity, leaked,
                     cumulative_count, miss_count>>

(* SetCapacityInBytes: a relaxed store, by any thread, into t's branch. *)
SetCapacityInBytes(t, c) ==
  /\ alive[t]
  /\ capacity' = [capacity EXCEPT ![t] = c]
  /\ UNCHANGED <<heap, released, alive, enabled, leak, pause, slots, branch_size,
                 leaked, rootVars>>

(* ScopedQuarantineExclusion: ++pause_quarantine_ ... --pause_quarantine_ *)
(* (the DCHECK allows it on an enabled branch only when thread-bound).    *)
ExclusionBegin(t) ==
  /\ alive[t]
  /\ pause[t] < MaxPause
  /\ pause' = [pause EXCEPT ![t] = @ + 1]
  /\ UNCHANGED <<heap, released, alive, enabled, leak, slots, branch_size,
                 capacity, leaked, rootVars>>

ExclusionEnd(t) ==
  /\ pause[t] > 0
  /\ pause' = [pause EXCEPT ![t] = @ - 1]
  /\ UNCHANGED <<heap, released, alive, enabled, leak, slots, branch_size,
                 capacity, leaked, rootVars>>

(* Mutation variant of the destructor: Purge() skipped. *)
DestroyNoPurge(t) ==
  /\ alive[t] /\ pause[t] = 0
  /\ alive' = [alive EXCEPT ![t] = FALSE]
  /\ slots' = [slots EXCEPT ![t] = <<>>]
  /\ branch_size' = [branch_size EXCEPT ![t] = 0]
  /\ UNCHANGED <<heap, released, enabled, leak, pause, capacity, leaked, rootVars>>

(***************************************************************************)
(* ~SchedulerLoopQuarantineBranch, when the thread's cache goes away:      *)
(* Purge() unless leak_on_destruction_; with it, the entries are simply    *)
(* abandoned (never freed, still counted by the root).                     *)
(* pause[t] = 0 is not a check of the destructor: it is the environment.   *)
(* A ScopedQuarantineExclusion is a stack object of thread t itself, and   *)
(* the branch is destroyed only when t's thread cache is torn down, which  *)
(* no frame inside such a scope does.                                      *)
(***************************************************************************)
Destroy(t) ==
  LET p == PurgeInternal(slots[t], branch_size[t], 0, <<>>)
  IN  /\ alive[t] /\ pause[t] = 0
      /\ alive' = [alive EXCEPT ![t] = FALSE]
      /\ slots' = [slots EXCEPT ![t] = <<>>]
      /\ branch_size' = [branch_size EXCEPT ![t] = 0]
      /\ \/ /\ ~leak[t]
            /\ heap' = FreeAll(Range(p.freed))
            /\ root_count' = root_count - Len(p.freed)
            /\ root_size' = root_size - SizeOf(p.freed)
            /\ UNCHANGED leaked
         \/ /\ leak[t]
            /\ leaked' = leaked \cup Range(slots[t])
            /\ UNCHANGED <<heap, root_count, root_size>>
      /\ UNCHANGED <<released, enabled, leak, pause, capacity, cumulative_count,
                     miss_count>>

(* The allocator hands a freed slot out again; the program owns it. *)
Malloc(o) ==
  /\ heap[o] = "Free"
  /\ heap' = [heap EXCEPT ![o] = "Allocated"]
  /\ released' = [released EXCEPT ![o] = FALSE]
  /\ UNCHANGED <<branchVars, leaked, rootVars>>

Next ==
  \/ \E t \in Threads :
       \/ \E cfg \in Configs : Configure(t, cfg)
       \/ \E o \in Objects : Free(t, o)
       \/ Purge(t)
       \/ \E c \in Capacities : SetCapacityInBytes(t, c)
       \/ ExclusionBegin(t)
       \/ ExclusionEnd(t)
       \/ Destroy(t)
  \/ \E o \in Objects : Malloc(o)

Spec == Init /\ [][Next]_vars

-----------------------------------------------------------------------------
(* Properties *)

TypeOK ==
  /\ heap \in [Objects -> {"Allocated", "Free"}]
  /\ released \in [Objects -> BOOLEAN]
  /\ alive \in [Threads -> BOOLEAN]
  /\ enabled \in [Threads -> BOOLEAN]
  /\ leak \in [Threads -> BOOLEAN]
  /\ pause \in [Threads -> 0 .. MaxPause]
  /\ slots \in [Threads -> Seq(Objects \ DirectMapped)]
  /\ branch_size \in [Threads -> Nat]
  /\ leaked \subseteq Objects
  /\ {cumulative_count, miss_count} \subseteq Nat

(***************************************************************************)
(* Every object the program freed is in exactly one place: one entry of    *)
(* one branch's slots_, the allocator, or the entries a leaking branch     *)
(* abandoned; an object the program owns is in none.  Breaks on a double   *)
(* free or a lost entry across Configure's re-purge, Purge, the inline     *)
(* purge of Quarantine and branch destruction, on several threads.         *)
(***************************************************************************)
Occurrences(o, s) == Cardinality({i \in DOMAIN s : s[i] = o})

Holders(o) ==
    FoldSet(LAMBDA t, acc : acc + Occurrences(o, slots[t]), 0, Threads)
  + (IF heap[o] = "Free" THEN 1 ELSE 0)
  + (IF o \in leaked THEN 1 ELSE 0)

EveryObjectInOnePlace ==
  \A o \in Objects :
    IF released[o] THEN Holders(o) = 1
    ELSE Holders(o) = 0 /\ heap[o] = "Allocated"

(***************************************************************************)
(* The root's count_ and size_in_bytes_ are the totals over all its        *)
(* branches, plus what destroyed leak_on_destruction branches abandoned:   *)
(* every path that takes an entry out of slots_ (Quarantine's inline       *)
(* purge, Purge, Configure's re-purge, the destructor) must lower them by  *)
(* exactly what it freed, and branch_size_in_bytes_ must stay the sum of   *)
(* its entries.                                                            *)
(***************************************************************************)
SumOver(f) == FoldSet(LAMBDA t, acc : acc + f[t], 0, Threads)

RootStatsMatchBranches ==
  /\ root_count = SumOver([t \in Threads |-> Len(slots[t])]) + Cardinality(leaked)
  /\ root_size = SumOver(branch_size)
                 + FoldSet(LAMBDA o, acc : acc + UsableSize[o], 0, leaked)
  /\ \A t \in Threads : branch_size[t] = SizeOf(slots[t])

(* IsQuarantinedForTesting: under the branch's guard, whether some slot   *)
(* of slots_ holds the object's slot_start.                               *)
IsQuarantinedForTesting(t, o) == \E i \in DOMAIN slots[t] : slots[t][i] = o

(***************************************************************************)
(* What the branch's tests check with IsQuarantinedForTesting: free() of   *)
(* an object that the branch takes (quarantine enabled, not paused, not    *)
(* direct-mapped, usable size within the capacity) leaves that object in   *)
(* slots_ when the call returns.  Quarantine purges down to capacity -     *)
(* usable_size before the push_back, so the inline purge can never evict   *)
(* the entry being inserted, whichever slot the random swap moves it to.   *)
(* Stated for steps where both threads' branches would take the object.   *)
(***************************************************************************)
FreedObjectStaysQuarantined ==
  [][\A o \in Objects :
       ( /\ ~released[o] /\ released'[o]
         /\ o \notin DirectMapped
         /\ \A t \in Threads : enabled[t] /\ pause[t] = 0 /\ UsableSize[o] <= capacity[t] )
       => \E t \in Threads : IsQuarantinedForTesting(t, o)'
    ]_vars

(***************************************************************************)
(* A quarantining call never leaves its branch over the capacity it read:  *)
(* any step that grows a branch ends with the branch within its capacity.  *)
(* (A later SetCapacityInBytes may lower the capacity below the size; the  *)
(* header says the branch then needs Purge().)                             *)
(***************************************************************************)
GrowthWithinCapacity ==
  [][\A t \in Threads :
       branch_size'[t] > branch_size[t] => branch_size'[t] <= capacity[t]]_vars

==============================================================================
