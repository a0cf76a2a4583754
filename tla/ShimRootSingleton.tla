--------------------------- MODULE ShimRootSingleton ---------------------------
(***************************************************************************)
(* g_roots: one LeakySingleton<PartitionRoot, MainPartitionConstructor>   *)
(* per allocation token, each with its SimpleScopedSpinLocker, as malloc  *)
(* threads call Malloc -> Allocator(token) -> Get() and allocate from the *)
(* root it returns, while one thread runs EnablePartitionAllocMemory-     *)
(* Reclaimer and ConfigurePartitions.  The latter builds the new main     *)
(* allocators and, token by token, Get()s the current root, switches the  *)
(* new root's bucket distribution, records the current root in            *)
(* g_original_roots, Replace()s it and purges the old one                 *)
(* (src/src/partition_alloc/shim/allocator_shim_default_dispatch_to_       *)
(* partition_alloc.cc).                                                    *)
(*                                                                         *)
(* Roots are pairs: Buffer(k) is the root MainPartitionConstructor places *)
(* in token k's instance_buffer_, NewRoot(k) is new_main_allocators[k].   *)
(* Null is nullptr.  A failed (or spuriously failed) weak CAS leaves the  *)
(* spinning thread where it is, which is a stuttering step.  Partition    *)
(* options are data no property tells apart and are left out; the bucket  *)
(* distribution of each root is kept.                                      *)
(***************************************************************************)
EXTENDS Naturals, FiniteSets

CONSTANTS
  Callers,        \* threads calling malloc through the shim
  Configurer,     \* the thread calling ConfigurePartitions
  MaxToken,       \* kMaxAllocToken.value()
  Null,           \* nullptr
  Distributions,  \* BucketDistribution arguments ConfigurePartitions may get
  MaxGets         \* Malloc calls per caller

ASSUME Configurer \notin Callers
ASSUME Distributions \subseteq {"neutral", "denser"}

Threads == Callers \cup {Configurer}
Tokens  == 0 .. MaxToken

Buffer(k)  == <<"buffer", k>>
NewRoot(k) == <<"new", k>>
Roots == {Buffer(k) : k \in Tokens} \cup {NewRoot(k) : k \in Tokens}

VARIABLES
  instance,     \* per token: instance_ (atomic pointer)
  lock,         \* per token: initialization_lock_ (atomic bool)
  pc,           \* per thread: where it is
  tok,          \* per thread: the token of its current Get()
  got,          \* per thread: the root its last Get() returned
  constructed,  \* per token: Constructor::New calls into instance_buffer_
  original,     \* per token: g_original_roots[token]
  finalized,    \* g_roots_finalized
  gets,         \* per caller: Malloc calls made
  phase,        \* the configurer: "enable" or "configure"
  distribution, \* ConfigurePartitions' BucketDistribution argument
  dist,         \* per root: its bucket distribution
  built,        \* new_main_allocators constructed (function-local static)
  registered,   \* roots registered with the MemoryReclaimer
  allocs        \* live allocations: [root, dist at allocation]

vars == <<instance, lock, pc, tok, got, constructed, original, finalized,
          gets, phase, distribution, dist, built, registered, allocs>>

(* Where a thread continues once its Get() returns. *)
AfterGet(t) ==
  IF t \in Callers THEN "alloc"
  ELSE IF phase = "enable" THEN "rec_reg" ELSE "cfg_switch"

Init ==
  /\ instance = [k \in Tokens |-> Null]
  /\ lock = [k \in Tokens |-> FALSE]
  /\ pc = [t \in Threads |-> IF t = Configurer THEN "start" ELSE "idle"]
  /\ tok = [t \in Threads |-> 0]
  /\ got = [t \in Threads |-> Null]
  /\ constructed = [k \in Tokens |-> 0]
  /\ original = [k \in Tokens |-> Null]
  /\ finalized = FALSE
  /\ gets = [t \in Callers |-> 0]
  /\ phase = "enable"
  /\ distribution \in Distributions
  /\ dist = [r \in Roots |-> "neutral"]
  /\ built = FALSE
  /\ registered = {}
  /\ allocs = {}

(* Malloc(size, token): Allocator(token), i.e. g_roots[token].Get(). *)
CallGet(t, k) ==
  /\ pc[t] = "idle"
  /\ gets[t] < MaxGets
  /\ pc' = [pc EXCEPT ![t] = "get"]
  /\ tok' = [tok EXCEPT ![t] = k]
  /\ gets' = [gets EXCEPT ![t] = @ + 1]
  /\ UNCHANGED <<instance, lock, got, constructed, original, finalized, phase,
                 distribution, dist, built, registered, allocs>>

(* Get(): acquire-load instance_; non-null returns it, null takes GetSlowPath. *)
GetFast(t) ==
  /\ pc[t] = "get"
  /\ IF instance[tok[t]] # Null
     THEN /\ got' = [got EXCEPT ![t] = instance[tok[t]]]
          /\ pc' = [pc EXCEPT ![t] = AfterGet(t)]
     ELSE /\ pc' = [pc EXCEPT ![t] = "spin"]
          /\ UNCHANGED got
  /\ UNCHANGED <<instance, lock, tok, constructed, original, finalized, gets,
                 phase, distribution, dist, built, registered, allocs>>

(* SimpleScopedSpinLocker on token k: compare_exchange_weak(false -> true). *)
SpinAcquire(t, k, from, to) ==
  /\ pc[t] = from
  /\ ~lock[k]
  /\ lock' = [lock EXCEPT ![k] = TRUE]
  /\ pc' = [pc EXCEPT ![t] = to]
  /\ UNCHANGED <<instance, tok, got, constructed, original, finalized, gets,
                 phase, distribution, dist, built, registered, allocs>>

(* What ConfigurePartitions and the reclaimer registration alone change. *)
configVars == <<original, finalized, phase, distribution, dist, built, registered>>

(* Mutation variant of SlowLocked: the re-check under the lock is skipped. *)
SlowLockedNoRecheck(t) ==
  LET k == tok[t] IN
  /\ pc[t] = "slow"
  /\ instance' = [instance EXCEPT ![k] = Buffer(k)]
  /\ constructed' = [constructed EXCEPT ![k] = @ + 1]
  /\ got' = [got EXCEPT ![t] = Buffer(k)]
  /\ lock' = [lock EXCEPT ![k] = FALSE]
  /\ pc' = [pc EXCEPT ![t] = AfterGet(t)]
  /\ UNCHANGED <<tok, gets, allocs, configVars>>

(* Mutation variant of SlowLocked: "someone beat us" returns still locked. *)
SlowLockedKeepLock(t) ==
  LET k == tok[t] IN
  /\ pc[t] = "slow"
  /\ IF instance[k] # Null
     THEN /\ got' = [got EXCEPT ![t] = instance[k]]
          /\ UNCHANGED <<instance, constructed, lock>>
     ELSE /\ instance' = [instance EXCEPT ![k] = Buffer(k)]
          /\ constructed' = [constructed EXCEPT ![k] = @ + 1]
          /\ got' = [got EXCEPT ![t] = Buffer(k)]
          /\ lock' = [lock EXCEPT ![k] = FALSE]
  /\ pc' = [pc EXCEPT ![t] = AfterGet(t)]
  /\ UNCHANGED <<tok, gets, allocs, configVars>>

(* Mutation variant of SlowLocked: returns the value loaded under the lock. *)
SlowLockedReturnLoaded(t) ==
  LET k == tok[t] IN
  /\ pc[t] = "slow"
  /\ got' = [got EXCEPT ![t] = instance[k]]
  /\ IF instance[k] # Null
     THEN UNCHANGED <<instance, constructed>>
     ELSE /\ instance' = [instance EXCEPT ![k] = Buffer(k)]
          /\ constructed' = [constructed EXCEPT ![k] = @ + 1]
  /\ lock' = [lock EXCEPT ![k] = FALSE]
  /\ pc' = [pc EXCEPT ![t] = AfterGet(t)]
  /\ UNCHANGED <<tok, gets, allocs, configVars>>

(***************************************************************************)
(* GetSlowPath under the lock: relaxed re-load; if someone beat us, return *)
(* their root; else construct the root in instance_buffer_ and            *)
(* release-store it.  The scoped locker's release-store of false ends it.  *)
(***************************************************************************)
SlowLocked(t) ==
  LET k == tok[t] IN
  /\ pc[t] = "slow"
  /\ IF instance[k] # Null
     THEN /\ got' = [got EXCEPT ![t] = instance[k]]
          /\ UNCHANGED <<instance, constructed>>
     ELSE /\ instance' = [instance EXCEPT ![k] = Buffer(k)]
          /\ constructed' = [constructed EXCEPT ![k] = @ + 1]
          /\ got' = [got EXCEPT ![t] = Buffer(k)]
  /\ lock' = [lock EXCEPT ![k] = FALSE]
  /\ pc' = [pc EXCEPT ![t] = AfterGet(t)]
  /\ UNCHANGED <<tok, gets, allocs, configVars>>

(* An allocation made now from root r. *)
NewAlloc(r) == [root |-> r, dist |-> dist[r]]

(* Malloc, Calloc, Memalign, AlignedAlloc and their Unchecked forms, once *)
(* Allocator(token) returned: root->AllocInline or AlignedAllocInline.    *)
(* The slot comes from the root's buckets as its distribution lays them.  *)
Malloc(t) == allocs' = allocs \cup {NewAlloc(got[t])}

(* AlignedRealloc(address, size): size 0 frees address; otherwise a new   *)
(* block from Allocator(token), then the old one freed in its own root.   *)
AlignedRealloc(t) ==
  \E a \in allocs :
    \/ allocs' = allocs \ {a}
    \/ allocs' = (allocs \ {a}) \cup {NewAlloc(got[t])}

(* Realloc(address, size): PartitionRoot::Realloc takes the root from the *)
(* address, so the new block comes from the old block's root whatever the *)
(* token's root is now.                                                   *)
Realloc(t) == \E a \in allocs : allocs' = (allocs \ {a}) \cup {NewAlloc(a.root)}

(* The allocating entry point the caller made, after its Get() returned. *)
Alloc(t) ==
  /\ pc[t] = "alloc"
  /\ \/ Malloc(t)
     \/ AlignedRealloc(t)
     \/ Realloc(t)
  /\ pc' = [pc EXCEPT ![t] = "idle"]
  /\ UNCHANGED <<instance, lock, constructed, tok, got, gets, configVars>>

(* Free, FreeWithSize, FreeWithAlignment, FreeWithSizeAndAlignment:       *)
(* FreeInlineInUnknownRoot returns the block to the root it came from;    *)
(* no Get() is made.                                                      *)
Free(t) ==
  /\ pc[t] = "idle"
  /\ \E a \in allocs : allocs' = allocs \ {a}
  /\ UNCHANGED <<instance, lock, constructed, pc, tok, got, gets, configVars>>

(* The configurer either registers the roots with the MemoryReclaimer    *)
(* first (EnablePartitionAllocMemoryReclaimer) or goes straight to        *)
(* ConfigurePartitions.                                                   *)
StartEnable ==
  /\ pc[Configurer] = "start"
  /\ pc' = [pc EXCEPT ![Configurer] = "get"]
  /\ tok' = [tok EXCEPT ![Configurer] = 0]
  /\ UNCHANGED <<instance, lock, constructed, got, gets, allocs, configVars>>

(* EnablePartitionAllocMemoryReclaimer, per token: RegisterPartition of   *)
(* Allocator(token), then DCHECK(!AllocatorConfigurationFinalized()) and  *)
(* DCHECK(OriginalAllocator(token) == nullptr); a failed DCHECK crashes.  *)
RegisterPartition ==
  LET k == tok[Configurer] IN
  /\ pc[Configurer] = "rec_reg"
  /\ registered' = registered \cup {got[Configurer]}
  /\ pc' = [pc EXCEPT ![Configurer] =
              IF finalized \/ original[k] # Null THEN "crashed"
              ELSE IF k < MaxToken THEN "get" ELSE "cfg_build"]
  /\ tok' = [tok EXCEPT ![Configurer] = IF k < MaxToken THEN k + 1 ELSE k]
  /\ UNCHANGED <<instance, lock, constructed, got, gets, allocs, original,
                 finalized, phase, distribution, dist, built>>

(***************************************************************************)
(* ConfigurePartitions, before the loop: the PartitionOptions are filled  *)
(* in and the function-local static new_main_allocators[2] is constructed *)
(* on the first call (thread_cache_index 0 and 1).  Its roots start with  *)
(* the default (neutral) bucket distribution.                             *)
(***************************************************************************)
ConstructNewAllocators ==
  /\ pc[Configurer] \in {"start", "cfg_build"}
  /\ built' = TRUE
  /\ phase' = "configure"
  /\ pc' = [pc EXCEPT ![Configurer] = "get"]
  /\ tok' = [tok EXCEPT ![Configurer] = 0]
  /\ UNCHANGED <<instance, lock, constructed, got, gets, allocs, original,
                 finalized, distribution, dist, registered>>

(* Mutation variant of SwitchDistribution: switches current_root. *)
SwitchDistributionCurrentRoot ==
  /\ pc[Configurer] = "cfg_switch"
  /\ dist' = IF distribution = "denser"
             THEN [dist EXCEPT ![got[Configurer]] = "denser"] ELSE dist
  /\ pc' = [pc EXCEPT ![Configurer] = "cfg_store"]
  /\ UNCHANGED <<instance, lock, constructed, tok, got, gets, allocs, original,
                 finalized, phase, distribution, built, registered>>

(* new_root = new_main_allocators[token]->root(); kDenser switches it to   *)
(* the denser bucket distribution, before any traffic is directed to it.  *)
SwitchDistribution ==
  LET k == tok[Configurer] IN
  /\ pc[Configurer] = "cfg_switch"
  /\ dist' = IF distribution = "denser"
             THEN [dist EXCEPT ![NewRoot(k)] = "denser"] ELSE dist
  /\ pc' = [pc EXCEPT ![Configurer] = "cfg_store"]
  /\ UNCHANGED <<instance, lock, constructed, tok, got, gets, allocs, original,
                 finalized, phase, distribution, built, registered>>

(* g_original_roots[token] = current_root. *)
StoreOriginal ==
  LET k == tok[Configurer] IN
  /\ pc[Configurer] = "cfg_store"
  /\ original' = [original EXCEPT ![k] = got[Configurer]]
  /\ pc' = [pc EXCEPT ![Configurer] = "cfg_spin"]
  /\ UNCHANGED <<instance, lock, constructed, tok, got, gets, allocs,
                 finalized, phase, distribution, dist, built, registered>>

(* g_roots[token].Replace(new_root) under the spin lock: release-store,   *)
(* then unlock.                                                           *)
ReplaceLocked ==
  LET k == tok[Configurer] IN
  /\ pc[Configurer] = "cfg_locked"
  /\ instance' = [instance EXCEPT ![k] = NewRoot(k)]
  /\ lock' = [lock EXCEPT ![k] = FALSE]
  /\ pc' = [pc EXCEPT ![Configurer] = "cfg_purge"]
  /\ UNCHANGED <<constructed, tok, got, gets, allocs, configVars>>

(* current_root->PurgeMemory(...), then the next token; after the last,   *)
(* PA_CHECK(!g_roots_finalized.exchange(true)) (a second call crashes).   *)
PurgeAndNext ==
  LET k == tok[Configurer] IN
  /\ pc[Configurer] = "cfg_purge"
  /\ pc' = [pc EXCEPT ![Configurer] = IF k < MaxToken THEN "get" ELSE "cfg_final"]
  /\ tok' = [tok EXCEPT ![Configurer] = IF k < MaxToken THEN k + 1 ELSE k]
  /\ UNCHANGED <<instance, lock, constructed, got, gets, allocs, configVars>>

Finalize ==
  /\ pc[Configurer] = "cfg_final"
  /\ finalized' = TRUE
  /\ pc' = [pc EXCEPT ![Configurer] = IF finalized THEN "crashed" ELSE "done"]
  /\ UNCHANGED <<instance, lock, constructed, tok, got, gets, allocs, original,
                 phase, distribution, dist, built, registered>>

GetStep(t) ==
  \/ GetFast(t)
  \/ SpinAcquire(t, tok[t], "spin", "slow")
  \/ SlowLocked(t)
  \/ Alloc(t)

ConfigureStep ==
  \/ StartEnable
  \/ RegisterPartition
  \/ ConstructNewAllocators
  \/ SwitchDistribution
  \/ StoreOriginal
  \/ SpinAcquire(Configurer, tok[Configurer], "cfg_spin", "cfg_locked")
  \/ ReplaceLocked
  \/ PurgeAndNext
  \/ Finalize

Next ==
  \/ \E t \in Callers, k \in Tokens : CallGet(t, k)
  \/ \E t \in Callers : Free(t)
  \/ \E t \in Threads : GetStep(t)
  \/ ConfigureStep

(* Every thread keeps running: each of its enabled steps is eventually    *)
(* taken.  The spin lock itself is not fair; a spinning thread gets in    *)
(* once the finitely many other calls have released it for good.          *)
Fairness ==
  /\ \A t \in Threads : WF_vars(GetStep(t))
  /\ WF_vars(ConfigureStep)

Spec == Init /\ [][Next]_vars /\ Fairness

-----------------------------------------------------------------------------
(* Properties *)

(***************************************************************************)
(* Get() never returns nullptr, nor another token's root: every caller of *)
(* Allocator(token) dereferences the root, and ConfigurePartitions        *)
(* records and purges it.  A thread that returned from Get() holds token  *)
(* k's buffer or new root, whichever of the fast path, the "someone beat  *)
(* us" path or the constructing path it took.                             *)
(***************************************************************************)
Returned(t) ==
  IF t = Configurer THEN pc[t] \in {"rec_reg", "cfg_switch", "cfg_store"}
  ELSE gets[t] > 0 /\ pc[t] \in {"alloc", "idle"}

GetNeverReturnsNull ==
  \A t \in Threads : Returned(t) => got[t] \in {Buffer(tok[t]), NewRoot(tok[t])}

(***************************************************************************)
(* MainPartitionConstructor runs at most once per token, however many     *)
(* threads find instance_ null on the fast path at once: the re-load      *)
(* under initialization_lock_ in GetSlowPath must see the first thread's  *)
(* store.  A second construction would re-initialise the PartitionRoot    *)
(* other threads are already allocating from.                             *)
(***************************************************************************)
ConstructedAtMostOnce == \A k \in Tokens : constructed[k] <= 1

(***************************************************************************)
(* "Ensure that we switch new_root before directing new traffic to it,    *)
(* this ensures that a BucketDistribution is consistent over the life of  *)
(* an allocation": every live allocation, from whichever root and token,  *)
(* was made under the distribution its root has now, whatever interleaving*)
(* of Malloc with ConfigurePartitions' switch, Replace and purge.         *)
(***************************************************************************)
DistributionStableForAllocations ==
  \A a \in allocs : dist[a.root] = a.dist

(***************************************************************************)
(* Every Get() returns: a thread that enters GetSlowPath eventually gets  *)
(* the spin lock and leaves, given that every holder releases it on every *)
(* path out of the critical section.                                      *)
(***************************************************************************)
InGet(t) == pc[t] \in {"get", "spin", "slow"}

GetEventuallyReturns == \A t \in Threads : InGet(t) ~> ~InGet(t)

==============================================================================
