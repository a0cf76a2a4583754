------------------------- MODULE LightweightQuarantine -------------------------
(***************************************************************************)
(* LightweightQuarantineBranch (lightweight_quarantine.cc): branches that  *)
(* share one LightweightQuarantineRoot.  Quarantine loads the root's      *)
(* capacity before taking the branch lock, decides under the lock from    *)
(* the root's relaxed size_in_bytes_ whether the entry can fit, purges    *)
(* with PurgeInternal, stores the entry in a shuffled slot array and,     *)
(* after the lock is released, adds to the root's counters.  Objects are   *)
(* abstracted to their usable sizes; size_t arithmetic is kept modulo      *)
(* SizeMod so that an underflowing subtraction wraps as it does in C++.    *)
(***************************************************************************)
EXTENDS Integers, Sequences, SequencesExt, FiniteSets, Functions

CONSTANTS
    Threads,      \* threads calling Quarantine
    Branches,     \* LightweightQuarantineBranch objects of the root
    BranchOf,     \* the branch each thread quarantines into
    Sizes,        \* usable sizes of quarantined objects
    Capacities,   \* values root_.capacity_in_bytes_ may hold
    CapCount,     \* kQuarantineCapacityCount
    SizeMod,      \* 2^(bits of size_t) in the model
    MaxCalls,     \* bound on Quarantine calls per thread
    NoOwner       \* lock_ is free

ASSUME /\ BranchOf \in [Threads -> Branches]
       /\ CapCount \in Nat \ {0}
       /\ MaxCalls \in Nat

VARIABLES
    capacity,     \* root_.capacity_in_bytes_
    rootSize,     \* root_.size_in_bytes_
    rootCount,    \* root_.count_
    cumCount,     \* root_.cumulative_count_
    cumSize,      \* root_.cumulative_size_in_bytes_
    missCount,    \* root_.quarantine_miss_count_
    lock,         \* lock_ of each branch: owning thread or NoOwner
    slots,        \* slots_[0 .. branch_count_-1], usable sizes
    bsize,        \* branch_size_in_bytes_
    pc,           \* where each thread is inside Quarantine
    usable,       \* local usable_size of the running call
    cap,          \* local capacity_in_bytes of the running call
    calls         \* Quarantine calls made by each thread

rootVars == <<capacity, rootSize, rootCount, cumCount, cumSize, missCount>>
vars == <<rootVars, lock, slots, bsize, pc, usable, cap, calls>>

\* size_t arithmetic.
SizeT(x) == x % SizeMod

SumOf(s) == FoldSeq(+, 0, s)

Init ==
    /\ capacity \in Capacities
    /\ rootSize = 0 /\ rootCount = 0 /\ cumCount = 0 /\ cumSize = 0
    /\ missCount = 0
    /\ lock = [b \in Branches |-> NoOwner]
    /\ slots = [b \in Branches |-> <<>>]
    /\ bsize = [b \in Branches |-> 0]
    /\ pc = [t \in Threads |-> "idle"]
    /\ usable = [t \in Threads |-> 0]
    /\ cap = [t \in Threads |-> 0]
    /\ calls = [t \in Threads |-> 0]

\* Entry of Quarantine: usable size of the slot, relaxed load of the
\* capacity before the lock is taken.
StartQuarantine(t, u) ==
    /\ pc[t] = "idle"
    /\ calls[t] < MaxCalls
    /\ pc' = [pc EXCEPT ![t] = "lock"]
    /\ usable' = [usable EXCEPT ![t] = u]
    /\ cap' = [cap EXCEPT ![t] = capacity]
    /\ calls' = [calls EXCEPT ![t] = @ + 1]
    /\ UNCHANGED <<rootVars, lock, slots, bsize>>

\* size_in_bytes_held_by_others, a size_t subtraction of a relaxed load.
HeldByOthers(b) == SizeT(rootSize - bsize[b])

EntryFits(t) == ~(cap[t] < SizeT(HeldByOthers(BranchOf[t]) + usable[t]))

\* Under the lock the entry cannot fit: free it at once, count a miss and
\* return false (the guard releases lock_).
QuarantineMiss(t) ==
    /\ pc[t] = "lock"
    /\ lock[BranchOf[t]] = NoOwner
    /\ ~EntryFits(t)
    /\ missCount' = missCount + 1
    /\ pc' = [pc EXCEPT ![t] = "idle"]
    /\ UNCHANGED <<capacity, rootSize, rootCount, cumCount, cumSize, lock,
                   slots, bsize, usable, cap, calls>>

\* Under the lock the entry fits; the thread keeps lock_.
QuarantineAdmit(t) ==
    /\ pc[t] = "lock"
    /\ lock[BranchOf[t]] = NoOwner
    /\ EntryFits(t)
    /\ lock' = [lock EXCEPT ![BranchOf[t]] = t]
    /\ pc' = [pc EXCEPT ![t] = "purge"]
    /\ UNCHANGED <<rootVars, slots, bsize, usable, cap, calls>>

\* Mutant: the loop condition keeps one entry too many.
RECURSIVE PurgeCountOffByOne(_, _, _, _)
PurgeCountOffByOne(s, local, tc, ts) ==
    IF Len(s) # 0 /\ (tc + 1 < Len(s) \/ ts < local)
    THEN 1 + PurgeCountOffByOne(Front(s), SizeT(local - Last(s)), tc, ts)
    ELSE 0

\* The loop of PurgeInternal: how many entries it frees from the end of s,
\* starting from the loaded root size `local`.
RECURSIVE PurgeCount(_, _, _, _)
PurgeCount(s, local, tc, ts) ==
    IF Len(s) # 0 /\ (tc < Len(s) \/ ts < local)
    THEN 1 + PurgeCount(Front(s), SizeT(local - Last(s)), tc, ts)
    ELSE 0

\* PurgeInternal(target_branch_count, target_size_in_bytes) on branch b:
\* the kept slots and what the loop freed.
PurgeInternal(b, tc, ts) ==
    LET k == PurgeCount(slots[b], rootSize, tc, ts)
        kept == SubSeq(slots[b], 1, Len(slots[b]) - k)
    IN  [kept |-> kept,
         freedCount |-> k,
         freedSize |-> SumOf(SubSeq(slots[b], Len(kept) + 1, Len(slots[b])))]

\* The rest of the locked section: purge, count the entry, store it in the
\* last slot and swap it with a random one, release lock_.
QuarantineInsert(t) ==
    LET b == BranchOf[t]
        p == PurgeInternal(b, CapCount - 1, SizeT(cap[t] - usable[t]))
        s == Append(p.kept, usable[t])
    IN  /\ pc[t] = "purge"
        /\ \E i \in 1..Len(s) :
              slots' = [slots EXCEPT ![b] = [s EXCEPT ![i] = s[Len(s)],
                                                      ![Len(s)] = s[i]]]
        /\ bsize' = [bsize EXCEPT ![b] = SizeT(SizeT(@ - p.freedSize)
                                               + usable[t])]
        /\ rootCount' = SizeT(rootCount - p.freedCount)
        /\ rootSize' = SizeT(rootSize - p.freedSize)
        /\ lock' = [lock EXCEPT ![b] = NoOwner]
        /\ pc' = [pc EXCEPT ![t] = "publish"]
        /\ UNCHANGED <<capacity, cumCount, cumSize, missCount, usable, cap,
                       calls>>

\* Mutant: the size_in_bytes_ fetch_add is left out.
QuarantinePublishNoSize(t) ==
    /\ pc[t] = "publish"
    /\ rootCount' = SizeT(rootCount + 1)
    /\ cumCount' = SizeT(cumCount + 1)
    /\ cumSize' = SizeT(cumSize + usable[t])
    /\ pc' = [pc EXCEPT ![t] = "idle"]
    /\ UNCHANGED <<capacity, rootSize, missCount, lock, slots, bsize, usable,
                   cap, calls>>

\* After the unlock: the four relaxed fetch_adds on the root, return true.
QuarantinePublish(t) ==
    /\ pc[t] = "publish"
    /\ rootCount' = SizeT(rootCount + 1)
    /\ rootSize' = SizeT(rootSize + usable[t])
    /\ cumCount' = SizeT(cumCount + 1)
    /\ cumSize' = SizeT(cumSize + usable[t])
    /\ pc' = [pc EXCEPT ![t] = "idle"]
    /\ UNCHANGED <<capacity, missCount, lock, slots, bsize, usable, cap, calls>>

\* Purge() of the header: PurgeInternal(0, 0) under the branch lock, here
\* called by a thread of the branch between its Quarantine calls.
Purge(t) ==
    LET b == BranchOf[t]
        p == PurgeInternal(b, 0, 0)
    IN  /\ pc[t] = "idle"
        /\ lock[b] = NoOwner
        /\ slots' = [slots EXCEPT ![b] = p.kept]
        /\ bsize' = [bsize EXCEPT ![b] = SizeT(@ - p.freedSize)]
        /\ rootCount' = SizeT(rootCount - p.freedCount)
        /\ rootSize' = SizeT(rootSize - p.freedSize)
        /\ UNCHANGED <<capacity, cumCount, cumSize, missCount, lock, pc,
                       usable, cap, calls>>

\* SetCapacityInBytes of the root: a relaxed store, from any thread.
SetCapacity(c) ==
    /\ c # capacity
    /\ capacity' = c
    /\ UNCHANGED <<rootSize, rootCount, cumCount, cumSize, missCount, lock,
                   slots, bsize, pc, usable, cap, calls>>

Next ==
    \/ \E t \in Threads, u \in Sizes : StartQuarantine(t, u)
    \/ \E t \in Threads :
          \/ QuarantineMiss(t)
          \/ QuarantineAdmit(t)
          \/ QuarantineInsert(t)
          \/ QuarantinePublish(t)
          \/ Purge(t)
    \/ \E c \in Capacities : SetCapacity(c)

Spec == Init /\ [][Next]_vars

-----------------------------------------------------------------------------
Pending == {t \in Threads : pc[t] = "publish"}

TypeOK ==
    /\ capacity \in Capacities
    /\ {rootSize, rootCount, cumCount, cumSize, missCount} \subseteq 0..SizeMod-1
    /\ lock \in [Branches -> Threads \cup {NoOwner}]
    /\ slots \in [Branches -> BoundedSeq(Sizes, CapCount)]
    /\ bsize \in [Branches -> 0..SizeMod-1]
    /\ pc \in [Threads -> {"idle", "lock", "purge", "publish"}]
    /\ calls \in [Threads -> 0..MaxCalls]

\* The root's size and count, which Quarantine adds to only after the lock
\* is released while PurgeInternal subtracts under it, always equal what the
\* branches hold less the entries whose fetch_adds are still pending; and
\* branch_size_in_bytes_ is the sum of the branch's slots.
RootTracksBranches ==
    /\ \A b \in Branches : bsize[b] = SumOf(slots[b])
    /\ rootSize = SizeT(FoldFunction(+, 0, bsize)
                        - SumFunctionOnSet(usable, Pending))
    /\ rootCount = SizeT(FoldFunction(LAMBDA s, a : Len(s) + a, 0, slots)
                         - Cardinality(Pending))

\* The PA_DCHECKs after the purge (lightweight_quarantine.cc:44-47): a
\* stored entry leaves the branch within kQuarantineCapacityCount entries
\* and within the capacity the call loaded.  The root size that the fit
\* check and PurgeInternal load lacks the fetch_adds of threads of the same
\* branch that have unlocked but not yet published.
InsertWithinLoadedCapacity ==
    [][\A t \in Threads :
          pc[t] = "purge" /\ pc'[t] = "publish"
          => /\ bsize'[BranchOf[t]] <= cap[t]
             /\ Len(slots'[BranchOf[t]]) <= CapCount]_vars

=============================================================================
