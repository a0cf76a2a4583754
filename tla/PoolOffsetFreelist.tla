-------------------------- MODULE PoolOffsetFreelist --------------------------
(***************************************************************************)
(* The freelist of one slot span whose entries are PoolOffsetFreelistEntry *)
(* (src/src/partition_alloc/pool_offset_freelist.h): next_ holds the next *)
(* entry as a tagged offset into the pool, shadow_ holds ~next_, and       *)
(* GetNext decodes against the pool of `this` and crashes unless           *)
(* IsWellFormed.  Addresses are AddrBits-bit words, so ~, & and | are the  *)
(* code's operations at a smaller width.                                   *)
(*                                                                         *)
(* The span's slots lie in one super page of one pool.  Push and pop of    *)
(* the freelist head belong to the slot span code outside this file; they  *)
(* are modelled from the spec (a freed slot becomes the head with          *)
(* SetNext(old head); an allocation takes the head and follows GetNext).   *)
(* A use-after-free or an overflow may overwrite a free slot's words:      *)
(* one word (next_ only) or both, consistently.  DCHECKs are off, as in a  *)
(* release build.                                                          *)
(***************************************************************************)
EXTENDS Naturals, FiniteSets, Bitwise

CONSTANTS
  AddrBits,             \* width of uintptr_t in the model
  PoolBase,             \* pool_info.base of the span's pool
  PoolSize,             \* pool size (power of two), base_mask = ~(size - 1)
  SuperPageSize,        \* kSuperPageSize (power of two)
  PartitionPageSize,    \* PartitionPageSize(): metadata at the super page start
  TagMask,              \* kPtrTagMask: MTE tag bits, 0 without MTE
  Tag,                  \* Slots -> tag bits the slot's pointers carry
  Slots,                \* slot starts of the span (untagged addresses)
  Values,               \* words a corrupting write may store
  ForThreadCache,       \* the list is a thread-cache freelist
  MaxCorruptions        \* bound on corrupting writes

Word == 0 .. 2^AddrBits - 1

(* ~x on a uintptr_t *)
Compl(x) == (2^AddrBits - 1) - x

(* pool_info.base_mask: the pool's base bits, MTE tag bits exempt         *)
(* (pool_offset_freelist.h:207, "except a MTE tag").                        *)
PoolBaseMask == Compl(PoolSize - 1) & Compl(TagMask)
SuperPageOffsetMask == SuperPageSize - 1
SuperPageBaseMask == Compl(SuperPageOffsetMask)

(* SlotStartAddr2Ptr / SlotStartPtr2Addr: add or strip the slot's tag. *)
Ptr(a) == a | Tag[a]
Untag(p) == p & Compl(TagMask)

(* The addresses a decoded pointer can denote: the whole pool. *)
PoolAddrs == {PoolBase + i : i \in 0 .. PoolSize - 1}

ASSUME Slots \subseteq PoolAddrs /\ Tag \in [Slots -> Word]
ASSUME Values \subseteq Word

VARIABLES
  next,         \* next_ of each pool word pair that can hold an entry
  shadow,       \* shadow_
  head,         \* the freelist head pointer (tagged), 0 when empty
  allocated,    \* slots handed to the program
  crashed,      \* FreelistCorruptionDetected was called
  corruptions,  \* number of corrupting writes so far
  forged,       \* a free slot's two words were overwritten consistently
  tampered      \* slots whose next_ alone was overwritten since last set

vars == <<next, shadow, head, allocated, crashed, corruptions, forged, tampered>>

(* EncodeToOffset: the tagged offset into the pool, 0 for nullptr. *)
EncodeToOffset(ptr) ==
  IF ptr = 0 THEN 0 ELSE ptr & (TagMask | Compl(PoolBaseMask))

(* DecodeFromOffset: pool_info.base | tagged_offset. *)
DecodeFromOffset(off) == PoolBase | off

(* Mutation variant of IsWellFormed: the same-super-page test is dropped. *)
IsWellFormedNoSuperPage(here, nxt) ==
  LET h == Untag(here)
      n == Untag(nxt)
  IN  /\ (next[h] & PoolBaseMask) = 0
      /\ Compl(next[h]) = shadow[h]
      /\ (n & SuperPageOffsetMask) >= PartitionPageSize

(* Mutation variant of IsWellFormed: the shadow test is dropped. *)
IsWellFormedNoShadow(here, nxt) ==
  LET h == Untag(here)
      n == Untag(nxt)
  IN  /\ (next[h] & PoolBaseMask) = 0
      /\ (n & SuperPageOffsetMask) >= PartitionPageSize
      /\ ForThreadCache \/ (h & SuperPageBaseMask) = (n & SuperPageBaseMask)

(***************************************************************************)
(* IsWellFormed<for_thread_cache>(pool_info, here, next): no pool-base bit *)
(* in next_, shadow_ = ~next_, next not in the super page's metadata, and  *)
(* (not for a thread cache) here and next in the same super page.          *)
(***************************************************************************)
IsWellFormed(here, nxt) ==
  LET h == Untag(here)
      n == Untag(nxt)
  IN  /\ (next[h] & PoolBaseMask) = 0
      /\ Compl(next[h]) = shadow[h]
      /\ (n & SuperPageOffsetMask) >= PartitionPageSize
      /\ ForThreadCache \/ (h & SuperPageBaseMask) = (n & SuperPageBaseMask)

(* Mutation variant of GetNext: checks the decoded pointer, returns next_. *)
GetNextRawOffset(here) ==
  LET h == Untag(here)
      ret == DecodeFromOffset(next[h])
  IN  IF next[h] = 0 THEN [corrupt |-> FALSE, ptr |-> 0]
      ELSE [corrupt |-> ~IsWellFormed(here, ret), ptr |-> next[h]]

(***************************************************************************)
(* GetNextInternal<crash_on_corruption = true>: null when next_ is 0,      *)
(* otherwise the decoded pointer; `corrupt` when IsWellFormed fails.       *)
(***************************************************************************)
GetNext(here) ==
  LET h == Untag(here)
      ret == DecodeFromOffset(next[h])
  IN  IF next[h] = 0 THEN [corrupt |-> FALSE, ptr |-> 0]
      ELSE [corrupt |-> ~IsWellFormed(here, ret), ptr |-> ret]

(* Every slot handed out, the freelist empty: a fully used span. *)
Init ==
  /\ next = [a \in PoolAddrs |-> 0]
  /\ shadow = [a \in PoolAddrs |-> 0]
  /\ head = 0
  /\ allocated = Slots
  /\ crashed = FALSE
  /\ corruptions = 0
  /\ forged = FALSE
  /\ tampered = {}

(* Mutation variant of SetNext: shadow_ stores next_ itself. *)
SetNextNoInvert(a, entry) ==
  /\ next' = [next EXCEPT ![a] = EncodeToOffset(entry)]
  /\ shadow' = [shadow EXCEPT ![a] = EncodeToOffset(entry)]

(* SetNext(entry) on the entry at slot a (and the thread-cache form,      *)
(* EmplaceAndInitForThreadCache, which writes the same two words).        *)
SetNext(a, entry) ==
  /\ next' = [next EXCEPT ![a] = EncodeToOffset(entry)]
  /\ shadow' = [shadow EXCEPT ![a] = Compl(EncodeToOffset(entry))]

(* ClearForAllocation: both words zeroed before the slot is returned. *)
ClearForAllocation(a) ==
  /\ next' = [next EXCEPT ![a] = 0]
  /\ shadow' = [shadow EXCEPT ![a] = 0]

(* The program frees slot a: it becomes the head, linked to the old head. *)
Free(a) ==
  /\ ~crashed
  /\ a \in allocated
  /\ SetNext(a, head)
  /\ head' = Ptr(a)
  /\ allocated' = allocated \ {a}
  /\ tampered' = tampered \ {a}
  /\ UNCHANGED <<crashed, corruptions, forged>>

(***************************************************************************)
(* Allocation from the freelist: take the head, follow GetNext (crashing   *)
(* on a malformed entry), clear the entry and hand the slot out.  A head   *)
(* the checks let through may be no free slot of the span at all.          *)
(***************************************************************************)
Alloc ==
  LET h == Untag(head)
      nxt == GetNext(head)
  IN  /\ ~crashed
      /\ head # 0
      /\ \/ /\ nxt.corrupt
            /\ crashed' = TRUE
            /\ UNCHANGED <<next, shadow, head, allocated, tampered>>
         \/ /\ ~nxt.corrupt
            /\ ClearForAllocation(h)
            /\ head' = nxt.ptr
            /\ allocated' = allocated \cup ({h} \cap Slots)
            /\ tampered' = tampered \ {h}
            /\ UNCHANGED crashed
      /\ UNCHANGED <<corruptions, forged>>

(* A use-after-free write of one word over next_ of a free slot. *)
CorruptNext(a, v) ==
  /\ ~crashed
  /\ a \in Slots \ allocated
  /\ corruptions < MaxCorruptions
  /\ next' = [next EXCEPT ![a] = v]
  /\ corruptions' = corruptions + 1
  /\ tampered' = IF v # next[a] THEN tampered \cup {a} ELSE tampered
  /\ UNCHANGED <<shadow, head, allocated, crashed, forged>>

(* An overflow that writes both words consistently (shadow = ~next). *)
ForgeEntry(a, v) ==
  /\ ~crashed
  /\ a \in Slots \ allocated
  /\ corruptions < MaxCorruptions
  /\ next' = [next EXCEPT ![a] = v]
  /\ shadow' = [shadow EXCEPT ![a] = Compl(v)]
  /\ corruptions' = corruptions + 1
  /\ forged' = TRUE
  /\ tampered' = tampered \ {a}
  /\ UNCHANGED <<head, allocated, crashed>>

Next ==
  \/ \E a \in Slots : Free(a)
  \/ Alloc
  \/ \E a \in Slots, v \in Values : CorruptNext(a, v) \/ ForgeEntry(a, v)

Spec == Init /\ [][Next]_vars

-----------------------------------------------------------------------------
(* Properties *)

TypeOK ==
  /\ next \in [PoolAddrs -> Word]
  /\ shadow \in [PoolAddrs -> Word]
  /\ head \in {0} \cup {p \in Word : Untag(p) \in PoolAddrs}
  /\ allocated \subseteq Slots
  /\ crashed \in BOOLEAN
  /\ corruptions \in 0 .. MaxCorruptions
  /\ forged \in BOOLEAN
  /\ tampered \subseteq Slots

(***************************************************************************)
(* No false alarm: FreelistCorruptionDetected is reached only after some   *)
(* write corrupted a free slot.  Every entry SetNext writes, including the *)
(* null terminator and entries of tagged pointers, must pass IsWellFormed  *)
(* when GetNext reads it back.                                             *)
(***************************************************************************)
NoFalseCorruption == crashed => corruptions > 0

(***************************************************************************)
(* Whatever was written over a free slot, a head the checks let through    *)
(* denotes an address of the span's pool outside super-page metadata, in  *)
(* the span's own super page unless the list is a thread cache's.  This is *)
(* the confinement the pool-offset encoding is for.                        *)
(***************************************************************************)
SpanSuperPage == (CHOOSE a \in Slots : TRUE) & SuperPageBaseMask

AcceptedNextConfined ==
  head # 0 =>
    LET n == Untag(head)
    IN  /\ n \in PoolAddrs
        /\ (n & SuperPageOffsetMask) >= PartitionPageSize
        /\ ForThreadCache \/ (n & SuperPageBaseMask) = SpanSuperPage

(***************************************************************************)
(* Without a consistent two-word forgery, the freelist never hands out a   *)
(* slot twice: the head is always null or a free slot of the span.  A      *)
(* single overwritten next_ must be caught by the shadow before it is      *)
(* followed, across any order of frees, allocations and the write.         *)
(***************************************************************************)
SingleWriteNeverMisallocates ==
  ~forged => (head = 0 \/ Untag(head) \in Slots \ allocated)

(***************************************************************************)
(* A slot whose next_ alone was overwritten is never handed out without    *)
(* the corruption being detected (spec: the shadow detects single-word     *)
(* overwrites; flipping a bit of next_ is detected on the next GetNext).   *)
(***************************************************************************)
SingleWordCorruptionDetected ==
  [][head # 0 /\ Untag(head) \in tampered => Untag(head) \notin allocated']_vars

==============================================================================
