------------------------- MODULE PartitionAddressSpace -------------------------
(***************************************************************************)
(* The GigaCage: PartitionAddressSpace (src/partition_address_space.{h,cc})*)
(* reserves one oversized region, aligns its base and registers the pools  *)
(* in order with AddressPoolManager::Add (src/address_pool_manager.cc),    *)
(* which hands out 1-based handles over a fixed table; pointer             *)
(* classification is one mask and compare per pool against setup_.        *)
(*                                                                         *)
(* Addresses are AddrBits-bit words, so ~ and & are the code's operations  *)
(* at a smaller width.  Each pool allocates as AddressPoolAbstract says   *)
(* (any free run of super pages), which AddressPool is checked to refine.  *)
(* The .cc in src/ carves two pools and writes reserved_base_address_ and  *)
(* two handles; the header reads setup_.  The store of each carved pool's  *)
(* base and handle into setup_ (BRP first, then non-BRP) and the           *)
(* configurable pool's initialisation are modelled from the spec, since   *)
(* their code is not in src/.                                              *)
(***************************************************************************)
EXTENDS Naturals, FiniteSets, Sequences, Bitwise

CONSTANTS
  AddrBits,         \* width of uintptr_t in the model
  SuperPageSize,    \* kSuperPageSize
  Granularity,      \* alignment of what SystemAllocPages returns
  PoolMaxSize,      \* kPoolMaxSize = kNonBRPPoolSize = kBRPPoolSize
  ConfigurableSize, \* kConfigurablePoolSize
  Alignment,        \* kReservedAddressSpaceAlignment
  ReservedSize,     \* kReservedAddressSpaceSize
  NumPools,         \* kNumPools: slots of AddressPoolManager::pools_
  Requests,         \* lengths callers pass to AddressPoolManager::Alloc
  MaxChunks,        \* bound on outstanding chunks
  NoPool            \* an empty pools_ slot

Addrs == 0 .. 2^AddrBits - 1
Compl(x) == (2^AddrBits - 1) - x

Kinds == {"nonBRP", "BRP", "configurable"}
CageKinds == <<"BRP", "nonBRP">>   \* carve order

PoolSize(k) == IF k = "configurable" THEN ConfigurableSize ELSE PoolMaxSize

(* k*PoolOffsetMask and k*PoolBaseMask of the header. *)
OffsetMask(k) == PoolSize(k) - 1
BaseMask(k) == Compl(OffsetMask(k))

(* Mutant of bits::Align: rounding down. *)
AlignDown(x, a) == (x \div a) * a

(* bits::Align: round up to a power of two. *)
AlignUp(x, a) == ((x + a - 1) \div a) * a

Handles == 1 .. NumPools

VARIABLES
  setup,          \* setup_: [kind -> [base |-> base address, handle |-> pool]]
  pools,          \* AddressPoolManager::pools_: handle -> [ptr, len] or NoPool
  reservedStart,  \* reserved_address_start_, 0 before Init
  reservedBase,   \* reserved_base_address_
  chunks          \* outstanding Alloc results: [handle, addr, len]

vars == <<setup, pools, reservedStart, reservedBase, chunks>>

(* Mutant: the setup_ bases default to 0. *)
DefaultSetupZero == [k \in Kinds |-> [base |-> 0, handle |-> 0]]

(* GigaCageSetup's default member values: every base is its offset mask. *)
DefaultSetup == [k \in Kinds |-> [base |-> OffsetMask(k), handle |-> 0]]

(* AddressPoolManager::ResetForTesting: every pools_ entry reset; the  *)
(* static manager starts out the same way.                             *)
ResetForTesting == [h \in Handles |-> NoPool]

Init ==
  /\ setup = DefaultSetup
  /\ pools = ResetForTesting
  /\ reservedStart = 0
  /\ reservedBase = Alignment - 1
  /\ chunks = {}

(* IsInNonBRPPool / IsInBRPPool / IsInConfigurablePool. *)
IsInPool(k, a) == (a & BaseMask(k)) = setup[k].base

IsInitialized == setup["nonBRP"].handle # 0

IsConfigurablePoolInitialized ==
  setup["configurable"].base # OffsetMask("configurable")

(* GetPoolAndOffset: the first pool in the code's order that matches, or  *)
(* <<0, address>> where the code reaches PA_NOTREACHED.                   *)
GetPoolAndOffset(a) ==
  LET k == CASE IsInPool("nonBRP", a)       -> "nonBRP"
             [] IsInPool("BRP", a)          -> "BRP"
             [] IsInPool("configurable", a) -> "configurable"
             [] OTHER                       -> "none"
  IN  IF k = "none" THEN <<0, a>>
      ELSE <<setup[k].handle, (a - setup[k].base) % 2^AddrBits>>

IsManagedByPartitionAlloc(a) == \E k \in Kinds : IsInPool(k, a)

(* AddressPoolManager::Add: the first empty slot, handle = index + 1; *)
(* 0 when the table is full (NOTREACHED, then return 0).              *)
FreeSlots(t) == {h \in Handles : t[h] = NoPool}

(* Mutant: Add returns the slot index, not index + 1. *)
AddHandleZeroBased(t) ==
  IF FreeSlots(t) = {} THEN 0
  ELSE (CHOOSE h \in FreeSlots(t) : \A g \in FreeSlots(t) : h <= g) - 1

AddHandle(t) == IF FreeSlots(t) = {} THEN 0
                ELSE CHOOSE h \in FreeSlots(t) : \A g \in FreeSlots(t) : h <= g
AddTo(t, ptr, len) ==
  LET h == AddHandle(t)
  IN  IF h = 0 THEN t ELSE [t EXCEPT ![h] = [ptr |-> ptr, len |-> len]]

(* Address ranges. *)
Range(base, size) == base .. base + size - 1
ConfigurableRange ==
  IF IsConfigurablePoolInitialized
  THEN Range(setup["configurable"].base, ConfigurableSize) ELSE {}

(* What SystemAllocPages may return for the reservation: granularity  *)
(* aligned, nonzero, and clear of the configurable pool's mapping.     *)
ReserveResults ==
  {s \in 1 .. 2^AddrBits - ReservedSize :
     s % Granularity = 0 /\ Range(s, ReservedSize) \cap ConfigurableRange = {}}

(***************************************************************************)
(* PartitionAddressSpace::Init: reserve, align the base up, register the   *)
(* pools in order at base, base + size, ... and store each pool's base and *)
(* handle in setup_.                                                       *)
(***************************************************************************)
CageInit(s) ==
  LET base == AlignUp(s, Alignment)
      t1 == AddTo(pools, base, PoolMaxSize)
      t2 == AddTo(t1, base + PoolMaxSize, PoolMaxSize)
  IN  /\ reservedStart = 0
      /\ reservedStart' = s
      /\ reservedBase' = base
      /\ pools' = t2
      /\ setup' = [setup EXCEPT
                     ![CageKinds[1]] = [base |-> base, handle |-> AddHandle(pools)],
                     ![CageKinds[2]] = [base |-> base + PoolMaxSize,
                                        handle |-> AddHandle(t1)]]
      /\ UNCHANGED chunks

(* InitConfigurablePool(address, size): an embedder's mapping aligned on *)
(* kConfigurablePoolSize, outside the cage, registered with Add.         *)
InitConfigurablePool(a) ==
  /\ ~IsConfigurablePoolInitialized
  /\ a # 0 /\ a % ConfigurableSize = 0
  /\ a + ConfigurableSize <= 2^AddrBits
  /\ reservedStart # 0 => Range(a, ConfigurableSize) \cap Range(reservedStart, ReservedSize) = {}
  /\ pools' = AddTo(pools, a, ConfigurableSize)
  /\ setup' = [setup EXCEPT !["configurable"] = [base |-> a, handle |-> AddHandle(pools)]]
  /\ UNCHANGED <<reservedStart, reservedBase, chunks>>

(* UninitForTesting: release the reservation, reset the fields and the  *)
(* manager (ResetForTesting).  Tests release their chunks first.        *)
UninitForTesting ==
  /\ reservedStart # 0
  /\ chunks = {}
  /\ reservedStart' = 0
  /\ reservedBase' = Alignment - 1
  /\ setup' = DefaultSetup
  /\ pools' = ResetForTesting
  /\ UNCHANGED chunks

(* Mutant: GetPool indexes pools_[handle]. *)
GetPoolOffByOne(h) == pools[IF h < NumPools THEN h + 1 ELSE h]

(* AddressPoolManager::GetPool: pools_[handle - 1]. *)
GetPool(h) == pools[h]

PagesOf(len) == (len + SuperPageSize - 1) \div SuperPageSize
Span(c) == Range(c.addr, PagesOf(c.len) * SuperPageSize)

(* Mutant: the pool may hand out a run one super page past its end. *)
AllocPastEnd(h, len) ==
  LET p == GetPool(h)
  IN  /\ p # NoPool
      /\ Cardinality(chunks) < MaxChunks
      /\ \E b \in 0 .. p.len \div SuperPageSize - PagesOf(len) + 1 :
           LET c == [handle |-> h, addr |-> p.ptr + b * SuperPageSize, len |-> len]
           IN  /\ \A d \in chunks : d.handle = h => Span(c) \cap Span(d) = {}
               /\ chunks' = chunks \cup {c}
      /\ UNCHANGED <<setup, pools, reservedStart, reservedBase>>

(* AddressPoolManager::Alloc(handle, length) with a handle from setup_: *)
(* the pool hands out a free run of super pages, as its abstract spec.  *)
Alloc(h, len) ==
  LET p == GetPool(h)
  IN  /\ p # NoPool
      /\ Cardinality(chunks) < MaxChunks
      /\ \E b \in 0 .. p.len \div SuperPageSize - PagesOf(len) :
           LET c == [handle |-> h, addr |-> p.ptr + b * SuperPageSize, len |-> len]
           IN  /\ \A d \in chunks : d.handle = h => Span(c) \cap Span(d) = {}
               /\ chunks' = chunks \cup {c}
      /\ UNCHANGED <<setup, pools, reservedStart, reservedBase>>

(* AddressPoolManager::Free: the chunk goes back to GetPool(handle). *)
Free(c) ==
  /\ chunks' = chunks \ {c}
  /\ UNCHANGED <<setup, pools, reservedStart, reservedBase>>

Next ==
  \/ \E s \in ReserveResults : CageInit(s)
  \/ \E a \in Addrs : InitConfigurablePool(a)
  \/ UninitForTesting
  \/ \E k \in Kinds, len \in Requests :
       setup[k].handle # 0 /\ Alloc(setup[k].handle, len)
  \/ \E c \in chunks : Free(c)

Spec == Init /\ [][Next]_vars

-----------------------------------------------------------------------------
TypeOK ==
  /\ setup \in [Kinds -> [base : Addrs, handle : 0 .. NumPools]]
  /\ pools \in [Handles -> [ptr : Addrs, len : {PoolMaxSize, ConfigurableSize}] \cup {NoPool}]
  /\ reservedStart \in Addrs
  /\ chunks \subseteq [handle : Handles, addr : Addrs, len : Requests]

(***************************************************************************)
(* A pool with no handle classifies nothing: before Init, after           *)
(* UninitForTesting, and for a configurable pool never set up, the         *)
(* offset-mask sentinel in setup_ matches no address (the null address     *)
(* included), so IsManagedByPartitionAlloc is safe to call at any time.    *)
(***************************************************************************)
NoneWithoutHandle ==
  \A k \in Kinds : setup[k].handle = 0 => \A a \in Addrs : ~IsInPool(k, a)

(***************************************************************************)
(* The mask test is the range test: for every pool setup_ knows, the       *)
(* handle names the manager slot holding that pool's range, and an address *)
(* passes the pool's mask and compare exactly when it lies in that range.  *)
(* Across Init, UninitForTesting and re-Init at another reservation, the   *)
(* handles the manager hands out and the aligned bases Init computes must  *)
(* agree with what the header's queries assume; and the IsInitialized      *)
(* DCHECKs (both cage handles zero or both nonzero) hold.                  *)
(***************************************************************************)
ClassificationMatchesManager ==
  /\ (setup["BRP"].handle = 0) <=> (setup["nonBRP"].handle = 0)
  /\ IsInitialized <=> reservedStart # 0
  /\ \A k \in Kinds :
       LET base == setup[k].base
           h    == setup[k].handle
       IN  h # 0 => /\ pools[h] = [ptr |-> base, len |-> PoolSize(k)]
                    /\ \A a \in Addrs : IsInPool(k, a) <=> a \in Range(base, PoolSize(k))

(***************************************************************************)
(* The carved pools lie inside the reservation (the DCHECK_GE and          *)
(* DCHECK_LE of Init): the base aligned up from whatever SystemAllocPages  *)
(* returned still leaves room for every pool before the reservation ends.  *)
(***************************************************************************)
CarvedInsideReservation ==
  IsInitialized =>
    \A i \in 1 .. Len(CageKinds) :
      Range(setup[CageKinds[i]].base, PoolMaxSize)
        \subseteq Range(reservedStart, ReservedSize)

(***************************************************************************)
(* Every byte of every chunk AddressPoolManager::Alloc handed out for a    *)
(* handle classifies back to that handle, with the offset from the pool's  *)
(* base (the spec: classify(a + k) = which(h) for 0 <= k < s).             *)
(***************************************************************************)
ChunksClassifyToTheirPool ==
  \A c \in chunks :
    \A a \in Span(c) :
      \E k \in Kinds :
        /\ setup[k].handle = c.handle
        /\ GetPoolAndOffset(a) = <<c.handle, a - setup[k].base>>

==============================================================================
