------------------------- MODULE AddressPoolAbstract -------------------------
(***************************************************************************)
(* What one pool of the AddressPoolManager promises its callers            *)
(* (address_pool_manager.cc, AddressPoolManager::Alloc / Free): a chunk is *)
(* a run of whole super pages inside the pool that no other outstanding    *)
(* chunk overlaps, and Free gives back exactly a chunk that was handed     *)
(* out.  Which free run is chosen, and the bitmap and hint that find it,   *)
(* are left open here; AddressPool implements this specification.          *)
(***************************************************************************)
EXTENDS Naturals

CONSTANTS
  SuperPageSize,  \* kSuperPageSize, in model bytes
  TotalBits,      \* total_bits_: super pages in the pool
  Requests        \* lengths in bytes that callers pass to Alloc

VARIABLE chunks   \* outstanding chunks: <<first super page, requested bytes>>

PagesOf(len) == (len + SuperPageSize - 1) \div SuperPageSize

Span(c) == c[1] .. (c[1] + PagesOf(c[2]) - 1)

InUse == UNION {Span(c) : c \in chunks}

Init == chunks = {}

(* Alloc hands out any run of free super pages of the requested size. *)
Alloc(len) ==
  \E b \in 0 .. TotalBits :
    /\ b + PagesOf(len) <= TotalBits
    /\ Span(<<b, len>>) \cap InUse = {}
    /\ chunks' = chunks \cup {<<b, len>>}

(* Free takes back one outstanding chunk, exactly. *)
Free(c) ==
  /\ c \in chunks
  /\ chunks' = chunks \ {c}

Next ==
  \/ \E len \in Requests : Alloc(len)
  \/ \E c \in chunks : Free(c)

Spec == Init /\ [][Next]_chunks

==============================================================================
