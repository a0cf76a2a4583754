----------------------------- MODULE AddressPool -----------------------------
(***************************************************************************)
(* One pool of AddressPoolManager (src/address_pool_manager.cc): a bitmap  *)
(* of super pages, alloc_bitset_, and the first-fit search FindChunk that  *)
(* starts at bit_hint_, with FreeChunk that clears a run and lowers the    *)
(* hint.  Both run entirely under the pool's lock_, so every call is one   *)
(* atomic step here and several callers need no more interleavings than    *)
(* one nondeterministic caller gives.                                      *)
(*                                                                         *)
(* Addresses are super-page indices relative to address_begin_; a length  *)
(* in bytes is rounded up to super pages by bits::Align as in the code.    *)
(* `live` is the callers' side: the chunks they hold, each with the length *)
(* they asked for and later pass back to Free.                             *)
(***************************************************************************)
EXTENDS Naturals, FiniteSets

CONSTANTS
  SuperPageSize,  \* kSuperPageSize, in model bytes
  TotalBits,      \* total_bits_ = length / kSuperPageSize
  Requests        \* lengths in bytes callers pass to Alloc / Free

ASSUME SuperPageSize \in Nat \ {0}
ASSUME TotalBits \in Nat \ {0}
ASSUME Requests \subseteq Nat \ {0}

VARIABLES
  alloc_bitset,   \* std::bitset<kMaxBits>: TRUE = super page handed out
  bit_hint,       \* bit_hint_: no free super page below it
  live            \* chunks held by callers: <<first bit, requested bytes>>

vars == <<alloc_bitset, bit_hint, live>>

Bits == 0 .. TotalBits - 1

(* bits::Align(requested_size, kSuperPageSize), then >> kSuperPageShift *)
Align(len) == ((len + SuperPageSize - 1) \div SuperPageSize) * SuperPageSize

NeedBits(len) == Align(len) \div SuperPageSize

(* Mutation variant of InnerScan: beg_bit set to the set bit itself. *)
RECURSIVE InnerScanNoSkip(_, _, _, _)
InnerScanNoSkip(bits, curr, end, st) ==
  IF curr >= end THEN st
  ELSE InnerScanNoSkip(bits, curr + 1, end,
         IF bits[curr]
         THEN [beg   |-> curr,
               found |-> FALSE,
               hint  |-> IF st.hint = curr THEN st.hint + 1 ELSE st.hint]
         ELSE st)

(***************************************************************************)
(* The scan of FindChunk, loop for loop.  A state of the scan is           *)
(* [beg |-> beg_bit, found |-> found, hint |-> bit_hint_]; curr_bit is an  *)
(* argument.  The inner `for` visits [curr_bit, end_bit): every set bit    *)
(* moves beg_bit past it, clears found, and bumps the hint if it sits      *)
(* there.  The outer loop recomputes end_bit and gives up when it passes   *)
(* total_bits_; curr_bit is never rewound.                                 *)
(***************************************************************************)
RECURSIVE InnerScan(_, _, _, _)
InnerScan(bits, curr, end, st) ==
  IF curr >= end THEN st
  ELSE InnerScan(bits, curr + 1, end,
         IF bits[curr]
         THEN [beg   |-> curr + 1,
               found |-> FALSE,
               hint  |-> IF st.hint = curr THEN st.hint + 1 ELSE st.hint]
         ELSE st)

RECURSIVE OuterScan(_, _, _, _, _)
OuterScan(bits, need, beg, curr, hint) ==
  IF beg + need > TotalBits
  THEN [beg |-> beg, found |-> FALSE, hint |-> hint]
  ELSE LET st == InnerScan(bits, curr, beg + need,
                           [beg |-> beg, found |-> TRUE, hint |-> hint])
       IN  IF st.found THEN st
           ELSE OuterScan(bits, need, st.beg, beg + need, st.hint)

(* The scan FindChunk(len) performs in the current state. *)
Scan(len) == OuterScan(alloc_bitset, NeedBits(len), bit_hint, bit_hint, bit_hint)

Run(b, n) == b .. (b + n - 1)

(* AddressPoolManager::Pool::Pool: empty bitset, hint 0. *)
Init ==
  /\ alloc_bitset = [i \in Bits |-> FALSE]
  /\ bit_hint = 0
  /\ live = {}

(* Mutation variant of FindChunk: hint moved to end_bit unconditionally. *)
FindChunkAlwaysBumpHint(len) ==
  LET res == Scan(len)
      need == NeedBits(len)
  IN  \/ /\ res.found
         /\ alloc_bitset' = [i \in Bits |-> alloc_bitset[i] \/ i \in Run(res.beg, need)]
         /\ bit_hint' = res.beg + need
         /\ live' = live \cup {<<res.beg, len>>}
      \/ /\ ~res.found
         /\ bit_hint' = res.hint
         /\ UNCHANGED <<alloc_bitset, live>>

(* Mutation variant of FindChunk: the hint moved one past end_bit. *)
FindChunkHintPastEnd(len) ==
  LET res == Scan(len)
      need == NeedBits(len)
  IN  \/ /\ res.found
         /\ alloc_bitset' = [i \in Bits |-> alloc_bitset[i] \/ i \in Run(res.beg, need)]
         /\ bit_hint' = IF res.hint = res.beg THEN res.beg + need + 1 ELSE res.hint
         /\ live' = live \cup {<<res.beg, len>>}
      \/ /\ ~res.found
         /\ bit_hint' = res.hint
         /\ UNCHANGED <<alloc_bitset, live>>

(***************************************************************************)
(* Pool::FindChunk, reached through AddressPoolManager::Alloc.  A found    *)
(* run is marked allocated and returned; the hint jumps to end_bit only if *)
(* the run started at the hint.  On failure (return 0) the hint bumps the  *)
(* scan made are kept.                                                     *)
(***************************************************************************)
FindChunk(len) ==
  LET res == Scan(len)
      need == NeedBits(len)
  IN  \/ /\ res.found
         /\ alloc_bitset' = [i \in Bits |-> alloc_bitset[i] \/ i \in Run(res.beg, need)]
         /\ bit_hint' = IF res.hint = res.beg THEN res.beg + need ELSE res.hint
         /\ live' = live \cup {<<res.beg, len>>}
      \/ /\ ~res.found
         /\ bit_hint' = res.hint
         /\ UNCHANGED <<alloc_bitset, live>>

(* Mutation variants of FreeChunk: hint left alone; one bit short. *)
FreeChunkKeepHint(c) ==
  /\ alloc_bitset' = [i \in Bits |-> alloc_bitset[i] /\ i \notin Run(c[1], NeedBits(c[2]))]
  /\ bit_hint' = bit_hint
  /\ live' = live \ {c}

FreeChunkShort(c) ==
  /\ alloc_bitset' = [i \in Bits |-> alloc_bitset[i] /\ i \notin Run(c[1], NeedBits(c[2]) - 1)]
  /\ bit_hint' = IF c[1] < bit_hint THEN c[1] ELSE bit_hint
  /\ live' = live \ {c}

(***************************************************************************)
(* Pool::FreeChunk, reached through AddressPoolManager::Free with a chunk  *)
(* the caller holds and the length it asked for: clear [beg_bit, end_bit)  *)
(* and set bit_hint_ = min(bit_hint_, beg_bit).                            *)
(***************************************************************************)
FreeChunk(c) ==
  /\ alloc_bitset' = [i \in Bits |-> alloc_bitset[i] /\ i \notin Run(c[1], NeedBits(c[2]))]
  /\ bit_hint' = IF c[1] < bit_hint THEN c[1] ELSE bit_hint
  /\ live' = live \ {c}

Next ==
  \/ \E len \in Requests : FindChunk(len)
  \/ \E c \in live : FreeChunk(c)

Spec == Init /\ [][Next]_vars

-----------------------------------------------------------------------------
(* Properties *)

TypeOK ==
  /\ alloc_bitset \in [Bits -> BOOLEAN]
  /\ bit_hint \in 0 .. TotalBits
  /\ live \subseteq (Bits \X Requests)

(***************************************************************************)
(* The bitmap is exact: a bit is set iff some chunk a caller still holds   *)
(* covers it (spec: set bits = sum of ceil(size/SP) over live chunks).  A  *)
(* FreeChunk that clears too little or FindChunk that marks the wrong run  *)
(* breaks it only after later calls.                                       *)
(***************************************************************************)
BitmapMatchesLive ==
  \A i \in Bits : alloc_bitset[i] <=> \E c \in live : i \in Run(c[1], NeedBits(c[2]))

(***************************************************************************)
(* The hint is sound: every super page below bit_hint_ is allocated.  This *)
(* is what lets FindChunk skip [0, bit_hint_); the hint updates in both    *)
(* FindChunk and FreeChunk must keep it.                                   *)
(***************************************************************************)
HintSound == \A i \in 0 .. bit_hint - 1 : alloc_bitset[i]

(***************************************************************************)
(* FindChunk is first fit and never fails wrongly: from every reachable    *)
(* state, for every request, the scan (hint start, no rewinding, hint      *)
(* bumps) returns the lowest run of free super pages that fits, and        *)
(* returns 0 only when no run fits, including a run that ends exactly at   *)
(* total_bits_.                                                            *)
(***************************************************************************)
FitsAt(b, n) == b + n <= TotalBits /\ \A i \in Run(b, n) : ~alloc_bitset[i]

FindChunkIsFirstFit ==
  \A len \in Requests :
    LET res == Scan(len)
        n   == NeedBits(len)
    IN  IF \E b \in 0 .. TotalBits : FitsAt(b, n)
        THEN res.found /\ res.beg = CHOOSE b \in 0 .. TotalBits :
                                      FitsAt(b, n) /\ \A b2 \in 0 .. b - 1 : ~FitsAt(b2, n)
        ELSE ~res.found

(* The pool implements AddressPoolAbstract: chunks never overlap and stay *)
(* inside the pool, and Free returns exactly what was handed out.          *)
Abstract == INSTANCE AddressPoolAbstract WITH chunks <- live

AbstractSpec == Abstract!Spec

==============================================================================
