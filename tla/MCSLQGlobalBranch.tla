-------------------------- MODULE MCSLQGlobalBranch --------------------------
(***************************************************************************)
(* Model-checking instance of SLQGlobalBranch: two threads, two objects of *)
(* one byte and one of two, so that inserting the big one into a full      *)
(* branch must evict two entries while kMaxFreeTimesPerPurge is 1, plus    *)
(* one direct-mapped object.  Capacity 2, and SetCapacityInBytes may drop  *)
(* it to 1, which makes the big object a quarantine miss.                  *)
(***************************************************************************)
EXTENDS SLQGlobalBranch

CONSTANTS t1, t2, o1, o2, o3, d1, b1, b2, b3

MCThreads == {t1, t2}
MCObjects == {o1, o2, o3, d1}
MCUsableSize == [o \in MCObjects |-> IF o = o3 THEN 2 ELSE 1]
MCDirectMapped == {d1}
MCBufferIds == {b1, b2, b3}

==============================================================================
