-------------------------- MODULE MCSLQThreadBound --------------------------
(***************************************************************************)
(* Model-checking instance of SLQThreadBound: two threads, two one-byte    *)
(* objects and one two-byte object (which evicts both small ones from a    *)
(* full branch of capacity 2), one direct-mapped object.  Configure may    *)
(* enable with capacity 2, with or without leak_on_destruction, or         *)
(* disable; SetCapacityInBytes may drop the capacity to 1.                 *)
(***************************************************************************)
EXTENDS SLQThreadBound

CONSTANTS t1, t2, o1, o2, o3, d1

MCThreads == {t1, t2}
MCObjects == {o1, o2, o3, d1}
MCUsableSize == [o \in MCObjects |-> IF o = o3 THEN 2 ELSE 1]
MCDirectMapped == {d1}
MCConfigs ==
  {[branch_capacity_in_bytes |-> 2, leak_on_destruction |-> l, enable_quarantine |-> TRUE]
     : l \in BOOLEAN}
  \cup {[branch_capacity_in_bytes |-> 0, leak_on_destruction |-> FALSE,
         enable_quarantine |-> FALSE]}

==============================================================================
