------------------------- MODULE MCPoolOffsetFreelist -------------------------
(***************************************************************************)
(* Model-checking instance of PoolOffsetFreelist: 6-bit addresses, a pool  *)
(* of 8 at base 8 (base_mask = ~7), super pages of 4 whose first word is   *)
(* metadata, and a span of three slots 9, 10, 11 in the first super page.  *)
(* Corrupting writes may store offsets of another slot of the span (2),    *)
(* of the next super page (5), of metadata (4), a word with pool-base bits *)
(* (10) and 0.                                                             *)
(***************************************************************************)
EXTENDS PoolOffsetFreelist

MCSlots == {9, 10, 11}
MCNoTag == [a \in MCSlots |-> 0]
(* With MTE: slot 10's pointers carry the top tag bit. *)
MCTagged == [a \in MCSlots |-> IF a = 10 THEN 32 ELSE 0]

==============================================================================
