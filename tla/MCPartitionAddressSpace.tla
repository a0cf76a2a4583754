----------------------- MODULE MCPartitionAddressSpace -----------------------
(***************************************************************************)
(* 6-bit addresses, super pages of 2, cage pools of 8 (4 super pages), a   *)
(* configurable pool of 4.  The cage wants 16 bytes aligned on 16; a       *)
(* reservation of 30 bytes from any even nonzero address leaves room after *)
(* aligning up.  Three manager slots: two cage pools and the configurable  *)
(* pool.                                                                   *)
(***************************************************************************)
EXTENDS PartitionAddressSpace
==============================================================================
