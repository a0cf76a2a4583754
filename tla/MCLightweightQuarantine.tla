----------------------- MODULE MCLightweightQuarantine -----------------------
(***************************************************************************)
(* Model-checking instance of LightweightQuarantine.  The branch takes     *)
(* lock_ because its slots are not thread-local yet (lightweight_          *)
(* quarantine.cc:23-26), so several threads may share one branch: t1 and   *)
(* t2 quarantine into b1, and t3 into a second branch b2 of the same root.  *)
(***************************************************************************)
EXTENDS LightweightQuarantine, TLC

CONSTANTS t1, t2, t3, b1, b2

MCThreads == {t1, t2, t3}
MCBranches == {b1, b2}
MCBranchOf == [t \in MCThreads |-> IF t = t3 THEN b2 ELSE b1]
\* t1 and t2 run the same code on the same branch: swapping them maps
\* behaviours to behaviours (safety properties only).
MCSymmetry == Permutations({t1, t2})
=============================================================================
