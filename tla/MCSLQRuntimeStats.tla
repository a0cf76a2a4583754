-------------------------- MODULE MCSLQRuntimeStats --------------------------
(***************************************************************************)
(* Model-checking instance of SLQRuntimeStats: the phase lengths of a      *)
(* quarantine (purge start, zap start, end), as tuples.                    *)
(***************************************************************************)
EXTENDS SLQRuntimeStats

(* A normal zap and one three times as long. *)
MCPhases == {<<1, 1, 1>>, <<1, 1, 3>>}

==============================================================================
