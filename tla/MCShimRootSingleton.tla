------------------------- MODULE MCShimRootSingleton -------------------------
(***************************************************************************)
(* Model-checking instance of ShimRootSingleton: two malloc threads with  *)
(* two Malloc calls each over two tokens, so both may race on one token's *)
(* first construction and one may still be inside GetSlowPath, or about   *)
(* to allocate, when ConfigurePartitions reaches its token; both          *)
(* bucket distributions are tried.                                        *)
(***************************************************************************)
EXTENDS ShimRootSingleton

CONSTANTS c1, c2

MCCallers == {c1, c2}

MCDistributions == {"neutral", "denser"}

==============================================================================
