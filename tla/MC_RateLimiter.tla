--------------------------- MODULE MC_RateLimiter ---------------------------
(***************************************************************************)
(* Threads that share a small bucket.                                      *)
(***************************************************************************)
EXTENDS RateLimiter, TLC

Symmetric == Permutations(Threads)
=============================================================================
