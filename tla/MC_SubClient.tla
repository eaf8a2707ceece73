---------------------------- MODULE MC_SubClient ----------------------------
(***************************************************************************)
(* A few watchers of one or two symbols on one client.                     *)
(***************************************************************************)
EXTENDS SubClient, TLC

Symmetric == Permutations(Watchers) \cup Permutations(Symbols)
=============================================================================
