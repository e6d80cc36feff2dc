-------------------------------- MODULE MCBans --------------------------------
(* A model-checking instance of Bans. *)
EXTENDS Bans, TLC

Symmetry == Permutations(Addrs) \cup Permutations(Calls)
================================================================================
