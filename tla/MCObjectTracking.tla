-------------------------- MODULE MCObjectTracking --------------------------
(* A small instance of ObjectTracking for TLC. *)
EXTENDS ObjectTracking, TLC

Symmetry == Permutations(Threads) \cup Permutations(Handles)
=============================================================================
