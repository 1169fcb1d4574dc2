------------------------- MODULE MCCommandBuffers -------------------------
(* A small instance of CommandBuffers for TLC. *)
EXTENDS CommandBuffers, TLC

CONSTANTS t1, t2, b1, b2, m1, p1

MCThreads   == {t1, t2}
MCBuffers   == {b1, b2}
MCMutables  == {m1}
MCPlatforms == {p1}

MCSymmetry == Permutations(MCThreads) \cup Permutations(MCBuffers)
=============================================================================
