---------------------------- MODULE MCAubCapture ----------------------------
(* A small instance of AubCapture for TLC. *)
EXTENDS AubCapture, ApiTable, TLC

Cfg(individual, min, max, matching, unique, skip, capture) ==
    [Individual |-> individual, Min |-> min, Max |-> max, Matching |-> matching,
     Unique |-> unique, Skip |-> skip, Capture |-> capture]

\* A window of commands; single kernels after a skip, at most one; every kernel
\* once; a window of single kernels, some filtered out by name or size.
MCConfigs ==
    {Cfg(FALSE, 1, 2, Signatures, FALSE, 0, MaxEnqueue),
     Cfg(TRUE, 0, MaxEnqueue, Signatures, FALSE, 1, 1),
     Cfg(TRUE, 0, MaxEnqueue, Signatures, TRUE, 0, MaxEnqueue)}
    \cup {Cfg(TRUE, 1, 2, {s}, FALSE, 0, 2) : s \in Signatures}

Symmetry == Permutations(Threads) \cup Permutations(Signatures)
=============================================================================
