--------------------------- MODULE MCDeviceTiming ---------------------------
(* A small instance of DeviceTiming for TLC. *)
EXTENDS DeviceTiming, TLC

Cfg(kernelsOnly, conditional, minEnqueue, finish) ==
    [KernelsOnly |-> kernelsOnly, Conditional |-> conditional,
     MinEnqueue |-> minEnqueue, FinishAfterEnqueue |-> finish]

\* Everything timed; kernels only with the timing window opening at the second
\* enqueue; every call conditional and finished.
MCConfigs == {Cfg(FALSE, FALSE, 0, FALSE),
              Cfg(TRUE,  FALSE, 1, FALSE),
              Cfg(FALSE, TRUE,  0, TRUE)}

\* For liveness, the configuration with the longest calls.
MCLiveConfigs == {Cfg(FALSE, FALSE, 0, TRUE)}

Symmetry == Permutations(Threads) \cup Permutations(Handles)
=============================================================================
