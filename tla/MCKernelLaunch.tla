--------------------------- MODULE MCKernelLaunch ---------------------------
(* Two threads, kernels and queues, a buffer (1), an image (2) and an SVM  *)
(* allocation (3 and 4).                                                   *)
EXTENDS KernelLaunch, TLC

Kinds == 1 :> "buffer" @@ 2 :> "image" @@ 3 :> "svm"
Sizes == 1 :> 1 @@ 2 :> 1 @@ 3 :> 2
OneSignature == [k \in Kernels |-> "name(0000_00_00)"]

Settings(replays, dumps, injects) ==
    [CaptureReplay |-> replays, DumpBuffers |-> dumps, DumpImages |-> dumps,
     InjectBuffers |-> injects, InjectImages |-> injects,
     MinEnqueue |-> 0, MaxEnqueue |-> 9, KernelName |-> Kernels,
     NumSkip |-> 0, NumCapture |-> 1, UniqueKernels |-> FALSE]

Replaying  == Settings(TRUE, FALSE, FALSE)
AllConfigs == {Replaying, [Settings(TRUE, FALSE, TRUE) EXCEPT !.NumCapture = 2, !.UniqueKernels = TRUE],
               [Replaying EXCEPT !.NumSkip = 1], Settings(FALSE, TRUE, FALSE)}

Symmetry == Permutations(Threads) \cup Permutations(Queues) \cup Permutations(Kernels)
=============================================================================
