---------------------------- MODULE MCEmulation ----------------------------
(***************************************************************************)
(* The two emulated extensions in one run.  They share no state, so it is  *)
(* enough that a behaviour uses one of them.  Symmetry: threads,           *)
(* semaphores and the kinds of memory are treated alike.                   *)
(***************************************************************************)
EXTENDS Emulation, TLC

CONSTANT OneContext

OneContextQueues  == [q \in Queues |-> OneContext]
OneContextKernels == [k \in Kernels |-> OneContext]

MCNext ==
    \/ Sem!Init /\ Next /\ UNCHANGED semaphoreVars
    \/ Init /\ Sem!Next /\ UNCHANGED vars

MCSpec == EmulationInit /\ [][MCNext]_<<vars, semaphoreVars>>

Symmetry ==
    Permutations(Threads) \cup Permutations(Types) \cup Permutations(Semaphores)
=============================================================================
