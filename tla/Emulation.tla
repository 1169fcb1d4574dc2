------------------------------ MODULE Emulation ------------------------------
(***************************************************************************)
(* The layer with its two emulated extensions: the unified shared memory   *)
(* of UsmEmulation and the semaphores of SemaphoreEmulation, each switched *)
(* on by a control of its own.  They share no state.                       *)
(***************************************************************************)
EXTENDS UsmEmulation

CONSTANTS Semaphores, Events, Overlapping, StaleEvents, MaxRefs, MaxRefusals, MaxLeaks

VARIABLES enqueuing, RefCount, Event, refs, done, own, leaked, refusals

Sem == INSTANCE SemaphoreEmulation WITH call <- enqueuing

ASSUME SemaphoresAssumed == Sem!SemaphoreAssumption

semaphoreVars == <<enqueuing, RefCount, Event, refs, done, own, leaked, refusals>>

EmulationInit == Init /\ Sem!Init

EmulationNext ==
    \/ Next /\ UNCHANGED semaphoreVars
    \/ Sem!Next /\ UNCHANGED vars

EmulationSpec == EmulationInit /\ [][EmulationNext]_<<vars, semaphoreVars>>

-----------------------------------------------------------------------------
(* Properties                                                              *)

\* The types of both extensions' state.
TypesOK == TypeOK /\ Sem!TypeOK

\* Of SemaphoreEmulation: every reference to an event has an owner.
EventsAreCounted == Sem!EventsAreCounted

\* Of SemaphoreEmulation: the semaphores are binary semaphores.
ImplementsSemaphores == Sem!ImplementsSemaphores
=============================================================================
