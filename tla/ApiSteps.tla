------------------------------ MODULE ApiSteps ------------------------------
(***************************************************************************)
(* The vocabulary of ApiCalls.  A handler of intercept/src/dispatch.cpp is *)
(* the sequence of the steps it takes and what it does to an object of     *)
(* each kind.                                                              *)
(*                                                                         *)
(* A step is a macro of intercept.h or a call of CLIntercept; "dispatch"   *)
(* is the driver's function, with host timing and error checking around    *)
(* it.                                                                     *)
(***************************************************************************)
EXTENDS Sequences

Kinds == {"device", "context", "queue", "mem", "sampler", "program", "kernel",
          "event", "semaphore", "commandBuffer", "accelerator", "pointer"}

Dispatch      == <<"dispatch", "">>
Allocation(k) == <<"allocation", k>>   \* ADD_OBJECT_ALLOCATION, ADD_POINTER_ALLOCATION
Retained(k)   == <<"retained", k>>     \* ADD_OBJECT_RETAIN
Released(k)   == <<"released", k>>     \* ADD_OBJECT_RELEASE, ADD_POINTER_FREE
Add(k)        == <<"add", k>>          \* addQueue, addBuffer, addEvent, ...
Remove(k)     == <<"remove", k>>       \* checkRemoveQueue, removeSVMAllocation, ...
Route(k)      == <<"route", k>>        \* dispatchX( object )
TimingStart   == <<"timingStart", "event">>
TimingEnd     == <<"timingEnd", "event">>
Count         == <<"count", "aub">>    \* INCREMENT_ENQUEUE_COUNTER
AubStart      == <<"start", "aub">>
AubStartKernel == <<"startKernel", "aub">>
AubStop       == <<"stop", "aub">>

\* What a handler does to one object of a kind: "create", "createMany", "retain",
\* "release", "use", or, for the event of a command, "enqueue".
Handler(roles, steps) == [roles |-> roles, steps |-> steps]

\* The steps of a handler that concern kind k.
Project(h, k) == SelectSeq(h.steps, LAMBDA s : s = Dispatch \/ s[2] = k)

-----------------------------------------------------------------------------
(* The shapes handlers share. *)

Role(k, role) == [x \in {k} |-> role]

Use(k)               == Handler(Role(k, "use"), <<Dispatch>>)
Retain(k)            == Handler(Role(k, "retain"), <<Dispatch, Retained(k)>>)
Release(k)           == Handler(Role(k, "release"), <<Remove(k), Dispatch, Released(k)>>)
ReleaseUnlisted(k)   == Handler(Role(k, "release"), <<Dispatch, Released(k)>>)
Create(k, steps)     == Handler(Role(k, "create"), steps)
CreateMany(k, steps) == Handler(Role(k, "createMany"), steps)

\* An object is entered in the layer's maps before or after it is counted, or
\* not at all.
AddedBefore(k) == <<Dispatch, Add(k), Allocation(k)>>
AddedAfter(k)  == <<Dispatch, Allocation(k), Add(k)>>
NotAdded(k)    == <<Dispatch, Allocation(k)>>

\* An extension function is looked up by the platform the object was entered
\* with, before anything else.
Routed(k, handler) == Handler(handler.roles, <<Route(k)>> \o handler.steps)

\* A pointer has no reference count: it is forgotten when it has been freed.
FreePointer == Handler(Role("pointer", "release"),
                       <<Dispatch, Remove("pointer"), Released("pointer")>>)

\* The commands.  The event of a command is counted and numbered when the
\* application asked for it.
Timed        == <<TimingStart, Dispatch, TimingEnd, Allocation("event")>>
Command(steps) == Handler(Role("event", "enqueue"), steps)

Enqueue             == Command(<<Count, AubStart>> \o Timed \o <<Add("event"), AubStop>>)
EnqueueKernel       == Command(<<Count, AubStartKernel>> \o Timed \o <<Add("event"), AubStop>>)
EnqueueWithoutStop  == Command(<<Count, AubStart>> \o Timed \o <<Add("event")>>)
EnqueueWithoutId    == Command(<<Count, AubStart>> \o Timed \o <<AubStop>>)
EnqueueUntimed      == Command(<<Count, AubStart, Dispatch, Allocation("event"),
                                 Add("event"), AubStop>>)
EnqueueWithoutEvent == Handler(Role("queue", "use"), <<Count, AubStart, Dispatch, AubStop>>)
EnqueueFree ==
    Handler([event |-> "enqueue", pointer |-> "release"],
            <<Count, AubStart>> \o Timed \o <<Released("pointer"), Add("event"), AubStop>>)
EnqueueCommandBuffer ==
    Handler([event |-> "enqueue", commandBuffer |-> "use"],
            <<Route("commandBuffer"), Count, AubStart>> \o Timed \o <<Add("event"), AubStop>>)
=============================================================================
