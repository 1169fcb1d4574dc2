------------------------- MODULE SemaphoreEmulation -------------------------
(***************************************************************************)
(* The emulation of cl_khr_semaphore (emulate.cpp): a semaphore is an      *)
(* object of the layer that holds the event of a marker, the event is the  *)
(* signal, and waiting for the semaphore takes the event away.             *)
(*                                                                         *)
(* No lock protects a semaphore.  Signal and wait are three steps: check   *)
(* the semaphores, enqueue the marker, update the semaphores; a marker the *)
(* driver refuses does not keep the update from happening.                 *)
(***************************************************************************)
EXTENDS Integers, Sequences, FiniteSets, Functions

CONSTANTS
    Threads, Semaphores, Events, NULL,
    Overlapping,   \* calls in progress may name the same semaphore
    StaleEvents,   \* a variable passed for the event may hold an old event
    MaxRefs,       \* bound: references to one semaphore
    MaxRefusals,   \* bound: markers the driver refuses
    MaxLeaks       \* bound: references to events that nobody can release

\* What the proofs assume: the code leaves overlapping calls to the application,
\* and so it does the contents of a variable that it passes.
SemaphoreAssumption ==
    /\ IsFiniteSet(Threads) /\ IsFiniteSet(Semaphores) /\ NULL \notin Events
    /\ Overlapping = FALSE /\ StaleEvents = FALSE
    /\ MaxRefs \in Nat \ {0} /\ MaxRefusals \in Nat

VARIABLES
    call,       \* the signal or wait each thread is in
    RefCount,   \* of each semaphore; 0 for one that does not exist
    Event,      \* the event each semaphore holds
    refs,       \* driver: references to each event; 0 for a free handle
    done,       \* driver: the event's marker is complete
    own,        \* the application's references to each event
    leaked,     \* history: references the layer took and forgot
    refusals    \* history: refused markers

vars == <<call, RefCount, Event, refs, done, own, leaked, refusals>>

Lists == {<<s>> : s \in Semaphores} \cup (Semaphores \X Semaphores)

\* next: "marker" or "update"; event: what *event is; local: it is local_event.
NoCall == [kind |-> "none", list |-> <<>>, next |-> "none", wants |-> FALSE,
           event |-> NULL]
Calls == [kind : {"signal", "wait"}, list : Lists, next : {"marker", "update"},
          wants : BOOLEAN, event : Events \cup {NULL}]

Named(c) == {c.list[i] : i \in DOMAIN c.list}
Idle(t)  == call[t] = NoCall
InUse    == UNION {Named(call[t]) : t \in Threads}
Live     == {s \in Semaphores : RefCount[s] > 0}

\* The event variable of a call without one is local_event.
LocalOf(e) == {t \in Threads : call[t].kind = "signal" /\ ~call[t].wants /\ call[t].event = e}
Holders(e) == {s \in Live : Event[s] = e}
Forgotten == FoldFunction(LAMBDA a, b : a + b, 0, leaked)

TypeOK ==
    /\ call \in [Threads -> Calls \cup {NoCall}]
    /\ RefCount \in [Semaphores -> 0 .. MaxRefs]
    /\ Event \in [Semaphores -> Events \cup {NULL}]
    /\ refs \in [Events -> Nat] /\ done \in [Events -> BOOLEAN]
    /\ own \in [Events -> 0 .. 1] /\ leaked \in [Events -> Nat]
    /\ refusals \in 0 .. MaxRefusals

Init ==
    /\ call = [t \in Threads |-> NoCall]
    /\ RefCount = [s \in Semaphores |-> 0] /\ Event = [s \in Semaphores |-> NULL]
    /\ refs = [e \in Events |-> 0] /\ done = [e \in Events |-> FALSE]
    /\ own = [e \in Events |-> 0] /\ leaked = [e \in Events |-> 0] /\ refusals = 0

-----------------------------------------------------------------------------
(* The objects: creating, retaining and releasing a semaphore.             *)

clCreateSemaphoreWithPropertiesKHR_EMU(t, s) ==
    /\ Idle(t) /\ s \notin Live
    /\ RefCount' = [RefCount EXCEPT ![s] = 1]
    /\ Event' = [Event EXCEPT ![s] = NULL]
    /\ UNCHANGED <<call, refs, done, own, leaked, refusals>>

clRetainSemaphoreKHR_EMU(t, s) ==
    /\ Idle(t) /\ s \in Live /\ RefCount[s] < MaxRefs
    /\ RefCount' = [RefCount EXCEPT ![s] = @ + 1]
    /\ UNCHANGED <<call, Event, refs, done, own, leaked, refusals>>

\* Mutant: the semaphore's magic number is not asked for.
ReleaseUnchecked(t, s) ==
    /\ Idle(t) /\ s \notin InUse
    /\ RefCount' = [RefCount EXCEPT ![s] = @ - 1]
    /\ UNCHANGED <<call, Event, refs, done, own, leaked, refusals>>

\* The event that a deleted semaphore holds is not released.
clReleaseSemaphoreKHR_EMU(t, s) ==
    /\ Idle(t) /\ s \in Live /\ s \notin InUse
    /\ RefCount' = [RefCount EXCEPT ![s] = @ - 1]
    /\ leaked' = IF RefCount[s] = 1 /\ Event[s] # NULL
                 THEN [leaked EXCEPT ![Event[s]] = @ + 1] ELSE leaked
    /\ leaked' # leaked => Forgotten < MaxLeaks
    /\ UNCHANGED <<call, Event, refs, done, own, refusals>>

\* CL_SEMAPHORE_PAYLOAD_KHR of clGetSemaphoreInfoKHR_EMU.
Payload(s) == IF Event[s] # NULL /\ done[Event[s]] THEN 1 ELSE 0

-----------------------------------------------------------------------------
(* The commands.  Validity is asked of every semaphore before the marker.  *)

\* Mutant: only the first semaphore of the list is looked at.
MaySignalFirst(list) == Event[list[1]] = NULL

MaySignal(list) == \A i \in DOMAIN list : Event[list[i]] = NULL
MayWait(list) == \A i \in DOMAIN list : Event[list[i]] # NULL

Check(t) == \E list \in Lists, wants \in BOOLEAN, kind \in {"signal", "wait"} :
    /\ Idle(t) /\ \A i \in DOMAIN list : list[i] \in Live
    /\ ~Overlapping => \A i \in DOMAIN list : list[i] \notin InUse
    /\ IF kind = "signal" THEN MaySignal(list) ELSE MayWait(list)
    /\ call' = [call EXCEPT ![t] =
                  [kind |-> kind, list |-> list, next |-> "marker", wants |-> wants,
                   event |-> NULL]]
    /\ UNCHANGED <<RefCount, Event, refs, done, own, leaked, refusals>>

\* An event is asked for when the caller wants it, and for every signal.
Marker(t) ==
    /\ call[t].next = "marker"
    /\ LET c == call[t] IN
       \/ \E e \in Events :
            /\ (c.kind = "signal" \/ c.wants) /\ refs[e] = 0
            /\ refs' = [refs EXCEPT ![e] = 1] /\ done' = [done EXCEPT ![e] = FALSE]
            /\ own' = IF c.wants THEN [own EXCEPT ![e] = 1] ELSE own
            /\ call' = [call EXCEPT ![t].next = "update", ![t].event = e]
            /\ UNCHANGED refusals
       \/ /\ c.kind = "wait" /\ ~c.wants
          /\ call' = [call EXCEPT ![t].next = "update"]
          /\ UNCHANGED <<refs, done, own, refusals>>
       \/ /\ refusals < MaxRefusals /\ refusals' = refusals + 1
          /\ \E e \in {NULL} \cup (IF StaleEvents /\ c.wants THEN Events ELSE {}) :
                call' = [call EXCEPT ![t].next = "update", ![t].event = e]
          /\ UNCHANGED <<refs, done, own>>
    /\ UNCHANGED <<RefCount, Event, leaked>>

\* clReleaseEvent and clRetainEvent, which refuse a handle that is not an event.
Released(r, e) == IF e # NULL /\ r[e] > 0 THEN [r EXCEPT ![e] = @ - 1] ELSE r
Retained(r, e, n) == IF e # NULL /\ r[e] > 0 THEN [r EXCEPT ![e] = @ + n] ELSE r

ReleaseAll(r, list) ==
    IF Len(list) = 2 /\ list[1] # list[2]
    THEN Released(Released(r, Event[list[1]]), Event[list[2]])
    ELSE Released(r, Event[list[1]])

clEnqueueWaitSemaphoresKHR_EMU(t) ==
    /\ call[t].kind = "wait" /\ call[t].next = "update"
    /\ refs' = ReleaseAll(refs, call[t].list)
    /\ Event' = [s \in Semaphores |-> IF s \in Named(call[t]) THEN NULL ELSE Event[s]]
    /\ call' = [call EXCEPT ![t] = NoCall]
    /\ UNCHANGED <<RefCount, done, own, leaked, refusals>>

\* Mutant: the event of a signal without an event variable is not given back.
SignalKeepsLocalEvent(t) ==
    /\ call[t].kind = "signal" /\ call[t].next = "update"
    /\ LET c == call[t]
       IN  /\ Event' = [s \in Semaphores |-> IF s \in Named(c) THEN c.event ELSE Event[s]]
           /\ refs' = Retained(refs, c.event, Len(c.list))
    /\ call' = [call EXCEPT ![t] = NoCall]
    /\ UNCHANGED <<RefCount, done, own, leaked, refusals>>

\* A semaphore that is listed twice retains its event twice.
clEnqueueSignalSemaphoresKHR_EMU(t) ==
    /\ call[t].kind = "signal" /\ call[t].next = "update"
    /\ LET c == call[t]
           twice == Len(c.list) - Cardinality(Named(c))
       IN  /\ Event' = [s \in Semaphores |-> IF s \in Named(c) THEN c.event ELSE Event[s]]
           /\ LET kept == Retained(refs, c.event, Len(c.list))
              IN  refs' = IF c.wants THEN kept ELSE Released(kept, c.event)
           /\ leaked' = IF c.event # NULL THEN [leaked EXCEPT ![c.event] = @ + twice] ELSE leaked
           /\ twice > 0 => Forgotten < MaxLeaks
    /\ call' = [call EXCEPT ![t] = NoCall]
    /\ UNCHANGED <<RefCount, done, own, refusals>>

\* Driver and application: a marker completes, an event is given back.
Complete(e) ==
    /\ refs[e] > 0 /\ ~done[e] /\ done' = [done EXCEPT ![e] = TRUE]
    /\ UNCHANGED <<call, RefCount, Event, refs, own, leaked, refusals>>

ReleaseEvent(e) ==
    /\ own[e] = 1 /\ \A t \in Threads : call[t].event # e
    /\ own' = [own EXCEPT ![e] = 0] /\ refs' = Released(refs, e)
    /\ UNCHANGED <<call, RefCount, Event, done, leaked, refusals>>

Next ==
    \/ \E t \in Threads :
          \/ \E s \in Semaphores : \/ clCreateSemaphoreWithPropertiesKHR_EMU(t, s)
                                   \/ clRetainSemaphoreKHR_EMU(t, s)
                                   \/ clReleaseSemaphoreKHR_EMU(t, s)
          \/ Check(t) \/ Marker(t)
          \/ clEnqueueWaitSemaphoresKHR_EMU(t) \/ clEnqueueSignalSemaphoresKHR_EMU(t)
    \/ \E e \in Events : Complete(e) \/ ReleaseEvent(e)

Spec == Init /\ [][Next]_vars

-----------------------------------------------------------------------------
(* Properties                                                              *)

\* Every reference to an event has an owner: the application, a semaphore that
\* holds it, a call that is about to release it, or the count of forgotten ones.
\* So a semaphore never holds an event that has been destroyed, whatever other
\* semaphores the same signal went to.
EventsAreCounted ==
    \A e \in Events :
        refs[e] = own[e] + leaked[e] + Cardinality(LocalOf(e)) + Cardinality(Holders(e))

Payloads == [s \in Semaphores |->
                IF s \notin Live THEN "none"
                ELSE IF Event[s] = NULL THEN "unsignaled"
                ELSE IF Payload(s) = 1 THEN "signaled" ELSE "pending"]

Abstract == INSTANCE BinarySemaphores WITH payload <- Payloads

\* What the layer does with events is what binary semaphores do: no signal of a
\* signaled semaphore, no wait without a signal, several semaphores at once.
ImplementsSemaphores == Abstract!Spec
=============================================================================
