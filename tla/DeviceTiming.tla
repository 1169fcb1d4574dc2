---------------------------- MODULE DeviceTiming ----------------------------
(***************************************************************************)
(* Device performance timing (intercept/src/intercept.cpp, the macros of   *)
(* intercept.h and the enqueue, event and finish handlers of dispatch.cpp).*)
(*                                                                         *)
(* An enqueue call that is timed makes sure the driver returns an event:   *)
(* the application's own, or a local one the layer asks for behind its     *)
(* back.  addTimingEvent retains that event and puts a node on             *)
(* m_EventList; a local event's first reference is then released.  Calls   *)
(* that wait for the device run checkTimingEvents, which asks the driver   *)
(* for the status of every node, accounts the time of the complete ones,   *)
(* releases the layer's reference and removes the node.                    *)
(*                                                                         *)
(* Application threads run handlers concurrently.  m_Mutex protects the    *)
(* list and the maps; the driver, which completes commands, frees events   *)
(* and hands their handles out again, knows nothing of it.  The            *)
(* configuration has ChromePerformanceTiming on, so that both the timing   *)
(* list and m_EventIdMap are kept.                                         *)
(***************************************************************************)
EXTENDS Integers, FiniteSets

CONSTANTS
    Threads,      \* application threads
    Handles,      \* the values a cl_event can take; the driver recycles them
    NoThread,     \* m_Mutex is free
    NoHandle,     \* a NULL cl_event
    MaxEnqueue,   \* bound: number of enqueue calls
    MaxAppRefs,   \* bound: references the application takes on one event
    Configs       \* the configurations a process may start with

ASSUME ThreadsAssumption == IsFiniteSet(Threads) /\ NoThread \notin Threads
ASSUME HandlesAssumption == NoHandle \notin Handles
ASSUME BoundsAssumption  == MaxEnqueue \in Nat /\ MaxAppRefs \in Nat
ASSUME ConfigsAssumption ==
    Configs \subseteq [KernelsOnly: BOOLEAN, Conditional: BOOLEAN,
                       MinEnqueue: Nat, FinishAfterEnqueue: BOOLEAN]

Commands  == 0 .. MaxEnqueue - 1
NoCommand == -1
Nodes     == [cmd: Commands, event: Handles]

VARIABLES
    config,          \* the configuration read at start-up
    enqueueCounter,  \* m_EnqueueCounter
    mutex,           \* the holder of m_Mutex across steps
    pc,              \* where each thread is in its call
    call,            \* the locals of each thread's call
    m_EventList,     \* nodes waiting for their event; its order is not used
    timingCalls,     \* NumberOfCalls that each command contributed to the statistics
    m_EventIdMap,    \* the enqueue counter of an event handle
    refs,            \* driver: reference count of an event
    cmdOf,           \* driver: the command an event handle stands for
    status,          \* driver: "queued", "complete" or "terminated"
    appRefs          \* references that belong to the application

threadVars == <<mutex, pc, call>>
layerVars  == <<m_EventList, timingCalls, m_EventIdMap>>
driverVars == <<refs, cmdOf, status>>
vars == <<config, enqueueCounter, threadVars, layerVars, driverVars, appRefs>>

Locations == {"idle", "dispatch", "addTiming", "releaseLocal", "addEvent",
              "finish", "lock", "scan", "remove", "release"}

(***************************************************************************)
(* The locals of a handler: the enqueueCounter read on entry, whether the  *)
(* command is a kernel, whether the call blocks, whether the application   *)
(* passed an event pointer, doDevicePerformanceTiming, the event, where to *)
(* go on after checkTimingEvents, and the iterator of its loop (the nodes  *)
(* still to be visited).  "seen" is a history variable: the complete       *)
(* commands that were on the list when the driver's wait returned.         *)
(***************************************************************************)
Calls == [cmd: Commands \cup {NoCommand}, kernel: BOOLEAN, blocking: BOOLEAN,
          wanted: BOOLEAN, timed: BOOLEAN, event: Handles \cup {NoHandle},
          after: Locations, todo: SUBSET Nodes, seen: SUBSET Commands]

NoCall == [cmd |-> NoCommand, kernel |-> FALSE, blocking |-> FALSE,
           wanted |-> FALSE, timed |-> FALSE, event |-> NoHandle,
           after |-> "idle", todo |-> {}, seen |-> {}]

IsLocal(c) == c.timed /\ ~c.wanted

TypeOK ==
    /\ config \in Configs
    /\ enqueueCounter \in 0 .. MaxEnqueue
    /\ mutex \in Threads \cup {NoThread}
    /\ pc \in [Threads -> Locations]
    /\ call \in [Threads -> Calls]
    /\ m_EventList \in SUBSET Nodes
    /\ timingCalls \in [Commands -> Nat]
    /\ m_EventIdMap \in [Handles -> Commands \cup {NoCommand}]
    /\ refs \in [Handles -> Nat]
    /\ cmdOf \in [Handles -> Commands \cup {NoCommand}]
    /\ status \in [Handles -> {"queued", "complete", "terminated"}]
    /\ appRefs \in [Handles -> Nat]

Init ==
    /\ config \in Configs
    /\ enqueueCounter = 0
    /\ mutex = NoThread
    /\ pc = [t \in Threads |-> "idle"]
    /\ call = [t \in Threads |-> NoCall]
    /\ m_EventList = {}
    /\ timingCalls = [c \in Commands |-> 0]
    /\ m_EventIdMap = [h \in Handles |-> NoCommand]
    /\ refs = [h \in Handles |-> 0]
    /\ cmdOf = [h \in Handles |-> NoCommand]
    /\ status = [h \in Handles |-> "complete"]
    /\ appRefs = [h \in Handles |-> 0]

-----------------------------------------------------------------------------
(* The driver. *)

\* An event whose references are all gone and whose command has left the
\* device: the driver may hand the same handle out for the next command.
Free(h) == refs[h] = 0 /\ status[h] # "queued"

\* clRetainEvent and clReleaseEvent fail with CL_INVALID_EVENT on a dead event.
Retained(h) == [refs EXCEPT ![h] = IF @ > 0 THEN @ + 1 ELSE 0]
Released(h) == [refs EXCEPT ![h] = IF @ > 0 THEN @ - 1 ELSE 0]

\* A command ends, successfully or with a negative execution status.
CommandEnds(h) ==
    /\ status[h] = "queued"
    /\ \E s \in {"complete", "terminated"} : status' = [status EXCEPT ![h] = s]
    /\ UNCHANGED <<config, enqueueCounter, threadVars, layerVars, refs, cmdOf,
                   appRefs>>

\* The command, if the driver still knows it, has left the device.
Ended(cmd) == \A h \in Handles : cmdOf[h] = cmd => status[h] # "queued"

-----------------------------------------------------------------------------
(* What a call that owns or consumes a reference keeps the application from *)
(* using: the application releases each reference once, and only an event   *)
(* it has been given.                                                       *)

Claims(h)   == {t \in Threads : call[t].event = h /\ ~IsLocal(call[t])}
Spare(h)    == appRefs[h] > Cardinality(Claims(h))
GoTo(t, l)  == pc' = [pc EXCEPT ![t] = l]
Return(t)   == [call EXCEPT ![t] = NoCall]

-----------------------------------------------------------------------------
(* clEnqueueReadBuffer, clEnqueueNDRangeKernel and the other enqueues. *)

\* DEVICE_PERFORMANCE_TIMING_START: from the first enqueue of the window on;
\* under PerformanceTimingConditional an environment variable, read anew at
\* every call, decides.
TimingStarts == IF enqueueCounter < config.MinEnqueue THEN {FALSE}
                ELSE IF config.Conditional THEN BOOLEAN ELSE {TRUE}

EnqueueBeginNewValue(t) ==
    /\ pc[t] = "idle"
    /\ enqueueCounter < MaxEnqueue
    /\ enqueueCounter' = enqueueCounter + 1
    /\ \E kernel, blocking, wanted \in BOOLEAN,
          timed \in TimingStarts :
          /\ kernel => ~blocking
          /\ call' = [call EXCEPT ![t] =
                [NoCall EXCEPT !.cmd = enqueueCounter + 1, !.kernel = kernel,
                    !.blocking = blocking, !.wanted = wanted,
                    !.timed = timed]]
    /\ GoTo(t, "dispatch")
    /\ UNCHANGED <<config, mutex, layerVars, driverVars, appRefs>>

\* INCREMENT_ENQUEUE_COUNTER and DEVICE_PERFORMANCE_TIMING_START.
EnqueueBegin(t) ==
    /\ pc[t] = "idle"
    /\ enqueueCounter < MaxEnqueue
    /\ enqueueCounter' = enqueueCounter + 1
    /\ \E kernel, blocking, wanted \in BOOLEAN,
          timed \in TimingStarts :
          /\ kernel => ~blocking
          /\ call' = [call EXCEPT ![t] =
                [NoCall EXCEPT !.cmd = enqueueCounter, !.kernel = kernel,
                    !.blocking = blocking, !.wanted = wanted,
                    !.timed = timed]]
    /\ GoTo(t, "dispatch")
    /\ UNCHANGED <<config, mutex, layerVars, driverVars, appRefs>>

\* What follows DEVICE_PERFORMANCE_TIMING_END:
\* DEVICE_PERFORMANCE_TIMING_CHECK_CONDITIONAL( blocking ).
AfterTiming(t) == IF call[t].blocking THEN "lock" ELSE "addEvent"

\* The driver accepts the command.  An event comes into being when the event
\* pointer is not NULL: the application's or that of local_event.
EnqueueDispatch(t) ==
    /\ pc[t] = "dispatch"
    /\ IF call[t].wanted \/ call[t].timed
       THEN \E h \in Handles :
              /\ Free(h)
              /\ refs' = [refs EXCEPT ![h] = 1]
              /\ cmdOf' = [cmdOf EXCEPT ![h] = call[t].cmd]
              /\ status' = [status EXCEPT ![h] =
                              IF call[t].blocking THEN "complete" ELSE "queued"]
              /\ appRefs' = [appRefs EXCEPT ![h] = IF call[t].wanted THEN 1 ELSE 0]
              /\ call' = [call EXCEPT ![t] = [@ EXCEPT !.event = h, !.after = "addEvent"]]
       ELSE /\ call' = [call EXCEPT ![t].after = "addEvent"]
            /\ UNCHANGED <<driverVars, appRefs>>
    /\ GoTo(t, IF call[t].timed THEN "addTiming" ELSE AfterTiming(t))
    /\ UNCHANGED <<config, enqueueCounter, mutex, layerVars>>

\* The driver refuses the command.
EnqueueFails(t) ==
    /\ pc[t] = "dispatch"
    /\ call' = [call EXCEPT ![t].after = "addEvent"]
    /\ GoTo(t, AfterTiming(t))
    /\ UNCHANGED <<config, enqueueCounter, mutex, layerVars, driverVars, appRefs>>

\* Is the command put on the list?  (DEVICE_PERFORMANCE_TIMING_END, _END_KERNEL)
Selected(c) == c.kernel \/ ~config.KernelsOnly

AddTimingEventNoRetain(t) ==
    /\ pc[t] = "addTiming"
    /\ mutex = NoThread
    /\ m_EventList' = IF Selected(call[t])
                      THEN m_EventList \cup {[cmd |-> call[t].cmd, event |-> call[t].event]}
                      ELSE m_EventList
    /\ GoTo(t, IF IsLocal(call[t]) THEN "releaseLocal" ELSE AfterTiming(t))
    /\ UNCHANGED <<config, enqueueCounter, mutex, call, timingCalls, m_EventIdMap,
                   driverVars, appRefs>>

AddTimingEventLocalReleaseSkipped(t) ==
    /\ pc[t] = "addTiming"
    /\ IF Selected(call[t])
       THEN /\ mutex = NoThread
            /\ m_EventList' = m_EventList \cup
                              {[cmd |-> call[t].cmd, event |-> call[t].event]}
            /\ refs' = Retained(call[t].event)
            /\ GoTo(t, IF IsLocal(call[t]) THEN "releaseLocal" ELSE AfterTiming(t))
       ELSE /\ GoTo(t, AfterTiming(t))
            /\ UNCHANGED <<m_EventList, refs>>
    /\ UNCHANGED <<config, enqueueCounter, mutex, call, timingCalls, m_EventIdMap,
                   cmdOf, status, appRefs>>

\* addTimingEvent, for a command the filters let through.
AddTimingEvent(t) ==
    /\ pc[t] = "addTiming"
    /\ IF Selected(call[t])
       THEN /\ mutex = NoThread
            /\ m_EventList' = m_EventList \cup
                              {[cmd |-> call[t].cmd, event |-> call[t].event]}
            /\ refs' = Retained(call[t].event)
       ELSE UNCHANGED <<m_EventList, refs>>
    /\ GoTo(t, IF IsLocal(call[t]) THEN "releaseLocal" ELSE AfterTiming(t))
    /\ UNCHANGED <<config, enqueueCounter, mutex, call, timingCalls, m_EventIdMap,
                   cmdOf, status, appRefs>>

\* The rest of DEVICE_PERFORMANCE_TIMING_END for a local event.
ReleaseLocalEvent(t) ==
    /\ pc[t] = "releaseLocal"
    /\ refs' = Released(call[t].event)
    /\ call' = [call EXCEPT ![t].event = NoHandle]
    /\ GoTo(t, AfterTiming(t))
    /\ UNCHANGED <<config, enqueueCounter, mutex, layerVars, cmdOf, status, appRefs>>

\* ADD_EVENT( event ? event[0] : NULL ), whatever retVal was: after a failed
\* call event[0] is what the application's variable held before.
AddEvent(t) ==
    /\ pc[t] = "addEvent"
    /\ LET held == IF call[t].event # NoHandle THEN {call[t].event}
                   ELSE IF call[t].wanted THEN Handles \cup {NoHandle} ELSE {NoHandle}
       IN \E h \in held :
            IF h = NoHandle THEN UNCHANGED m_EventIdMap
            ELSE /\ mutex = NoThread
                 /\ m_EventIdMap' = [m_EventIdMap EXCEPT ![h] = call[t].cmd]
    /\ IF config.FinishAfterEnqueue
       THEN GoTo(t, "finish") /\ UNCHANGED call
       ELSE GoTo(t, "idle") /\ call' = Return(t)
    /\ UNCHANGED <<config, enqueueCounter, mutex, m_EventList, timingCalls,
                   driverVars, appRefs>>

\* The complete commands that checkTimingEvents has to account for.
Pending == {n.cmd : n \in {m \in m_EventList : status[m.event] = "complete"}}

\* FINISH_OR_FLUSH_AFTER_ENQUEUE: the layer's own clFinish returns.
FinishAfterEnqueue(t) ==
    /\ pc[t] = "finish"
    /\ Ended(call[t].cmd)
    /\ call' = [call EXCEPT ![t] = [@ EXCEPT !.after = "idle", !.seen = Pending]]
    /\ GoTo(t, "lock")
    /\ UNCHANGED <<config, enqueueCounter, mutex, layerVars, driverVars, appRefs>>

-----------------------------------------------------------------------------
(* clFinish and clWaitForEvents: the driver's wait returns, and             *)
(* DEVICE_PERFORMANCE_TIMING_CHECK follows.                                 *)

FinishReturns(t) ==
    /\ pc[t] = "idle"
    /\ call' = [call EXCEPT ![t] = [NoCall EXCEPT !.seen = Pending]]
    /\ GoTo(t, "lock")
    /\ UNCHANGED <<config, enqueueCounter, mutex, layerVars, driverVars, appRefs>>

ScanBeginUnlocked(t) ==
    /\ pc[t] = "lock"
    /\ mutex' = t
    /\ call' = [call EXCEPT ![t].todo = m_EventList]
    /\ GoTo(t, "scan")
    /\ UNCHANGED <<config, enqueueCounter, layerVars, driverVars, appRefs>>

\* checkTimingEvents takes m_Mutex and starts at the front of the list.
ScanBegin(t) ==
    /\ pc[t] = "lock"
    /\ mutex = NoThread
    /\ mutex' = t
    /\ call' = [call EXCEPT ![t].todo = m_EventList]
    /\ GoTo(t, "scan")
    /\ UNCHANGED <<config, enqueueCounter, layerVars, driverVars, appRefs>>

EraseOnlyIfProfiled(t) ==
    /\ pc[t] = "scan"
    /\ \E n \in call[t].todo, profiled \in BOOLEAN :
          /\ call' = [call EXCEPT ![t].todo = @ \ {n}]
          /\ IF refs[n.event] > 0 /\ status[n.event] = "complete" /\ profiled
             THEN /\ m_EventList' = m_EventList \ {n}
                  /\ timingCalls' = [timingCalls EXCEPT ![n.cmd] = @ + 1]
                  /\ refs' = Released(n.event)
             ELSE UNCHANGED <<m_EventList, timingCalls, refs>>
    /\ UNCHANGED <<config, enqueueCounter, mutex, pc, m_EventIdMap, cmdOf, status,
                   appRefs>>

ScanNodeWaits(t) ==
    /\ pc[t] = "scan"
    /\ \E n \in call[t].todo :
          /\ call' = IF status[n.event] = "complete" THEN [call EXCEPT ![t].todo = @ \ {n}]
                     ELSE call
          /\ CASE refs[n.event] = 0 ->
                    /\ m_EventList' = m_EventList \ {n}
                    /\ UNCHANGED <<timingCalls, refs>>
               [] refs[n.event] > 0 /\ status[n.event] = "complete" ->
                    /\ \E profiled \in {0, 1} :
                         timingCalls' = [timingCalls EXCEPT ![n.cmd] = @ + profiled]
                    /\ refs' = Released(n.event)
                    /\ m_EventList' = m_EventList \ {n}
               [] OTHER -> UNCHANGED <<m_EventList, timingCalls, refs>>
    /\ UNCHANGED <<config, enqueueCounter, mutex, pc, m_EventIdMap, cmdOf, status,
                   appRefs>>

\* One turn of its loop.  clGetEventInfo finds the event complete, not yet
\* complete (or terminated), or invalid; the profiling queries of a complete
\* event can fail, which leaves the command out of the statistics.
ScanNode(t) ==
    /\ pc[t] = "scan"
    /\ \E n \in call[t].todo :
          /\ call' = [call EXCEPT ![t].todo = @ \ {n}]
          /\ CASE refs[n.event] = 0 ->
                    /\ m_EventList' = m_EventList \ {n}
                    /\ UNCHANGED <<timingCalls, refs>>
               [] refs[n.event] > 0 /\ status[n.event] = "complete" ->
                    /\ \E profiled \in {0, 1} :
                         timingCalls' = [timingCalls EXCEPT ![n.cmd] = @ + profiled]
                    /\ refs' = Released(n.event)
                    /\ m_EventList' = m_EventList \ {n}
               [] OTHER -> UNCHANGED <<m_EventList, timingCalls, refs>>
    /\ UNCHANGED <<config, enqueueCounter, mutex, pc, m_EventIdMap, cmdOf, status,
                   appRefs>>

\* The guard releases m_Mutex at the end of checkTimingEvents.
ScanEnd(t) ==
    /\ pc[t] = "scan"
    /\ call[t].todo = {}
    /\ mutex' = NoThread
    /\ GoTo(t, call[t].after)
    /\ call' = IF call[t].after = "idle" THEN Return(t) ELSE call
    /\ UNCHANGED <<config, enqueueCounter, layerVars, driverVars, appRefs>>

-----------------------------------------------------------------------------
(* clRetainEvent and clReleaseEvent, called for an event the application    *)
(* owns a reference to.                                                     *)

RetainEvent(t, h) ==
    /\ pc[t] = "idle"
    /\ Spare(h)
    /\ appRefs[h] < MaxAppRefs
    /\ refs' = Retained(h)
    /\ appRefs' = [appRefs EXCEPT ![h] = @ + 1]
    /\ UNCHANGED <<config, enqueueCounter, threadVars, layerVars, cmdOf, status>>

ReleaseEventBegin(t, h) ==
    /\ pc[t] = "idle"
    /\ Spare(h)
    /\ call' = [call EXCEPT ![t] = [NoCall EXCEPT !.event = h]]
    /\ GoTo(t, "remove")
    /\ UNCHANGED <<config, enqueueCounter, mutex, layerVars, driverVars, appRefs>>

\* REMOVE_EVENT, before the release: checkRemoveEvent.
CheckRemoveEvent(t) ==
    /\ pc[t] = "remove"
    /\ mutex = NoThread
    /\ m_EventIdMap' = [m_EventIdMap EXCEPT ![call[t].event] =
                          IF refs[call[t].event] = 1 THEN NoCommand ELSE @]
    /\ GoTo(t, "release")
    /\ UNCHANGED <<config, enqueueCounter, mutex, call, m_EventList, timingCalls,
                   driverVars, appRefs>>

\* The driver's clReleaseEvent.
ReleaseEvent(t) ==
    /\ pc[t] = "release"
    /\ refs' = Released(call[t].event)
    /\ appRefs' = [appRefs EXCEPT ![call[t].event] = @ - 1]
    /\ call' = Return(t)
    /\ GoTo(t, "idle")
    /\ UNCHANGED <<config, enqueueCounter, mutex, layerVars, cmdOf, status>>

-----------------------------------------------------------------------------
Step(t) ==
    \/ EnqueueDispatch(t) \/ EnqueueFails(t) \/ AddTimingEvent(t)
    \/ ReleaseLocalEvent(t) \/ AddEvent(t) \/ FinishAfterEnqueue(t)
    \/ ScanBegin(t) \/ ScanNode(t) \/ ScanEnd(t)
    \/ CheckRemoveEvent(t) \/ ReleaseEvent(t)

Call(t) ==
    \/ EnqueueBegin(t) \/ FinishReturns(t)
    \/ \E h \in Handles : RetainEvent(t, h) \/ ReleaseEventBegin(t, h)

Next == \/ \E t \in Threads : Step(t) \/ Call(t)
        \/ \E h \in Handles : CommandEnds(h)

Spec == Init /\ [][Next]_vars

\* A thread inside a handler keeps running, m_Mutex is handed out to every
\* thread that keeps asking for it, and the device ends every command.  The
\* application need not call anything.
FairSpec ==
    /\ Spec
    /\ \A t \in Threads : SF_vars(Step(t))
    /\ \A h \in Handles : WF_vars(CommandEnds(h))

-----------------------------------------------------------------------------
(* Properties. *)

\* The layer's own reference: nodes of the list name live events that still
\* stand for the command the node was made for, so checkTimingEvents never
\* meets CL_INVALID_EVENT nor reads the times of another command from a
\* recycled handle, whatever the application releases meanwhile.
NodesAreAlive ==
    \A n \in m_EventList : refs[n.event] > 0 /\ cmdOf[n.event] = n.cmd

Listed(h)  == IF \E n \in m_EventList : n.event = h THEN 1 ELSE 0
LocalTo(h) == IF \E t \in Threads : call[t].event = h /\ IsLocal(call[t]) THEN 1 ELSE 0

\* Transparency: every reference the driver counts is the application's, the
\* list's, or that of a local event about to be released.  Timing neither
\* leaks an event nor releases one the application still uses.
ReferencesBalance ==
    \A h \in Handles : refs[h] = appRefs[h] + Listed(h) + LocalTo(h)

\* A command's device time is accounted at most once, and a command that has
\* been accounted is off the list: two threads that wait at the same time do
\* not both count it.
AccountedOnce ==
    \A c \in Commands :
        /\ timingCalls[c] <= 1
        /\ timingCalls[c] = 1 => \A n \in m_EventList : n.cmd # c

\* When checkTimingEvents has run for clFinish, clWaitForEvents or an enqueue
\* under FinishAfterEnqueue, no command that was listed and complete when the
\* driver's wait returned is still waiting on the list.
WaitDrains ==
    [][\A t \in Threads :
          pc[t] = "scan" /\ pc'[t] # "scan" =>
              \A n \in m_EventList' : n.cmd \notin call[t].seen]_vars

\* Every call returns to the application: no thread is left waiting for
\* m_Mutex, none loops in checkTimingEvents for ever.
CallsReturn ==
    \A t \in Threads : pc[t] # "idle" ~> pc[t] = "idle"
=============================================================================
