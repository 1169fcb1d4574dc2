--------------------------- MODULE ObjectTracking ---------------------------
(***************************************************************************)
(* What the layer remembers about the application's OpenCL objects: the    *)
(* leak counters of objtracker.h and the maps of intercept.cpp that are    *)
(* filled when an object is created and cleaned when its last reference is *)
(* released.                                                               *)
(*                                                                         *)
(* Threads run the handlers of ApiCalls step by step.  Steps of different  *)
(* handlers interleave: m_Mutex protects a single look-up or update, never *)
(* a handler.  The driver frees an object with its last reference and may  *)
(* give the same handle to the next one.  It may refuse any call.  A       *)
(* behaviour follows the objects of one kind; leak checking is on, and so  *)
(* are the controls that make the layer keep each map.                     *)
(***************************************************************************)
EXTENDS ApiCalls, Integers, FiniteSets

CONSTANTS
    Threads,     \* application threads
    Handles,     \* the values a handle of the kind can take
    Focus,       \* the kinds of object to follow, one in each behaviour
    MaxCounted,  \* bound: calls that change a leak counter
    MaxRefs      \* bound: references the application takes on one object

ASSUME FocusAssumption == Focus \subseteq Kinds
ASSUME TrackingBoundsAssumption ==
    /\ IsFiniteSet(Threads) /\ IsFiniteSet(Handles)
    /\ MaxCounted \in Nat /\ MaxRefs \in Nat

VARIABLES
    kind,            \* the kind of object followed
    call,            \* the handler each thread is in
    NumAllocations, NumRetains, NumReleases,  \* the kind's CTracker
    info,            \* objects in the kind's info map
    contextQueues,   \* how often a queue is on its context's list
    undefined,       \* the list was told to erase its end
    refs,            \* driver: reference count
    timing,          \* events the layer holds a reference to on m_EventList
    appRefs,         \* references that belong to the application
    added,           \* history: the object's creation entered it in the map
    refused,         \* history: objects the driver refused to release
    refusals         \* history: refused retains less refused releases counted

counters == <<NumAllocations, NumRetains, NumReleases>>
maps     == <<info, contextQueues, undefined>>
driver   == <<refs, timing>>
history  == <<added, refused, refusals>>
vars == <<kind, call, counters, maps, driver, appRefs, history>>

Roles == {"create", "createMany", "retain", "release", "use", "enqueue"}

\* What the application may call: the role of a handler and its steps.  Handlers
\* that differ in nothing else are one program.
Programs(k) == {[role |-> h.roles[k], steps |-> Project(h, k)] :
                   h \in {g \in Api : k \in DOMAIN g.roles}}

\* The locals of a handler: the steps to come, the objects it was passed or has
\* created, whether the application asked for the event, whether the command is
\* timed, whether the driver refused it, and whether the reference has been
\* given up.
NoCall == [role |-> "use", todo |-> <<>>, objects |-> {}, wanted |-> FALSE,
           timed |-> FALSE, failed |-> FALSE, spent |-> FALSE]

Idle(t) == call[t].todo = <<>>
Quiescent == \A t \in Threads : Idle(t)

IsEnd(program, todo) ==
    \E i \in 0 .. Len(program.steps) : todo = SubSeq(program.steps, i + 1, Len(program.steps))

TypeOK ==
    /\ kind \in Focus
    /\ \A t \in Threads :
          /\ DOMAIN call[t] = DOMAIN NoCall
          /\ call[t].objects \in SUBSET Handles
          /\ \/ call[t] = NoCall
             \/ \E p \in Programs(kind) :
                   call[t].role = p.role /\ IsEnd(p, call[t].todo)
    /\ \A n \in {NumAllocations, NumRetains, NumReleases} : n \in Nat
    /\ info \in SUBSET Handles
    /\ contextQueues \in [Handles -> Nat]
    /\ undefined \in BOOLEAN
    /\ refs \in [Handles -> Nat]
    /\ timing \in SUBSET Handles
    /\ appRefs \in [Handles -> Nat]
    /\ added \in SUBSET Handles
    /\ refused \in SUBSET Handles
    /\ refusals \in Int

Init ==
    /\ kind \in Focus
    /\ call = [t \in Threads |-> NoCall]
    /\ NumAllocations = 0 /\ NumRetains = 0 /\ NumReleases = 0
    /\ info = {} /\ undefined = FALSE
    /\ contextQueues = [h \in Handles |-> 0]
    /\ refs = [h \in Handles |-> 0] /\ timing = {}
    /\ appRefs = [h \in Handles |-> 0]
    /\ added = {} /\ refused = {} /\ refusals = 0

-----------------------------------------------------------------------------
(* Calls. *)

\* The application uses each of its references in one call at a time.
Claims(h) == {t \in Threads : h \in call[t].objects /\ ~call[t].spent}
Spare(h)  == appRefs[h] > Cardinality(Claims(h))

\* A thread calls a handler.
Begin(t) ==
    /\ Idle(t)
    /\ \E p \in Programs(kind) :
          /\ p.role # "use" => NumAllocations + NumRetains + NumReleases < MaxCounted
          /\ \E objects \in IF p.role \in {"retain", "release", "use"}
                            THEN {{h} : h \in {g \in Handles : Spare(g)}}
                            ELSE {{}},
                wanted \in IF p.role = "enqueue" THEN BOOLEAN ELSE {TRUE} :
                /\ p.role = "retain" => \A h \in objects : appRefs[h] < MaxRefs
                /\ call' = [call EXCEPT ![t] =
                      [NoCall EXCEPT !.role = p.role, !.todo = p.steps,
                                     !.objects = objects, !.wanted = wanted]]
    /\ UNCHANGED <<kind, counters, maps, driver, appRefs, history>>

\* The call after its next step, with the locals changed to c; the last step returns.
After(t, c) ==
    call' = [call EXCEPT ![t] = IF Tail(c.todo) = <<>> THEN NoCall
                                ELSE [c EXCEPT !.todo = Tail(@)]]

At(t, op) == ~Idle(t) /\ Head(call[t].todo)[1] = op

-----------------------------------------------------------------------------
(* The driver. *)

Free(h) == refs[h] = 0

\* New objects for the application, or an event that only the layer knows of.
Creates(t, objects, given) ==
    /\ refs' = [h \in Handles |-> IF h \in objects THEN 1 ELSE refs[h]]
    /\ appRefs' = [h \in Handles |-> IF h \in objects /\ given THEN 1 ELSE appRefs[h]]
    /\ added' = added \ objects
    /\ refused' = refused \ objects
    /\ After(t, [call[t] EXCEPT !.objects = objects])
    /\ UNCHANGED <<timing, refusals>>

DispatchCreate(t) ==
    /\ call[t].role \in {"create", "createMany"}
    /\ \E objects \in SUBSET {h \in Handles : Free(h)} :
          /\ objects # {}
          /\ call[t].role = "create" => Cardinality(objects) = 1
          /\ Creates(t, objects, TRUE)

\* The driver makes an event when the handler passes it an event pointer.
DispatchEnqueue(t) ==
    /\ call[t].role = "enqueue"
    /\ IF call[t].wanted \/ call[t].timed
       THEN \E h \in Handles : Free(h) /\ Creates(t, {h}, call[t].wanted)
       ELSE Creates(t, {}, FALSE)

DispatchRetain(t) ==
    /\ call[t].role = "retain"
    /\ \E h \in call[t].objects :
          /\ refs' = [refs EXCEPT ![h] = @ + 1]
          /\ appRefs' = [appRefs EXCEPT ![h] = @ + 1]
    /\ After(t, call[t])
    /\ UNCHANGED <<timing, history>>

DispatchRelease(t) ==
    /\ call[t].role = "release"
    /\ \E h \in call[t].objects :
          /\ refs' = [refs EXCEPT ![h] = @ - 1]
          /\ appRefs' = [appRefs EXCEPT ![h] = @ - 1]
    /\ After(t, [call[t] EXCEPT !.spent = TRUE])
    /\ UNCHANGED <<timing, history>>

DispatchUse(t) ==
    /\ call[t].role = "use"
    /\ After(t, call[t])
    /\ UNCHANGED <<driver, appRefs, history>>

\* The driver refuses the call.
DispatchFails(t) ==
    /\ At(t, "dispatch")
    /\ call[t].role # "use"
    /\ After(t, [call[t] EXCEPT !.failed = TRUE])
    /\ refused' = IF call[t].role = "release" THEN refused \cup call[t].objects ELSE refused
    /\ UNCHANGED <<kind, counters, maps, driver, appRefs, added, refusals>>

DispatchSucceeds(t) ==
    /\ At(t, "dispatch")
    /\ \/ DispatchCreate(t) \/ DispatchEnqueue(t)
       \/ DispatchRetain(t) \/ DispatchRelease(t) \/ DispatchUse(t)
    /\ UNCHANGED <<kind, counters, maps>>

-----------------------------------------------------------------------------
(* objtracker.h *)

\* AddAllocation, for every object the driver returned that is not NULL.
AddAllocation(t) ==
    /\ At(t, "allocation")
    /\ NumAllocations' = NumAllocations + Cardinality(call[t].objects)
    /\ After(t, call[t])
    /\ UNCHANGED <<kind, NumRetains, NumReleases, maps, driver, appRefs, history>>

Refusal(t) == IF call[t].failed THEN 1 ELSE 0

\* AddRetain and AddRelease count the call, whatever the driver returned.
AddRetain(t) ==
    /\ At(t, "retained")
    /\ NumRetains' = NumRetains + 1
    /\ refusals' = refusals + Refusal(t)
    /\ After(t, call[t])
    /\ UNCHANGED <<kind, NumAllocations, NumReleases, maps, driver, appRefs, added, refused>>

AddRelease(t) ==
    /\ At(t, "released")
    /\ NumReleases' = NumReleases + 1
    /\ refusals' = refusals - Refusal(t)
    /\ After(t, call[t])
    /\ UNCHANGED <<kind, NumAllocations, NumRetains, maps, driver, appRefs, added, refused>>

ReportHelper ==
    CASE NumReleases < NumAllocations + NumRetains -> "Possible leak"
      [] NumReleases > NumAllocations + NumRetains -> "Unexpected counts"
      [] OTHER -> IF NumAllocations > 0 THEN "No leaks detected" ELSE "nothing"

-----------------------------------------------------------------------------
(* The maps. *)

\* addKernelInfo, addBuffer, addSemaphoreInfo and the others overwrite an entry
\* the handle may have.
AddInfo(t) ==
    /\ At(t, "add")
    /\ kind # "queue"
    /\ ~(call[t].role = "enqueue" /\ call[t].failed)
    /\ info' = info \cup call[t].objects
    /\ added' = added \cup call[t].objects
    /\ After(t, call[t])
    /\ UNCHANGED <<kind, counters, contextQueues, undefined, driver, appRefs, refused,
                   refusals>>

\* ADD_EVENT after the driver refused the command: event[0] is what the
\* application's variable held before.
AddEventOfRefusedCommand(t) ==
    /\ At(t, "add")
    /\ call[t].role = "enqueue" /\ call[t].failed
    /\ \E stale \in {{}} \cup IF call[t].wanted THEN {{h} : h \in Handles} ELSE {} :
          info' = info \cup stale
    /\ After(t, call[t])
    /\ UNCHANGED <<kind, counters, contextQueues, undefined, driver, appRefs, history>>

\* addQueue also puts the queue on the list of its context.
AddQueue(t) ==
    /\ At(t, "add")
    /\ kind = "queue"
    /\ info' = info \cup call[t].objects
    /\ contextQueues' = [h \in Handles |-> contextQueues[h] +
                                           IF h \in call[t].objects THEN 1 ELSE 0]
    /\ added' = added \cup call[t].objects
    /\ After(t, call[t])
    /\ UNCHANGED <<kind, counters, undefined, driver, appRefs, refused, refusals>>

\* checkRemoveKernelInfo, checkRemoveMemObj and the others: getRefCount asks the
\* driver, and the entry is erased when the caller's is the last reference.
\* removeSVMAllocation and removeUSMAllocation do not ask.
CheckRemoveInfo(t) ==
    /\ At(t, "remove")
    /\ kind # "queue"
    /\ info' = info \ {h \in call[t].objects : kind = "pointer" \/ refs[h] = 1}
    /\ After(t, call[t])
    /\ UNCHANGED <<kind, counters, contextQueues, undefined, driver, appRefs, history>>

\* checkRemoveQueue also erases the first occurrence from the list.  When there
\* is none it erases the list's end, which is undefined.
CheckRemoveQueue(t) ==
    /\ At(t, "remove")
    /\ kind = "queue"
    /\ LET last == {h \in call[t].objects : refs[h] = 1} IN
          /\ info' = info \ last
          /\ contextQueues' = [h \in Handles |-> IF h \in last /\ contextQueues[h] > 0
                                                 THEN contextQueues[h] - 1
                                                 ELSE contextQueues[h]]
          /\ undefined' = (undefined \/ \E h \in last : contextQueues[h] = 0)
    /\ After(t, call[t])
    /\ UNCHANGED <<kind, counters, driver, appRefs, history>>

\* dispatchX( object ): without an entry the function is that of the platform
\* NULL, which may be there or not; if not the handler returns an error.
LookUp(t) ==
    /\ At(t, "route")
    /\ \E found \in BOOLEAN :
          /\ call[t].objects \subseteq info => found
          /\ IF found THEN After(t, call[t])
             ELSE call' = [call EXCEPT ![t] = NoCall]
    /\ UNCHANGED <<kind, counters, maps, driver, appRefs, history>>

-----------------------------------------------------------------------------
(* Device timing, as far as references are concerned. *)

\* DEVICE_PERFORMANCE_TIMING_START decides whether to time the command.
StartTiming(t) ==
    /\ At(t, "timingStart")
    /\ \E timed \in BOOLEAN : After(t, [call[t] EXCEPT !.timed = timed])
    /\ UNCHANGED <<kind, counters, maps, driver, appRefs, history>>

EndTimingReleasesEvent(t) ==
    /\ At(t, "timingEnd")
    /\ LET local == call[t].timed /\ ~call[t].wanted IN
       IF call[t].timed /\ ~call[t].failed
       THEN \E listed \in BOOLEAN, h \in call[t].objects :
              /\ refs' = [refs EXCEPT ![h] = @ + (IF listed THEN 1 ELSE 0) - 1]
              /\ timing' = IF listed THEN timing \cup {h} ELSE timing
              /\ After(t, [call[t] EXCEPT !.objects = IF local THEN {} ELSE @])
       ELSE After(t, call[t]) /\ UNCHANGED driver
    /\ UNCHANGED <<kind, counters, maps, appRefs, history>>

EndTimingKeepsLocalEvent(t) ==
    /\ At(t, "timingEnd")
    /\ LET local == call[t].timed /\ ~call[t].wanted IN
       IF call[t].timed /\ ~call[t].failed
       THEN \E listed \in BOOLEAN, h \in call[t].objects :
              /\ refs' = [refs EXCEPT ![h] = @ + (IF listed THEN 1 ELSE 0)
                                               - (IF local THEN 1 ELSE 0)]
              /\ timing' = IF listed THEN timing \cup {h} ELSE timing
              /\ After(t, [call[t] EXCEPT !.failed = FALSE])
       ELSE After(t, call[t]) /\ UNCHANGED driver
    /\ UNCHANGED <<kind, counters, maps, appRefs, history>>

\* DEVICE_PERFORMANCE_TIMING_END: addTimingEvent retains the event unless it is
\* filtered out; a local event is released and the handler forgets it.
EndTiming(t) ==
    /\ At(t, "timingEnd")
    /\ LET local == call[t].timed /\ ~call[t].wanted IN
       IF call[t].timed /\ ~call[t].failed
       THEN \E listed \in BOOLEAN, h \in call[t].objects :
              /\ refs' = [refs EXCEPT ![h] = @ + (IF listed THEN 1 ELSE 0)
                                               - (IF local THEN 1 ELSE 0)]
              /\ timing' = IF listed THEN timing \cup {h} ELSE timing
              /\ After(t, [call[t] EXCEPT !.objects = IF local THEN {} ELSE @])
       ELSE After(t, call[t]) /\ UNCHANGED driver
    /\ UNCHANGED <<kind, counters, maps, appRefs, history>>

\* checkTimingEvents, in any call that waits, releases the layer's reference.
CheckTimingEvent(h) ==
    /\ h \in timing
    /\ timing' = timing \ {h}
    /\ refs' = [refs EXCEPT ![h] = @ - 1]
    /\ UNCHANGED <<kind, call, counters, maps, appRefs, history>>

-----------------------------------------------------------------------------
Step(t) ==
    \/ Begin(t) \/ DispatchSucceeds(t) \/ DispatchFails(t)
    \/ AddAllocation(t) \/ AddRetain(t) \/ AddRelease(t)
    \/ AddInfo(t) \/ AddEventOfRefusedCommand(t) \/ AddQueue(t)
    \/ CheckRemoveInfo(t) \/ CheckRemoveQueue(t)
    \/ LookUp(t) \/ StartTiming(t) \/ EndTiming(t)

Next == \/ \E t \in Threads : Step(t)
        \/ \E h \in Handles : CheckTimingEvent(h)

Spec == Init /\ [][Next]_vars

-----------------------------------------------------------------------------
(* Properties. *)

TotalHeld == Cardinality(UNION {{h} \X (1 .. appRefs[h]) : h \in Handles})

\* The report at exit is right.  When no call is in progress, the counters
\* differ by exactly the references the application holds, give or take the
\* retains and releases that the driver refused and the layer counted: the
\* layer's own events are not in them, no object is counted twice or missed.
\* Accelerators have no counters.
LeakReport ==
    Quiescent /\ kind # "accelerator" =>
        LET left == TotalHeld + refusals IN
        /\ NumAllocations + NumRetains - NumReleases = left
        /\ ReportHelper = CASE left > 0 -> "Possible leak"
                            [] left < 0 -> "Unexpected counts"
                            [] OTHER    -> IF NumAllocations > 0 THEN "No leaks detected"
                                           ELSE "nothing"

\* An object that was entered in its map stays there as long as the
\* application can use it: another thread that releases the last reference of
\* an older object with the same handle, or one of several references, does not
\* erase the entry.  (A release the driver refuses is the exception.)
InfoOfLiveObjects ==
    kind # "pointer" =>
        \A h \in (added \ refused) : Spare(h) => h \in info

\* Transparency: the functions of semaphores, command buffers and accelerators
\* are found for every object the application uses, so that the call reaches
\* the driver.
CallsAreRouted ==
    \A t \in Threads :
        At(t, "route") => call[t].objects \subseteq info \cup refused

\* A queue that addQueue put on its context's list is there when its last
\* reference is released, so that checkRemoveQueue finds it.
QueuesAreListed ==
    kind = "queue" /\ ~undefined =>
        \A h \in (added \ refused) : Spare(h) => contextQueues[h] > 0
=============================================================================
