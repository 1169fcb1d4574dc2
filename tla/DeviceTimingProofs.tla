------------------------- MODULE DeviceTimingProofs -------------------------
(* Theorems about DeviceTiming, for every set of threads and handles, every *)
(* bound and every set of configurations.                                   *)
EXTENDS DeviceTiming, FiniteSetTheorems, TLAPS

-----------------------------------------------------------------------------
(* Layer 1: types, and what a handler's locals hold at each location.       *)

Shape(t) ==
    /\ pc[t] \in {"idle", "dispatch"} => call[t].event = NoHandle
    /\ pc[t] = "addTiming" => call[t].timed /\ call[t].event \in Handles
    /\ pc[t] = "releaseLocal" => IsLocal(call[t]) /\ call[t].event \in Handles
    /\ pc[t] \in {"remove", "release"} => ~call[t].timed /\ call[t].event \in Handles
    /\ IsLocal(call[t]) /\ call[t].event # NoHandle =>
           pc[t] \in {"addTiming", "releaseLocal"}
    /\ pc[t] \in {"dispatch", "addTiming", "releaseLocal", "addEvent", "finish"} =>
           call[t].cmd \in Commands
    /\ pc[t] \notin {"idle", "dispatch"} =>
           \/ call[t].after = "idle"
           \/ call[t].after = "addEvent" /\ call[t].cmd \in Commands
    /\ pc[t] = "scan" <=> mutex = t
    /\ pc[t] = "scan" => call[t].todo \subseteq m_EventList

\* TypeOK, but for the sign of appRefs, which the reference counts of layer 3
\* decide.
Types ==
    /\ config \in Configs
    /\ enqueueCounter \in 0 .. MaxEnqueue
    /\ mutex \in Threads \cup {NoThread}
    /\ pc \in [Threads -> Locations]
    /\ call \in [Threads -> Calls]
    /\ m_EventList \in SUBSET Nodes
    /\ timingCalls \in [Commands -> Nat]
    /\ m_EventIdMap \in [Handles -> Commands \cup {NoCommand}]
    /\ refs \in [Handles -> Nat]
    /\ cmdOf \in [Handles -> Commands \cup {NoCommand}]
    /\ status \in [Handles -> {"queued", "complete", "terminated"}]
    /\ appRefs \in [Handles -> Int]

Inv1 == Types /\ \A t \in Threads : Shape(t)

\* The locals of a thread outside every handler are well typed.
LEMMA NoCallType == NoCall \in Calls
  BY DEF NoCall, Calls, NoCommand, Locations

\* Retaining or releasing an event keeps the counts natural numbers.
LEMMA CountType ==
  ASSUME refs \in [Handles -> Nat], NEW h \in Handles
  PROVE  Retained(h) \in [Handles -> Nat] /\ Released(h) \in [Handles -> Nat]
  BY DEF Retained, Released

\* The commands a wait finds complete are commands.
LEMMA PendingType ==
  ASSUME m_EventList \in SUBSET Nodes PROVE Pending \in SUBSET Commands
  BY DEF Pending, Nodes

\* So are the locals clFinish and clWaitForEvents start the scan with.
LEMMA WaitCallType ==
  ASSUME NEW s \in SUBSET Commands PROVE [NoCall EXCEPT !.seen = s] \in Calls
  BY DEF NoCall, Calls, NoCommand, Locations

\* A handler's assignment to one of its locals keeps them well typed.
LEMMA RecordUpdate ==
  ASSUME NEW c \in Calls,
         NEW h \in Handles \cup {NoHandle}, NEW a \in {"idle", "addEvent"},
         NEW s \in SUBSET Commands, NEW n \in SUBSET Nodes
  PROVE  /\ [c EXCEPT !.event = h] \in Calls
         /\ [c EXCEPT !.after = a] \in Calls
         /\ [c EXCEPT !.seen = s] \in Calls
         /\ [c EXCEPT !.todo = n] \in Calls
  BY DEF Calls, Locations

\* The same for the array of every thread's locals.
LEMMA CallUpdate ==
  ASSUME call \in [Threads -> Calls], NEW t \in Threads,
         NEW h \in Handles \cup {NoHandle}, NEW a \in {"idle", "addEvent"},
         NEW s \in SUBSET Commands, NEW n \in SUBSET Nodes
  PROVE  /\ [call EXCEPT ![t].event = h] \in [Threads -> Calls]
         /\ [call EXCEPT ![t] = [@ EXCEPT !.event = h, !.after = a]] \in [Threads -> Calls]
         /\ [call EXCEPT ![t].after = a] \in [Threads -> Calls]
         /\ [call EXCEPT ![t] = [@ EXCEPT !.after = a, !.seen = s]] \in [Threads -> Calls]
         /\ [call EXCEPT ![t].todo = n] \in [Threads -> Calls]
  <1>1. call[t] \in Calls
    OBVIOUS
  <1> DEFINE c1 == [call[t] EXCEPT !.event = h]
             c2 == [c1 EXCEPT !.after = a]
             c3 == [call[t] EXCEPT !.after = a]
             c4 == [c3 EXCEPT !.seen = s]
             c5 == [call[t] EXCEPT !.todo = n]
  <1>2. c1 \in Calls /\ c3 \in Calls /\ c5 \in Calls
    BY <1>1, RecordUpdate, Zenon
  <1>3. c2 \in Calls /\ c4 \in Calls
    <2> HIDE DEF c1, c3
    <2> QED BY <1>2, RecordUpdate, Zenon
  <1>4. ASSUME NEW c \in Calls PROVE [call EXCEPT ![t] = c] \in [Threads -> Calls]
    OBVIOUS
  <1>5. c2 = [call[t] EXCEPT !.event = h, !.after = a]
    OBVIOUS
  <1>6. c4 = [call[t] EXCEPT !.after = a, !.seen = s]
    OBVIOUS
  <1> HIDE DEF c2, c4
  <1> QED BY <1>2, <1>3, <1>4, <1>5, <1>6, Zenon

\* What an enqueue's locals hold when its handler starts.
LEMMA BeginCall ==
  ASSUME NEW t, EnqueueBegin(t)
  PROVE  \E kernel, blocking, wanted, timed \in BOOLEAN :
            call' = [call EXCEPT ![t] =
               [NoCall EXCEPT !.cmd = enqueueCounter, !.kernel = kernel,
                  !.blocking = blocking, !.wanted = wanted, !.timed = timed]]
  <1>1. PICK kernel \in BOOLEAN, blocking \in BOOLEAN, wanted \in BOOLEAN,
             timed \in TimingStarts :
           call' = [call EXCEPT ![t] =
              [NoCall EXCEPT !.cmd = enqueueCounter, !.kernel = kernel,
                 !.blocking = blocking, !.wanted = wanted, !.timed = timed]]
    BY Zenon DEF EnqueueBegin
  <1>2. timed \in BOOLEAN
    BY DEF TimingStarts
  <1> QED BY <1>1, <1>2, Zenon

\* Types and locals are right when nobody has called anything.
LEMMA Inv1Init == Init => Inv1
  <1> SUFFICES ASSUME Init PROVE Inv1
    OBVIOUS
  <1> USE ThreadsAssumption, HandlesAssumption, BoundsAssumption DEF Init
  <1>2. Types
    BY NoCallType DEF Types, Locations, NoCommand, Commands
  <1>3. ASSUME NEW t \in Threads PROVE Shape(t)
    BY DEF Shape, NoCall, IsLocal
  <1> QED BY <1>2, <1>3 DEF Inv1

\* Every step keeps types, and the locals each location promises.
LEMMA Inv1Step == Inv1 /\ [Next]_vars => Inv1'
  <1> SUFFICES ASSUME Inv1, [Next]_vars PROVE Inv1'
    OBVIOUS
  <1> USE ThreadsAssumption, HandlesAssumption, BoundsAssumption
  <1> USE DEF Inv1, Types
  <1>1. CASE UNCHANGED vars
    BY <1>1 DEF vars, threadVars, layerVars, driverVars, Shape
  <1>2. ASSUME NEW t \in Threads, EnqueueBegin(t) PROVE Inv1'
    <2>1. PICK c \in Calls : /\ call' = [call EXCEPT ![t] = c]
                             /\ c.cmd \in Commands
                             /\ c.event = NoHandle
      <3>1. PICK kernel \in BOOLEAN, blocking \in BOOLEAN, wanted \in BOOLEAN,
                 timed \in BOOLEAN :
               call' = [call EXCEPT ![t] =
                  [NoCall EXCEPT !.cmd = enqueueCounter, !.kernel = kernel,
                     !.blocking = blocking, !.wanted = wanted, !.timed = timed]]
        BY <1>2, BeginCall
      <3>2. enqueueCounter \in Commands
        BY <1>2 DEF EnqueueBegin, Commands
      <3> DEFINE c == [NoCall EXCEPT !.cmd = enqueueCounter, !.kernel = kernel,
                     !.blocking = blocking, !.wanted = wanted, !.timed = timed]
      <3>3. c \in Calls /\ c.cmd \in Commands /\ c.event = NoHandle
        BY <3>2 DEF Calls, NoCall, Locations, NoCommand
      <3> QED BY <3>1, <3>3
    <2>2. Types'
      BY <1>2, <2>1 DEF EnqueueBegin, GoTo, Locations, layerVars, driverVars
    <2>3. ASSUME NEW u \in Threads PROVE Shape(u)'
      BY <1>2, <2>1 DEF EnqueueBegin, GoTo, Shape, IsLocal, layerVars, driverVars
    <2> QED BY <2>2, <2>3
  <1>3. ASSUME NEW t \in Threads, EnqueueDispatch(t) PROVE Inv1'
    <2>1. call[t].cmd \in Commands
      BY <1>3 DEF EnqueueDispatch, Shape
    <2>2. pc' \in [Threads -> Locations]
      BY <1>3 DEF EnqueueDispatch, GoTo, AfterTiming, Locations
    <2>3. CASE call[t].wanted \/ call[t].timed
      <3>1. PICK h \in Handles :
              /\ refs' = [refs EXCEPT ![h] = 1]
              /\ cmdOf' = [cmdOf EXCEPT ![h] = call[t].cmd]
              /\ status' = [status EXCEPT ![h] =
                              IF call[t].blocking THEN "complete" ELSE "queued"]
              /\ appRefs' = [appRefs EXCEPT ![h] = IF call[t].wanted THEN 1 ELSE 0]
              /\ call' = [call EXCEPT ![t] = [@ EXCEPT !.event = h, !.after = "addEvent"]]
        BY <1>3, <2>3 DEF EnqueueDispatch
      <3>2. call' \in [Threads -> Calls]
        BY <3>1, CallUpdate
      <3>3. /\ refs' \in [Handles -> Nat]
            /\ cmdOf' \in [Handles -> Commands \cup {NoCommand}]
            /\ status' \in [Handles -> {"queued", "complete", "terminated"}]
        BY <3>1, <2>1
      <3>4. appRefs' \in [Handles -> Int]
        BY <3>1
      <3>5. Types'
        BY <1>3, <2>2, <3>2, <3>3, <3>4 DEF EnqueueDispatch, layerVars
      <3>6. ASSUME NEW u \in Threads PROVE Shape(u)'
        <4>1. /\ pc' = [pc EXCEPT ![t] = IF call[t].timed THEN "addTiming"
                                         ELSE IF call[t].blocking THEN "lock"
                                              ELSE "addEvent"]
              /\ pc[t] = "dispatch" /\ mutex' = mutex /\ m_EventList' = m_EventList
          BY <1>3 DEF EnqueueDispatch, GoTo, AfterTiming, layerVars
        <4>2. CASE u = t
          BY <2>1, <3>1, <4>1, <4>2 DEF Shape, Calls, IsLocal
        <4>3. CASE u # t
          BY <3>1, <4>1, <4>3 DEF Shape, IsLocal
        <4> QED BY <4>2, <4>3
      <3> QED BY <3>5, <3>6
    <2>4. CASE ~(call[t].wanted \/ call[t].timed)
      <3>1. call' \in [Threads -> Calls]
        <4>1. call' = [call EXCEPT ![t].after = "addEvent"]
          BY <1>3, <2>4 DEF EnqueueDispatch
        <4> QED BY <4>1, CallUpdate
      <3>2. Types'
        BY <1>3, <2>2, <2>4, <3>1 DEF EnqueueDispatch, layerVars, driverVars
      <3>3. ASSUME NEW u \in Threads PROVE Shape(u)'
        BY <1>3, <2>4
           DEF EnqueueDispatch, Shape, GoTo, Calls, IsLocal, AfterTiming, layerVars
      <3> QED BY <3>2, <3>3
    <2> QED BY <2>3, <2>4
  <1>4. ASSUME NEW t \in Threads, EnqueueFails(t) PROVE Inv1'
    <2>1. Types'
      <3>1. call' \in [Threads -> Calls]
        BY <1>4, CallUpdate DEF EnqueueFails
      <3>2. pc' \in [Threads -> Locations]
        BY <1>4 DEF EnqueueFails, GoTo, AfterTiming, Locations
      <3> QED BY <1>4, <3>1, <3>2 DEF EnqueueFails, layerVars, driverVars
    <2>2. ASSUME NEW u \in Threads PROVE Shape(u)'
      BY <1>4
         DEF EnqueueFails, Shape, GoTo, Calls, IsLocal, Locations, AfterTiming,
             layerVars, driverVars
    <2> QED BY <2>1, <2>2
  <1>5. ASSUME NEW t \in Threads, AddTimingEvent(t) PROVE Inv1'
    <2>1. Types'
      <3>1. call[t].cmd \in Commands /\ call[t].event \in Handles
        BY <1>5 DEF AddTimingEvent, Shape
      <3>2. m_EventList' \in SUBSET Nodes /\ refs' \in [Handles -> Nat]
        BY <1>5, <3>1, CountType DEF AddTimingEvent, Nodes
      <3> QED BY <1>5, <3>2 DEF AddTimingEvent, GoTo, AfterTiming, Locations
    <2>2. ASSUME NEW u \in Threads PROVE Shape(u)'
      BY <1>5
         DEF AddTimingEvent, Shape, GoTo, Calls, IsLocal, Locations, AfterTiming,
             Selected, Retained, Nodes
    <2> QED BY <2>1, <2>2
  <1>6. ASSUME NEW t \in Threads, ReleaseLocalEvent(t) PROVE Inv1'
    <2>1. Types'
      <3>1. call[t].event \in Handles
        BY <1>6 DEF ReleaseLocalEvent, Shape
      <3>2. call' \in [Threads -> Calls]
        BY <1>6, CallUpdate DEF ReleaseLocalEvent
      <3>3. refs' \in [Handles -> Nat]
        BY <1>6, <3>1, CountType DEF ReleaseLocalEvent
      <3>4. pc' \in [Threads -> Locations]
        BY <1>6 DEF ReleaseLocalEvent, GoTo, AfterTiming, Locations
      <3> QED BY <1>6, <3>2, <3>3, <3>4 DEF ReleaseLocalEvent, layerVars
    <2>2. ASSUME NEW u \in Threads PROVE Shape(u)'
      BY <1>6 DEF ReleaseLocalEvent, Shape, GoTo, Calls, IsLocal, AfterTiming, layerVars
    <2> QED BY <2>1, <2>2
  <1>7. ASSUME NEW t \in Threads, AddEvent(t) PROVE Inv1'
    <2>1. Types'
      <3>1. call' \in [Threads -> Calls] /\ pc' \in [Threads -> Locations]
        BY <1>7, NoCallType DEF AddEvent, GoTo, Locations, Return
      <3>2. call[t].cmd \in Commands
        BY <1>7 DEF AddEvent, Shape
      <3>3. m_EventIdMap' \in [Handles -> Commands \cup {NoCommand}]
        <4>1. PICK h : \/ m_EventIdMap' = m_EventIdMap
                       \/ m_EventIdMap' = [m_EventIdMap EXCEPT ![h] = call[t].cmd]
          BY <1>7 DEF AddEvent
        <4> QED BY <4>1, <3>2
      <3> QED BY <1>7, <3>1, <3>3 DEF AddEvent, driverVars
    <2>2. ASSUME NEW u \in Threads PROVE Shape(u)'
      BY <1>7
         DEF AddEvent, Shape, GoTo, Calls, IsLocal, Locations, Return, NoCall, NoCommand,
             driverVars
    <2> QED BY <2>1, <2>2
  <1>8. ASSUME NEW t \in Threads, FinishAfterEnqueue(t) PROVE Inv1'
    <2>1. Types'
      <3>1. call' \in [Threads -> Calls]
        BY <1>8, CallUpdate, PendingType DEF FinishAfterEnqueue
      <3>2. pc' \in [Threads -> Locations]
        BY <1>8 DEF FinishAfterEnqueue, GoTo, Locations
      <3> QED BY <1>8, <3>1, <3>2 DEF FinishAfterEnqueue, layerVars, driverVars
    <2>2. ASSUME NEW u \in Threads PROVE Shape(u)'
      BY <1>8
         DEF FinishAfterEnqueue, Shape, GoTo, Calls, IsLocal, Locations, Pending, Nodes,
             layerVars, driverVars
    <2> QED BY <2>1, <2>2
  <1>9. ASSUME NEW t \in Threads, ScanBegin(t) PROVE Inv1'
    <2>1. Types'
      <3>1. call' \in [Threads -> Calls]
        BY <1>9, CallUpdate DEF ScanBegin
      <3>2. pc' \in [Threads -> Locations]
        BY <1>9 DEF ScanBegin, GoTo, Locations
      <3> QED BY <1>9, <3>1, <3>2 DEF ScanBegin, layerVars, driverVars
    <2>2. ASSUME NEW u \in Threads PROVE Shape(u)'
      BY <1>9
         DEF ScanBegin, Shape, GoTo, Calls, IsLocal, Locations, Nodes, layerVars,
             driverVars
    <2> QED BY <2>1, <2>2
  <1>10. ASSUME NEW t \in Threads, ScanNode(t) PROVE Inv1'
    <2>1. Types'
      <3>1. PICK n \in call[t].todo :
              /\ call' = [call EXCEPT ![t].todo = @ \ {n}]
              /\ refs' \in {refs, Released(n.event)}
              /\ timingCalls' = timingCalls \/ \E k \in {0, 1} :
                    timingCalls' = [timingCalls EXCEPT ![n.cmd] = @ + k]
              /\ m_EventList' \in {m_EventList, m_EventList \ {n}}
        BY <1>10 DEF ScanNode
      <3>2. call[t].todo \in SUBSET Nodes
        BY DEF Calls
      <3>3. n \in Nodes /\ n.event \in Handles /\ n.cmd \in Commands
        BY <3>2 DEF Nodes
      <3>4. call' \in [Threads -> Calls]
        <4> DEFINE c == [call[t] EXCEPT !.todo = @ \ {n}]
        <4>1. c \in Calls
          BY <3>2 DEF Calls
        <4>2. call' = [call EXCEPT ![t] = c]
          BY <3>1
        <4> HIDE DEF c
        <4> QED BY <4>1, <4>2
      <3>5. refs' \in [Handles -> Nat]
        BY <3>1, <3>3, CountType
      <3>6. timingCalls' \in [Commands -> Nat]
        BY <3>1, <3>3
      <3> QED BY <1>10, <3>1, <3>4, <3>5, <3>6 DEF ScanNode
    <2>2. ASSUME NEW u \in Threads PROVE Shape(u)'
      BY <1>10 DEF ScanNode, Shape, GoTo, Calls, IsLocal, Locations, Released, Nodes
    <2> QED BY <2>1, <2>2
  <1>11. ASSUME NEW t \in Threads, ScanEnd(t) PROVE Inv1'
    <2>1. Types'
      BY <1>11
         DEF ScanEnd, GoTo, Calls, IsLocal, Locations, Return, NoCall, NoCommand,
             layerVars, driverVars
    <2>2. ASSUME NEW u \in Threads PROVE Shape(u)'
      BY <1>11
         DEF ScanEnd, Shape, GoTo, Calls, IsLocal, Locations, Return, NoCall, NoCommand,
             layerVars, driverVars
    <2> QED BY <2>1, <2>2
  <1>12. ASSUME NEW t \in Threads, CheckRemoveEvent(t) PROVE Inv1'
    <2>1. Types'
      <3>1. m_EventIdMap' \in [Handles -> Commands \cup {NoCommand}]
        BY <1>12 DEF CheckRemoveEvent
      <3>2. pc' \in [Threads -> Locations]
        BY <1>12 DEF CheckRemoveEvent, GoTo, Locations
      <3> QED BY <1>12, <3>1, <3>2 DEF CheckRemoveEvent, driverVars
    <2>2. ASSUME NEW u \in Threads PROVE Shape(u)'
      BY <1>12 DEF CheckRemoveEvent, Shape, GoTo, Calls, IsLocal, Locations, NoCommand
    <2> QED BY <2>1, <2>2
  <1>13. ASSUME NEW t \in Threads, ReleaseEvent(t) PROVE Inv1'
    <2>1. Types'
      <3>1. call[t].event \in Handles
        BY <1>13 DEF ReleaseEvent, Shape
      <3>2. refs' \in [Handles -> Nat] /\ appRefs' \in [Handles -> Int]
        BY <1>13, <3>1, CountType DEF ReleaseEvent
      <3> QED BY <1>13, <3>2, NoCallType
            DEF ReleaseEvent, GoTo, Return, Locations, layerVars
    <2>2. ASSUME NEW u \in Threads PROVE Shape(u)'
      BY <1>13
         DEF ReleaseEvent, Shape, GoTo, Calls, IsLocal, Locations, Return, NoCall,
             NoCommand, Released, layerVars
    <2> QED BY <2>1, <2>2
  <1>14. ASSUME NEW t \in Threads, FinishReturns(t) PROVE Inv1'
    <2>1. Types'
      BY <1>14, WaitCallType, PendingType
         DEF FinishReturns, GoTo, Locations, layerVars, driverVars
    <2>2. ASSUME NEW u \in Threads PROVE Shape(u)'
      BY <1>14
         DEF FinishReturns, Shape, GoTo, Calls, IsLocal, Locations, Pending, NoCall,
             Nodes, NoCommand, layerVars, driverVars
    <2> QED BY <2>1, <2>2
  <1>15. ASSUME NEW t \in Threads, NEW h \in Handles, RetainEvent(t, h) PROVE Inv1'
    <2>1. Types'
      BY <1>15 DEF RetainEvent, Retained, threadVars, layerVars
    <2>2. ASSUME NEW u \in Threads PROVE Shape(u)'
      BY <1>15 DEF RetainEvent, Shape, Retained, threadVars, layerVars
    <2> QED BY <2>1, <2>2
  <1>16. ASSUME NEW t \in Threads, NEW h \in Handles, ReleaseEventBegin(t, h) PROVE Inv1'
    <2>1. Types'
      BY <1>16
         DEF ReleaseEventBegin, GoTo, Calls, IsLocal, Locations, NoCall, NoCommand,
             layerVars, driverVars
    <2>2. ASSUME NEW u \in Threads PROVE Shape(u)'
      BY <1>16
         DEF ReleaseEventBegin, Shape, GoTo, Calls, IsLocal, Locations, NoCall,
             NoCommand, layerVars, driverVars
    <2> QED BY <2>1, <2>2
  <1>17. ASSUME NEW h \in Handles, CommandEnds(h) PROVE Inv1'
    <2>1. Types'
      BY <1>17 DEF CommandEnds, threadVars, layerVars
    <2>2. ASSUME NEW u \in Threads PROVE Shape(u)'
      BY <1>17 DEF CommandEnds, Shape, threadVars, layerVars
    <2> QED BY <2>1, <2>2
  <1> HIDE DEF Inv1, Types
  <1> QED
    BY <1>1, <1>2, <1>3, <1>4, <1>5, <1>6, <1>7, <1>8, <1>9, <1>10, <1>11, <1>12,
       <1>13, <1>14, <1>15, <1>16, <1>17 DEF Next, Step, Call

-----------------------------------------------------------------------------
(* Layer 2: every enqueue has its own command, which is on the list at most *)
(* once and accounted at most once.                                         *)

InFlight(t) == pc[t] \in {"dispatch", "addTiming"}

OwnCommand ==
    \A t \in Threads :
        /\ call[t].cmd < enqueueCounter
        /\ \A u \in Threads :
              u # t => call[u].cmd = NoCommand \/ call[u].cmd # call[t].cmd

OneNode ==
    /\ \A n \in m_EventList : n.cmd < enqueueCounter
    /\ \A m, n \in m_EventList : m.cmd = n.cmd => m = n

NotYetListed ==
    \A t \in Threads : InFlight(t) =>
        /\ timingCalls[call[t].cmd] = 0
        /\ \A n \in m_EventList : n.cmd # call[t].cmd
        /\ \A u \in Threads : call[t].cmd \notin call[u].seen

NotYetUsed ==
    /\ \A c \in Commands : c >= enqueueCounter => timingCalls[c] = 0
    /\ \A t \in Threads : \A c \in call[t].seen : c < enqueueCounter

Inv2 == OwnCommand /\ OneNode /\ NotYetListed /\ NotYetUsed /\ AccountedOnce

\* No command exists at the start, so none is listed or accounted.
LEMMA Inv2Init == Init => Inv2
  BY BoundsAssumption
     DEF Init, Inv2, OwnCommand, OneNode, NotYetListed, NotYetUsed, AccountedOnce,
         InFlight, NoCall, NoCommand, Commands

\* Every step keeps commands distinct, listed once and accounted once.
LEMMA Inv2Step == Inv1 /\ Inv1' /\ Inv2 /\ [Next]_vars => Inv2'
  <1> SUFFICES ASSUME Inv1, Inv1', Inv2, [Next]_vars PROVE Inv2'
    OBVIOUS
  <1> USE BoundsAssumption
  <1> USE DEF Inv1, Types, Inv2
  <1>2. ASSUME NEW t \in Threads, EnqueueBegin(t) PROVE Inv2'
    <2>0. call'[t].cmd = enqueueCounter /\ \A u \in Threads \ {t} : call'[u] = call[u]
      <3>1. PICK kernel \in BOOLEAN, blocking \in BOOLEAN, wanted \in BOOLEAN,
                 timed \in BOOLEAN :
               call' = [call EXCEPT ![t] =
                  [NoCall EXCEPT !.cmd = enqueueCounter, !.kernel = kernel,
                     !.blocking = blocking, !.wanted = wanted, !.timed = timed]]
        BY <1>2, BeginCall
      <3> QED BY <3>1 DEF NoCall
    <2>1. OwnCommand'
      <3>1. \A u \in Threads : call[u].cmd \in Int /\ call[u].cmd < enqueueCounter
        BY DEF Calls, Commands, NoCommand, OwnCommand
      <3>2. enqueueCounter \in Nat /\ enqueueCounter' = enqueueCounter + 1
        BY <1>2 DEF EnqueueBegin
      <3>3. \A u \in Threads : call'[u].cmd < enqueueCounter'
        BY <2>0, <3>1, <3>2
      <3>4. ASSUME NEW u \in Threads, NEW w \in Threads, u # w
            PROVE  call'[u].cmd = NoCommand \/ call'[u].cmd # call'[w].cmd
        BY <2>0, <3>1, <3>2, <3>4 DEF OwnCommand
      <3> QED BY <3>3, <3>4 DEF OwnCommand
    <2>2. OneNode'
      BY <1>2
         DEF EnqueueBegin, GoTo, NoCall, layerVars, driverVars, OneNode, OwnCommand,
             NotYetListed, InFlight, Calls, Nodes, Commands, NoCommand, Shape
    <2>3. NotYetListed'
      BY <1>2
         DEF EnqueueBegin, GoTo, NoCall, layerVars, driverVars, OneNode, OwnCommand,
             NotYetListed, NotYetUsed, InFlight, Calls, Nodes, Commands, NoCommand, Shape
    <2>4. NotYetUsed'
      BY <1>2
         DEF EnqueueBegin, GoTo, NoCall, layerVars, driverVars, OneNode, NotYetUsed,
             Calls, Nodes, Commands, NoCommand, Shape
    <2>5. AccountedOnce'
      BY <1>2
         DEF EnqueueBegin, GoTo, NoCall, layerVars, driverVars, AccountedOnce, OneNode,
             NotYetListed, InFlight, Calls, Nodes, Commands, NoCommand, Shape
    <2> QED BY <2>1, <2>2, <2>3, <2>4, <2>5
  <1>3. ASSUME NEW t \in Threads, EnqueueDispatch(t) PROVE Inv2'
    <2>0. \A u \in Threads : call'[u].cmd = call[u].cmd /\ call'[u].seen = call[u].seen
      <3>1. CASE call[t].wanted \/ call[t].timed
        <4>1. PICK h \in Handles :
                call' = [call EXCEPT ![t] = [@ EXCEPT !.event = h, !.after = "addEvent"]]
          BY <1>3, <3>1 DEF EnqueueDispatch
        <4> QED BY <4>1 DEF Calls
      <3>2. CASE ~(call[t].wanted \/ call[t].timed)
        BY <1>3, <3>2 DEF EnqueueDispatch, Calls
      <3> QED BY <3>1, <3>2
    <2>01. /\ enqueueCounter' = enqueueCounter /\ m_EventList' = m_EventList
           /\ timingCalls' = timingCalls
      BY <1>3 DEF EnqueueDispatch, layerVars
    <2>1. OwnCommand'
      BY <2>0, <2>01 DEF OwnCommand
    <2>2. OneNode'
      BY <2>01 DEF OneNode
    <2>3. NotYetListed'
      <3>1. \A u \in Threads : InFlight(u)' => InFlight(u)
        BY <1>3 DEF EnqueueDispatch, GoTo, InFlight
      <3> QED BY <2>0, <2>01, <3>1 DEF NotYetListed
    <2>4. NotYetUsed'
      BY <1>3, <2>0 DEF EnqueueDispatch, layerVars, NotYetUsed
    <2>5. AccountedOnce'
      BY <2>01 DEF AccountedOnce
    <2> QED BY <2>1, <2>2, <2>3, <2>4, <2>5
  <1>4. ASSUME NEW t \in Threads, EnqueueFails(t) PROVE Inv2'
    <2>1. OwnCommand'
      BY <1>4
         DEF EnqueueFails, GoTo, AfterTiming, layerVars, driverVars, OwnCommand, Calls,
             Commands, NoCommand, Shape
    <2>2. OneNode'
      BY <1>4
         DEF EnqueueFails, GoTo, AfterTiming, layerVars, driverVars, OneNode, OwnCommand,
             NotYetListed, InFlight, Calls, Nodes, Commands, NoCommand, Shape
    <2>3. NotYetListed'
      BY <1>4
         DEF EnqueueFails, GoTo, AfterTiming, layerVars, driverVars, OneNode, OwnCommand,
             NotYetListed, NotYetUsed, InFlight, Calls, Nodes, Commands, NoCommand, Shape
    <2>4. NotYetUsed'
      BY <1>4
         DEF EnqueueFails, GoTo, AfterTiming, layerVars, driverVars, OneNode, NotYetUsed,
             Calls, Nodes, Commands, NoCommand, Shape
    <2>5. AccountedOnce'
      BY <1>4
         DEF EnqueueFails, GoTo, AfterTiming, layerVars, driverVars, AccountedOnce,
             OneNode, NotYetListed, InFlight, Calls, Nodes, Commands, NoCommand, Shape
    <2> QED BY <2>1, <2>2, <2>3, <2>4, <2>5
  <1>5. ASSUME NEW t \in Threads, AddTimingEvent(t) PROVE Inv2'
    <2>1. OwnCommand'
      BY <1>5
         DEF AddTimingEvent, GoTo, AfterTiming, OwnCommand, Calls, Commands, NoCommand,
             Shape
    <2>2. OneNode'
      <3>1. call[t].cmd < enqueueCounter /\ \A n \in m_EventList : n.cmd # call[t].cmd
        BY <1>5 DEF AddTimingEvent, OwnCommand, NotYetListed, InFlight
      <3>2. m_EventList' \subseteq m_EventList \cup
                             {[cmd |-> call[t].cmd, event |-> call[t].event]}
        BY <1>5 DEF AddTimingEvent
      <3>3. enqueueCounter' = enqueueCounter
        BY <1>5 DEF AddTimingEvent
      <3> QED BY <3>1, <3>2, <3>3 DEF OneNode, Nodes
    <2>3. NotYetListed'
      BY <1>5
         DEF AddTimingEvent, GoTo, AfterTiming, OneNode, OwnCommand, NotYetListed,
             NotYetUsed, InFlight, Calls, Nodes, Commands, NoCommand, Shape
    <2>4. NotYetUsed'
      BY <1>5
         DEF AddTimingEvent, GoTo, AfterTiming, OneNode, NotYetUsed, Calls, Nodes,
             Commands, NoCommand, Shape
    <2>5. AccountedOnce'
      BY <1>5
         DEF AddTimingEvent, GoTo, AfterTiming, AccountedOnce, OneNode, NotYetListed,
             InFlight, Calls, Nodes, Commands, NoCommand, Shape
    <2> QED BY <2>1, <2>2, <2>3, <2>4, <2>5
  <1>6. ASSUME NEW t \in Threads, ReleaseLocalEvent(t) PROVE Inv2'
    <2>1. OwnCommand'
      BY <1>6
         DEF ReleaseLocalEvent, GoTo, AfterTiming, layerVars, OwnCommand, Calls,
             Commands, NoCommand, Shape
    <2>2. OneNode'
      BY <1>6
         DEF ReleaseLocalEvent, GoTo, AfterTiming, layerVars, OneNode, OwnCommand,
             NotYetListed, InFlight, Calls, Nodes, Commands, NoCommand, Shape
    <2>3. NotYetListed'
      BY <1>6
         DEF ReleaseLocalEvent, GoTo, AfterTiming, layerVars, OneNode, OwnCommand,
             NotYetListed, NotYetUsed, InFlight, Calls, Nodes, Commands, NoCommand, Shape
    <2>4. NotYetUsed'
      BY <1>6
         DEF ReleaseLocalEvent, GoTo, AfterTiming, layerVars, OneNode, NotYetUsed, Calls,
             Nodes, Commands, NoCommand, Shape
    <2>5. AccountedOnce'
      BY <1>6
         DEF ReleaseLocalEvent, GoTo, AfterTiming, layerVars, AccountedOnce, OneNode,
             NotYetListed, InFlight, Calls, Nodes, Commands, NoCommand, Shape
    <2> QED BY <2>1, <2>2, <2>3, <2>4, <2>5
  <1>7. ASSUME NEW t \in Threads, AddEvent(t) PROVE Inv2'
    <2>0. \A u \in Threads : /\ call'[u].cmd \in {call[u].cmd, NoCommand}
                              /\ call'[u].seen \subseteq call[u].seen
      BY <1>7 DEF AddEvent, Return, NoCall
    <2>1. OwnCommand'
      BY <1>7, <2>0 DEF AddEvent, OwnCommand, NoCommand
    <2>2. OneNode'
      BY <1>7
         DEF AddEvent, GoTo, Return, NoCall, driverVars, OneNode, OwnCommand,
             NotYetListed, InFlight, Calls, Nodes, Commands, NoCommand, Shape
    <2>3. NotYetListed'
      <3>1. \A u \in Threads : InFlight(u)' => InFlight(u) /\ call'[u].cmd = call[u].cmd
        BY <1>7 DEF AddEvent, InFlight, GoTo, Return
      <3> QED BY <1>7, <2>0, <3>1 DEF AddEvent, NotYetListed
    <2>4. NotYetUsed'
      BY <1>7
         DEF AddEvent, GoTo, Return, NoCall, driverVars, OneNode, NotYetUsed, Calls,
             Nodes, Commands, NoCommand, Shape
    <2>5. AccountedOnce'
      BY <1>7
         DEF AddEvent, GoTo, Return, NoCall, driverVars, AccountedOnce, OneNode,
             NotYetListed, InFlight, Calls, Nodes, Commands, NoCommand, Shape
    <2> QED BY <2>1, <2>2, <2>3, <2>4, <2>5
  <1>8. ASSUME NEW t \in Threads, FinishAfterEnqueue(t) PROVE Inv2'
    <2>0. \A u \in Threads : /\ call'[u].cmd = call[u].cmd
                              /\ call'[u].seen \subseteq call[u].seen \cup Pending
      BY <1>8 DEF FinishAfterEnqueue, Calls
    <2>1. OwnCommand'
      BY <1>8, <2>0 DEF FinishAfterEnqueue, OwnCommand
    <2>2. OneNode'
      BY <1>8
         DEF FinishAfterEnqueue, GoTo, Pending, layerVars, driverVars, OneNode,
             OwnCommand, NotYetListed, InFlight, Calls, Nodes, Commands, NoCommand, Shape
    <2>3. NotYetListed'
      <3>1. \A u \in Threads : InFlight(u)' => InFlight(u)
        BY <1>8 DEF FinishAfterEnqueue, InFlight, GoTo
      <3> QED BY <1>8, <2>0, <3>1 DEF FinishAfterEnqueue, NotYetListed, layerVars, Pending
    <2>4. NotYetUsed'
      BY <1>8, <2>0 DEF FinishAfterEnqueue, NotYetUsed, OneNode, layerVars, Pending
    <2>5. AccountedOnce'
      BY <1>8
         DEF FinishAfterEnqueue, GoTo, Pending, layerVars, driverVars, AccountedOnce,
             OneNode, NotYetListed, InFlight, Calls, Nodes, Commands, NoCommand, Shape
    <2> QED BY <2>1, <2>2, <2>3, <2>4, <2>5
  <1>9. ASSUME NEW t \in Threads, ScanBegin(t) PROVE Inv2'
    <2>1. OwnCommand'
      BY <1>9
         DEF ScanBegin, GoTo, layerVars, driverVars, OwnCommand, Calls, Commands,
             NoCommand, Shape
    <2>2. OneNode'
      BY <1>9
         DEF ScanBegin, GoTo, layerVars, driverVars, OneNode, OwnCommand, NotYetListed,
             InFlight, Calls, Nodes, Commands, NoCommand, Shape
    <2>3. NotYetListed'
      BY <1>9
         DEF ScanBegin, GoTo, layerVars, driverVars, OneNode, OwnCommand, NotYetListed,
             NotYetUsed, InFlight, Calls, Nodes, Commands, NoCommand, Shape
    <2>4. NotYetUsed'
      BY <1>9
         DEF ScanBegin, GoTo, layerVars, driverVars, OneNode, NotYetUsed, Calls, Nodes,
             Commands, NoCommand, Shape
    <2>5. AccountedOnce'
      BY <1>9
         DEF ScanBegin, GoTo, layerVars, driverVars, AccountedOnce, OneNode,
             NotYetListed, InFlight, Calls, Nodes, Commands, NoCommand, Shape
    <2> QED BY <2>1, <2>2, <2>3, <2>4, <2>5
  <1>10. ASSUME NEW t \in Threads, ScanNode(t) PROVE Inv2'
    <2>0. \A u \in Threads : call'[u].cmd = call[u].cmd /\ call'[u].seen = call[u].seen
      BY <1>10 DEF ScanNode, Calls
    <2>a. PICK n \in m_EventList :
            /\ m_EventList' \in {m_EventList, m_EventList \ {n}}
            /\ \/ timingCalls' = timingCalls
               \/ /\ \E k \in {0, 1} : timingCalls' = [timingCalls EXCEPT ![n.cmd] = @ + k]
                  /\ m_EventList' = m_EventList \ {n}
      BY <1>10 DEF ScanNode, Shape
    <2>b. n.cmd \in Commands /\ n.cmd < enqueueCounter /\ timingCalls[n.cmd] = 0
      BY DEF Nodes, OneNode, AccountedOnce
    <2>c. \A c \in Commands \ {n.cmd} : timingCalls'[c] = timingCalls[c]
      BY <2>a, <2>b
    <2>d. timingCalls'[n.cmd] \in {0, 1} /\ (timingCalls'[n.cmd] = 1 => m_EventList' = m_EventList \ {n})
      BY <2>a, <2>b
    <2>1. OwnCommand'
      BY <1>10 DEF ScanNode, OwnCommand, Calls, Commands, NoCommand, Shape
    <2>2. OneNode'
      BY <1>10, <2>a DEF ScanNode, OneNode
    <2>3. NotYetListed'
      <3>1. \A u \in Threads : InFlight(u)' => InFlight(u) /\ call[u].cmd \in Commands
        BY <1>10 DEF ScanNode, InFlight, Shape
      <3> QED BY <1>10, <2>0, <2>a, <2>c, <3>1 DEF ScanNode, NotYetListed
    <2>4. NotYetUsed'
      BY <1>10, <2>0, <2>b, <2>c DEF ScanNode, NotYetUsed, Commands
    <2>5. AccountedOnce'
      BY <1>10, <2>a, <2>b, <2>c, <2>d DEF AccountedOnce, OneNode
    <2> QED BY <2>1, <2>2, <2>3, <2>4, <2>5
  <1>11. ASSUME NEW t \in Threads, ScanEnd(t) PROVE Inv2'
    <2>1. OwnCommand'
      BY <1>11
         DEF ScanEnd, GoTo, Return, NoCall, layerVars, driverVars, OwnCommand, Calls,
             Commands, NoCommand, Shape
    <2>2. OneNode'
      BY <1>11
         DEF ScanEnd, GoTo, Return, NoCall, layerVars, driverVars, OneNode, OwnCommand,
             NotYetListed, InFlight, Calls, Nodes, Commands, NoCommand, Shape
    <2>3. NotYetListed'
      BY <1>11
         DEF ScanEnd, GoTo, Return, NoCall, layerVars, driverVars, OneNode, OwnCommand,
             NotYetListed, NotYetUsed, InFlight, Calls, Nodes, Commands, NoCommand, Shape
    <2>4. NotYetUsed'
      BY <1>11
         DEF ScanEnd, GoTo, Return, NoCall, layerVars, driverVars, OneNode, NotYetUsed,
             Calls, Nodes, Commands, NoCommand, Shape
    <2>5. AccountedOnce'
      BY <1>11
         DEF ScanEnd, GoTo, Return, NoCall, layerVars, driverVars, AccountedOnce,
             OneNode, NotYetListed, InFlight, Calls, Nodes, Commands, NoCommand, Shape
    <2> QED BY <2>1, <2>2, <2>3, <2>4, <2>5
  <1>12. ASSUME NEW t \in Threads, CheckRemoveEvent(t) PROVE Inv2'
    <2>1. OwnCommand'
      BY <1>12 DEF CheckRemoveEvent, GoTo, OwnCommand, Calls, Commands, NoCommand, Shape
    <2>2. OneNode'
      BY <1>12
         DEF CheckRemoveEvent, GoTo, OneNode, OwnCommand, NotYetListed, InFlight, Calls,
             Nodes, Commands, NoCommand, Shape
    <2>3. NotYetListed'
      BY <1>12
         DEF CheckRemoveEvent, GoTo, OneNode, OwnCommand, NotYetListed, NotYetUsed,
             InFlight, Calls, Nodes, Commands, NoCommand, Shape
    <2>4. NotYetUsed'
      BY <1>12
         DEF CheckRemoveEvent, GoTo, OneNode, NotYetUsed, Calls, Nodes, Commands,
             NoCommand, Shape
    <2>5. AccountedOnce'
      BY <1>12
         DEF CheckRemoveEvent, GoTo, AccountedOnce, OneNode, NotYetListed, InFlight,
             Calls, Nodes, Commands, NoCommand, Shape
    <2> QED BY <2>1, <2>2, <2>3, <2>4, <2>5
  <1>13. ASSUME NEW t \in Threads, ReleaseEvent(t) PROVE Inv2'
    <2>1. OwnCommand'
      BY <1>13
         DEF ReleaseEvent, GoTo, Return, NoCall, layerVars, OwnCommand, Calls, Commands,
             NoCommand, Shape
    <2>2. OneNode'
      BY <1>13
         DEF ReleaseEvent, GoTo, Return, NoCall, layerVars, OneNode, OwnCommand,
             NotYetListed, InFlight, Calls, Nodes, Commands, NoCommand, Shape
    <2>3. NotYetListed'
      BY <1>13
         DEF ReleaseEvent, GoTo, Return, NoCall, layerVars, OneNode, OwnCommand,
             NotYetListed, NotYetUsed, InFlight, Calls, Nodes, Commands, NoCommand, Shape
    <2>4. NotYetUsed'
      BY <1>13
         DEF ReleaseEvent, GoTo, Return, NoCall, layerVars, OneNode, NotYetUsed, Calls,
             Nodes, Commands, NoCommand, Shape
    <2>5. AccountedOnce'
      BY <1>13
         DEF ReleaseEvent, GoTo, Return, NoCall, layerVars, AccountedOnce, OneNode,
             NotYetListed, InFlight, Calls, Nodes, Commands, NoCommand, Shape
    <2> QED BY <2>1, <2>2, <2>3, <2>4, <2>5
  <1>14. ASSUME NEW t \in Threads, FinishReturns(t) PROVE Inv2'
    <2>1. OwnCommand'
      BY <1>14
         DEF FinishReturns, GoTo, NoCall, Pending, layerVars, driverVars, OwnCommand,
             Calls, Commands, NoCommand, Shape
    <2>2. OneNode'
      BY <1>14
         DEF FinishReturns, GoTo, NoCall, Pending, layerVars, driverVars, OneNode,
             OwnCommand, NotYetListed, InFlight, Calls, Nodes, Commands, NoCommand, Shape
    <2>3. NotYetListed'
      BY <1>14
         DEF FinishReturns, GoTo, NoCall, Pending, layerVars, driverVars, OneNode,
             OwnCommand, NotYetListed, NotYetUsed, InFlight, Calls, Nodes, Commands,
             NoCommand, Shape
    <2>4. NotYetUsed'
      BY <1>14
         DEF FinishReturns, GoTo, NoCall, Pending, layerVars, driverVars, OneNode,
             NotYetUsed, Calls, Nodes, Commands, NoCommand, Shape
    <2>5. AccountedOnce'
      BY <1>14
         DEF FinishReturns, GoTo, NoCall, Pending, layerVars, driverVars, AccountedOnce,
             OneNode, NotYetListed, InFlight, Calls, Nodes, Commands, NoCommand, Shape
    <2> QED BY <2>1, <2>2, <2>3, <2>4, <2>5
  <1>15. ASSUME NEW t \in Threads, NEW h \in Handles, RetainEvent(t, h) PROVE Inv2'
    <2>1. OwnCommand'
      BY <1>15
         DEF RetainEvent, threadVars, layerVars, OwnCommand, Calls, Commands, NoCommand,
             Shape
    <2>2. OneNode'
      BY <1>15
         DEF RetainEvent, threadVars, layerVars, OneNode, OwnCommand, NotYetListed,
             InFlight, Calls, Nodes, Commands, NoCommand, Shape
    <2>3. NotYetListed'
      BY <1>15
         DEF RetainEvent, threadVars, layerVars, OneNode, OwnCommand, NotYetListed,
             NotYetUsed, InFlight, Calls, Nodes, Commands, NoCommand, Shape
    <2>4. NotYetUsed'
      BY <1>15
         DEF RetainEvent, threadVars, layerVars, OneNode, NotYetUsed, Calls, Nodes,
             Commands, NoCommand, Shape
    <2>5. AccountedOnce'
      BY <1>15
         DEF RetainEvent, threadVars, layerVars, AccountedOnce, OneNode, NotYetListed,
             InFlight, Calls, Nodes, Commands, NoCommand, Shape
    <2> QED BY <2>1, <2>2, <2>3, <2>4, <2>5
  <1>16. ASSUME NEW t \in Threads, NEW h \in Handles, ReleaseEventBegin(t, h) PROVE Inv2'
    <2>1. OwnCommand'
      BY <1>16
         DEF ReleaseEventBegin, GoTo, NoCall, layerVars, driverVars, OwnCommand, Calls,
             Commands, NoCommand, Shape
    <2>2. OneNode'
      BY <1>16
         DEF ReleaseEventBegin, GoTo, NoCall, layerVars, driverVars, OneNode, OwnCommand,
             NotYetListed, InFlight, Calls, Nodes, Commands, NoCommand, Shape
    <2>3. NotYetListed'
      BY <1>16
         DEF ReleaseEventBegin, GoTo, NoCall, layerVars, driverVars, OneNode, OwnCommand,
             NotYetListed, NotYetUsed, InFlight, Calls, Nodes, Commands, NoCommand, Shape
    <2>4. NotYetUsed'
      BY <1>16
         DEF ReleaseEventBegin, GoTo, NoCall, layerVars, driverVars, OneNode, NotYetUsed,
             Calls, Nodes, Commands, NoCommand, Shape
    <2>5. AccountedOnce'
      BY <1>16
         DEF ReleaseEventBegin, GoTo, NoCall, layerVars, driverVars, AccountedOnce,
             OneNode, NotYetListed, InFlight, Calls, Nodes, Commands, NoCommand, Shape
    <2> QED BY <2>1, <2>2, <2>3, <2>4, <2>5
  <1>17. ASSUME NEW h \in Handles, CommandEnds(h) PROVE Inv2'
    <2>1. OwnCommand'
      BY <1>17
         DEF CommandEnds, threadVars, layerVars, OwnCommand, Calls, Commands, NoCommand,
             Shape
    <2>2. OneNode'
      BY <1>17
         DEF CommandEnds, threadVars, layerVars, OneNode, OwnCommand, NotYetListed,
             InFlight, Calls, Nodes, Commands, NoCommand, Shape
    <2>3. NotYetListed'
      BY <1>17
         DEF CommandEnds, threadVars, layerVars, OneNode, OwnCommand, NotYetListed,
             NotYetUsed, InFlight, Calls, Nodes, Commands, NoCommand, Shape
    <2>4. NotYetUsed'
      BY <1>17
         DEF CommandEnds, threadVars, layerVars, OneNode, NotYetUsed, Calls, Nodes,
             Commands, NoCommand, Shape
    <2>5. AccountedOnce'
      BY <1>17
         DEF CommandEnds, threadVars, layerVars, AccountedOnce, OneNode, NotYetListed,
             InFlight, Calls, Nodes, Commands, NoCommand, Shape
    <2> QED BY <2>1, <2>2, <2>3, <2>4, <2>5
  <1>1. CASE UNCHANGED vars
    BY <1>1 DEF vars, threadVars, layerVars, driverVars, OwnCommand, OneNode, NotYetListed,
                NotYetUsed, AccountedOnce, InFlight
  <1> HIDE DEF Inv1, Types, Inv2
  <1> QED
    BY <1>1, <1>2, <1>3, <1>4, <1>5, <1>6, <1>7, <1>8, <1>9, <1>10, <1>11, <1>12,
       <1>13, <1>14, <1>15, <1>16, <1>17 DEF Next, Step, Call

-----------------------------------------------------------------------------
(* Layer 3: reference counts. *)

\* A command about to be listed still stands behind its event.
EventStandsForCommand ==
    \A t \in Threads : pc[t] = "addTiming" => cmdOf[call[t].event] = call[t].cmd

\* Neither the application nor another thread knows a local event.
LocalEventsArePrivate ==
    \A t, u \in Threads :
        IsLocal(call[t]) /\ call[t].event # NoHandle =>
            /\ appRefs[call[t].event] = 0
            /\ u # t => call[u].event # call[t].event

\* The application does not release more than it owns.
ClaimsAreOwned == \A h \in Handles : Cardinality(Claims(h)) <= appRefs[h]

Inv3 == /\ ReferencesBalance /\ NodesAreAlive /\ EventStandsForCommand
        /\ LocalEventsArePrivate /\ ClaimsAreOwned

\* Finitely many threads hold a given application event in a call.
LEMMA ClaimsFinite ==
  ASSUME NEW h PROVE IsFiniteSet(Claims(h)) /\ Cardinality(Claims(h)) \in Nat
  <1>1. Claims(h) \subseteq Threads
    BY DEF Claims
  <1> QED BY <1>1, ThreadsAssumption, FS_Subset, FS_CardinalityType

\* The application never owns a negative number of references.
LEMMA OwnedIsNat == Inv1 /\ Inv3 => appRefs \in [Handles -> Nat]
  BY ClaimsFinite DEF Inv1, Types, Inv3, ClaimsAreOwned

\* A dead event has no owner, so nobody knows its handle.
LEMMA DeadIsUnknown ==
  ASSUME Inv1, Inv3, NEW h \in Handles, refs[h] = 0
  PROVE  /\ appRefs[h] = 0 /\ Claims(h) = {}
         /\ \A n \in m_EventList : n.event # h
         /\ \A t \in Threads : call[t].event # h
  <1>1. appRefs[h] \in Nat
    BY OwnedIsNat
  <1>2. Listed(h) \in {0, 1} /\ LocalTo(h) \in {0, 1}
    BY DEF Listed, LocalTo
  <1>3. appRefs[h] = 0 /\ Listed(h) = 0 /\ LocalTo(h) = 0
    BY <1>1, <1>2 DEF Inv3, ReferencesBalance
  <1>4. Claims(h) = {}
    BY <1>3, ClaimsFinite, FS_EmptySet DEF Inv3, ClaimsAreOwned
  <1>5. \A n \in m_EventList : n.event # h
    BY <1>3 DEF Listed
  <1>6. \A t \in Threads : call[t].event # h
    BY <1>3, <1>4 DEF LocalTo, Claims
  <1> QED BY <1>3, <1>4, <1>5, <1>6

\* An event the application owns a reference of is alive.
LEMMA OwnedIsAlive ==
  ASSUME Inv1, Inv3, NEW h \in Handles, appRefs[h] > 0
  PROVE  refs[h] > 0
  BY DEF Inv1, Types, Inv3, ReferencesBalance, Listed, LocalTo

\* How the calls may change without disturbing the layer: application events
\* may be dropped, local ones stay.
SameEvents ==
    \A u \in Threads :
        /\ \A h \in Handles : call'[u].event = h =>
               call[u].event = h /\ IsLocal(call[u])' = IsLocal(call[u])
        /\ IsLocal(call[u]) /\ call[u].event # NoHandle =>
               call'[u].event = call[u].event /\ IsLocal(call[u])'

\* Under SameEvents no call lays claim to an event it did not claim.
LEMMA ClaimsShrink ==
  ASSUME NEW h \in Handles, SameEvents
  PROVE  /\ Cardinality(Claims(h)') <= Cardinality(Claims(h))
         /\ Cardinality(Claims(h)') \in Nat
  <1>1. Claims(h)' \subseteq Claims(h)
    BY DEF Claims, SameEvents
  <1> QED BY <1>1, ClaimsFinite, FS_Subset, FS_CardinalityType

\* Under SameEvents the local events are those there were.
LEMMA LocalsStay ==
  ASSUME NEW h \in Handles, SameEvents PROVE LocalTo(h)' = LocalTo(h)
  BY HandlesAssumption DEF LocalTo, SameEvents

\* Under SameEvents local events stay private.
LEMMA PrivateStay ==
  ASSUME Inv1, Inv1', SameEvents, UNCHANGED appRefs, LocalEventsArePrivate
  PROVE  LocalEventsArePrivate'
  <1> USE HandlesAssumption
  <1> SUFFICES ASSUME NEW t \in Threads, NEW u \in Threads,
                      IsLocal(call'[t]), call'[t].event # NoHandle
               PROVE  /\ appRefs[call'[t].event] = 0
                      /\ u # t => call'[u].event # call'[t].event
    BY DEF LocalEventsArePrivate, IsLocal
  <1>1. call'[t].event \in Handles
    BY DEF Inv1, Types, Calls
  <1>2. IsLocal(call[t]) /\ call[t].event = call'[t].event
    BY <1>1 DEF SameEvents, IsLocal
  <1> QED BY <1>1, <1>2 DEF SameEvents, LocalEventsArePrivate

\* Steps that touch neither counts nor list.
LEMMA QuietStep ==
  ASSUME Inv1, Inv1', Inv3, SameEvents, UNCHANGED <<refs, appRefs, m_EventList, cmdOf>>,
         \A u \in Threads : pc'[u] = "addTiming" =>
             pc[u] = "addTiming" /\ call'[u] = call[u]
  PROVE  Inv3'
  <1>1. ReferencesBalance'
    BY LocalsStay DEF Inv3, ReferencesBalance, Listed
  <1>2. NodesAreAlive'
    BY DEF Inv3, NodesAreAlive
  <1>3. EventStandsForCommand'
    BY DEF Inv3, EventStandsForCommand
  <1>4. LocalEventsArePrivate'
    BY PrivateStay DEF Inv3
  <1>5. ClaimsAreOwned'
    <2> SUFFICES ASSUME NEW h \in Handles PROVE Cardinality(Claims(h)') <= appRefs[h]
      BY DEF ClaimsAreOwned
    <2> QED BY ClaimsShrink, ClaimsFinite DEF Inv3, ClaimsAreOwned, Inv1, Types
  <1> QED BY <1>1, <1>2, <1>3, <1>4, <1>5 DEF Inv3

\* Nothing is counted, listed or claimed at the start.
LEMMA Inv3Init == Init => Inv3
  <1> SUFFICES ASSUME Init PROVE Inv3
    OBVIOUS
  <1>1. ASSUME NEW h \in Handles PROVE Claims(h) = {} /\ LocalTo(h) = 0 /\ Listed(h) = 0
    BY HandlesAssumption DEF Init, NoCall, Claims, LocalTo, Listed, IsLocal
  <1>2. ReferencesBalance /\ ClaimsAreOwned
    BY <1>1, FS_EmptySet DEF Init, ReferencesBalance, ClaimsAreOwned
  <1> QED BY <1>2 DEF Init, Inv3, NodesAreAlive, EventStandsForCommand,
                      LocalEventsArePrivate, NoCall, IsLocal

\* Every step keeps the reference counts balanced, and what that rests on.
LEMMA Inv3Step ==
  ASSUME Inv1, Inv1', Inv2, Inv2', Inv3, [Next]_vars PROVE Inv3'
  <1> USE HandlesAssumption
  <1> DEFINE Ready(u) == pc'[u] = "addTiming" => pc[u] = "addTiming" /\ call'[u] = call[u]
  <1>1. CASE UNCHANGED vars
    <2>1. SameEvents
      BY <1>1 DEF vars, threadVars, SameEvents, IsLocal
    <2> QED BY <1>1, <2>1, QuietStep DEF vars, threadVars, layerVars, driverVars
  <1>2. ASSUME NEW t \in Threads, EnqueueBegin(t) PROVE Inv3'
    <2>1. SameEvents
      <3>1. PICK kernel \in BOOLEAN, blocking \in BOOLEAN, wanted \in BOOLEAN,
                 timed \in BOOLEAN :
               call' = [call EXCEPT ![t] =
                  [NoCall EXCEPT !.cmd = enqueueCounter, !.kernel = kernel,
                     !.blocking = blocking, !.wanted = wanted, !.timed = timed]]
        BY <1>2, BeginCall
      <3> QED BY <1>2, <3>1
                 DEF EnqueueBegin, SameEvents, IsLocal, NoCall, Inv1, Types, Shape
    <2>2. \A u \in Threads : Ready(u)
      BY <1>2 DEF EnqueueBegin, GoTo, Inv1, Types, Shape, NoCall, layerVars, driverVars
    <2> QED BY <1>2, <2>1, <2>2, QuietStep DEF EnqueueBegin, NoCall, layerVars, driverVars
  <1>3. ASSUME NEW t \in Threads, EnqueueFails(t) PROVE Inv3'
    <2>1. SameEvents
      BY <1>3
         DEF EnqueueFails, SameEvents, IsLocal, GoTo, Inv1, Types, Calls, Shape,
             AfterTiming, layerVars, driverVars
    <2>2. \A u \in Threads : Ready(u)
      BY <1>3 DEF EnqueueFails, GoTo, Inv1, Types, Shape, AfterTiming, layerVars, driverVars
    <2> QED BY <1>3, <2>1, <2>2, QuietStep
               DEF EnqueueFails, AfterTiming, layerVars, driverVars
  <1>4. ASSUME NEW t \in Threads, AddEvent(t) PROVE Inv3'
    <2>1. SameEvents
      BY <1>4
         DEF AddEvent, SameEvents, IsLocal, GoTo, Inv1, Types, Calls, Shape, Return,
             NoCall, driverVars
    <2>2. \A u \in Threads : Ready(u)
      BY <1>4 DEF AddEvent, GoTo, Inv1, Types, Shape, Return, NoCall, driverVars
    <2> QED BY <1>4, <2>1, <2>2, QuietStep DEF AddEvent, Return, NoCall, driverVars
  <1>5. ASSUME NEW t \in Threads, FinishAfterEnqueue(t) PROVE Inv3'
    <2>1. SameEvents
      BY <1>5
         DEF FinishAfterEnqueue, SameEvents, IsLocal, GoTo, Inv1, Types, Calls, Shape,
             layerVars, driverVars
    <2>2. \A u \in Threads : Ready(u)
      BY <1>5 DEF FinishAfterEnqueue, GoTo, Inv1, Types, Shape, layerVars, driverVars
    <2> QED BY <1>5, <2>1, <2>2, QuietStep DEF FinishAfterEnqueue, layerVars, driverVars
  <1>6. ASSUME NEW t \in Threads, ScanBegin(t) PROVE Inv3'
    <2>1. SameEvents
      BY <1>6
         DEF ScanBegin, SameEvents, IsLocal, GoTo, Inv1, Types, Calls, Shape, layerVars,
             driverVars
    <2>2. \A u \in Threads : Ready(u)
      BY <1>6 DEF ScanBegin, GoTo, Inv1, Types, Shape, layerVars, driverVars
    <2> QED BY <1>6, <2>1, <2>2, QuietStep DEF ScanBegin, layerVars, driverVars
  <1>7. ASSUME NEW t \in Threads, ScanEnd(t) PROVE Inv3'
    <2>1. SameEvents
      BY <1>7
         DEF ScanEnd, SameEvents, IsLocal, GoTo, Inv1, Types, Calls, Shape, Return,
             NoCall, layerVars, driverVars
    <2>2. \A u \in Threads : Ready(u)
      BY <1>7 DEF ScanEnd, GoTo, Inv1, Types, Shape, Return, NoCall, layerVars, driverVars
    <2> QED BY <1>7, <2>1, <2>2, QuietStep
               DEF ScanEnd, Return, NoCall, layerVars, driverVars
  <1>8. ASSUME NEW t \in Threads, CheckRemoveEvent(t) PROVE Inv3'
    <2>1. SameEvents
      BY <1>8
         DEF CheckRemoveEvent, SameEvents, IsLocal, GoTo, Inv1, Types, Calls, Shape,
             driverVars
    <2>2. \A u \in Threads : Ready(u)
      BY <1>8 DEF CheckRemoveEvent, GoTo, Inv1, Types, Shape, driverVars
    <2> QED BY <1>8, <2>1, <2>2, QuietStep DEF CheckRemoveEvent, driverVars
  <1>9. ASSUME NEW t \in Threads, FinishReturns(t) PROVE Inv3'
    <2>1. SameEvents
      BY <1>9
         DEF FinishReturns, SameEvents, IsLocal, GoTo, Inv1, Types, Calls, Shape, NoCall,
             layerVars, driverVars
    <2>2. \A u \in Threads : Ready(u)
      BY <1>9 DEF FinishReturns, GoTo, Inv1, Types, Shape, NoCall, layerVars, driverVars
    <2> QED BY <1>9, <2>1, <2>2, QuietStep DEF FinishReturns, NoCall, layerVars, driverVars
  <1>10. ASSUME NEW h \in Handles, CommandEnds(h) PROVE Inv3'
    <2>1. SameEvents
      BY <1>10
         DEF CommandEnds, SameEvents, IsLocal, GoTo, Inv1, Types, Calls, Shape,
             threadVars, layerVars
    <2>2. \A u \in Threads : Ready(u)
      BY <1>10 DEF CommandEnds, GoTo, Inv1, Types, Shape, threadVars, layerVars
    <2> QED BY <1>10, <2>1, <2>2, QuietStep DEF CommandEnds, threadVars, layerVars
  <1>11. ASSUME NEW t \in Threads, EnqueueDispatch(t) PROVE Inv3'
    <2>1. CASE call[t].wanted \/ call[t].timed
      <3>1. PICK h \in Handles :
              /\ refs[h] = 0
              /\ refs' = [refs EXCEPT ![h] = 1]
              /\ cmdOf' = [cmdOf EXCEPT ![h] = call[t].cmd]
              /\ appRefs' = [appRefs EXCEPT ![h] = IF call[t].wanted THEN 1 ELSE 0]
              /\ call' = [call EXCEPT ![t] = [@ EXCEPT !.event = h, !.after = "addEvent"]]
        BY <1>11, <2>1 DEF EnqueueDispatch, Free
      <3>2. m_EventList' = m_EventList /\ call[t].event = NoHandle
        BY <1>11 DEF EnqueueDispatch, layerVars, Inv1, Shape
      <3>3. /\ appRefs[h] = 0 /\ Claims(h) = {}
            /\ \A n \in m_EventList : n.event # h
            /\ \A u \in Threads : call[u].event # h
        BY <3>1, DeadIsUnknown
      <3>4. /\ call'[t].event = h /\ IsLocal(call'[t]) = IsLocal(call[t])
            /\ IsLocal(call[t]) = ~call[t].wanted
            /\ \A u \in Threads \ {t} : call'[u] = call[u]
        BY <2>1, <3>1 DEF Inv1, Types, Calls, IsLocal
      <3>5. ASSUME NEW g \in Handles, g # h
            PROVE  Claims(g)' = Claims(g) /\ LocalTo(g)' = LocalTo(g)
        BY <3>2, <3>4, <3>5 DEF Claims, LocalTo, IsLocal
      <3>6. Claims(h)' = IF call[t].wanted THEN {t} ELSE {}
        BY <3>3, <3>4 DEF Claims, IsLocal
      <3>7. LocalTo(h)' = IF call[t].wanted THEN 0 ELSE 1
        BY <3>3, <3>4 DEF LocalTo, IsLocal
      <3>8. \A g \in Handles : Listed(g)' = Listed(g)
        BY <3>2 DEF Listed
      <3>9. ReferencesBalance'
        BY <3>1, <3>3, <3>5, <3>7, <3>8
           DEF Inv3, ReferencesBalance, Inv1, Types, Listed
      <3>10. NodesAreAlive'
        BY <3>1, <3>2, <3>3 DEF Inv3, NodesAreAlive, Inv1, Types, Nodes
      <3>11. EventStandsForCommand'
        <4> SUFFICES ASSUME NEW u \in Threads, pc'[u] = "addTiming"
                     PROVE  cmdOf'[call'[u].event] = call'[u].cmd
          BY DEF EventStandsForCommand
        <4>1. CASE u = t
          BY <3>1, <3>4, <4>1 DEF Inv1, Types, Calls
        <4>2. CASE u # t
          <5>1. pc[u] = "addTiming" /\ call'[u] = call[u]
            BY <1>11, <3>4, <4>2 DEF EnqueueDispatch, GoTo, Inv1, Types
          <5>2. cmdOf[call[u].event] = call[u].cmd /\ call[u].event \in Handles
            BY <5>1 DEF Inv3, EventStandsForCommand, Inv1, Shape
          <5> QED BY <3>1, <3>3, <5>1, <5>2 DEF Inv1, Types
        <4> QED BY <4>1, <4>2
      <3>12. LocalEventsArePrivate'
        <4> SUFFICES ASSUME NEW u \in Threads, NEW w \in Threads,
                            IsLocal(call'[u]), call'[u].event # NoHandle
                     PROVE  /\ appRefs'[call'[u].event] = 0
                            /\ w # u => call'[w].event # call'[u].event
          BY DEF LocalEventsArePrivate, IsLocal
        <4>1. CASE u = t
          <5>1. ~call[t].wanted /\ call'[u].event = h /\ appRefs'[h] = 0
            BY <3>1, <3>4, <4>1 DEF Inv1, Types
          <5> QED BY <3>3, <3>4, <4>1, <5>1
        <4>2. CASE u # t
          <5>1. /\ call'[u] = call[u] /\ call[u].event # h /\ call[u].event \in Handles
                /\ appRefs[call[u].event] = 0
            BY <3>3, <3>4, <4>2 DEF Inv3, LocalEventsArePrivate, Inv1, Types, Calls
          <5> QED BY <3>1, <3>2, <3>4, <4>2, <5>1
                     DEF Inv3, LocalEventsArePrivate, Inv1, Types
        <4> QED BY <4>1, <4>2
      <3>13. ClaimsAreOwned'
        <4> SUFFICES ASSUME NEW g \in Handles PROVE Cardinality(Claims(g)') <= appRefs'[g]
          BY DEF ClaimsAreOwned
        <4>1. CASE g = h
          <5>1. Cardinality({t}) = 1 /\ Cardinality({}) = 0
            BY FS_Singleton, FS_EmptySet
          <5>2. appRefs'[h] = IF call[t].wanted THEN 1 ELSE 0
            BY <3>1 DEF Inv1, Types
          <5>3. Cardinality(Claims(h)') = IF call[t].wanted THEN 1 ELSE 0
            BY <3>6, <5>1
          <5>4. Cardinality(Claims(h)') <= appRefs'[h]
            BY <5>2, <5>3
          <5> QED BY <4>1, <5>4
        <4>2. CASE g # h
          BY <3>1, <3>5, <4>2 DEF Inv3, ClaimsAreOwned, Inv1, Types
        <4> QED BY <4>1, <4>2
      <3> QED BY <3>9, <3>10, <3>11, <3>12, <3>13 DEF Inv3
    <2>2. CASE ~(call[t].wanted \/ call[t].timed)
      <3>1. SameEvents
        BY <1>11, <2>2 DEF EnqueueDispatch, SameEvents, IsLocal, Inv1, Types, Calls, Shape
      <3>2. \A u \in Threads : Ready(u)
        BY <1>11, <2>2 DEF EnqueueDispatch, GoTo, AfterTiming, Inv1, Types, Shape
      <3> QED BY <1>11, <2>2, <3>1, <3>2, QuietStep
                 DEF EnqueueDispatch, layerVars, driverVars
    <2> QED BY <2>1, <2>2
  <1>12. ASSUME NEW t \in Threads, AddTimingEvent(t) PROVE Inv3'
    <2> DEFINE h == call[t].event
               m == [cmd |-> call[t].cmd, event |-> h]
    <2>1. SameEvents
      BY <1>12 DEF AddTimingEvent, SameEvents, IsLocal
    <2>2. \A u \in Threads : Ready(u)
      BY <1>12 DEF AddTimingEvent, GoTo, AfterTiming, Inv1, Types
    <2>3. CASE ~Selected(call[t])
      BY <1>12, <2>1, <2>2, <2>3, QuietStep DEF AddTimingEvent
    <2>4. CASE Selected(call[t])
      <3>1. /\ h \in Handles /\ cmdOf[h] = call[t].cmd
            /\ \A n \in m_EventList : n.cmd # call[t].cmd
        BY <1>12 DEF AddTimingEvent, Inv1, Shape, Inv3, EventStandsForCommand,
                     Inv2, NotYetListed, InFlight
      <3>2. \A n \in m_EventList : n.event # h
        BY <3>1 DEF Inv3, NodesAreAlive
      <3>3. refs[h] > 0
        <4>1. CASE IsLocal(call[t])
          BY <3>1, <4>1, OwnedIsNat
             DEF LocalTo, Listed, Inv3, ReferencesBalance, Inv1, Types
        <4>2. CASE ~IsLocal(call[t])
          <5>1. t \in Claims(h)
            BY <4>2 DEF Claims
          <5>2. Cardinality(Claims(h)) > 0
            BY <5>1, ClaimsFinite, FS_EmptySet
          <5> QED BY <3>1, <5>2, ClaimsFinite, OwnedIsAlive
                     DEF Inv3, ClaimsAreOwned, Inv1, Types
        <4> QED BY <4>1, <4>2
      <3>4. /\ m_EventList' = m_EventList \cup {m}
            /\ refs' = [refs EXCEPT ![h] = @ + 1]
            /\ UNCHANGED <<call, cmdOf, appRefs>>
        BY <1>12, <2>4, <3>3, <3>1 DEF AddTimingEvent, Retained, Inv1, Types
      <3>5. Listed(h) = 0 /\ Listed(h)' = 1
        <4>1. m \in m_EventList' /\ m.event = h
          BY <3>4
        <4>2. h' = h
          BY <3>4
        <4> QED BY <3>2, <4>1, <4>2 DEF Listed
      <3>6. \A g \in Handles \ {h} : Listed(g)' = Listed(g)
        BY <3>4 DEF Listed
      <3>7. ReferencesBalance'
        <4> SUFFICES ASSUME NEW g \in Handles
                     PROVE  refs'[g] = appRefs'[g] + Listed(g)' + LocalTo(g)'
          BY DEF ReferencesBalance
        <4>1. LocalTo(g)' = LocalTo(g) /\ LocalTo(g) \in {0, 1}
          BY <3>4 DEF LocalTo, IsLocal
        <4>2. refs[g] = appRefs[g] + Listed(g) + LocalTo(g) /\ refs[g] \in Nat /\ appRefs[g] \in Int
          BY DEF Inv3, ReferencesBalance, Inv1, Types
        <4>3. CASE g = h
          BY <3>1, <3>4, <3>5, <4>1, <4>2, <4>3 DEF Inv1, Types
        <4>4. CASE g # h
          BY <3>4, <3>6, <4>1, <4>2, <4>4 DEF Inv1, Types
        <4> QED BY <4>3, <4>4
      <3>8. NodesAreAlive'
        BY <3>1, <3>3, <3>4 DEF Inv3, NodesAreAlive, Inv1, Types, Nodes
      <3>9. EventStandsForCommand'
        BY <2>2, <3>4 DEF Inv3, EventStandsForCommand
      <3>10. LocalEventsArePrivate' /\ ClaimsAreOwned'
        BY <3>4 DEF Inv3, LocalEventsArePrivate, ClaimsAreOwned, Claims, IsLocal
      <3> QED BY <3>7, <3>8, <3>9, <3>10 DEF Inv3
    <2> QED BY <2>3, <2>4
  <1>13. ASSUME NEW t \in Threads, ReleaseLocalEvent(t) PROVE Inv3'
    <2>1. PICK h \in Handles : h = call[t].event /\ IsLocal(call[t])
      BY <1>13 DEF ReleaseLocalEvent, Inv1, Shape
    <2>2. /\ call' = [call EXCEPT ![t].event = NoHandle]
          /\ UNCHANGED <<appRefs, m_EventList, cmdOf>>
      BY <1>13 DEF ReleaseLocalEvent, layerVars
    <2>3. /\ call'[t].event = NoHandle
          /\ \A u \in Threads \ {t} : call'[u] = call[u] /\ call[u].event # h
      BY <2>1, <2>2 DEF Inv1, Types, Calls, Inv3, LocalEventsArePrivate
    <2>4. LocalTo(h) = 1 /\ LocalTo(h)' = 0
      BY <2>1, <2>3 DEF LocalTo
    <2>5. ASSUME NEW g \in Handles PROVE Claims(g)' = Claims(g) /\ Listed(g)' = Listed(g)
      BY <2>1, <2>2, <2>3 DEF Claims, IsLocal, Listed
    <2>6. ASSUME NEW g \in Handles, g # h PROVE LocalTo(g)' = LocalTo(g)
      BY <2>1, <2>3, <2>6 DEF LocalTo, IsLocal
    <2>7. refs' = [refs EXCEPT ![h] = @ - 1] /\ refs[h] = appRefs[h] + Listed(h) + 1
      <3>1. refs[h] = appRefs[h] + Listed(h) + 1 /\ appRefs[h] \in Nat /\ Listed(h) \in {0, 1}
        BY <2>4, OwnedIsNat DEF Inv3, ReferencesBalance, Listed
      <3>2. refs' = Released(h)
        BY <1>13, <2>1 DEF ReleaseLocalEvent
      <3>3. refs' = [refs EXCEPT ![h] = @ - 1]
        <4>1. refs[h] > 0
          BY <3>1
        <4> QED BY <3>2, <4>1 DEF Released, Inv1, Types
      <3> QED BY <3>1, <3>3
    <2>8. ReferencesBalance'
      <3> SUFFICES ASSUME NEW g \in Handles
                   PROVE  refs'[g] = appRefs'[g] + Listed(g)' + LocalTo(g)'
        BY DEF ReferencesBalance
      <3>1. CASE g = h
        BY <2>2, <2>4, <2>5, <2>7, <3>1 DEF Inv1, Types, Listed
      <3>2. CASE g # h
        BY <2>2, <2>5, <2>6, <2>7, <3>2 DEF Inv1, Types, Inv3, ReferencesBalance
      <3> QED BY <3>1, <3>2
    <2>9. NodesAreAlive'
      <3> SUFFICES ASSUME NEW n \in m_EventList
                   PROVE  refs'[n.event] > 0 /\ cmdOf'[n.event] = n.cmd
        BY <2>2 DEF NodesAreAlive
      <3>1. n.event \in Handles /\ refs[n.event] > 0 /\ cmdOf[n.event] = n.cmd
        BY DEF Inv3, NodesAreAlive, Inv1, Types, Nodes
      <3>2. CASE n.event = h
        <4>1. Listed(h) = 1
          BY <3>2 DEF Listed
        <4>2. appRefs[h] \in Nat
          BY OwnedIsNat
        <4>3. refs'[h] = appRefs[h] + 1
          BY <2>7, <4>1, <4>2 DEF Inv1, Types
        <4> QED BY <2>2, <3>1, <3>2, <4>2, <4>3
      <3>3. CASE n.event # h
        BY <2>2, <2>7, <3>1, <3>3 DEF Inv1, Types
      <3> QED BY <3>2, <3>3
    <2>10. EventStandsForCommand'
      BY <1>13, <2>2, <2>3
         DEF ReleaseLocalEvent, GoTo, AfterTiming, Inv3, EventStandsForCommand, Inv1, Types
    <2>11. LocalEventsArePrivate'
      <3> SUFFICES ASSUME NEW u \in Threads, NEW w \in Threads,
                          IsLocal(call'[u]), call'[u].event # NoHandle
                   PROVE  /\ appRefs'[call'[u].event] = 0
                          /\ w # u => call'[w].event # call'[u].event
        BY DEF LocalEventsArePrivate, IsLocal
      <3>1. u # t /\ call'[u] = call[u]
        BY <2>3
      <3> QED BY <2>2, <2>3, <3>1 DEF Inv3, LocalEventsArePrivate
    <2>12. ClaimsAreOwned'
      BY <2>2, <2>5 DEF Inv3, ClaimsAreOwned
    <2> QED BY <2>8, <2>9, <2>10, <2>11, <2>12 DEF Inv3
  <1>14. ASSUME NEW t \in Threads, ScanNode(t) PROVE Inv3'
    <2>1. PICK n \in call[t].todo :
            /\ call' = [call EXCEPT ![t].todo = @ \ {n}]
            /\ refs[n.event] # 0 =>
                 \/ UNCHANGED <<m_EventList, refs>>
                 \/ refs' = Released(n.event) /\ m_EventList' = m_EventList \ {n}
      BY <1>14, Zenon DEF ScanNode
    <2>2. n \in m_EventList
      BY <1>14, <2>1 DEF ScanNode, Inv1, Shape
    <2>3. n.event \in Handles /\ refs[n.event] > 0 /\ cmdOf[n.event] = n.cmd
      BY <2>2 DEF Inv3, NodesAreAlive, Inv1, Types, Nodes
    <2>4. \A u \in Threads : /\ call'[u].event = call[u].event /\ call'[u].cmd = call[u].cmd
                              /\ IsLocal(call'[u]) = IsLocal(call[u])
      BY <2>1 DEF Inv1, Types, Calls, IsLocal
    <2>5. UNCHANGED <<appRefs, cmdOf, pc>>
      BY <1>14 DEF ScanNode
    <2>6. ASSUME NEW g PROVE Claims(g)' = Claims(g) /\ LocalTo(g)' = LocalTo(g)
      BY <2>4 DEF Claims, LocalTo, IsLocal
    <2>7. EventStandsForCommand' /\ LocalEventsArePrivate' /\ ClaimsAreOwned'
      <3>1. EventStandsForCommand'
        BY <2>4, <2>5 DEF Inv3, EventStandsForCommand
      <3>2. LocalEventsArePrivate'
        <4>1. \A u \in Threads : IsLocal(call[u])' = IsLocal(call[u])
          BY <2>4 DEF IsLocal
        <4> QED BY <2>4, <2>5, <4>1 DEF Inv3, LocalEventsArePrivate
      <3>3. ClaimsAreOwned'
        BY <2>5, <2>6 DEF Inv3, ClaimsAreOwned
      <3> QED BY <3>1, <3>2, <3>3
    <2>8. CASE UNCHANGED <<m_EventList, refs>>
      BY <2>5, <2>6, <2>7, <2>8 DEF Inv3, ReferencesBalance, NodesAreAlive, Listed
    <2>9. CASE refs' = Released(n.event) /\ m_EventList' = m_EventList \ {n}
      <3>1. refs' = [refs EXCEPT ![n.event] = @ - 1]
        BY <2>3, <2>9 DEF Released, Inv1, Types
      <3>2. \A m \in m_EventList' : m \in m_EventList /\ m.event # n.event
        <4> SUFFICES ASSUME NEW m \in m_EventList, m # n PROVE m.event # n.event
          BY <2>9
        <4>1. cmdOf[m.event] = m.cmd /\ m.cmd # n.cmd
          BY <2>2 DEF Inv3, NodesAreAlive, Inv2, OneNode
        <4> QED BY <2>3, <4>1
      <3>3. Listed(n.event) = 1 /\ Listed(n.event)' = 0
        BY <2>2, <3>2 DEF Listed
      <3>4. ASSUME NEW g \in Handles, g # n.event PROVE Listed(g)' = Listed(g)
        BY <2>9, <3>4 DEF Listed
      <3>5. ReferencesBalance'
        <4> SUFFICES ASSUME NEW g \in Handles
                     PROVE  refs'[g] = appRefs'[g] + Listed(g)' + LocalTo(g)'
          BY DEF ReferencesBalance
        <4>1. LocalTo(g) \in {0, 1}
          BY DEF LocalTo
        <4>2. CASE g = n.event
          BY <2>3, <2>5, <2>6, <3>1, <3>3, <4>1, <4>2
             DEF Inv1, Types, Inv3, ReferencesBalance
        <4>3. CASE g # n.event
          BY <2>5, <2>6, <3>1, <3>4, <4>3 DEF Inv1, Types, Inv3, ReferencesBalance
        <4> QED BY <4>2, <4>3
      <3>6. NodesAreAlive'
        BY <2>5, <3>1, <3>2 DEF Inv3, NodesAreAlive, Inv1, Types, Nodes
      <3> QED BY <2>7, <3>5, <3>6 DEF Inv3
    <2> QED BY <2>1, <2>3, <2>8, <2>9
  <1>15. ASSUME NEW t \in Threads, ReleaseEvent(t) PROVE Inv3'
    <2>1. PICK h \in Handles : h = call[t].event /\ ~IsLocal(call[t])
      BY <1>15 DEF ReleaseEvent, Inv1, Shape, IsLocal
    <2>2. /\ call' = [call EXCEPT ![t] = NoCall] /\ NoCall.event = NoHandle
          /\ appRefs' = [appRefs EXCEPT ![h] = @ - 1]
          /\ UNCHANGED <<m_EventList, cmdOf>>
      BY <1>15, <2>1 DEF ReleaseEvent, Return, NoCall, layerVars
    <2>3. call'[t].event = NoHandle /\ \A u \in Threads \ {t} : call'[u] = call[u]
      BY <2>2 DEF Inv1, Types
    <2>4. ASSUME NEW g \in Handles
          PROVE  /\ Claims(g)' = Claims(g) \ (IF g = h THEN {t} ELSE {})
                 /\ LocalTo(g)' = LocalTo(g) /\ Listed(g)' = Listed(g)
                 /\ LocalTo(g) \in {0, 1} /\ Listed(g) \in {0, 1}
      BY <2>1, <2>2, <2>3 DEF Claims, LocalTo, Listed, IsLocal
    <2>5. t \in Claims(h)
      BY <2>1 DEF Claims
    <2>6. Cardinality(Claims(h)) > 0 /\ Cardinality(Claims(h)') = Cardinality(Claims(h)) - 1
      BY <2>4, <2>5, ClaimsFinite, FS_RemoveElement, FS_EmptySet
    <2>7. appRefs[h] > 0 /\ refs[h] > 0
      BY <2>6, ClaimsFinite, OwnedIsAlive DEF Inv3, ClaimsAreOwned, Inv1, Types
    <2>8. refs' = [refs EXCEPT ![h] = @ - 1]
      BY <1>15, <2>1, <2>7 DEF ReleaseEvent, Released, Inv1, Types
    <2>9. ReferencesBalance'
      <3> SUFFICES ASSUME NEW g \in Handles
                   PROVE  refs'[g] = appRefs'[g] + Listed(g)' + LocalTo(g)'
        BY DEF ReferencesBalance
      <3> QED BY <2>2, <2>4, <2>7, <2>8 DEF Inv1, Types, Inv3, ReferencesBalance
    <2>10. NodesAreAlive'
      <3> SUFFICES ASSUME NEW n \in m_EventList
                   PROVE  refs'[n.event] > 0 /\ cmdOf'[n.event] = n.cmd
        BY <2>2 DEF NodesAreAlive
      <3>1. n.event \in Handles /\ refs[n.event] > 0 /\ cmdOf[n.event] = n.cmd
        BY DEF Inv3, NodesAreAlive, Inv1, Types, Nodes
      <3>2. CASE n.event = h
        <4>1. Listed(h) = 1
          BY <3>2 DEF Listed
        <4>2. refs[h] = appRefs[h] + 1 + LocalTo(h)
          BY <4>1 DEF Inv3, ReferencesBalance
        <4> QED BY <2>2, <2>4, <2>7, <2>8, <3>1, <3>2, <4>2 DEF Inv1, Types
      <3>3. CASE n.event # h
        BY <2>2, <2>8, <3>1, <3>3 DEF Inv1, Types
      <3> QED BY <3>2, <3>3
    <2>11. EventStandsForCommand'
      BY <1>15, <2>2, <2>3
         DEF ReleaseEvent, GoTo, Inv3, EventStandsForCommand, Inv1, Types
    <2>12. LocalEventsArePrivate'
      <3> SUFFICES ASSUME NEW u \in Threads, NEW w \in Threads,
                          IsLocal(call'[u]), call'[u].event # NoHandle
                   PROVE  /\ appRefs'[call'[u].event] = 0
                          /\ w # u => call'[w].event # call'[u].event
        BY DEF LocalEventsArePrivate, IsLocal
      <3>1. u # t /\ call'[u] = call[u] /\ appRefs[call[u].event] = 0
        BY <2>3 DEF Inv3, LocalEventsArePrivate
      <3>2. call[u].event # h /\ call[u].event \in Handles
        BY <2>7, <2>3, <3>1 DEF Inv1, Types, Calls
      <3> QED BY <2>2, <2>3, <3>1, <3>2 DEF Inv3, LocalEventsArePrivate, Inv1, Types
    <2>13. ClaimsAreOwned'
      <3> SUFFICES ASSUME NEW g \in Handles PROVE Cardinality(Claims(g)') <= appRefs'[g]
        BY DEF ClaimsAreOwned
      <3>1. CASE g = h
        BY <2>2, <2>6, <3>1, ClaimsFinite DEF Inv3, ClaimsAreOwned, Inv1, Types
      <3>2. CASE g # h
        <4>1. Claims(g)' = Claims(g)
          BY <2>4, <3>2
        <4> QED BY <2>2, <3>2, <4>1 DEF Inv3, ClaimsAreOwned, Inv1, Types
      <3> QED BY <3>1, <3>2
    <2> QED BY <2>9, <2>10, <2>11, <2>12, <2>13 DEF Inv3
  <1>16. ASSUME NEW t \in Threads, NEW h \in Handles, RetainEvent(t, h) PROVE Inv3'
    <2>1. appRefs[h] > 0 /\ refs[h] > 0
      BY <1>16, ClaimsFinite, OwnedIsAlive DEF RetainEvent, Spare, Inv1, Types
    <2>2. /\ refs' = [refs EXCEPT ![h] = @ + 1]
          /\ appRefs' = [appRefs EXCEPT ![h] = @ + 1]
          /\ UNCHANGED <<call, pc, m_EventList, cmdOf>>
      BY <1>16, <2>1 DEF RetainEvent, Retained, threadVars, layerVars, Inv1, Types
    <2>3. ASSUME NEW g PROVE Claims(g)' = Claims(g) /\ LocalTo(g)' = LocalTo(g)
                             /\ Listed(g)' = Listed(g)
      BY <2>2 DEF Claims, LocalTo, Listed, IsLocal
    <2>4. ReferencesBalance'
      <3> SUFFICES ASSUME NEW g \in Handles
                   PROVE  refs'[g] = appRefs'[g] + Listed(g)' + LocalTo(g)'
        BY DEF ReferencesBalance
      <3>1. LocalTo(g) \in {0, 1} /\ Listed(g) \in {0, 1}
        BY DEF LocalTo, Listed
      <3> QED BY <2>2, <2>3, <3>1 DEF Inv1, Types, Inv3, ReferencesBalance
    <2>5. NodesAreAlive'
      BY <2>2 DEF Inv3, NodesAreAlive, Inv1, Types, Nodes
    <2>6. EventStandsForCommand' /\ LocalEventsArePrivate'
      <3>1. EventStandsForCommand'
        BY <2>2 DEF Inv3, EventStandsForCommand
      <3>2. ASSUME NEW u \in Threads, IsLocal(call[u]), call[u].event # NoHandle
            PROVE  appRefs'[call[u].event] = 0
        <4>1. appRefs[call[u].event] = 0 /\ call[u].event \in Handles
          BY <3>2 DEF Inv3, LocalEventsArePrivate, Inv1, Types, Calls
        <4> QED BY <2>1, <2>2, <4>1
      <3>3. LocalEventsArePrivate'
        BY <2>2, <3>2 DEF Inv3, LocalEventsArePrivate, IsLocal
      <3> QED BY <3>1, <3>3
    <2>7. ClaimsAreOwned'
      <3> SUFFICES ASSUME NEW g \in Handles PROVE Cardinality(Claims(g)') <= appRefs'[g]
        BY DEF ClaimsAreOwned
      <3> QED BY <2>2, <2>3, ClaimsFinite DEF Inv3, ClaimsAreOwned, Inv1, Types
    <2> QED BY <2>4, <2>5, <2>6, <2>7 DEF Inv3
  <1>17. ASSUME NEW t \in Threads, NEW h \in Handles, ReleaseEventBegin(t, h) PROVE Inv3'
    <2>1. appRefs[h] > 0 /\ refs[h] > 0
      BY <1>17, ClaimsFinite, OwnedIsAlive DEF ReleaseEventBegin, Spare, Inv1, Types
    <2>2. /\ call' = [call EXCEPT ![t] = [NoCall EXCEPT !.event = h]]
          /\ call[t].event = NoHandle
          /\ UNCHANGED <<refs, appRefs, m_EventList, cmdOf>>
      BY <1>17 DEF ReleaseEventBegin, layerVars, driverVars, Inv1, Shape
    <2>3. /\ call'[t].event = h /\ ~IsLocal(call'[t])
          /\ \A u \in Threads \ {t} : call'[u] = call[u]
      BY <2>2 DEF Inv1, Types, NoCall, IsLocal
    <2>4. ASSUME NEW g \in Handles
          PROVE  /\ Claims(g)' = Claims(g) \cup (IF g = h THEN {t} ELSE {})
                 /\ LocalTo(g)' = LocalTo(g) /\ Listed(g)' = Listed(g)
      BY <2>2, <2>3 DEF Claims, LocalTo, Listed, IsLocal
    <2>5. ReferencesBalance' /\ NodesAreAlive'
      BY <2>2, <2>4 DEF Inv3, ReferencesBalance, NodesAreAlive
    <2>6. EventStandsForCommand'
      BY <1>17, <2>2, <2>3
         DEF ReleaseEventBegin, GoTo, Inv3, EventStandsForCommand, Inv1, Types
    <2>7. LocalEventsArePrivate'
      <3> SUFFICES ASSUME NEW u \in Threads, NEW w \in Threads,
                          IsLocal(call'[u]), call'[u].event # NoHandle
                   PROVE  /\ appRefs'[call'[u].event] = 0
                          /\ w # u => call'[w].event # call'[u].event
        BY DEF LocalEventsArePrivate, IsLocal
      <3>1. u # t /\ call'[u] = call[u] /\ appRefs[call[u].event] = 0
        BY <2>3 DEF Inv3, LocalEventsArePrivate
      <3>2. CASE w = t
        <4>1. h # call[u].event
          BY <2>1, <3>1
        <4> QED BY <2>2, <2>3, <3>1, <3>2, <4>1
      <3>3. CASE w # t
        BY <2>2, <2>3, <3>1, <3>3 DEF Inv3, LocalEventsArePrivate
      <3> QED BY <3>2, <3>3
    <2>8. ClaimsAreOwned'
      <3> SUFFICES ASSUME NEW g \in Handles PROVE Cardinality(Claims(g)') <= appRefs[g]
        BY <2>2 DEF ClaimsAreOwned
      <3>1. CASE g = h
        <4>0. Claims(h)' = Claims(h) \cup {t}
          BY <2>4
        <4>1. Cardinality(Claims(h)') <= Cardinality(Claims(h)) + 1
          <5>1. IsFiniteSet(Claims(h)) /\ Cardinality(Claims(h)) \in Nat
            BY ClaimsFinite
          <5>2. Cardinality(Claims(h) \cup {t}) =
                  IF t \in Claims(h) THEN Cardinality(Claims(h)) ELSE Cardinality(Claims(h)) + 1
            BY <5>1, FS_AddElement
          <5> QED BY <4>0, <5>1, <5>2
        <4>2. Cardinality(Claims(h)') \in Nat
          BY <4>0, ClaimsFinite, FS_AddElement, FS_CardinalityType
        <4> QED BY <1>17, <3>1, <4>1, <4>2, ClaimsFinite
                   DEF ReleaseEventBegin, Spare, Inv1, Types
      <3>2. CASE g # h
        BY <2>4, <3>2 DEF Inv3, ClaimsAreOwned
      <3> QED BY <3>1, <3>2
    <2> QED BY <2>5, <2>6, <2>7, <2>8 DEF Inv3
  <1> QED
    BY <1>1, <1>2, <1>3, <1>4, <1>5, <1>6, <1>7, <1>8, <1>9, <1>10, <1>11, <1>12, <1>13,
       <1>14, <1>15, <1>16, <1>17
       DEF Next, Step, Call

-----------------------------------------------------------------------------
(* Layer 4: what a wait has seen complete is gone when the scan is over.    *)

SeenIsComplete ==
    \A t \in Threads, n \in m_EventList :
        pc[t] \in {"lock", "scan"} /\ n.cmd \in call[t].seen =>
            /\ status[n.event] = "complete"
            /\ pc[t] = "scan" => n \in call[t].todo

\* Only waits keep a history; the scan of a blocking enqueue has none.
OnlyWaitsSee ==
    \A t \in Threads :
        pc[t] \notin {"lock", "scan"} \/ call[t].after = "addEvent" => call[t].seen = {}

Inv4 == SeenIsComplete /\ OnlyWaitsSee

\* No wait has seen anything at the start.
LEMMA Inv4Init == Init => Inv4
  BY DEF Init, Inv4, SeenIsComplete, OnlyWaitsSee, NoCall

\* Every step keeps what waits have seen complete, and still to be scanned.
LEMMA Inv4Step ==
  ASSUME Inv1, Inv1', Inv2, Inv2', Inv3, Inv4, [Next]_vars PROVE Inv4'
  <1> USE DEF Inv1, Types, Inv4
  <1>1. CASE UNCHANGED vars
    BY <1>1 DEF vars, threadVars, layerVars, driverVars, SeenIsComplete, OnlyWaitsSee
  <1>2. ASSUME NEW t \in Threads, EnqueueBegin(t) PROVE Inv4'
    <2>1. /\ call'[t].seen = {} /\ pc'[t] = "dispatch"
          /\ \A u \in Threads \ {t} : call'[u] = call[u] /\ pc'[u] = pc[u]
      <3>1. PICK kernel \in BOOLEAN, blocking \in BOOLEAN, wanted \in BOOLEAN,
                 timed \in BOOLEAN :
               call' = [call EXCEPT ![t] =
                  [NoCall EXCEPT !.cmd = enqueueCounter, !.kernel = kernel,
                     !.blocking = blocking, !.wanted = wanted, !.timed = timed]]
        BY <1>2, BeginCall
      <3> QED BY <1>2, <3>1 DEF EnqueueBegin, GoTo, NoCall
    <2>2. UNCHANGED <<m_EventList, status>>
      BY <1>2 DEF EnqueueBegin, layerVars, driverVars
    <2> QED BY <2>1, <2>2 DEF SeenIsComplete, OnlyWaitsSee
  <1>3. ASSUME NEW t \in Threads, EnqueueDispatch(t) PROVE Inv4'
    <2>1. \A u \in Threads : call'[u].seen = call[u].seen /\ call'[u].todo = call[u].todo
      <3>1. CASE call[t].wanted \/ call[t].timed
        <4>1. PICK h \in Handles :
                call' = [call EXCEPT ![t] = [@ EXCEPT !.event = h, !.after = "addEvent"]]
          BY <1>3, <3>1 DEF EnqueueDispatch
        <4> QED BY <4>1 DEF Calls
      <3>2. CASE ~(call[t].wanted \/ call[t].timed)
        BY <1>3, <3>2 DEF EnqueueDispatch, Calls
      <3> QED BY <3>1, <3>2
    <2>2. /\ call[t].seen = {} /\ m_EventList' = m_EventList /\ pc'[t] # "scan"
          /\ \A u \in Threads \ {t} : call'[u] = call[u] /\ pc'[u] = pc[u]
      BY <1>3 DEF EnqueueDispatch, GoTo, AfterTiming, layerVars, OnlyWaitsSee
    <2>3. \A n \in m_EventList : status'[n.event] = status[n.event]
      <3>1. \A n \in m_EventList : n.event \in Handles /\ refs[n.event] > 0
        BY DEF Inv3, NodesAreAlive, Nodes
      <3>2. \/ UNCHANGED status
            \/ \E h \in Handles : /\ refs[h] = 0
                                  /\ \E x : status' = [status EXCEPT ![h] = x]
        BY <1>3 DEF EnqueueDispatch, Free, driverVars
      <3> QED BY <3>1, <3>2
    <2>4. SeenIsComplete'
      BY <2>1, <2>2, <2>3 DEF SeenIsComplete
    <2>5. OnlyWaitsSee'
      BY <2>1, <2>2 DEF OnlyWaitsSee
    <2> QED BY <2>4, <2>5
  <1>4. ASSUME NEW t \in Threads, EnqueueFails(t) PROVE Inv4'
    <2>1. SeenIsComplete'
      BY <1>4
         DEF EnqueueFails, GoTo, AfterTiming, layerVars, driverVars, SeenIsComplete,
             OnlyWaitsSee, Calls, Shape
    <2>2. OnlyWaitsSee'
      BY <1>4
         DEF EnqueueFails, GoTo, AfterTiming, layerVars, driverVars, OnlyWaitsSee, Calls,
             Shape
    <2> QED BY <2>1, <2>2
  <1>5. ASSUME NEW t \in Threads, AddTimingEvent(t) PROVE Inv4'
    <2>1. /\ call' = call /\ status' = status /\ call[t].seen = {} /\ mutex' = mutex
          /\ \A u \in Threads \ {t} : pc'[u] = pc[u]
      BY <1>5 DEF AddTimingEvent, GoTo, OnlyWaitsSee
    <2>2. \A n \in m_EventList' \ m_EventList : \A u \in Threads : n.cmd \notin call[u].seen
      BY <1>5 DEF AddTimingEvent, Inv2, NotYetListed, InFlight
    <2>3. SeenIsComplete'
      BY <2>1, <2>2 DEF SeenIsComplete
    <2>4. OnlyWaitsSee'
      BY <2>1 DEF OnlyWaitsSee
    <2> QED BY <2>3, <2>4
  <1>6. ASSUME NEW t \in Threads, ReleaseLocalEvent(t) PROVE Inv4'
    <2>1. SeenIsComplete'
      BY <1>6
         DEF ReleaseLocalEvent, GoTo, AfterTiming, layerVars, SeenIsComplete,
             OnlyWaitsSee, Calls, Shape
    <2>2. OnlyWaitsSee'
      BY <1>6
         DEF ReleaseLocalEvent, GoTo, AfterTiming, layerVars, OnlyWaitsSee, Calls, Shape
    <2> QED BY <2>1, <2>2
  <1>7. ASSUME NEW t \in Threads, AddEvent(t) PROVE Inv4'
    <2>1. SeenIsComplete'
      BY <1>7
         DEF AddEvent, GoTo, Return, NoCall, driverVars, SeenIsComplete, OnlyWaitsSee,
             Calls, Shape
    <2>2. OnlyWaitsSee'
      BY <1>7 DEF AddEvent, GoTo, Return, NoCall, driverVars, OnlyWaitsSee, Calls, Shape
    <2> QED BY <2>1, <2>2
  <1>8. ASSUME NEW t \in Threads, FinishAfterEnqueue(t) PROVE Inv4'
    <2>1. call'[t].seen = Pending /\ call'[t].after = "idle" /\ pc'[t] = "lock"
          /\ \A u \in Threads \ {t} : call'[u] = call[u] /\ pc'[u] = pc[u]
      BY <1>8 DEF FinishAfterEnqueue, GoTo, NoCall, Calls
    <2>2. UNCHANGED <<m_EventList, status>>
      BY <1>8 DEF FinishAfterEnqueue, layerVars, driverVars
    <2>3. \A n \in m_EventList : n.cmd \in Pending => status[n.event] = "complete"
      BY DEF Pending, Inv2, OneNode
    <2>4. SeenIsComplete'
      BY <2>1, <2>2, <2>3 DEF SeenIsComplete
    <2>5. OnlyWaitsSee'
      BY <2>1 DEF OnlyWaitsSee
    <2> QED BY <2>4, <2>5
  <1>9. ASSUME NEW t \in Threads, ScanBegin(t) PROVE Inv4'
    <2>1. SeenIsComplete'
      BY <1>9
         DEF ScanBegin, GoTo, layerVars, driverVars, SeenIsComplete, OnlyWaitsSee, Calls,
             Shape
    <2>2. OnlyWaitsSee'
      BY <1>9 DEF ScanBegin, GoTo, layerVars, driverVars, OnlyWaitsSee, Calls, Shape
    <2> QED BY <2>1, <2>2
  <1>10. ASSUME NEW t \in Threads, ScanNode(t) PROVE Inv4'
    <2>1. PICK n \in call[t].todo :
            /\ call' = [call EXCEPT ![t].todo = @ \ {n}]
            /\ m_EventList' \subseteq m_EventList
            /\ refs[n.event] > 0 /\ status[n.event] = "complete" => n \notin m_EventList'
      BY <1>10 DEF ScanNode
    <2>2. n \in m_EventList /\ refs[n.event] > 0 /\ pc' = pc /\ status' = status /\ pc[t] = "scan"
      BY <1>10, <2>1 DEF ScanNode, Shape, Inv3, NodesAreAlive
    <2>3. /\ call'[t].todo = call[t].todo \ {n} /\ call'[t].seen = call[t].seen
          /\ call'[t].after = call[t].after
          /\ \A u \in Threads \ {t} : call'[u] = call[u]
      BY <2>1 DEF Calls
    <2>4. SeenIsComplete'
      BY <2>1, <2>2, <2>3 DEF SeenIsComplete
    <2>5. OnlyWaitsSee'
      BY <2>2, <2>3 DEF OnlyWaitsSee
    <2> QED BY <2>4, <2>5
  <1>11. ASSUME NEW t \in Threads, ScanEnd(t) PROVE Inv4'
    <2>1. SeenIsComplete'
      BY <1>11
         DEF ScanEnd, GoTo, Return, NoCall, layerVars, driverVars, SeenIsComplete,
             OnlyWaitsSee, Calls, Shape
    <2>2. OnlyWaitsSee'
      BY <1>11
         DEF ScanEnd, GoTo, Return, NoCall, layerVars, driverVars, OnlyWaitsSee, Calls,
             Shape
    <2> QED BY <2>1, <2>2
  <1>12. ASSUME NEW t \in Threads, CheckRemoveEvent(t) PROVE Inv4'
    <2>1. SeenIsComplete'
      BY <1>12
         DEF CheckRemoveEvent, GoTo, driverVars, SeenIsComplete, OnlyWaitsSee, Calls,
             Shape
    <2>2. OnlyWaitsSee'
      BY <1>12 DEF CheckRemoveEvent, GoTo, driverVars, OnlyWaitsSee, Calls, Shape
    <2> QED BY <2>1, <2>2
  <1>13. ASSUME NEW t \in Threads, ReleaseEvent(t) PROVE Inv4'
    <2>1. SeenIsComplete'
      BY <1>13
         DEF ReleaseEvent, GoTo, Return, NoCall, layerVars, SeenIsComplete, OnlyWaitsSee,
             Calls, Shape
    <2>2. OnlyWaitsSee'
      BY <1>13 DEF ReleaseEvent, GoTo, Return, NoCall, layerVars, OnlyWaitsSee, Calls, Shape
    <2> QED BY <2>1, <2>2
  <1>14. ASSUME NEW t \in Threads, FinishReturns(t) PROVE Inv4'
    <2>1. call'[t].seen = Pending /\ call'[t].after = "idle" /\ pc'[t] = "lock"
          /\ \A u \in Threads \ {t} : call'[u] = call[u] /\ pc'[u] = pc[u]
      BY <1>14 DEF FinishReturns, GoTo, NoCall, Calls
    <2>2. UNCHANGED <<m_EventList, status>>
      BY <1>14 DEF FinishReturns, layerVars, driverVars
    <2>3. \A n \in m_EventList : n.cmd \in Pending => status[n.event] = "complete"
      BY DEF Pending, Inv2, OneNode
    <2>4. SeenIsComplete'
      BY <2>1, <2>2, <2>3 DEF SeenIsComplete
    <2>5. OnlyWaitsSee'
      BY <2>1 DEF OnlyWaitsSee
    <2> QED BY <2>4, <2>5
  <1>15. ASSUME NEW t \in Threads, NEW h \in Handles, RetainEvent(t, h) PROVE Inv4'
    <2>1. SeenIsComplete'
      BY <1>15
         DEF RetainEvent, threadVars, layerVars, SeenIsComplete, OnlyWaitsSee, Calls,
             Shape
    <2>2. OnlyWaitsSee'
      BY <1>15 DEF RetainEvent, threadVars, layerVars, OnlyWaitsSee, Calls, Shape
    <2> QED BY <2>1, <2>2
  <1>16. ASSUME NEW t \in Threads, NEW h \in Handles, ReleaseEventBegin(t, h) PROVE Inv4'
    <2>1. SeenIsComplete'
      BY <1>16
         DEF ReleaseEventBegin, GoTo, NoCall, layerVars, driverVars, SeenIsComplete,
             OnlyWaitsSee, Calls, Shape
    <2>2. OnlyWaitsSee'
      BY <1>16
         DEF ReleaseEventBegin, GoTo, NoCall, layerVars, driverVars, OnlyWaitsSee, Calls,
             Shape
    <2> QED BY <2>1, <2>2
  <1>17. ASSUME NEW h \in Handles, CommandEnds(h) PROVE Inv4'
    <2>1. \A g \in Handles : status[g] = "complete" => status'[g] = "complete"
      BY <1>17 DEF CommandEnds
    <2> QED BY <1>17, <2>1
               DEF CommandEnds, threadVars, layerVars, SeenIsComplete, OnlyWaitsSee, Nodes
  <1> HIDE DEF Inv1, Types, Inv4
  <1> QED
    BY <1>1, <1>2, <1>3, <1>4, <1>5, <1>6, <1>7, <1>8, <1>9, <1>10, <1>11, <1>12,
       <1>13, <1>14, <1>15, <1>16, <1>17 DEF Next, Step, Call

-----------------------------------------------------------------------------
(* The theorems. *)

Inv == Inv1 /\ Inv2 /\ Inv3 /\ Inv4

\* The inductive invariant holds in every reachable state.
LEMMA InvInvariant == Spec => []Inv
  <1>1. Init => Inv
    BY Inv1Init, Inv2Init, Inv3Init, Inv4Init DEF Inv
  <1>2. Inv /\ [Next]_vars => Inv'
    BY Inv1Step, Inv2Step, Inv3Step, Inv4Step DEF Inv
  <1> QED BY <1>1, <1>2, PTL DEF Spec

\* For every instance, the variables keep their types; in particular no
\* reference count of the application's goes below zero.
THEOREM TypeCorrect == Spec => []TypeOK
  <1>1. Inv => TypeOK
    BY OwnedIsNat DEF Inv, Inv1, Types, TypeOK
  <1> QED BY <1>1, InvInvariant, PTL

\* For every number of threads, handles and commands and every configuration,
\* the nodes of m_EventList name live events of their own command.
THEOREM NodesAlwaysAlive == Spec => []NodesAreAlive
  <1>1. Inv => NodesAreAlive
    BY DEF Inv, Inv3
  <1> QED BY <1>1, InvInvariant, PTL

\* Timing neither leaks nor over-releases an event.
THEOREM ReferencesAlwaysBalance == Spec => []ReferencesBalance
  <1>1. Inv => ReferencesBalance
    BY DEF Inv, Inv3
  <1> QED BY <1>1, InvInvariant, PTL

\* No command is accounted twice, whichever threads wait at the same time.
THEOREM AlwaysAccountedOnce == Spec => []AccountedOnce
  <1>1. Inv => AccountedOnce
    BY DEF Inv, Inv2
  <1> QED BY <1>1, InvInvariant, PTL

\* Every scan that follows a wait leaves none of the commands that the wait
\* saw complete on the list.
THEOREM WaitsAlwaysDrain == Spec => WaitDrains
  <1>1. ASSUME Inv, Inv', [Next]_vars
        PROVE  [\A t \in Threads :
                  pc[t] = "scan" /\ pc'[t] # "scan" =>
                      \A n \in m_EventList' : n.cmd \notin call[t].seen]_vars
    <2> SUFFICES ASSUME NEW t \in Threads, pc[t] = "scan", pc'[t] # "scan", ~ UNCHANGED vars
                 PROVE  \A n \in m_EventList' : n.cmd \notin call[t].seen
      OBVIOUS
    <2> USE <1>1 DEF Inv, Inv1, Types
    <2>1. ASSUME NEW u \in Threads, Call(u) PROVE FALSE
      BY <2>1 DEF Call, EnqueueBegin, FinishReturns, RetainEvent, ReleaseEventBegin,
                  GoTo, threadVars
    <2>2. ASSUME NEW h \in Handles, CommandEnds(h) PROVE FALSE
      BY <2>2 DEF CommandEnds, threadVars
    <2>3. ASSUME NEW u \in Threads, Step(u) PROVE ScanEnd(t)
      <3>1. pc[u] = "scan" => u = t
        BY DEF Shape
      <3>2. CASE ScanNode(u)
        BY <3>2 DEF ScanNode
      <3>3. CASE ScanEnd(u)
        BY <3>1, <3>3 DEF ScanEnd
      <3>4. CASE ~ ScanNode(u) /\ ~ ScanEnd(u)
        BY <2>3, <3>4 DEF Step, EnqueueDispatch, EnqueueFails, AddTimingEvent,
                          ReleaseLocalEvent, AddEvent, FinishAfterEnqueue, ScanBegin,
                          CheckRemoveEvent, ReleaseEvent, GoTo
      <3> QED BY <3>2, <3>3, <3>4
    <2>4. ScanEnd(t)
      BY <2>1, <2>2, <2>3 DEF Next
    <2> QED BY <2>4 DEF ScanEnd, layerVars, Inv4, SeenIsComplete
  <1> QED BY <1>1, InvInvariant, PTL DEF Spec, WaitDrains
=============================================================================
