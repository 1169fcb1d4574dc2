-------------------------- MODULE AubCaptureProofs --------------------------
(* Theorems about AubCapture, for every set of threads and signatures, every *)
(* bound and every set of configurations.  The first part of the proof does  *)
(* not depend on the table of handlers; the second knows from ApiTable in    *)
(* which order a handler takes its steps.                                    *)
EXTENDS AubCapture, ApiTable, FiniteSetTheorems, SequenceTheorems, TLAPS

-----------------------------------------------------------------------------
(* The locals of the handlers.  What the steps to come are does not matter. *)

Locals ==
    /\ DOMAIN call = Threads
    /\ \A t \in Threads :
          /\ DOMAIN call[t] = DOMAIN NoCall
          /\ call[t].kernel = {} \/ \E s : call[t].kernel = {s}

Types ==
    /\ config \in Configs
    /\ started \in BOOLEAN
    /\ captureCounter \in Nat
    /\ Locals

\* The thread has passed checkAubCaptureKernelSignature and may start a capture.
Passed(t) == call[t].stage # "macro" /\ Head(call[t].todo) = AubStartKernel

\* A step at the end of which thread t is at the start of another macro.
Moves(t) ==
    /\ ~Passed(t)'
    /\ \A u \in Threads \ {t} : call'[u] = call[u]

\* Threads that are done with a step keep their kernel and pass no check.
LEMMA DoneUpdate ==
  ASSUME Locals, NEW t \in Threads, Done(t)
  PROVE  Locals' /\ Moves(t) /\ call'[t].kernel = call[t].kernel
  <1> DEFINE c == [call[t] EXCEPT !.todo = Tail(call[t].todo), !.stage = "macro"]
  <1>1. /\ DOMAIN c = DOMAIN NoCall
        /\ c.stage = "macro" /\ c.kernel = call[t].kernel
    BY DEF Locals, NoCall
  <1>2. call' = [call EXCEPT ![t] = c]
    BY DEF Done
  <1> HIDE DEF c
  <1>3. /\ call'[t] = c /\ DOMAIN call' = Threads
        /\ \A u \in Threads \ {t} : call'[u] = call[u]
    BY <1>2 DEF Locals
  <1> QED BY <1>1, <1>3 DEF Locals, Moves, Passed

\* Threads that go on inside startAubCapture or stopAubCapture only change stage.
LEMMA GoesOnUpdate ==
  ASSUME Locals, NEW t \in Threads, NEW stage \in Stages, GoesOn(t, stage)
  PROVE  /\ Locals' /\ \A u \in Threads \ {t} : call'[u] = call[u]
         /\ call'[t].kernel = call[t].kernel /\ call'[t].stage = stage
         /\ call'[t].todo = call[t].todo
  <1> DEFINE c == [call[t] EXCEPT !.stage = stage]
  <1>1. /\ DOMAIN c = DOMAIN NoCall /\ c.todo = call[t].todo
        /\ c.stage = stage /\ c.kernel = call[t].kernel
    BY DEF Locals, NoCall
  <1>2. call' = [call EXCEPT ![t] = c]
    BY DEF GoesOn
  <1> HIDE DEF c
  <1>3. /\ call'[t] = c /\ DOMAIN call' = Threads
        /\ \A u \in Threads \ {t} : call'[u] = call[u]
    BY <1>2 DEF Locals
  <1> QED BY <1>1, <1>3 DEF Locals

\* A thread that starts a capture is done with the step.
LEMMA StartUpdate ==
  ASSUME Locals, NEW t \in Threads, Start(t)
  PROVE  Locals' /\ Moves(t) /\ call'[t].kernel = call[t].kernel
  <1> DEFINE c == [call[t] EXCEPT !.todo = Tail(call[t].todo), !.stage = "macro"]
  <1>1. /\ DOMAIN c = DOMAIN NoCall
        /\ c.stage = "macro" /\ c.kernel = call[t].kernel
    BY DEF Locals, NoCall
  <1>2. call' = [call EXCEPT ![t] = c]
    BY DEF Start
  <1> HIDE DEF c
  <1>3. /\ call'[t] = c /\ DOMAIN call' = Threads
        /\ \A u \in Threads \ {t} : call'[u] = call[u]
    BY <1>2 DEF Locals
  <1> QED BY <1>1, <1>3 DEF Locals, Moves, Passed

\* A thread enters a handler before its first check.
LEMMA BeginUpdate ==
  ASSUME Locals, NEW t \in Threads, Begin(t)
  PROVE  Locals' /\ Moves(t)
  <1>1. PICK p, kernel :
          /\ kernel = {} \/ \E s : kernel = {s}
          /\ call' = [call EXCEPT ![t] = [NoCall EXCEPT !.todo = Tail(p), !.kernel = kernel,
                                                        !.number = enqueueCounter]]
    BY DEF Begin
  <1> DEFINE c == [NoCall EXCEPT !.todo = Tail(p), !.kernel = kernel,
                                 !.number = enqueueCounter]
  <1>2. DOMAIN c = DOMAIN NoCall /\ c.stage = "macro" /\ c.kernel = kernel
    BY DEF NoCall
  <1>3. call' = [call EXCEPT ![t] = c]
    BY <1>1
  <1> HIDE DEF c
  <1>4. /\ call'[t] = c /\ DOMAIN call' = Threads
        /\ \A u \in Threads \ {t} : call'[u] = call[u]
    BY <1>3 DEF Locals
  <1> QED BY <1>1, <1>2, <1>4 DEF Locals, Moves, Passed

-----------------------------------------------------------------------------
(* The invariants. *)

\* The capture counter has seen every enqueue of a kernel that started one.
Counted ==
    /\ IsFiniteSet(kernelCaptures)
    /\ Cardinality(kernelCaptures) <= captureCounter
    /\ CapturesAreLimited

\* A signature that was captured, or that some thread may capture, is in the
\* set, and one thread at most may capture it.
NotYetCaptured ==
    config.Unique =>
        /\ \A c \in kernelCaptures : c[2] \in captureSet
        /\ \A t \in Threads : Passed(t) =>
               /\ call[t].kernel \subseteq captureSet
               /\ \A c \in kernelCaptures : c[2] \notin call[t].kernel
               /\ \A u \in Threads \ {t} : Passed(u) =>
                      call[t].kernel \cap call[u].kernel = {}

\* Nobody is in the layer after its destructor has run, and nothing is captured.
Over == unloaded => Quiescent /\ ~started

Inv == Types /\ FlagIsTrue /\ Counted /\ NotYetCaptured /\ UniqueKernelsOnce /\ Over

\* What a step's locals become, for every step of a thread.
LEMMA StepUpdate ==
  ASSUME Locals, NEW t \in Threads, Step(t)
  PROVE  /\ Locals' /\ \A u \in Threads \ {t} : call'[u] = call[u]
         /\ Passed(t)' => /\ Passed(t) \/ CheckStartKernel(t)
                          /\ call'[t].kernel = call[t].kernel
         /\ ~unloaded \/ ~Idle(t)
  <1> USE DEF Moves
  <1>1. CASE Begin(t)
    BY <1>1, BeginUpdate DEF Begin
  <1>2. CASE CheckStart(t)
    <2>1. ASSUME GoesOn(t, "read") PROVE ~Passed(t)'
      BY <1>2, <2>1, GoesOnUpdate
         DEF CheckStart, Passed, At, AubStart, AubStartKernel, Stages
    <2> QED BY <1>2, <2>1, DoneUpdate, GoesOnUpdate DEF CheckStart, At, Stages
  <1>3. CASE CheckStartKernel(t)
    BY <1>3, DoneUpdate, GoesOnUpdate DEF CheckStartKernel, At, Stages
  <1>4. CASE ReadBeforeStart(t)
    <2>1. ASSUME GoesOn(t, "locked"), Passed(t)' PROVE Passed(t)
      BY <1>4, <2>1, GoesOnUpdate DEF ReadBeforeStart, InStart, Passed, At, Stages
    <2> QED BY <1>4, <2>1, DoneUpdate, GoesOnUpdate DEF ReadBeforeStart, InStart, At, Stages
  <1>5. CASE StartAubCapture(t)
    BY <1>5, DoneUpdate, StartUpdate DEF StartAubCapture, InStart, At
  <1>6. CASE DispatchCommand(t)
    BY <1>6, DoneUpdate DEF DispatchCommand, At
  <1>7. CASE CheckStop(t)
    <2>1. ASSUME GoesOn(t, "locked") PROVE ~Passed(t)'
      BY <1>7, <2>1, GoesOnUpdate
         DEF CheckStop, Passed, At, AubStop, AubStartKernel, Stages
    <2> QED BY <1>7, <2>1, DoneUpdate, GoesOnUpdate DEF CheckStop, At, Stages
  <1>8. CASE StopAubCapture(t)
    BY <1>8, DoneUpdate DEF StopAubCapture, At
  <1> QED BY <1>1, <1>2, <1>3, <1>4, <1>5, <1>6, <1>7, <1>8 DEF Step

\* Nothing is captured or counted at the start.
LEMMA InvInit == Init => Inv
  <1> SUFFICES ASSUME Init PROVE Inv
    OBVIOUS
  <1> USE AubConfigsAssumption DEF Init
  <1>1. Types
    BY DEF Types, Locals, NoCall
  <1>2. FlagIsTrue /\ UniqueKernelsOnce /\ Over
    BY DEF FlagIsTrue, UniqueKernelsOnce, Over
  <1>3. Counted
    BY FS_EmptySet DEF Counted, CapturesAreLimited
  <1>4. NotYetCaptured
    BY DEF NotYetCaptured, Passed, NoCall
  <1> QED BY <1>1, <1>2, <1>3, <1>4 DEF Inv

\* The flag and the process-wide capture change together, under the lock.
LEMMA TypesStep ==
  ASSUME Inv, NEW t \in Threads, Step(t)
  PROVE  Types' /\ FlagIsTrue' /\ Over'
  <1> USE DEF Inv, Types
  <1>1. Locals' /\ (~unloaded \/ ~Idle(t))
    BY StepUpdate
  <1>2. /\ config' = config /\ unloaded' = unloaded
        /\ started' \in BOOLEAN /\ captureCounter' \in Nat
        /\ capturing' = IF started' THEN 1 ELSE 0
    <2> USE DEF FlagIsTrue
    <2>1. CASE Begin(t)
      BY <2>1 DEF Begin, counters
    <2>2. CASE CheckStart(t)
      BY <2>2 DEF CheckStart, counters
    <2>3. CASE CheckStartKernel(t)
      BY <2>3 DEF CheckStartKernel
    <2>4. CASE ReadBeforeStart(t)
      BY <2>4 DEF ReadBeforeStart, counters
    <2>5. CASE StartAubCapture(t)
      <3>1. captureCounter' \in Nat /\ config' = config /\ unloaded' = unloaded
        BY <2>5 DEF StartAubCapture
      <3>2. CASE ~started /\ Start(t)
        <4>1. started' = TRUE /\ capturing = 0 /\ capturing' = capturing + 1
          BY <3>2 DEF Start
        <4> QED BY <3>1, <4>1
      <3>3. CASE started' = started /\ capturing' = capturing
        BY <3>1, <3>3, Zenon
      <3> QED BY <2>5, <3>2, <3>3 DEF StartAubCapture
    <2>6. CASE DispatchCommand(t)
      BY <2>6 DEF DispatchCommand, counters
    <2>7. CASE CheckStop(t)
      BY <2>7 DEF CheckStop, counters
    <2>8. CASE StopAubCapture(t)
      <3>1. /\ started' = FALSE /\ config' = config /\ unloaded' = unloaded
            /\ captureCounter' = captureCounter
            /\ capturing' = IF started THEN capturing - 1 ELSE capturing
        BY <2>8 DEF StopAubCapture, counters
      <3>2. capturing' = 0
        BY <3>1
      <3> QED BY <3>1, <3>2
    <2> QED BY <2>1, <2>2, <2>3, <2>4, <2>5, <2>6, <2>7, <2>8 DEF Step
  <1>3. ~unloaded
    BY <1>1 DEF Over, Quiescent
  <1> QED BY <1>1, <1>2, <1>3 DEF FlagIsTrue, Over

\* What a step adds to the captures: nothing, or the kernel of a thread that had
\* passed the checks, while the capture counter was below its limit.
LEMMA CapturesGrow ==
  ASSUME Inv, NEW t \in Threads, Step(t)
  PROVE  \/ /\ kernelCaptures' = kernelCaptures
            /\ captureCounter' >= captureCounter
         \/ /\ StartAubCapture(t) /\ Passed(t) /\ ~Passed(t)'
            /\ kernelCaptures' = kernelCaptures \cup ({call[t].number} \X call[t].kernel)
            /\ captureCounter < config.Capture
            /\ captureCounter' = captureCounter + 1
  <1> USE DEF Inv, Types
  <1>1. CASE Begin(t)
    BY <1>1 DEF Begin, counters
  <1>2. CASE CheckStart(t)
    BY <1>2 DEF CheckStart, counters
  <1>3. CASE CheckStartKernel(t)
    BY <1>3 DEF CheckStartKernel
  <1>4. CASE ReadBeforeStart(t)
    BY <1>4 DEF ReadBeforeStart, counters
  <1>5. CASE StartAubCapture(t)
    <2>1. captureCounter' >= captureCounter
      BY <1>5 DEF StartAubCapture
    <2>2. CASE Start(t) /\ IsKernel(t) /\ ~(skipCounter < config.Skip)
               /\ ~(captureCounter >= config.Capture)
      <3>1. Passed(t) /\ ~Passed(t)'
        BY <1>5, <2>2, StartUpdate
           DEF StartAubCapture, InStart, At, Passed, IsKernel, Moves
      <3>2. captureCounter < config.Capture
        BY <2>2, AubConfigsAssumption
      <3>3. captureCounter' = captureCounter + 1
        BY <1>5, <2>2 DEF StartAubCapture
      <3> QED BY <1>5, <2>2, <3>1, <3>2, <3>3 DEF Start
    <2>3. CASE Start(t) /\ ~IsKernel(t)
      BY <2>1, <2>3 DEF Start
    <2>4. CASE kernelCaptures' = kernelCaptures
      BY <2>1, <2>4
    <2> QED BY <1>5, <2>2, <2>3, <2>4 DEF StartAubCapture
  <1>6. CASE DispatchCommand(t)
    BY <1>6 DEF DispatchCommand, counters
  <1>7. CASE CheckStop(t)
    BY <1>7 DEF CheckStop, counters
  <1>8. CASE StopAubCapture(t)
    BY <1>8 DEF StopAubCapture, counters
  <1> QED BY <1>1, <1>2, <1>3, <1>4, <1>5, <1>6, <1>7, <1>8 DEF Step

\* Every capture of a kernel is paid for by a count, and none is paid for
\* beyond the limit.
LEMMA CountedStep ==
  ASSUME Inv, NEW t \in Threads, Step(t)
  PROVE  Counted'
  <1> USE DEF Inv, Types, Counted, CapturesAreLimited
  <1>0. config' = config /\ config.Capture \in Nat
    BY TypesStep, AubConfigsAssumption
       DEF Step, Begin, CheckStart, CheckStartKernel, ReadBeforeStart, StartAubCapture,
           DispatchCommand, CheckStop, StopAubCapture
  <1>1. CASE kernelCaptures' = kernelCaptures /\ captureCounter' >= captureCounter
    <2>1. captureCounter' \in Nat /\ Cardinality(kernelCaptures) \in Nat
      BY TypesStep, FS_CardinalityType
    <2> QED BY <1>0, <1>1, <2>1
  <1>2. CASE /\ kernelCaptures' = kernelCaptures \cup ({call[t].number} \X call[t].kernel)
             /\ captureCounter < config.Capture
             /\ captureCounter' = captureCounter + 1
    <2>1. \/ kernelCaptures' = kernelCaptures
          \/ \E c : kernelCaptures' = kernelCaptures \cup {c}
      <3>1. CASE call[t].kernel = {}
        BY <1>2, <3>1
      <3>2. ASSUME NEW s, call[t].kernel = {s}
            PROVE  kernelCaptures' = kernelCaptures \cup {<<call[t].number, s>>}
        BY <1>2, <3>2
      <3> QED BY <3>1, <3>2 DEF Locals
    <2>2. Cardinality(kernelCaptures) \in Nat
      BY FS_CardinalityType
    <2>3. /\ IsFiniteSet(kernelCaptures')
          /\ Cardinality(kernelCaptures') <= Cardinality(kernelCaptures) + 1
          /\ Cardinality(kernelCaptures') \in Nat
      <3>1. CASE kernelCaptures' = kernelCaptures
        BY <2>2, <3>1
      <3>2. ASSUME NEW c, kernelCaptures' = kernelCaptures \cup {c}
            PROVE  /\ IsFiniteSet(kernelCaptures')
                   /\ Cardinality(kernelCaptures') <= Cardinality(kernelCaptures) + 1
                   /\ Cardinality(kernelCaptures') \in Nat
        <4>1. /\ IsFiniteSet(kernelCaptures \cup {c})
              /\ Cardinality(kernelCaptures \cup {c}) =
                    IF c \in kernelCaptures THEN Cardinality(kernelCaptures)
                    ELSE Cardinality(kernelCaptures) + 1
          BY FS_AddElement
        <4> QED BY <2>2, <3>2, <4>1
      <3> QED BY <2>1, <3>1, <3>2
    <2> QED BY <1>0, <1>2, <2>2, <2>3
  <1> QED BY <1>1, <1>2, CapturesGrow

\* A signature enters the set in the step that lets its first thread pass.
LEMMA NotYetCapturedStep ==
  ASSUME Inv, NEW t \in Threads, Step(t)
  PROVE  NotYetCaptured' /\ UniqueKernelsOnce'
  <1> USE DEF Inv, Types
  <1>1. /\ config' = config
        /\ \/ captureSet' = captureSet /\ ~CheckStartKernel(t)
           \/ CheckStartKernel(t)
    BY DEF Step, Begin, CheckStart, CheckStartKernel, ReadBeforeStart, StartAubCapture,
           DispatchCommand, CheckStop, StopAubCapture, counters
  <1> SUFFICES ASSUME config.Unique
               PROVE  NotYetCaptured' /\ UniqueKernelsOnce'
    BY <1>1 DEF NotYetCaptured, UniqueKernelsOnce
  <1>2. /\ \A u \in Threads \ {t} : call'[u] = call[u]
        /\ Passed(t)' => /\ Passed(t) \/ CheckStartKernel(t)
                         /\ call'[t].kernel = call[t].kernel
    BY StepUpdate
  <1>3. \A u \in Threads \ {t} : Passed(u)' = Passed(u)
    BY <1>2 DEF Passed
  <1>4. CASE CheckStartKernel(t)
    <2>1. kernelCaptures' = kernelCaptures
      BY <1>4 DEF CheckStartKernel
    <2>2. captureSet \subseteq captureSet'
      BY <1>4 DEF CheckStartKernel
    <2>3. ASSUME Passed(t)'
          PROVE  call[t].kernel \subseteq captureSet' /\ call[t].kernel \cap captureSet = {}
      <3>1. ~Done(t)
        BY <2>3, DoneUpdate DEF Moves
      <3>2. ~(call[t].kernel \subseteq captureSet)
        BY <1>4, <3>1 DEF CheckStartKernel
      <3>3. captureSet' = captureSet \cup call[t].kernel
        BY <1>4, <3>1 DEF CheckStartKernel
      <3>4. call[t].kernel = {} \/ \E s : call[t].kernel = {s}
        BY DEF Locals
      <3> QED BY <3>2, <3>3, <3>4
    <2>4. NotYetCaptured'
      <3>1. \A c \in kernelCaptures' : c[2] \in captureSet'
        BY <2>1, <2>2 DEF NotYetCaptured
      <3>2. ASSUME NEW u \in Threads, Passed(u)'
            PROVE  /\ call'[u].kernel \subseteq captureSet'
                   /\ \A c \in kernelCaptures' : c[2] \notin call'[u].kernel
                   /\ \A w \in Threads \ {u} : Passed(w)' =>
                          call'[u].kernel \cap call'[w].kernel = {}
        <4>1. CASE u = t
          BY <1>2, <1>3, <2>1, <2>3, <3>2, <4>1 DEF NotYetCaptured
        <4>2. CASE u # t
          BY <1>2, <1>3, <2>1, <2>2, <2>3, <3>2, <4>2 DEF NotYetCaptured
        <4> QED BY <4>1, <4>2
      <3> QED BY <3>1, <3>2 DEF NotYetCaptured
    <2> QED BY <1>1, <2>1, <2>4 DEF UniqueKernelsOnce
  <1>5. CASE ~CheckStartKernel(t) /\ kernelCaptures' = kernelCaptures
    <2>1. captureSet' = captureSet
      BY <1>1, <1>5
    <2>2. \A u \in Threads : Passed(u)' => Passed(u) /\ call'[u].kernel = call[u].kernel
      BY <1>2, <1>3, <1>5
    <2>3. NotYetCaptured'
      BY <1>1, <1>5, <2>1, <2>2 DEF NotYetCaptured
    <2> QED BY <1>1, <1>5, <2>3 DEF UniqueKernelsOnce
  <1>6. CASE /\ StartAubCapture(t) /\ Passed(t) /\ ~Passed(t)'
             /\ kernelCaptures' = kernelCaptures \cup ({call[t].number} \X call[t].kernel)
    <2>1. captureSet' = captureSet /\ ~CheckStartKernel(t)
      BY <1>6 DEF StartAubCapture, CheckStartKernel, InStart, At
    <2>2. \A u \in Threads : Passed(u)' =>
             u # t /\ Passed(u) /\ call'[u].kernel = call[u].kernel
      BY <1>2, <1>3, <1>6
    <2>3. \A c \in kernelCaptures' \ kernelCaptures :
             c[1] = call[t].number /\ c[2] \in call[t].kernel
      BY <1>6
    <2>4. \A a, b \in kernelCaptures' \ kernelCaptures : a = b
      <3>1. CASE call[t].kernel = {}
        BY <2>3, <3>1
      <3>2. ASSUME NEW s, call[t].kernel = {s}
            PROVE  kernelCaptures' = kernelCaptures \cup {<<call[t].number, s>>}
        BY <1>6, <3>2
      <3> QED BY <3>1, <3>2 DEF Locals
    <2>5. NotYetCaptured'
      BY <1>1, <1>6, <2>1, <2>2, <2>3 DEF NotYetCaptured
    <2>6. ASSUME NEW a \in kernelCaptures', NEW b \in kernelCaptures', a[2] = b[2]
          PROVE  a = b
      <3>1. CASE a \in kernelCaptures /\ b \in kernelCaptures
        BY <2>6, <3>1 DEF UniqueKernelsOnce
      <3>2. CASE a \notin kernelCaptures /\ b \notin kernelCaptures
        BY <2>4, <3>2
      <3>3. CASE (a \in kernelCaptures) # (b \in kernelCaptures)
        BY <1>6, <2>3, <2>6, <3>3 DEF NotYetCaptured
      <3> QED BY <3>1, <3>2, <3>3
    <2> QED BY <1>1, <2>5, <2>6 DEF UniqueKernelsOnce
  <1> QED BY <1>4, <1>5, <1>6, CapturesGrow

\* Every step, the destructor's included, keeps the invariant.
LEMMA InvStep == Inv /\ [Next]_vars => Inv'
  <1> SUFFICES ASSUME Inv, [Next]_vars PROVE Inv'
    OBVIOUS
  <1>1. ASSUME NEW t \in Threads, Step(t) PROVE Inv'
    BY <1>1, TypesStep, CountedStep, NotYetCapturedStep DEF Inv
  <1>2. CASE Unload
    <2> USE <1>2 DEF Inv, Unload
    <2>1. /\ started' = FALSE /\ unloaded' = TRUE
          /\ UNCHANGED <<config, call, counters, kernelCaptures>>
          /\ capturing' = IF started THEN capturing - 1 ELSE capturing
      OBVIOUS
    <2>2. capturing' = 0
      BY <2>1 DEF FlagIsTrue, Types
    <2>3. Types' /\ FlagIsTrue'
      BY <2>1, <2>2 DEF Types, Locals, FlagIsTrue, counters
    <2>4. Counted' /\ UniqueKernelsOnce'
      BY <2>1 DEF Counted, CapturesAreLimited, UniqueKernelsOnce, counters
    <2>5. NotYetCaptured'
      BY <2>1 DEF NotYetCaptured, Passed, counters
    <2>6. Over'
      BY <2>1 DEF Over, Quiescent, Idle
    <2> QED BY <2>3, <2>4, <2>5, <2>6
  <1>3. CASE UNCHANGED vars
    BY <1>3 DEF Inv, vars, counters, Types, Locals, FlagIsTrue, Counted, CapturesAreLimited,
                NotYetCaptured, Passed, UniqueKernelsOnce, Over, Quiescent, Idle
  <1> QED BY <1>1, <1>2, <1>3 DEF Next

\* The inductive invariant holds in every reachable state.
LEMMA InvInvariant == Spec => []Inv
  BY InvInit, InvStep, PTL DEF Spec

-----------------------------------------------------------------------------
(* What is left of a handler, and what the counters bound. *)

KernelSteps == <<AubStartKernel, Dispatch, AubStop>>

\* The ends of a command's handler.
Rests == {KernelSteps, <<AubStart, Dispatch, AubStop>>, <<AubStart, Dispatch>>,
          <<Dispatch, AubStop>>, <<Dispatch>>, <<AubStop>>, <<>>}

\* A handler's kernel has not been counted yet; its command's number is its own.
Pending(t) == call[t].todo = KernelSteps
Numbers == {call[t].number : t \in {u \in Threads : Pending(u)}}

Places ==
    \A t \in Threads :
        /\ call[t].todo \in Rests
        /\ call[t].stage \in Stages
        /\ call[t].number \in 0 .. MaxEnqueue
        /\ call[t].kernel \in SUBSET Signatures
        /\ Pending(t) =>
              /\ call[t].number < enqueueCounter
              /\ \A u \in Threads \ {t} : Pending(u) => call[u].number # call[t].number

\* A kernel is counted by captureCounter once, after its command was numbered.
CountersBounded ==
    /\ enqueueCounter \in 0 .. MaxEnqueue
    /\ skipCounter \in 0 .. config.Skip
    /\ captureCounter + Cardinality(Numbers) <= enqueueCounter
    /\ captureSet \in SUBSET config.Matching
    /\ kernelCaptures \in SUBSET ((0 .. MaxEnqueue - 1) \X Signatures)
    /\ unloaded \in BOOLEAN

\* When every enqueue is captured on its own, a running capture belongs to a
\* thread that will stop it; another thread may stop it before.
Stopping(t) == call[t].todo \in {<<Dispatch, AubStop>>, <<AubStop>>}
Stopped ==
    config.Individual =>
        /\ started => \E t \in Threads : Stopping(t)
        /\ \A t \in Threads :
              call[t].todo # <<>> /\ Head(call[t].todo) = AubStart => call[t].stage = "macro"

Inv2 == Places /\ CountersBounded /\ Stopped

\* Short sequences.
LEMMA ShortTails ==
  ASSUME NEW a, NEW b, NEW c, NEW d
  PROVE  /\ Tail(<<a>>) = <<>> /\ Tail(<<a, b>>) = <<b>>
         /\ Tail(<<a, b, c>>) = <<b, c>> /\ Tail(<<a, b, c, d>>) = <<b, c, d>>
         /\ Head(<<a>>) = a /\ Head(<<a, b>>) = a /\ Head(<<a, b, c>>) = a
         /\ <<a>> # <<>> /\ <<a, b>> # <<>> /\ <<a, b, c>> # <<>>
         /\ <<a>> # <<b, c>> /\ <<a>> # <<b, c, d>> /\ <<a, b>> # <<a, c, d>>
  OBVIOUS

LEMMA EndsOfFour ==
  ASSUME NEW a, NEW b, NEW c, NEW d, NEW P, P = <<a, b, c, d>>
  PROVE  /\ SubSeq(P, 2, 4) = <<b, c, d>> /\ SubSeq(P, 3, 4) = <<c, d>>
         /\ SubSeq(P, 4, 4) = <<d>> /\ SubSeq(P, 5, 4) = <<>> /\ Len(P) = 4
  <1> DEFINE S == {a, b, c, d}
  <1>1. P \in Seq(S) /\ Len(P) = 4 /\ P # <<>> /\ Tail(P) = <<b, c, d>>
    OBVIOUS
  <1>2. Tail(<<b, c, d>>) = <<c, d>> /\ Tail(<<c, d>>) = <<d>>
    OBVIOUS
  <1> HIDE DEF S
  <1>3. SubSeq(P, 2, 4) = Tail(P)
    BY <1>1, TailIsSubSeq
  <1>4. /\ SubSeq(P, 3, 4) = Tail(SubSeq(P, 2, 4))
        /\ SubSeq(P, 4, 4) = Tail(SubSeq(P, 3, 4))
    BY <1>1, HeadTailOfSubSeq
  <1>5. SubSeq(P, 5, 4) = <<>>
    BY SubSeqEmpty
  <1> QED BY <1>1, <1>2, <1>3, <1>4, <1>5

LEMMA EndsOfThree ==
  ASSUME NEW a, NEW b, NEW c, NEW P, P = <<a, b, c>>
  PROVE  SubSeq(P, 2, 3) = <<b, c>> /\ SubSeq(P, 3, 3) = <<c>> /\ Len(P) = 3
  <1> DEFINE S == {a, b, c}
  <1>1. P \in Seq(S) /\ Len(P) = 3 /\ P # <<>> /\ Tail(P) = <<b, c>>
    OBVIOUS
  <1>2. Tail(<<b, c>>) = <<c>>
    OBVIOUS
  <1> HIDE DEF S
  <1>3. SubSeq(P, 2, 3) = Tail(P)
    BY <1>1, TailIsSubSeq
  <1>4. SubSeq(P, 3, 3) = Tail(SubSeq(P, 2, 3))
    BY <1>1, HeadTailOfSubSeq
  <1> QED BY <1>1, <1>2, <1>3, <1>4

LEMMA StepsDiffer ==
  /\ AubStart # AubStartKernel /\ AubStart # Dispatch /\ AubStart # AubStop
  /\ AubStartKernel # Dispatch /\ AubStartKernel # AubStop /\ Dispatch # AubStop
  BY DEF AubStart, AubStartKernel, Dispatch, AubStop

\* What is left after the first step.
LEMMA RestsShrink ==
  /\ \A r \in Rests : r # <<>> => Tail(r) \in Rests /\ Tail(r) # KernelSteps
  /\ \A p \in CommandOrders : Tail(p) \in Rests
  /\ \A r \in Rests : r # <<>> /\ Head(r) = AubStartKernel => r = KernelSteps
  /\ Head(KernelSteps) = AubStartKernel /\ KernelSteps # <<>>
  /\ Tail(KernelSteps) = <<Dispatch, AubStop>>
  /\ \A r \in Rests : r # <<>> /\ Head(r) = Dispatch => r \in {<<Dispatch, AubStop>>, <<Dispatch>>}
  /\ \A r \in Rests : r # <<>> /\ Head(r) = AubStop => r = <<AubStop>>
  <1> USE ShortTails, StepsDiffer DEF Rests, KernelSteps, CommandOrders
  <1>1. \A r \in Rests : r # <<>> => Tail(r) \in Rests /\ Tail(r) # KernelSteps
    <2>1. /\ Tail(<<AubStart, Dispatch, AubStop>>) = <<Dispatch, AubStop>>
          /\ Tail(<<AubStartKernel, Dispatch, AubStop>>) = <<Dispatch, AubStop>>
          /\ Tail(<<AubStart, Dispatch>>) = <<Dispatch>>
          /\ Tail(<<Dispatch, AubStop>>) = <<AubStop>>
          /\ Tail(<<Dispatch>>) = <<>> /\ Tail(<<AubStop>>) = <<>>
      OBVIOUS
    <2>2. /\ <<Dispatch, AubStop>> # KernelSteps /\ <<Dispatch>> # KernelSteps
          /\ <<AubStop>> # KernelSteps /\ <<>> # KernelSteps
      OBVIOUS
    <2> QED BY ONLY <2>1, <2>2 DEF Rests, KernelSteps
  <1>2. \A p \in CommandOrders : Tail(p) \in Rests
    <2>1. /\ Tail(<<Count, AubStart, Dispatch, AubStop>>) = <<AubStart, Dispatch, AubStop>>
          /\ Tail(<<Count, AubStartKernel, Dispatch, AubStop>>) = KernelSteps
          /\ Tail(<<Count, AubStart, Dispatch>>) = <<AubStart, Dispatch>>
      OBVIOUS
    <2> QED BY ONLY <2>1 DEF Rests, CommandOrders
  <1>3. \A r \in Rests : r # <<>> /\ Head(r) = AubStartKernel => r = KernelSteps
    OBVIOUS
  <1>4. /\ Head(KernelSteps) = AubStartKernel /\ KernelSteps # <<>>
        /\ Tail(KernelSteps) = <<Dispatch, AubStop>>
    OBVIOUS
  <1>5. \A r \in Rests : r # <<>> /\ Head(r) = Dispatch =>
                            r \in {<<Dispatch, AubStop>>, <<Dispatch>>}
    OBVIOUS
  <1>6. \A r \in Rests : r # <<>> /\ Head(r) = AubStop => r = <<AubStop>>
    OBVIOUS
  <1> QED BY <1>1, <1>2, <1>3, <1>4, <1>5, <1>6

\* TypeOK asks for the ends of the programs.
LEMMA RestsAreEnds ==
  ASSUME NEW r \in Rests
  PROVE  \E p \in Programs : \E i \in 2 .. Len(p) + 1 : r = SubSeq(p, i, Len(p))
  <1>1. PICK P, Q, R : /\ P = <<Count, AubStart, Dispatch, AubStop>>
                       /\ Q = <<Count, AubStartKernel, Dispatch, AubStop>>
                       /\ R = <<Count, AubStart, Dispatch>>
    OBVIOUS
  <1>2. P \in Programs /\ Q \in Programs /\ R \in Programs
    BY <1>1, CommandsAreOrdered DEF Programs, CommandOrders
  <1>3. /\ SubSeq(P, 2, 4) = <<AubStart, Dispatch, AubStop>>
        /\ SubSeq(P, 3, 4) = <<Dispatch, AubStop>>
        /\ SubSeq(P, 4, 4) = <<AubStop>>
        /\ SubSeq(P, 5, 4) = <<>> /\ Len(P) = 4
    BY <1>1, EndsOfFour
  <1>4. SubSeq(Q, 2, 4) = KernelSteps /\ Len(Q) = 4
    BY <1>1, EndsOfFour DEF KernelSteps
  <1>5. SubSeq(R, 2, 3) = <<AubStart, Dispatch>> /\ SubSeq(R, 3, 3) = <<Dispatch>> /\ Len(R) = 3
    BY <1>1, EndsOfThree
  <1>6. CASE r \in {<<AubStart, Dispatch, AubStop>>, <<Dispatch, AubStop>>, <<AubStop>>, <<>>}
    <2>1. PICK i \in {2, 3, 4, 5} : r = SubSeq(P, i, 4)
      BY <1>3, <1>6
    <2>2. i \in 2 .. Len(P) + 1 /\ r = SubSeq(P, i, Len(P))
      BY <1>3, <2>1
    <2> QED BY <1>2, <2>2
  <1>7. CASE r = KernelSteps
    <2>1. 2 \in 2 .. Len(Q) + 1 /\ r = SubSeq(Q, 2, Len(Q))
      BY <1>4, <1>7
    <2> QED BY <1>2, <2>1
  <1>8. CASE r \in {<<AubStart, Dispatch>>, <<Dispatch>>}
    <2>1. PICK i \in {2, 3} : r = SubSeq(R, i, 3)
      BY <1>5, <1>8
    <2>2. i \in 2 .. Len(R) + 1 /\ r = SubSeq(R, i, Len(R))
      BY <1>5, <2>1
    <2> QED BY <1>2, <2>2
  <1> QED BY <1>6, <1>7, <1>8 DEF Rests

\* How a step changes the locals of its thread.
Begins(t) ==
    /\ Idle(t) /\ enqueueCounter < MaxEnqueue /\ enqueueCounter' = enqueueCounter + 1
    /\ \E p \in CommandOrders : call'[t].todo = Tail(p)
    /\ call'[t].stage = "macro" /\ call'[t].number = enqueueCounter
    /\ call'[t].kernel \in SUBSET Signatures
Advances(t) ==
    /\ ~Idle(t) /\ enqueueCounter' = enqueueCounter
    /\ call'[t].todo = Tail(call[t].todo) /\ call'[t].stage = "macro"
    /\ call'[t].number = call[t].number /\ call'[t].kernel = call[t].kernel
Pauses(t) ==
    /\ ~Idle(t) /\ enqueueCounter' = enqueueCounter
    /\ call'[t].todo = call[t].todo /\ call'[t].stage \in {"read", "locked"}
    /\ call'[t].number = call[t].number /\ call'[t].kernel = call[t].kernel

LEMMA DoneAdvances ==
  ASSUME Locals, NEW t \in Threads, Done(t) \/ Start(t),
         ~Idle(t), enqueueCounter' = enqueueCounter
  PROVE  Advances(t)
  <1> DEFINE c == [call[t] EXCEPT !.todo = Tail(call[t].todo), !.stage = "macro"]
  <1>1. /\ c.stage = "macro" /\ c.kernel = call[t].kernel
        /\ c.number = call[t].number /\ c.todo = Tail(call[t].todo)
    BY DEF Locals, NoCall
  <1>2. call' = [call EXCEPT ![t] = c]
    BY DEF Done, Start
  <1> HIDE DEF c
  <1>3. call'[t] = c
    BY <1>2 DEF Locals
  <1> QED BY <1>1, <1>3 DEF Advances

LEMMA GoesOnPauses ==
  ASSUME Locals, NEW t \in Threads, GoesOn(t, "read") \/ GoesOn(t, "locked"),
         ~Idle(t), enqueueCounter' = enqueueCounter
  PROVE  Pauses(t)
  <1>1. PICK stage \in {"read", "locked"} : call' = [call EXCEPT ![t].stage = stage]
    BY DEF GoesOn
  <1> DEFINE c == [call[t] EXCEPT !.stage = stage]
  <1>2. /\ c.stage = stage /\ c.kernel = call[t].kernel
        /\ c.number = call[t].number /\ c.todo = call[t].todo
    BY DEF Locals, NoCall
  <1>3. call' = [call EXCEPT ![t] = c]
    BY <1>1
  <1> HIDE DEF c
  <1>4. call'[t] = c
    BY <1>3 DEF Locals
  <1> QED BY <1>2, <1>4 DEF Pauses

LEMMA BeginBegins ==
  ASSUME Locals, NEW t \in Threads, Begin(t)
  PROVE  Begins(t)
  <1>1. PICK p \in Programs, kernel \in SUBSET Signatures :
          call' = [call EXCEPT ![t] = [NoCall EXCEPT !.todo = Tail(p), !.kernel = kernel,
                                                     !.number = enqueueCounter]]
    <2>1. PICK p \in Programs :
          \E kernel \in IF AubStartKernel \in {p[i] : i \in 1 .. Len(p)}
                        THEN {{s} : s \in Signatures} ELSE {{}} :
             call' = [call EXCEPT ![t] = [NoCall EXCEPT !.todo = Tail(p), !.kernel = kernel,
                                                        !.number = enqueueCounter]]
      BY DEF Begin
    <2>2. (IF AubStartKernel \in {p[i] : i \in 1 .. Len(p)}
           THEN {{s} : s \in Signatures} ELSE {{}}) \subseteq SUBSET Signatures
      OBVIOUS
    <2> QED BY <2>1, <2>2, Zenon
  <1> DEFINE c == [NoCall EXCEPT !.todo = Tail(p), !.kernel = kernel,
                                 !.number = enqueueCounter]
  <1>2. /\ c.stage = "macro" /\ c.kernel = kernel
        /\ c.number = enqueueCounter /\ c.todo = Tail(p)
    BY DEF NoCall
  <1>3. call' = [call EXCEPT ![t] = c]
    BY <1>1
  <1> HIDE DEF c
  <1>4. call'[t] = c
    BY <1>3 DEF Locals
  <1>5. p \in CommandOrders
    BY CommandsAreOrdered DEF Programs
  <1> QED BY <1>2, <1>4, <1>5 DEF Begins, Begin

LEMMA StepMoves ==
  ASSUME Locals, NEW t \in Threads, Step(t)
  PROVE  /\ (Begin(t) /\ Begins(t)) \/ Advances(t) \/ Pauses(t)
         /\ \A u \in Threads \ {t} : call'[u] = call[u]
  <1>0. \A u \in Threads \ {t} : call'[u] = call[u]
    BY StepUpdate
  <1>1. CASE Begin(t)
    BY <1>0, <1>1, BeginBegins
  <1>2. CASE CheckStart(t)
    BY <1>0, <1>2, DoneAdvances, GoesOnPauses DEF CheckStart, At
  <1>3. CASE CheckStartKernel(t)
    BY <1>0, <1>3, DoneAdvances, GoesOnPauses DEF CheckStartKernel, At
  <1>4. CASE ReadBeforeStart(t)
    BY <1>0, <1>4, DoneAdvances, GoesOnPauses DEF ReadBeforeStart, InStart, At
  <1>5. CASE StartAubCapture(t)
    BY <1>0, <1>5, DoneAdvances DEF StartAubCapture, InStart, At
  <1>6. CASE DispatchCommand(t)
    BY <1>0, <1>6, DoneAdvances DEF DispatchCommand, At
  <1>7. CASE CheckStop(t)
    BY <1>0, <1>7, DoneAdvances, GoesOnPauses DEF CheckStop, At
  <1>8. CASE StopAubCapture(t)
    BY <1>0, <1>8, DoneAdvances DEF StopAubCapture, At
  <1> QED BY <1>1, <1>2, <1>3, <1>4, <1>5, <1>6, <1>7, <1>8 DEF Step

\* Places are kept; a command that is numbered gets the next number.
LEMMA PlacesStep ==
  ASSUME Locals, Inv2, NEW t \in Threads, Step(t)
  PROVE  Places'
  <1> USE AubBoundsAssumption DEF Inv2
  <1>0. \A u \in Threads \ {t} : call'[u] = call[u]
    BY StepMoves
  <1>a. enqueueCounter \in 0 .. MaxEnqueue
    BY DEF CountersBounded
  <1>1. CASE Begins(t)
    <2>1. call'[t].todo \in Rests
      BY <1>1, RestsShrink DEF Begins
    <2>2. ASSUME NEW u \in Threads
          PROVE  /\ call'[u].todo \in Rests /\ call'[u].stage \in Stages
                 /\ call'[u].number \in 0 .. MaxEnqueue
                 /\ call'[u].kernel \in SUBSET Signatures
                 /\ Pending(u)' => call'[u].number < enqueueCounter'
                 /\ Pending(u)' /\ u # t => Pending(u) /\ call'[u].number < enqueueCounter
      <3>1. CASE u = t
        <4>1. /\ call'[t].todo \in Rests /\ call'[t].stage = "macro"
              /\ call'[t].number = enqueueCounter /\ call'[t].kernel \in SUBSET Signatures
              /\ enqueueCounter' = enqueueCounter + 1
          BY <1>1, <2>1 DEF Begins
        <4>2. call'[t].number < enqueueCounter' /\ call'[t].number \in 0 .. MaxEnqueue
          BY <1>a, <4>1
        <4> QED BY <3>1, <4>1, <4>2 DEF Stages, Pending
      <3>2. CASE u # t
        <4>1. call'[u] = call[u] /\ enqueueCounter' = enqueueCounter + 1
          BY <1>0, <1>1, <3>2 DEF Begins
        <4> QED BY <1>a, <3>2, <4>1 DEF Places, Pending
      <3> QED BY <3>1, <3>2
    <2> QED BY <1>0, <1>a, <1>1, <2>2 DEF Begins, Places, Pending
  <1>2. CASE Advances(t)
    <2>1. call[t].todo \in Rests /\ call[t].todo # <<>>
      BY <1>2 DEF Places, Advances, Idle
    <2>2. call'[t].todo \in Rests /\ call'[t].todo # KernelSteps
      <3>1. PICK r : r = call[t].todo
        OBVIOUS
      <3>2. Tail(r) \in Rests /\ Tail(r) # KernelSteps
        BY <2>1, <3>1, RestsShrink
      <3> QED BY <1>2, <3>1, <3>2 DEF Advances
    <2>3. ~Pending(t)'
      BY <2>2 DEF Pending
    <2>4. /\ enqueueCounter' = enqueueCounter /\ call'[t].stage = "macro"
          /\ call'[t].number = call[t].number /\ call'[t].kernel = call[t].kernel
      BY <1>2 DEF Advances
    <2>5. \A u \in Threads : Pending(u)' => u # t /\ Pending(u) /\ call'[u] = call[u]
      BY <1>0, <2>3 DEF Pending
    <2>6. ASSUME NEW u \in Threads
          PROVE  /\ call'[u].todo \in Rests /\ call'[u].stage \in Stages
                 /\ call'[u].number \in 0 .. MaxEnqueue
                 /\ call'[u].kernel \in SUBSET Signatures
      BY <1>0, <2>2, <2>4 DEF Places, Stages
    <2> QED BY <2>4, <2>5, <2>6 DEF Places
  <1>3. CASE Pauses(t)
    BY <1>0, <1>3 DEF Pauses, Places, Stages, Pending
  <1> QED BY <1>1, <1>2, <1>3, StepMoves

\* The numbers of the kernels still to be counted are finitely many.
LEMMA NumbersFinite ==
  ASSUME Places
  PROVE  IsFiniteSet(Numbers) /\ Cardinality(Numbers) \in Nat
  <1>1. IsFiniteSet(0 .. MaxEnqueue)
    BY FS_Interval, AubBoundsAssumption
  <1>2. Numbers \in SUBSET (0 .. MaxEnqueue)
    BY DEF Numbers, Places
  <1>3. IsFiniteSet(Numbers)
    BY <1>1, <1>2, FS_Subset
  <1> QED BY <1>3, FS_CardinalityType

\* A number enters when its command begins and leaves, at the latest, when the
\* locked part of startAubCapture counts the kernel.
LEMMA NumbersStep ==
  ASSUME Locals, Places, NEW t \in Threads, Step(t)
  PROVE  /\ Begin(t) => Numbers' \subseteq Numbers \cup {enqueueCounter}
         /\ ~Begin(t) => Numbers' \subseteq Numbers
         /\ StartAubCapture(t) /\ IsKernel(t) =>
               Numbers' \subseteq Numbers \ {call[t].number} /\ call[t].number \in Numbers
  <1>0. \A u \in Threads \ {t} : call'[u] = call[u]
    BY StepMoves
  <1>1. CASE Begin(t)
    <2>1. Begins(t) /\ ~StartAubCapture(t)
      BY <1>1, BeginBegins DEF Begin, StartAubCapture, InStart, At
    <2>2. Numbers' \subseteq Numbers \cup {enqueueCounter}
      BY <1>0, <2>1 DEF Begins, Numbers, Pending
    <2> QED BY <1>1, <2>1, <2>2
  <1>2. CASE ~Begin(t)
    <2>1. \A u \in Threads : Pending(u)' => Pending(u) /\ call'[u].number = call[u].number
      <3>1. CASE Advances(t)
        <4>1. PICK r \in Rests : r = call[t].todo /\ r # <<>>
          BY <3>1 DEF Places, Advances, Idle
        <4>2. Tail(r) # KernelSteps
          BY <4>1, RestsShrink
        <4>3. ~Pending(t)'
          BY <3>1, <4>1, <4>2 DEF Advances, Pending
        <4> QED BY <1>0, <4>3 DEF Pending
      <3>2. CASE Pauses(t)
        BY <1>0, <3>2 DEF Pauses, Pending
      <3> QED BY <1>2, <3>1, <3>2, StepMoves
    <2>2. Numbers' \subseteq Numbers
      BY <2>1 DEF Numbers
    <2>3. ASSUME StartAubCapture(t), IsKernel(t)
          PROVE  Numbers' \subseteq Numbers \ {call[t].number} /\ call[t].number \in Numbers
      <3>1. PICK r \in Rests : r = call[t].todo /\ r # <<>>
        BY <2>3 DEF Places, StartAubCapture, InStart, At, Idle
      <3>2. Pending(t)
        BY <2>3, <3>1, RestsShrink DEF Pending, IsKernel
      <3>3. Advances(t)
        BY <2>3, DoneAdvances DEF StartAubCapture, InStart, At
      <3>4. ~Pending(t)'
        BY <3>1, <3>2, <3>3, RestsShrink DEF Advances, Pending
      <3>5. call[t].number \in Numbers
        BY <3>2 DEF Numbers
      <3>6. call[t].number \notin Numbers'
        BY <2>1, <3>2, <3>4 DEF Numbers, Places
      <3> QED BY <2>2, <3>5, <3>6
    <2> QED BY <1>2, <2>2, <2>3
  <1> QED BY <1>1, <1>2

\* The counters stay in their bounds.
LEMMA CountersStep ==
  ASSUME Inv, Inv2, NEW t \in Threads, Step(t)
  PROVE  CountersBounded'
  <1> USE AubBoundsAssumption DEF Inv, Types, Inv2
  <1>0. config.Skip \in Nat /\ config.Matching \in SUBSET Signatures
    BY AubConfigsAssumption
  <1>1. /\ enqueueCounter \in 0 .. MaxEnqueue /\ skipCounter \in 0 .. config.Skip
        /\ captureCounter + Cardinality(Numbers) <= enqueueCounter
        /\ captureSet \in SUBSET config.Matching
        /\ kernelCaptures \in SUBSET ((0 .. MaxEnqueue - 1) \X Signatures)
        /\ unloaded \in BOOLEAN /\ captureCounter \in Nat /\ enqueueCounter \in Nat
    BY DEF CountersBounded
  <1>2. IsFiniteSet(Numbers) /\ Cardinality(Numbers) \in Nat
    BY NumbersFinite
  <1>3. Places' /\ config' = config
    BY PlacesStep DEF Step, Begin, CheckStart, CheckStartKernel, ReadBeforeStart,
          StartAubCapture, DispatchCommand, CheckStop, StopAubCapture
  <1>4. IsFiniteSet(Numbers') /\ Cardinality(Numbers') \in Nat
    <2>1. Numbers' \subseteq Numbers \cup {enqueueCounter}
      BY NumbersStep
    <2>2. IsFiniteSet(Numbers \cup {enqueueCounter})
      BY <1>2, FS_AddElement
    <2>3. Numbers' \in SUBSET (Numbers \cup {enqueueCounter})
      BY <2>1
    <2>4. IsFiniteSet(Numbers')
      BY <2>2, <2>3, FS_Subset
    <2> QED BY <2>4, FS_CardinalityType
  <1>5. ~Begin(t) => Cardinality(Numbers') <= Cardinality(Numbers)
    BY <1>2, NumbersStep, FS_Subset
  <1>6. CASE Begin(t)
    <2>1. Cardinality(Numbers') <= Cardinality(Numbers) + 1
      <3>1. /\ IsFiniteSet(Numbers \cup {enqueueCounter})
            /\ Cardinality(Numbers \cup {enqueueCounter}) =
                  IF enqueueCounter \in Numbers THEN Cardinality(Numbers)
                  ELSE Cardinality(Numbers) + 1
        BY <1>2, FS_AddElement
      <3>2. Cardinality(Numbers') <= Cardinality(Numbers \cup {enqueueCounter})
        BY <1>6, <3>1, NumbersStep, FS_Subset
      <3> QED BY <1>2, <1>4, <3>1, <3>2
    <2>2. /\ enqueueCounter < MaxEnqueue /\ enqueueCounter' = enqueueCounter + 1
          /\ UNCHANGED <<skipCounter, captureCounter, captureSet, kernelCaptures, unloaded>>
      BY <1>6 DEF Begin, counters
    <2> QED BY <1>1, <1>2, <1>3, <1>4, <2>1, <2>2 DEF CountersBounded
  <1>7. CASE CheckStartKernel(t)
    <2>1. /\ UNCHANGED <<enqueueCounter, skipCounter, captureCounter, kernelCaptures, unloaded>>
          /\ ~Begin(t)
      BY <1>7 DEF CheckStartKernel, Begin, At
    <2>2. captureSet' \in SUBSET config.Matching
      BY <1>1, <1>7 DEF CheckStartKernel
    <2> QED BY <1>1, <1>2, <1>3, <1>4, <1>5, <2>1, <2>2 DEF CountersBounded
  <1>8. CASE StartAubCapture(t)
    <2>1. UNCHANGED <<enqueueCounter, captureSet, unloaded>> /\ ~Begin(t)
      BY <1>8 DEF StartAubCapture, InStart, Begin, At
    <2>2. skipCounter' \in 0 .. config.Skip
      BY <1>0, <1>1, <1>8 DEF StartAubCapture
    <2>3. CASE IsKernel(t)
      <3>1. captureCounter' <= captureCounter + 1 /\ captureCounter' \in Nat
        BY <1>1, <1>8 DEF StartAubCapture
      <3>2. Cardinality(Numbers') + 1 <= Cardinality(Numbers)
        <4>1. /\ call[t].number \in Numbers
              /\ Numbers' \subseteq Numbers \ {call[t].number}
          BY <1>8, <2>3, NumbersStep
        <4>2. /\ IsFiniteSet(Numbers \ {call[t].number})
              /\ Cardinality(Numbers \ {call[t].number}) = Cardinality(Numbers) - 1
          BY <1>2, <4>1, FS_RemoveElement
        <4>3. Cardinality(Numbers') <= Cardinality(Numbers \ {call[t].number})
          BY <4>1, <4>2, FS_Subset
        <4> QED BY <1>2, <1>4, <4>2, <4>3
      <3>3. call[t].number \in 0 .. MaxEnqueue - 1
        <4>1. PICK r \in Rests : r = call[t].todo /\ r # <<>>
          BY <1>8 DEF Places, StartAubCapture, InStart, At, Idle
        <4>2. Pending(t)
          BY <2>3, <4>1, RestsShrink DEF Pending, IsKernel
        <4>3. call[t].number \in 0 .. MaxEnqueue /\ call[t].number < enqueueCounter
          BY <4>2 DEF Places
        <4> QED BY <1>1, <4>3
      <3>4. kernelCaptures' \in SUBSET ((0 .. MaxEnqueue - 1) \X Signatures)
        <4>1. call[t].kernel \in SUBSET Signatures
          BY DEF Places
        <4> QED BY <1>1, <1>8, <3>3, <4>1 DEF StartAubCapture, Start
      <3>5. captureCounter' + Cardinality(Numbers') <= enqueueCounter
        BY <1>1, <1>2, <1>4, <3>1, <3>2
      <3> QED BY <1>1, <1>3, <2>1, <2>2, <3>4, <3>5 DEF CountersBounded
    <2>4. CASE ~IsKernel(t)
      <3>1. captureCounter' = captureCounter
        BY <1>1, <1>8, <2>4 DEF StartAubCapture
      <3>2. kernelCaptures' = kernelCaptures
        BY <1>8, <2>4 DEF StartAubCapture, Start
      <3>3. captureCounter' + Cardinality(Numbers') <= enqueueCounter
        BY <1>1, <1>2, <1>4, <1>5, <2>1, <3>1
      <3> QED BY <1>1, <1>3, <2>1, <2>2, <3>2, <3>3 DEF CountersBounded
    <2> QED BY <2>3, <2>4
  <1>9. CASE /\ ~Begin(t)
             /\ UNCHANGED <<enqueueCounter, skipCounter, captureCounter, captureSet,
                            kernelCaptures, unloaded>>
    BY <1>1, <1>2, <1>3, <1>4, <1>5, <1>9 DEF CountersBounded
  <1>10. \/ Begin(t) \/ CheckStartKernel(t) \/ StartAubCapture(t)
         \/ UNCHANGED <<enqueueCounter, skipCounter, captureCounter, captureSet,
                        kernelCaptures, unloaded>>
    BY DEF Step, CheckStart, ReadBeforeStart, DispatchCommand, CheckStop, StopAubCapture, counters
  <1> QED BY <1>6, <1>7, <1>8, <1>9, <1>10

\* Whoever starts a capture will stop it, unless somebody else does.
LEMMA StoppedStep ==
  ASSUME Inv, Inv2, NEW t \in Threads, Step(t)
  PROVE  Stopped'
  <1> USE DEF Inv, Types, Inv2
  <1>0. /\ config' = config
        /\ \A u \in Threads \ {t} : call'[u] = call[u]
    BY StepMoves DEF Step, Begin, CheckStart, CheckStartKernel, ReadBeforeStart,
          StartAubCapture, DispatchCommand, CheckStop, StopAubCapture
  <1> SUFFICES ASSUME config.Individual PROVE Stopped'
    BY <1>0 DEF Stopped
  <1>1. /\ started => \E u \in Threads : Stopping(u)
        /\ \A u \in Threads :
              call[u].todo # <<>> /\ Head(call[u].todo) = AubStart => call[u].stage = "macro"
    BY DEF Stopped
  <1>2. call'[t].todo # <<>> /\ Head(call'[t].todo) = AubStart => call'[t].stage = "macro"
    <2>1. CASE Begins(t) \/ Advances(t)
      BY <2>1 DEF Begins, Advances
    <2>2. CASE Pauses(t)
      <3>1. CASE CheckStart(t)
        <4>1. Done(t)
          BY <3>1 DEF CheckStart
        <4>2. Advances(t)
          BY <3>1, <4>1, DoneAdvances DEF CheckStart, At
        <4> QED BY <4>2 DEF Advances
      <3>2. CASE ~CheckStart(t)
        <4> SUFFICES ASSUME call[t].todo # <<>>, Head(call[t].todo) = AubStart
                     PROVE  FALSE
          BY <2>2 DEF Pauses
        <4>1. call[t].stage = "macro"
          BY <1>1
        <4>2. ~Begin(t)
          BY <2>2 DEF Begin, Pauses
        <4> QED BY <3>2, <4>1, <4>2, StepsDiffer
               DEF Step, CheckStartKernel, ReadBeforeStart, StartAubCapture, DispatchCommand,
                   CheckStop, StopAubCapture, InStart, At
      <3> QED BY <3>1, <3>2
    <2> QED BY <2>1, <2>2, StepMoves
  <1>3. started' => \E u \in Threads : Stopping(u)'
    <2>1. CASE StartAubCapture(t) /\ ~started
      <3>1. PICK r \in Rests : r = call[t].todo /\ r # <<>>
        BY <2>1 DEF Places, StartAubCapture, InStart, At, Idle
      <3>2. Head(r) = AubStartKernel
        BY <1>1, <2>1, <3>1 DEF StartAubCapture, InStart, At
      <3>3. Advances(t)
        BY <2>1, DoneAdvances DEF StartAubCapture, InStart, At
      <3>4. call'[t].todo = <<Dispatch, AubStop>>
        BY <3>1, <3>2, <3>3, RestsShrink DEF Advances
      <3> QED BY <3>4 DEF Stopping
    <2>2. CASE StopAubCapture(t)
      BY <2>2 DEF StopAubCapture
    <2>3. CASE started /\ ~StopAubCapture(t)
      <3>1. PICK u \in Threads : Stopping(u)
        BY <1>1, <2>3
      <3>2. CASE u # t
        BY <1>0, <3>1, <3>2 DEF Stopping
      <3>3. CASE u = t
        <4>0. <<Dispatch, AubStop>> # <<>> /\ <<AubStop>> # <<>>
          OBVIOUS
        <4>1. ~Idle(t) /\ ~Begin(t)
          BY <3>1, <3>3, <4>0 DEF Stopping, Idle, Begin
        <4>2. CASE Pauses(t)
          BY <3>1, <3>3, <4>2 DEF Stopping, Pauses
        <4>3. CASE Advances(t)
          <5>1. CASE call[t].todo = <<Dispatch, AubStop>>
            <6>1. Tail(<<Dispatch, AubStop>>) = <<AubStop>>
              OBVIOUS
            <6> QED BY <4>3, <5>1, <6>1 DEF Advances, Stopping
          <5>2. CASE call[t].todo = <<AubStop>>
            <6>1. Head(call[t].todo) = AubStop
              BY <5>2
            <6>2. CheckStop(t)
              BY <2>3, <4>1, <6>1, StepsDiffer
                 DEF Step, CheckStart, CheckStartKernel, ReadBeforeStart, StartAubCapture,
                     DispatchCommand, InStart, At
            <6>3. GoesOn(t, "locked")
              BY <2>3, <6>2 DEF CheckStop
            <6>4. Pauses(t)
              BY <6>2, <6>3, GoesOnPauses DEF CheckStop, At
            <6> QED BY <4>3, <6>4 DEF Pauses, Advances
          <5> QED BY <3>1, <3>3, <5>1, <5>2 DEF Stopping
        <4> QED BY <4>1, <4>2, <4>3, StepMoves
      <3> QED BY <3>2, <3>3
    <2>4. CASE ~started /\ ~StartAubCapture(t)
      <3>1. started' = started \/ started' = FALSE
        BY <2>4 DEF Step, Begin, CheckStart, CheckStartKernel, ReadBeforeStart,
              DispatchCommand, CheckStop, StopAubCapture, counters
      <3> QED BY <2>4, <3>1
    <2> QED BY <2>1, <2>2, <2>3, <2>4
  <1> QED BY <1>0, <1>1, <1>2, <1>3 DEF Stopped

\* The second part of the invariant is kept by every step.
LEMMA Inv2Init == Init => Inv2
  <1> SUFFICES ASSUME Init PROVE Inv2
    OBVIOUS
  <1>1. /\ \A t \in Threads : /\ call[t].todo = <<>> /\ call[t].stage = "macro"
                              /\ call[t].number = 0 /\ call[t].kernel = {}
    BY DEF Init, NoCall
  <1>2. /\ enqueueCounter = 0 /\ skipCounter = 0 /\ captureCounter = 0 /\ captureSet = {}
        /\ kernelCaptures = {} /\ unloaded = FALSE /\ started = FALSE /\ config \in Configs
    BY DEF Init
  <1>3. \A t \in Threads : ~Pending(t)
    <2>1. KernelSteps # <<>>
      BY RestsShrink
    <2> QED BY <1>1, <2>1 DEF Pending
  <1>4. Places
    BY <1>1, <1>3, AubBoundsAssumption DEF Places, Rests, Stages
  <1>5. CountersBounded
    <2>1. Numbers = {}
      BY <1>3 DEF Numbers
    <2>2. Cardinality(Numbers) = 0
      BY <2>1, FS_EmptySet
    <2>3. config.Skip \in Nat
      BY <1>2, AubConfigsAssumption
    <2>4. captureCounter + Cardinality(Numbers) <= enqueueCounter
      BY <1>2, <2>2
    <2>5. enqueueCounter \in 0 .. MaxEnqueue /\ skipCounter \in 0 .. config.Skip
      BY <1>2, <2>3, AubBoundsAssumption
    <2> QED BY <1>2, <2>4, <2>5 DEF CountersBounded
  <1>6. Stopped
    BY <1>1, <1>2 DEF Stopped
  <1> QED BY <1>4, <1>5, <1>6 DEF Inv2

LEMMA Inv2Step == Inv /\ Inv2 /\ [Next]_vars => Inv2'
  <1> SUFFICES ASSUME Inv, Inv2, [Next]_vars PROVE Inv2'
    OBVIOUS
  <1>1. ASSUME NEW t \in Threads, Step(t) PROVE Inv2'
    BY <1>1, PlacesStep, CountersStep, StoppedStep DEF Inv2, Inv, Types
  <1>2. CASE Unload
    <2>1. /\ started' = FALSE /\ unloaded' = TRUE
          /\ UNCHANGED <<config, enqueueCounter, call, counters, kernelCaptures>>
      BY <1>2 DEF Unload
    <2>2. Places' /\ Numbers' = Numbers
      BY <2>1 DEF Inv2, Places, Pending, Numbers
    <2>3. CountersBounded'
      BY <2>1, <2>2 DEF Inv2, CountersBounded, counters
    <2>4. Stopped'
      BY <2>1 DEF Inv2, Stopped
    <2> QED BY <2>2, <2>3, <2>4 DEF Inv2
  <1>3. CASE UNCHANGED vars
    BY <1>3 DEF Inv2, vars, counters, Places, Pending, Numbers, CountersBounded, Stopped, Stopping
  <1> QED BY <1>1, <1>2, <1>3 DEF Next

LEMMA Inv2Invariant == Spec => []Inv2
  BY Inv2Init, Inv2Step, InvInvariant, PTL DEF Spec

-----------------------------------------------------------------------------
(* Theorems. *)

\* However many threads race through the double-checked lock of startAubCapture
\* and stopAubCapture, the flag says whether the process is captured.
THEOREM FlagAlwaysTrue == Spec => []FlagIsTrue
  <1>1. Inv => FlagIsTrue
    BY DEF Inv
  <1> QED BY <1>1, InvInvariant, PTL

\* No number of threads starts more captures of kernels than
\* AubCaptureNumKernelEnqueuesCapture allows.
THEOREM CapturesAlwaysLimited == Spec => []CapturesAreLimited
  <1>1. Inv => CapturesAreLimited
    BY DEF Inv, Counted
  <1> QED BY <1>1, InvInvariant, PTL

\* Under AubCaptureUniqueKernels no signature starts a second capture.
THEOREM UniqueKernelsAlwaysOnce == Spec => []UniqueKernelsOnce
  <1>1. Inv => UniqueKernelsOnce
    BY DEF Inv
  <1> QED BY <1>1, InvInvariant, PTL

\* When the destructor has run nothing is captured, nor ever again.
THEOREM UnloadAlwaysStops == Spec => []UnloadStops
  <1>1. Inv => UnloadStops
    BY DEF Inv, Over, FlagIsTrue, UnloadStops
  <1> QED BY <1>1, InvInvariant, PTL
\* The types, among them that every handler is at one of the ends of its steps,
\* that no counter passes its control or the number of commands, and that only
\* signatures that match are noted.
THEOREM AubTypesCorrect == Spec => []TypeOK
  <1>1. Inv /\ Inv2 => TypeOK
    <2> SUFFICES ASSUME Inv, Inv2 PROVE TypeOK
      OBVIOUS
    <2> USE DEF Inv, Inv2, Types
    <2>1. ASSUME NEW t \in Threads
          PROVE  /\ DOMAIN call[t] = DOMAIN NoCall
                 /\ \E p \in Programs : \E i \in 2 .. Len(p) + 1 :
                       call[t].todo = SubSeq(p, i, Len(p))
                 /\ call[t].stage \in Stages
                 /\ call[t].number \in 0 .. MaxEnqueue
                 /\ call[t].kernel \in SUBSET Signatures
      <3>1. PICK r \in Rests : r = call[t].todo
        BY DEF Places
      <3>2. \E p \in Programs : \E i \in 2 .. Len(p) + 1 : r = SubSeq(p, i, Len(p))
        BY RestsAreEnds
      <3> QED BY <3>1, <3>2 DEF Places, Locals
    <2>2. captureCounter \in 0 .. MaxEnqueue
      <3>1. Cardinality(Numbers) \in Nat
        BY NumbersFinite
      <3> QED BY <3>1, AubBoundsAssumption DEF CountersBounded
    <2>3. capturing \in Int
      BY DEF FlagIsTrue
    <2> QED BY <2>1, <2>2, <2>3 DEF TypeOK, CountersBounded
  <1> QED BY <1>1, InvInvariant, Inv2Invariant, PTL

\* Under AubCaptureIndividualEnqueues no capture outlives the calls in progress:
\* a thread whose capture another one stops finds it stopped, and the last one
\* to leave has seen to it.
THEOREM IndividualCapturesAlwaysEnd == Spec => []IndividualCapturesEnd
  <1>1. Inv2 => IndividualCapturesEnd
    <2> SUFFICES ASSUME Inv2, config.Individual, Quiescent, started PROVE FALSE
      BY DEF IndividualCapturesEnd
    <2>1. PICK t \in Threads : Stopping(t)
      BY DEF Inv2, Stopped
    <2>2. <<Dispatch, AubStop>> # <<>> /\ <<AubStop>> # <<>>
      OBVIOUS
    <2> QED BY <2>1, <2>2 DEF Stopping, Quiescent, Idle
  <1> QED BY <1>1, Inv2Invariant, PTL
=============================================================================
