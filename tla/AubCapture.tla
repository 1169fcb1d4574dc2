----------------------------- MODULE AubCapture -----------------------------
(***************************************************************************)
(* Aub capture: the macros CHECK_AUBCAPTURE_START, _START_KERNEL and _STOP *)
(* of intercept.h around every command, and startAubCapture and            *)
(* stopAubCapture of intercept.cpp, which turn the capture of the device's *)
(* work on and off for the whole process.                                  *)
(*                                                                         *)
(* Threads run the enqueue handlers of ApiCalls step by step.  m_Mutex     *)
(* makes the locked part of a step atomic; m_AubCaptureStarted is first    *)
(* read without it.  AubCapture is on.                                     *)
(***************************************************************************)
EXTENDS ApiCalls, Integers, FiniteSets

CONSTANTS
    Threads,     \* application threads
    Signatures,  \* kernel name, hash, global and local work size of an enqueue
    MaxEnqueue,  \* bound: number of commands
    Configs      \* the configurations a process may start with

ASSUME AubBoundsAssumption == MaxEnqueue \in Nat
ASSUME AubConfigsAssumption ==
    Configs \subseteq [Individual: BOOLEAN, Min: Nat, Max: Nat,
                       Matching: SUBSET Signatures, Unique: BOOLEAN,
                       Skip: Nat, Capture: Nat]

VARIABLES
    config,          \* the AubCapture controls
    enqueueCounter,  \* m_EnqueueCounter
    call,            \* the handler each thread is in
    started,         \* m_AubCaptureStarted
    skipCounter,     \* m_AubCaptureKernelEnqueueSkipCounter
    captureCounter,  \* m_AubCaptureKernelEnqueueCaptureCounter
    captureSet,      \* m_AubCaptureSet
    capturing,       \* OS: captures started less captures stopped
    kernelCaptures,  \* history: enqueues of kernels that started a capture
    unloaded         \* the layer's destructor has run

counters == <<skipCounter, captureCounter, captureSet>>
vars == <<config, enqueueCounter, call, started, counters, capturing,
          kernelCaptures, unloaded>>

\* The steps of a command's handler; the first is INCREMENT_ENQUEUE_COUNTER.
Programs == {p \in {Project(h, "aub") : h \in Api} : Head(p) = Count}

\* The locals of a handler: the steps to come, how far the first of them has
\* got, its enqueueCounter, and the kernel's signature ({} for other commands).
Stages == {"macro", "read", "locked"}

NoCall == [todo |-> <<>>, stage |-> "macro", number |-> 0, kernel |-> {}]

Idle(t) == call[t].todo = <<>>
Quiescent == \A t \in Threads : Idle(t)

TypeOK ==
    /\ config \in Configs
    /\ enqueueCounter \in 0 .. MaxEnqueue
    /\ \A t \in Threads :
          /\ DOMAIN call[t] = DOMAIN NoCall
          /\ \E p \in Programs : \E i \in 2 .. Len(p) + 1 :
                call[t].todo = SubSeq(p, i, Len(p))
          /\ call[t].stage \in Stages
          /\ call[t].number \in 0 .. MaxEnqueue
          /\ call[t].kernel \in SUBSET Signatures
    /\ started \in BOOLEAN
    /\ skipCounter \in 0 .. config.Skip
    /\ captureCounter \in 0 .. MaxEnqueue
    /\ captureSet \in SUBSET config.Matching
    /\ capturing \in Int
    /\ kernelCaptures \in SUBSET ((0 .. MaxEnqueue - 1) \X Signatures)
    /\ unloaded \in BOOLEAN

Init ==
    /\ config \in Configs
    /\ enqueueCounter = 0
    /\ call = [t \in Threads |-> NoCall]
    /\ started = FALSE
    /\ skipCounter = 0 /\ captureCounter = 0 /\ captureSet = {}
    /\ capturing = 0
    /\ kernelCaptures = {}
    /\ unloaded = FALSE

-----------------------------------------------------------------------------
At(t, op, stage) == ~Idle(t) /\ Head(call[t].todo) = op /\ call[t].stage = stage
InLimits(t) == config.Min <= call[t].number /\ call[t].number <= config.Max

\* The step is done, or goes on inside startAubCapture or stopAubCapture.
GoesOn(t, stage) == call' = [call EXCEPT ![t].stage = stage]
Done(t) ==
    call' = [call EXCEPT ![t] = [@ EXCEPT !.todo = Tail(call[t].todo), !.stage = "macro"]]

\* A thread calls a handler, up to incrementEnqueueCounter's fetch_add.
Begin(t) ==
    /\ Idle(t) /\ ~unloaded
    /\ enqueueCounter < MaxEnqueue
    /\ \E p \in Programs :
       \E kernel \in IF AubStartKernel \in {p[i] : i \in 1 .. Len(p)}
                     THEN {{s} : s \in Signatures} ELSE {{}} :
          call' = [call EXCEPT ![t] = [NoCall EXCEPT !.todo = Tail(p), !.kernel = kernel,
                                                     !.number = enqueueCounter]]
    /\ enqueueCounter' = enqueueCounter + 1
    /\ UNCHANGED <<config, started, counters, capturing, kernelCaptures, unloaded>>

\* CHECK_AUBCAPTURE_START.
CheckStart(t) ==
    /\ At(t, AubStart, "macro")
    /\ IF InLimits(t) /\ ~config.Individual THEN GoesOn(t, "read") ELSE Done(t)
    /\ UNCHANGED <<config, enqueueCounter, started, counters, capturing, kernelCaptures,
                   unloaded>>

CheckStartKernelForgets(t) ==
    /\ At(t, AubStartKernel, "macro")
    /\ LET match == InLimits(t) /\ call[t].kernel \subseteq config.Matching
           seen  == config.Unique /\ call[t].kernel \subseteq captureSet IN
       /\ IF match /\ ~seen THEN GoesOn(t, "read") ELSE Done(t)
       /\ captureSet' = IF match /\ started THEN captureSet \cup call[t].kernel ELSE captureSet
    /\ UNCHANGED <<config, enqueueCounter, started, skipCounter, captureCounter, capturing,
                   kernelCaptures, unloaded>>

\* CHECK_AUBCAPTURE_START_KERNEL: checkAubCaptureKernelSignature notes every
\* signature it lets through, whether it will be captured or not.
CheckStartKernel(t) ==
    /\ At(t, AubStartKernel, "macro")
    /\ LET match == InLimits(t) /\ call[t].kernel \subseteq config.Matching
           seen  == config.Unique /\ call[t].kernel \subseteq captureSet IN
       /\ IF match /\ ~seen THEN GoesOn(t, "read") ELSE Done(t)
       /\ captureSet' = IF match /\ config.Unique THEN captureSet \cup call[t].kernel
                        ELSE captureSet
    /\ UNCHANGED <<config, enqueueCounter, started, skipCounter, captureCounter, capturing,
                   kernelCaptures, unloaded>>

\* Inside startAubCapture; CHECK_AUBCAPTURE_START passes it no kernel.
InStart(t, stage) == At(t, AubStart, stage) \/ At(t, AubStartKernel, stage)
IsKernel(t) == Head(call[t].todo) = AubStartKernel

\* startAubCapture reads m_AubCaptureStarted without the lock.
ReadBeforeStart(t) ==
    /\ InStart(t, "read")
    /\ IF started THEN Done(t) ELSE GoesOn(t, "locked")
    /\ UNCHANGED <<config, enqueueCounter, started, counters, capturing, kernelCaptures,
                   unloaded>>

\* The capture starts, after the driver's clFinish.
Start(t) ==
    /\ started' = TRUE
    /\ capturing' = capturing + 1
    /\ kernelCaptures' = IF IsKernel(t)
                         THEN kernelCaptures \cup ({call[t].number} \X call[t].kernel)
                         ELSE kernelCaptures
    /\ call' = [call EXCEPT ![t] =
          [@ EXCEPT !.todo = Tail(call[t].todo), !.stage = "macro"]]

StartAubCaptureUnchecked(t) ==
    /\ InStart(t, "locked")
    /\ Start(t)
    /\ UNCHANGED <<config, enqueueCounter, counters, unloaded>>

StartAubCaptureOneMore(t) ==
    /\ InStart(t, "locked")
    /\ LET early == IsKernel(t) /\ skipCounter < config.Skip
           late  == IsKernel(t) /\ ~early /\ captureCounter > config.Capture IN
       /\ skipCounter' = skipCounter + IF early THEN 1 ELSE 0
       /\ captureCounter' = captureCounter + IF IsKernel(t) /\ ~early THEN 1 ELSE 0
       /\ IF ~early /\ ~late /\ ~started
          THEN Start(t)
          ELSE Done(t) /\ UNCHANGED <<started, capturing, kernelCaptures>>
    /\ UNCHANGED <<config, enqueueCounter, captureSet, unloaded>>

StartAubCaptureSkipsOneMore(t) ==
    /\ InStart(t, "locked")
    /\ LET early == IsKernel(t) /\ skipCounter <= config.Skip
           late  == IsKernel(t) /\ ~early /\ captureCounter >= config.Capture IN
       /\ skipCounter' = skipCounter + IF early THEN 1 ELSE 0
       /\ captureCounter' = captureCounter + IF IsKernel(t) /\ ~early THEN 1 ELSE 0
       /\ IF ~early /\ ~late /\ ~started
          THEN Start(t)
          ELSE Done(t) /\ UNCHANGED <<started, capturing, kernelCaptures>>
    /\ UNCHANGED <<config, enqueueCounter, captureSet, unloaded>>

\* The locked part of startAubCapture.  A kernel is first skipped, then counted,
\* whether or not it starts a capture.
StartAubCapture(t) ==
    /\ InStart(t, "locked")
    /\ LET early == IsKernel(t) /\ skipCounter < config.Skip
           late  == IsKernel(t) /\ ~early /\ captureCounter >= config.Capture IN
       /\ skipCounter' = skipCounter + IF early THEN 1 ELSE 0
       /\ captureCounter' = captureCounter + IF IsKernel(t) /\ ~early THEN 1 ELSE 0
       /\ IF ~early /\ ~late /\ ~started
          THEN Start(t)
          ELSE Done(t) /\ UNCHANGED <<started, capturing, kernelCaptures>>
    /\ UNCHANGED <<config, enqueueCounter, captureSet, unloaded>>

\* The driver's function.
DispatchCommand(t) ==
    /\ At(t, Dispatch, "macro")
    /\ Done(t)
    /\ UNCHANGED <<config, enqueueCounter, started, counters, capturing, kernelCaptures,
                   unloaded>>

CheckStopInLimits(t) ==
    /\ At(t, AubStop, "macro")
    /\ IF ~InLimits(t) /\ started THEN GoesOn(t, "locked")
       ELSE Done(t)
    /\ UNCHANGED <<config, enqueueCounter, started, counters, capturing, kernelCaptures,
                   unloaded>>

\* CHECK_AUBCAPTURE_STOP, and stopAubCapture's read without the lock.
CheckStop(t) ==
    /\ At(t, AubStop, "macro")
    /\ IF (config.Individual \/ ~InLimits(t)) /\ started THEN GoesOn(t, "locked")
       ELSE Done(t)
    /\ UNCHANGED <<config, enqueueCounter, started, counters, capturing, kernelCaptures,
                   unloaded>>

\* The locked part of stopAubCapture.
StopAubCapture(t) ==
    /\ At(t, AubStop, "locked")
    /\ started' = FALSE
    /\ capturing' = IF started THEN capturing - 1 ELSE capturing
    /\ Done(t)
    /\ UNCHANGED <<config, enqueueCounter, counters, kernelCaptures, unloaded>>

\* The destructor, when the application's threads have left the layer.
Unload ==
    /\ Quiescent /\ ~unloaded
    /\ unloaded' = TRUE
    /\ started' = FALSE
    /\ capturing' = IF started THEN capturing - 1 ELSE capturing
    /\ UNCHANGED <<config, enqueueCounter, call, counters, kernelCaptures>>

-----------------------------------------------------------------------------
Step(t) ==
    \/ Begin(t) \/ CheckStart(t) \/ CheckStartKernel(t)
    \/ ReadBeforeStart(t) \/ StartAubCapture(t) \/ DispatchCommand(t)
    \/ CheckStop(t) \/ StopAubCapture(t)

Next == Unload \/ \E t \in Threads : Step(t)

Spec == Init /\ [][Next]_vars

-----------------------------------------------------------------------------
(* Properties. *)

\* The double-checked lock: the flag says whether the process is captured, so
\* that two threads that both found it clear do not both start a capture, nor
\* both stop one.
FlagIsTrue == capturing = IF started THEN 1 ELSE 0

\* AubCaptureNumKernelEnqueuesCapture: threads that pass the checks together do
\* not start more captures of kernels than the control allows.
CapturesAreLimited == Cardinality(kernelCaptures) <= config.Capture

\* AubCaptureUniqueKernels: no kernel's signature starts a second capture, also
\* when two threads enqueue it at the same time.
UniqueKernelsOnce ==
    config.Unique => \A a, b \in kernelCaptures : a[2] = b[2] => a = b

\* AubCaptureIndividualEnqueues: when no call is in progress, no capture is;
\* between them the threads' stops end every capture that any of them started.
IndividualCapturesEnd == config.Individual /\ Quiescent => ~started

\* A capture that reached no end stops when the layer is unloaded.
UnloadStops == unloaded => capturing = 0
=============================================================================
