---------------------------- MODULE KernelLaunch ----------------------------
(***************************************************************************)
(* What the layer does around clEnqueueNDRangeKernel besides timing it:    *)
(* the capture of the launch for a later replay, the dumps of the kernel's *)
(* buffers and images before and after it, and the injection of contents   *)
(* from files.  All of them rest on maps that record the kernels'          *)
(* arguments and the memory objects.                                       *)
(*                                                                         *)
(* Commands are asynchronous: the driver runs a kernel some time after the *)
(* call, those of one queue in order.  m_Mutex covers one step.  A launch  *)
(* has its memory for itself, as the programs have whose dumps can be      *)
(* compared: nobody else uses it, other queues' kernels included, and the  *)
(* application changes no argument during the call.  The layer's own reads *)
(* and writes of memory succeed.                                           *)
(***************************************************************************)
EXTENDS Integers, Sequences, FiniteSets, FiniteSetsExt

CONSTANTS
    Threads, Queues, Kernels, NULL,
    Args, LocalArgs,    \* argument indices, the ones that are local memory
    Memory,             \* handles: numbers, as pointers are
    KindOf, SizeOf,     \* "buffer", "image", "svm" or "usm"; addresses of each
    Signature,          \* the key m_CaptureReplaySet has for each kernel
    Configs,            \* settings to explore
    MaxLaunches,        \* bound: launches
    MaxObjects,         \* bound: memory objects and allocations
    MaxArgs             \* bound: calls that set an argument or make a kernel

ASSUME LaunchAssumption ==
    /\ LocalArgs \subseteq Args /\ Args \subseteq Nat /\ Memory \subseteq Nat \ {0}
    /\ IsFiniteSet(Args) /\ NULL \notin Memory
    /\ KindOf \in [Memory -> {"buffer", "image", "svm", "usm"}]
    /\ MaxLaunches \in Nat /\ MaxObjects \in Nat /\ MaxArgs \in Nat

\* The driver's allocations do not overlap.
ASSUME MemoryAssumption ==
    /\ SizeOf \in [Memory -> Nat \ {0}]
    /\ \A m, n \in Memory :
          KindOf[m] \in {"svm", "usm"} /\ KindOf[n] = KindOf[m] /\ m < n => m + SizeOf[m] <= n

ASSUME ReplayAssumption == \A c \in Configs :
    c.NumSkip \in Nat /\ c.NumCapture \in Nat /\ c.UniqueKernels \in BOOLEAN

VARIABLES
    config,      \* the settings of this run
    call,        \* the launch each thread is in
    counter,     \* m_EnqueueCounter
    numberOf,    \* m_MemAllocNumberMap and the maps with it; 0: not there
    number,      \* m_MemAllocNumber
    argMem, argData, argLocal,   \* m_KernelArgMemMap, ...DataMap, ...LocalSizeMap
    skips, captures, replaySet,  \* checkCaptureReplayKernelSkips: counters, set
    alive, content,              \* driver: memory that exists, what it holds
    real,                        \* driver: the kernels' arguments
    running,                     \* driver: the kernels of each queue, in order
    known,       \* history: arguments the layer recorded as the driver did
    stray,       \* history: memory injected into for a kernel that does not use it
    captured,    \* history: the launches that were captured
    objects, settings            \* history: the calls the bounds count

layer   == <<numberOf, number, argMem, argData, argLocal>>
replay  == <<skips, captures, replaySet, captured>>
driver  == <<alive, content, real, running>>
history == <<known, stray, objects, settings>>
vars == <<config, call, counter, layer, replay, driver, history>>

Steps == <<"check", "startReplay", "preBuffers", "preImages", "injectBuffers", "injectImages",
           "enqueue", "postBuffers", "postImages", "return">>

NoCall == [todo |-> <<>>, kernel |-> NULL, queue |-> NULL, n |-> 0, capture |-> FALSE,
           args |-> {}, pre |-> {}, post |-> {}, injected |-> {}, ran |-> {}]

Idle(t) == call[t].todo = <<>>
At(t, step) == ~Idle(t) /\ Head(call[t].todo) = step
Goes(t, c) == call' = [call EXCEPT ![t] = [c EXCEPT !.todo = Tail(@)]]

MemoryOf(k) == {real[k][i] : i \in Args} \cap Memory
\* A kernel that has not run yet belongs to its launch.
Pending(q) == running[q] # <<>>
InUse ==
    (UNION {MemoryOf(call[t].kernel) : t \in {u \in Threads : ~Idle(u)}}) \cup
    (UNION {UNION {running[q][i].memory : i \in DOMAIN running[q]} : q \in Queues})
KernelInUse(k) == \E t \in Threads : call[t].kernel = k

TypeOK ==
    /\ config \in Configs /\ counter \in 0 .. MaxLaunches
    /\ \A t \in Threads : /\ DOMAIN call[t] = DOMAIN NoCall
                          /\ call[t].n <= counter /\ call[t].capture \in BOOLEAN
    /\ numberOf \in [Memory -> 0 .. MaxObjects] /\ number \in 1 .. MaxObjects + 1
    /\ argMem \in [Kernels -> [Args -> Memory \cup {NULL}]]
    /\ argData \in [Kernels -> [Args -> Memory \cup {NULL}]]
    /\ argLocal \in [Kernels -> SUBSET Args]
    /\ skips \in Nat /\ captures \in Nat
    /\ alive \subseteq Memory /\ content \in [Memory -> Nat]
    /\ \A m \in Memory : numberOf[m] > 0 => m \in alive
    /\ \A q \in Queues : Len(running[q]) <= MaxLaunches

Init ==
    /\ config \in Configs
    /\ call = [t \in Threads |-> NoCall] /\ counter = 0
    /\ numberOf = [m \in Memory |-> 0] /\ number = 1
    /\ argMem = [k \in Kernels |-> [i \in Args |-> NULL]] /\ argData = argMem
    /\ argLocal = [k \in Kernels |-> {}]
    /\ skips = 0 /\ captures = 0 /\ replaySet = {} /\ captured = <<>>
    /\ alive = {} /\ content = [m \in Memory |-> 0]
    /\ real = [k \in Kernels |-> [i \in Args |-> NULL]]
    /\ running = [q \in Queues |-> <<>>]
    /\ known = [k \in Kernels |-> {}] /\ stray = {} /\ objects = 0 /\ settings = 0

-----------------------------------------------------------------------------
(* Memory objects and arguments.                                           *)

\* ADD_IMAGE does not ask for InjectImages, ADD_BUFFER does.
Tracks(kind) ==
    \/ config.CaptureReplay \/ (kind = "image" /\ config.DumpImages)
    \/ kind # "image" /\ (config.DumpBuffers \/ config.InjectBuffers \/ config.InjectImages)

Tracked(kinds) == {m \in Memory : numberOf[m] > 0 /\ KindOf[m] \in kinds}

\* Creates a buffer or an image, allocates SVM or USM memory.
AddMemory(m) ==
    /\ m \notin alive /\ objects < MaxObjects /\ objects' = objects + 1
    /\ alive' = alive \cup {m} /\ content' = [content EXCEPT ![m] = 0]
    /\ IF Tracks(KindOf[m])
       THEN numberOf' = [numberOf EXCEPT ![m] = number] /\ number' = number + 1
       ELSE UNCHANGED <<numberOf, number>>
    /\ UNCHANGED <<config, call, counter, argMem, argData, argLocal, replay, real, running,
                   known, stray, settings>>

\* Mutant: the number of freed memory stays in the map.
RemoveKeepsNumber(m) ==
    /\ m \in alive \ InUse /\ alive' = alive \ {m}
    /\ real' = [k \in Kernels |-> [i \in Args |-> IF real[k][i] = m THEN NULL ELSE real[k][i]]]
    /\ known' = [k \in Kernels |-> {i \in known[k] : real[k][i] # m}]
    /\ UNCHANGED <<config, call, counter, number, argMem, argData, argLocal, replay, content,
                   running, stray, objects, settings, numberOf>>

\* The maps of the kernels keep what they say of it.
RemoveMemory(m) ==
    /\ m \in alive \ InUse /\ alive' = alive \ {m}
    /\ numberOf' = [numberOf EXCEPT ![m] = 0]
    /\ real' = [k \in Kernels |-> [i \in Args |-> IF real[k][i] = m THEN NULL ELSE real[k][i]]]
    /\ known' = [k \in Kernels |-> {i \in known[k] : real[k][i] # m}]
    /\ UNCHANGED <<config, call, counter, number, argMem, argData, argLocal, replay, content,
                   running, stray, objects, settings>>

MaySet(k) ==
    /\ ~KernelInUse(k) /\ settings < MaxArgs /\ settings' = settings + 1
    /\ UNCHANGED <<config, call, counter, numberOf, number, replay, alive, content, running,
                   stray, objects>>

\* The driver takes the argument, or refuses it and keeps the old one; the layer
\* has recorded it already.
Driver(k, i, value, right) ==
    \/ /\ real' = [real EXCEPT ![k][i] = value]
       /\ known' = [known EXCEPT ![k] = IF right THEN @ \cup {i} ELSE @ \ {i}]
    \/ real' = real /\ known' = [known EXCEPT ![k] = @ \ {i}]

setKernelArg(k, i, m) ==
    /\ argMem' = IF numberOf[m] > 0 THEN [argMem EXCEPT ![k][i] = m] ELSE argMem
    /\ argData' = [argData EXCEPT ![k][i] = m]
    /\ UNCHANGED argLocal

\* No value: the size of local memory, and a null buffer as well.
setKernelArgSize(k, i) ==
    /\ argLocal' = [argLocal EXCEPT ![k] = @ \cup {i}]
    /\ UNCHANGED <<argMem, argData>>

clSetKernelArg(k, i) ==
    /\ MaySet(k)
    /\ \/ \E m \in alive : /\ i \notin LocalArgs /\ KindOf[m] \in {"buffer", "image"}
                           /\ setKernelArg(k, i, m)
                           /\ Driver(k, i, m, numberOf[m] > 0)
       \/ setKernelArgSize(k, i) /\ Driver(k, i, NULL, i \in LocalArgs)

\* The last allocation that starts at or before the pointer, if the pointer is in
\* it: setKernelArgSVMPointer, and setKernelArgUSMPointer on the other map.
Holding(kind, p) ==
    LET starts == {m \in Tracked({kind}) : m <= p}
    IN  {m \in starts : m = Max(starts) /\ p < m + SizeOf[m]}

setKernelArgPointer(kind, k, i, p) ==
    /\ IF Holding(kind, p) = {} THEN UNCHANGED <<argMem, argData>>
       ELSE \E m \in Holding(kind, p) : /\ argMem' = [argMem EXCEPT ![k][i] = m]
                                        /\ argData' = [argData EXCEPT ![k][i] = m]
    /\ UNCHANGED argLocal

clSetKernelArgPointer(k, i) ==
    /\ MaySet(k) /\ i \notin LocalArgs
    /\ \E m \in alive, offset \in 0 .. 1 :
          /\ KindOf[m] \in {"svm", "usm"} /\ offset < SizeOf[m]
          /\ setKernelArgPointer(KindOf[m], k, i, m + offset)
          /\ Driver(k, i, m, numberOf[m] > 0)

\* The handle of a released kernel is given to a new one; the maps of its
\* arguments are as they were.
RecreateKernel(k) ==
    /\ MaySet(k) /\ \A q \in Queues : ~Pending(q)
    /\ real' = [real EXCEPT ![k] = [i \in Args |-> NULL]] /\ known' = [known EXCEPT ![k] = {}]
    /\ UNCHANGED <<argMem, argData, argLocal>>

-----------------------------------------------------------------------------
(* The launch.                                                             *)

\* INCREMENT_ENQUEUE_COUNTER.
Begin(t, k, q) ==
    /\ Idle(t) /\ counter < MaxLaunches /\ ~KernelInUse(k)
    /\ \A i \in LocalArgs : i \in known[k]
    /\ \A m \in MemoryOf(k) :
          \A u \in Threads : ~Idle(u) => m \notin MemoryOf(call[u].kernel)
    /\ \A r \in Queues \ {q} : \A i \in DOMAIN running[r] :
          running[r][i].memory \cap MemoryOf(k) = {}
    /\ counter' = counter + 1
    /\ call' = [call EXCEPT ![t] = [NoCall EXCEPT !.todo = Steps, !.kernel = k, !.queue = q,
                                                 !.n = counter + 1]]
    /\ stray' = stray \ MemoryOf(k)
    /\ UNCHANGED <<config, layer, replay, driver, known, objects, settings>>

InLimits(n) == n \in config.MinEnqueue .. config.MaxEnqueue

\* Mutant: one capture too many.
FullLate == captures > config.NumCapture

Skipped == skips < config.NumSkip
Full == captures >= config.NumCapture
Repeated(k) == config.UniqueKernels /\ Signature[k] \in replaySet

\* checkCaptureReplayKernelSkips: a launch that is not skipped counts as a capture
\* even if the set has its kernel already.
checkCaptureReplay(t) ==
    /\ At(t, "check")
    /\ LET k == call[t].kernel
           asked == config.CaptureReplay /\ InLimits(call[t].n) /\ k \in config.KernelName
           taken == asked /\ ~Skipped /\ ~Full /\ ~Repeated(k)
       IN  /\ skips' = IF asked /\ Skipped THEN skips + 1 ELSE skips
           /\ captures' = IF asked /\ ~Skipped THEN captures + 1 ELSE captures
           /\ replaySet' = IF taken /\ config.UniqueKernels
                           THEN replaySet \cup {Signature[k]} ELSE replaySet
           /\ captured' = IF taken THEN Append(captured, [n |-> call[t].n, kernel |-> k])
                          ELSE captured
           /\ Goes(t, [call[t] EXCEPT !.capture = taken])
    /\ UNCHANGED <<config, counter, layer, driver, history>>

\* What the files of a capture say of each argument.
dumpCaptureReplayKernelArguments(k) ==
    {[arg |-> i, local |-> FALSE, value |-> argData[k][i]] :
        i \in {j \in Args : argData[k][j] # NULL}}
    \cup {[arg |-> i, local |-> TRUE, value |-> NULL] : i \in argLocal[k]}

startCaptureReplay(t) ==
    /\ At(t, "startReplay")
    /\ LET c == call[t]
       IN  Goes(t, IF c.capture THEN [c EXCEPT !.args = dumpCaptureReplayKernelArguments(c.kernel)]
                   ELSE c)
    /\ UNCHANGED <<config, counter, layer, replay, driver, history>>

\* The memory arguments of a kernel that a dump or an injection goes through.
Recorded(k, kinds) == {i \in Args : argMem[k][i] \in Tracked(kinds)}
Buffers == {"buffer", "svm", "usm"}

DumpsBuffers(c) == c.capture \/ (config.DumpBuffers /\ InLimits(c.n) /\ c.kernel \in config.KernelName)
DumpsImages(c)  == c.capture \/ (config.DumpImages /\ InLimits(c.n) /\ c.kernel \in config.KernelName)

\* One file per argument; the file's name has the number of the memory object.
Files(k, kinds) ==
    {[arg |-> i, number |-> numberOf[argMem[k][i]], content |-> content[argMem[k][i]]] :
        i \in Recorded(k, kinds)}

\* Mutant: the memory is read while the kernel may still wait to run.
dumpWithoutFinish(t, when) ==
    /\ At(t, IF when = "Pre" THEN "preBuffers" ELSE "postBuffers")
    /\ LET c == call[t]
           dumped == IF DumpsBuffers(c) THEN Files(c.kernel, Buffers) ELSE {}
       IN  Goes(t, IF when = "Pre" THEN [c EXCEPT !.pre = @ \cup dumped]
                   ELSE [c EXCEPT !.post = @ \cup dumped])
    /\ UNCHANGED <<config, counter, layer, replay, driver, history>>

\* clFinish comes first: the queue has no kernels left.
dumpBuffersForKernel(t, when) ==
    /\ At(t, IF when = "Pre" THEN "preBuffers" ELSE "postBuffers")
    /\ LET c == call[t]
           dumped == IF DumpsBuffers(c) THEN Files(c.kernel, Buffers) ELSE {}
       IN  /\ DumpsBuffers(c) => ~Pending(c.queue)
           /\ Goes(t, IF when = "Pre" THEN [c EXCEPT !.pre = @ \cup dumped]
                      ELSE [c EXCEPT !.post = @ \cup dumped])
    /\ UNCHANGED <<config, counter, layer, replay, driver, history>>

dumpImagesForKernel(t, when) ==
    /\ At(t, IF when = "Pre" THEN "preImages" ELSE "postImages")
    /\ LET c == call[t]
           dumped == IF DumpsImages(c) THEN Files(c.kernel, {"image"}) ELSE {}
       IN  /\ DumpsImages(c) => ~Pending(c.queue)
           /\ Goes(t, IF when = "Pre" THEN [c EXCEPT !.pre = @ \cup dumped]
                      ELSE [c EXCEPT !.post = @ \cup dumped])
    /\ UNCHANGED <<config, counter, layer, replay, driver, history>>

\* The contents a file brings, told apart from what kernels leave.
Injected(i) == 100 + i

\* The writes are blocking commands of the queue: its kernels have run before.
\* They go where the map says, which may be memory of another kernel's launch:
\* what the map says of an argument may be out of date.
Inject(t, args) ==
    LET c == call[t]
        written == {argMem[c.kernel][i] : i \in args}
    IN
    /\ args # {} => ~Pending(c.queue)
    /\ content' = [m \in Memory |->
                     IF \E i \in args : argMem[c.kernel][i] = m
                     THEN Injected(Max({i \in args : argMem[c.kernel][i] = m}))
                     ELSE content[m]]
    /\ stray' = stray \cup (written \ MemoryOf(c.kernel))
    /\ Goes(t, [c EXCEPT !.injected = @ \cup written])
    /\ UNCHANGED <<config, counter, layer, replay, alive, real, running, known, objects,
                   settings>>

\* Of the arguments with a file, those whose file is not longer than the memory.
injectBuffersForKernel(t) ==
    /\ At(t, "injectBuffers")
    /\ \E fits \in SUBSET Recorded(call[t].kernel, Buffers) :
          Inject(t, IF config.InjectBuffers THEN fits ELSE {})

\* Images of one size.  A file of another size is said to be skipped, but is used
\* all the same once the transfer buffer is large enough, which it is after the
\* first file that fits.
injectImagesForKernel(t) ==
    /\ At(t, "injectImages")
    /\ \E fits \in SUBSET Recorded(call[t].kernel, {"image"}) :
       \E other \in SUBSET (Recorded(call[t].kernel, {"image"}) \ fits) :
          Inject(t, IF config.InjectImages
                    THEN fits \cup {i \in other : \E j \in fits : j < i} ELSE {})

\* The driver queues the kernel, or refuses; NullEnqueue is off.
clEnqueueNDRangeKernel(t) ==
    /\ At(t, "enqueue")
    /\ \/ running' = [running EXCEPT ![call[t].queue] =
                         Append(@, [thread |-> t, kernel |-> call[t].kernel, n |-> call[t].n,
                                    memory |-> MemoryOf(call[t].kernel)])]
       \/ UNCHANGED running
    /\ Goes(t, call[t])
    /\ UNCHANGED <<config, counter, layer, replay, alive, content, real, history>>

Return(t) ==
    /\ At(t, "return") /\ call' = [call EXCEPT ![t] = NoCall]
    /\ UNCHANGED <<config, counter, layer, replay, driver, history>>

\* The first kernel of a queue runs: it changes what its arguments point to.
Run(q) ==
    /\ Pending(q)
    /\ LET r == Head(running[q])
           before == {[arg |-> i, content |-> content[real[r.kernel][i]]] :
                         i \in {j \in Args : real[r.kernel][j] \in Memory}}
       IN  /\ content' = [m \in Memory |-> IF m \in r.memory THEN 10 + r.n ELSE content[m]]
           /\ call' = IF call[r.thread].n = r.n
                      THEN [call EXCEPT ![r.thread].ran = before]
                      ELSE call
    /\ running' = [running EXCEPT ![q] = Tail(@)]
    /\ UNCHANGED <<config, counter, layer, replay, alive, real, history>>

Next ==
    \/ \E m \in Memory : AddMemory(m) \/ RemoveMemory(m)
    \/ \E k \in Kernels :
          \/ \E i \in Args : clSetKernelArg(k, i) \/ clSetKernelArgPointer(k, i)
          \/ RecreateKernel(k)
          \/ \E t \in Threads, q \in Queues : Begin(t, k, q)
    \/ \E t \in Threads :
          \/ checkCaptureReplay(t) \/ startCaptureReplay(t)
          \/ \E when \in {"Pre", "Post"} :
                dumpBuffersForKernel(t, when) \/ dumpImagesForKernel(t, when)
          \/ injectBuffersForKernel(t) \/ injectImagesForKernel(t)
          \/ clEnqueueNDRangeKernel(t) \/ Return(t)
    \/ \E q \in Queues : Run(q)

Spec == Init /\ [][Next]_vars

-----------------------------------------------------------------------------
(* Properties                                                              *)

Ran(t) == call[t].ran # {}
\* The launch is captured and its arguments were recorded as the driver has them.
Faithful(t) == call[t].capture /\ known[call[t].kernel] = Args

\* What a captured launch leaves on disk is what the kernel worked with: every
\* memory argument is in the files before it, with the contents the kernel found
\* unless they were injected after the dump, and in the files after it, with what
\* the kernel made of it.  (A launch of another kernel for which the layer injects
\* into this memory by mistake is the exception.)
DumpsShowTheKernel ==
    \A t \in Threads : At(t, "return") /\ Faithful(t) /\ Ran(t) =>
        \A i \in Args : real[call[t].kernel][i] \in Memory =>
            LET m == real[call[t].kernel][i]
                found(files) == {f \in files : f.arg = i}
            IN  /\ \E f \in found(call[t].pre) :
                      /\ f.number = numberOf[m]
                      /\ \/ m \in call[t].injected \cup stray
                         \/ [arg |-> i, content |-> f.content] \in call[t].ran
                /\ m \in stray \/ found(call[t].post) =
                      {[arg |-> i, number |-> numberOf[m], content |-> 10 + call[t].n]}
                /\ [arg |-> i, local |-> FALSE, value |-> m] \in call[t].args

\* Of the launches that ask for it the first NumSkip are not captured, no more
\* than NumCapture are, each into a directory of its own, and none has a kernel
\* that was captured before when each is wanted once.
ReplaysAreLimited ==
    /\ captured # <<>> => skips = config.NumSkip
    /\ Len(captured) <= config.NumCapture
    /\ \A i, j \in DOMAIN captured : i # j =>
          /\ captured[i].n # captured[j].n
          /\ config.UniqueKernels => Signature[captured[i].kernel] # Signature[captured[j].kernel]
=============================================================================
