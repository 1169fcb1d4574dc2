---------------------------- MODULE UsmEmulation ----------------------------
(***************************************************************************)
(* The emulation of cl_intel_unified_shared_memory with SVM (emulate.cpp   *)
(* and the end of intercept.cpp): the allocations of each context, the     *)
(* query that finds the one a pointer points into, the free that waits for *)
(* the context's queues, and the indirect access a kernel asks for, which  *)
(* becomes a list of SVM pointers at each of its launches.                 *)
(*                                                                         *)
(* Memory is the addresses 1 .. Top; an allocation is an interval that is  *)
(* free.  m_Mutex is held by finishAll while it waits for the queues, and  *)
(* covers one whole step everywhere else.                                  *)
(***************************************************************************)
EXTENDS Integers, Sequences, FiniteSets, FiniteSetsExt, SequencesExt

CONSTANTS
    Threads, Contexts, Queues, Kernels, NULL,
    Host, Device, Shared,   \* the kinds of memory
    QueueContext,      \* the context of each queue
    KernelContext,     \* the context of each kernel's program
    Listed,            \* the queues addQueue put into m_ContextQueuesMap
    Top,               \* bound: the last address
    MaxAllocations,    \* bound: allocations
    MaxLaunches,       \* bound: kernel launches
    MaxSettings        \* bound: calls of clSetKernelExecInfo

ASSUME UsmAssumption ==
    /\ QueueContext \in [Queues -> Contexts] /\ Listed \subseteq Queues
    /\ KernelContext \in [Kernels -> Contexts]
    /\ Top \in Nat /\ MaxAllocations \in Nat /\ MaxLaunches \in Nat /\ MaxSettings \in Nat

Types == {Host, Device, Shared}
Addresses == 1 .. Top

VARIABLES
    call,         \* the handler each thread is in
    m_Mutex,      \* the thread that holds it across steps
    AllocMap,     \* per context: base address to type and size
    AllocVector,  \* per context and type: HostAllocVector and the others
    kernelInfo,   \* m_USMKernelInfoMap
    svm,          \* driver: the allocations of each context, base to size
    execInfo,     \* driver: the SVM pointers each kernel may access
    running,      \* driver: the kernels that run, [queue, fast, sees]
    allocations, launches, settings    \* history: the calls the bounds count

memory  == <<AllocMap, AllocVector, svm>>
kernels == <<kernelInfo, execInfo>>
counts  == <<allocations, launches, settings>>
vars == <<call, m_Mutex, memory, kernels, running, counts>>

Call(kind, next, c, p, q, k, needs, before) ==
    [kind |-> kind, next |-> next, context |-> c, ptr |-> p, queue |-> q, kernel |-> k,
     needs |-> needs, fast |-> TRUE, before |-> before]
NoCall == Call("none", "none", NULL, 0, NULL, NULL, {}, {})

Launches == [queue : Queues, fast : BOOLEAN, sees : BOOLEAN]
Calls == [kind : {"none", "launch", "free"}, next : {"none", "set", "enqueue", "finish", "free"},
          context : Contexts \cup {NULL}, ptr : Addresses \cup {0}, queue : Queues \cup {NULL},
          kernel : Kernels \cup {NULL}, needs : SUBSET Addresses, fast : BOOLEAN,
          before : SUBSET Launches]

\* SUSMKernelInfo: the kinds of memory the kernel reaches indirectly, the lists.
NoKernelInfo == [indirect |-> {}, SVMPtrs |-> {}, USMPtrs |-> {}]

Idle(t)  == call[t] = NoCall
Unlocked == m_Mutex = NULL

Interval(base, size) == base .. (base + size - 1)
Taken == UNION {UNION {Interval(b, svm[c][b]) : b \in DOMAIN svm[c]} : c \in Contexts}
Running(q) == {r \in running : r.queue = q}

Maps(values) == UNION {[D -> values] : D \in SUBSET Addresses}

TypeOK ==
    /\ call \in [Threads -> Calls] /\ m_Mutex \in Threads \cup {NULL}
    /\ AllocMap \in [Contexts -> Maps([Type : Types, Size : 1 .. 2])]
    /\ AllocVector \in [Contexts -> [Types -> Seq(Addresses)]]
    /\ svm \in [Contexts -> Maps(1 .. 2)]
    /\ kernelInfo \in [Kernels -> [indirect : SUBSET Types, SVMPtrs : SUBSET Addresses,
                                   USMPtrs : SUBSET Addresses]]
    /\ execInfo \in [Kernels -> SUBSET Addresses] /\ running \subseteq Launches
    /\ \A t \in Threads : call[t].before \subseteq running
    /\ allocations \in 0 .. MaxAllocations
    /\ launches \in 0 .. MaxLaunches /\ settings \in 0 .. MaxSettings

Init ==
    /\ call = [t \in Threads |-> NoCall] /\ m_Mutex = NULL
    /\ AllocMap = [c \in Contexts |-> << >>]
    /\ AllocVector = [c \in Contexts |-> [y \in Types |-> <<>>]]
    /\ kernelInfo = [k \in Kernels |-> NoKernelInfo]
    /\ svm = [c \in Contexts |-> << >>]
    /\ execInfo = [k \in Kernels |-> {}]
    /\ running = {} /\ allocations = 0 /\ launches = 0 /\ settings = 0

-----------------------------------------------------------------------------
(* Memory.  The driver gives an interval of free addresses, or refuses and *)
(* nothing changes; nothing changes either when a property is not valid.   *)

Insert(f, x, value) == [y \in DOMAIN f \cup {x} |-> IF y = x THEN value ELSE f[y]]
Erase(f, x) == [y \in DOMAIN f \ {x} |-> f[y]]
EraseValue(v, x) == RemoveAt(v, CHOOSE i \in DOMAIN v : v[i] = x)

Alloc(t, c, type) == \E base \in Addresses, size \in 1 .. 2 :
    /\ Idle(t) /\ Unlocked
    /\ allocations < MaxAllocations /\ allocations' = allocations + 1
    /\ Interval(base, size) \subseteq Addresses \ Taken
    /\ svm' = [svm EXCEPT ![c] = Insert(@, base, size)]
    /\ AllocMap' = [AllocMap EXCEPT ![c] = Insert(@, base, [Type |-> type, Size |-> size])]
    /\ AllocVector' = [AllocVector EXCEPT ![c][type] = Append(@, base)]
    /\ UNCHANGED <<call, m_Mutex, kernels, running, launches, settings>>

emulatedHostMemAlloc(t, c)   == Alloc(t, c, Host)
emulatedDeviceMemAlloc(t, c) == Alloc(t, c, Device)
emulatedSharedMemAlloc(t, c) == Alloc(t, c, Shared)

\* The application no longer needs the memory for the launches it is making.
Forget(calls, p) == [t \in Threads |-> [calls[t] EXCEPT !.needs = @ \ {p}]]

emulatedMemFree(c, p) ==
    /\ Unlocked
    /\ AllocVector' = [AllocVector EXCEPT ![c][AllocMap[c][p].Type] = EraseValue(@, p)]
    /\ AllocMap' = [AllocMap EXCEPT ![c] = Erase(@, p)]
    /\ svm' = [svm EXCEPT ![c] = Erase(@, p)]
    /\ UNCHANGED <<m_Mutex, kernels, running, counts>>

clMemFreeINTEL_EMU(t, c, p) ==
    /\ Idle(t) /\ p \in DOMAIN AllocMap[c]
    /\ emulatedMemFree(c, p) /\ call' = Forget(call, p)

\* finishAll holds m_Mutex while it waits; emulatedMemFree locks it again.
BeginBlockingFree(t, c, p) ==
    /\ Idle(t) /\ Unlocked /\ m_Mutex' = t
    /\ p \in DOMAIN AllocMap[c] /\ \A u \in Threads : call[u].ptr # p
    /\ call' = [call EXCEPT ![t] = Call("free", "finish", c, p, NULL, NULL, {}, running)]
    /\ UNCHANGED <<memory, kernels, running, counts>>

ToFinish(c) == {q \in Listed : QueueContext[q] = c}

\* Mutant: the free does not wait for the queues.
finishNothing(t) ==
    /\ call[t].next = "finish" /\ m_Mutex' = NULL
    /\ call' = [call EXCEPT ![t].next = "free"]
    /\ UNCHANGED <<memory, kernels, running, counts>>

finishAll(t) ==
    /\ call[t].next = "finish" /\ \A q \in ToFinish(call[t].context) : Running(q) = {}
    /\ m_Mutex' = NULL
    /\ call' = [call EXCEPT ![t].next = "free"]
    /\ UNCHANGED <<memory, kernels, running, counts>>

clMemBlockingFreeINTEL_EMU(t) ==
    /\ call[t].next = "free"
    /\ call' = [Forget(call, call[t].ptr) EXCEPT ![t] = NoCall]
    /\ \/ call[t].ptr \in DOMAIN AllocMap[call[t].context]
          /\ emulatedMemFree(call[t].context, call[t].ptr)
       \/ /\ call[t].ptr \notin DOMAIN AllocMap[call[t].context] /\ Unlocked
          /\ UNCHANGED <<m_Mutex, memory, kernels, running, counts>>

\* emulatedGetMemAllocInfoINTEL: the base address it reports for a pointer, 0
\* when it reports CL_INVALID_MEM_OBJECT.  lower_bound finds the first key that
\* is not below the pointer; unless that is the pointer itself, the one before it
\* is the only candidate.
Candidate(c, p) ==
    LET keys == DOMAIN AllocMap[c]
    IN  IF p \in keys THEN p ELSE Max({k \in keys : k < p} \cup {0})

\* Mutant: the address after an allocation counts as part of it.
InfoIncludesEnd(c, p) ==
    LET base == Candidate(c, p)
    IN  IF base # 0 /\ p <= base + AllocMap[c][base].Size THEN base ELSE 0

emulatedGetMemAllocInfoINTEL(c, p) ==
    LET base == Candidate(c, p)
    IN  IF base # 0 /\ p < base + AllocMap[c][base].Size THEN base ELSE 0

-----------------------------------------------------------------------------
(* Kernels.  The application does not change what a kernel may access      *)
(* while it launches it.                                                   *)

MayChange(t, k) ==
    /\ Idle(t) /\ Unlocked /\ \A u \in Threads : call[u].kernel # k
    /\ settings < MaxSettings /\ settings' = settings + 1
    /\ UNCHANGED <<call, m_Mutex, memory, running, allocations, launches>>

\* CL_KERNEL_EXEC_INFO_INDIRECT_..._ACCESS_INTEL.
SetIndirect(t, k, types) ==
    /\ MayChange(t, k)
    /\ kernelInfo' = [kernelInfo EXCEPT ![k].indirect = types]
    /\ UNCHANGED execInfo

\* CL_KERNEL_EXEC_INFO_USM_PTRS_INTEL, which the driver does not know.
SetUSMPtrs(t, k, ptrs) ==
    /\ MayChange(t, k)
    /\ kernelInfo' = [kernelInfo EXCEPT ![k].USMPtrs = ptrs]
    /\ UNCHANGED execInfo

\* CL_KERNEL_EXEC_INFO_SVM_PTRS goes on to the driver, which may refuse it.
SetSVMPtrs(t, k, ptrs) ==
    /\ MayChange(t, k)
    /\ kernelInfo' = [kernelInfo EXCEPT ![k].SVMPtrs = ptrs]
    /\ execInfo' \in {execInfo, [execInfo EXCEPT ![k] = ptrs]}

trackUSMKernelExecInfo(t, k) ==
    \/ \E y \in Types : \/ SetIndirect(t, k, kernelInfo[k].indirect \cup {y})
                        \/ SetIndirect(t, k, kernelInfo[k].indirect \ {y})
    \/ \E ptrs \in {{}} \cup {{b} : b \in UNION {DOMAIN svm[c] : c \in Contexts}} :
          SetUSMPtrs(t, k, ptrs) \/ SetSVMPtrs(t, k, ptrs)

\* The kinds of memory to list, setHostAllocs and the others.
KindsToSet(c, k) == {y \in kernelInfo[k].indirect : AllocVector[c][y] # <<>>}
Allocated(c, kinds) == {b \in DOMAIN AllocMap[c] : AllocMap[c][b].Type \in kinds}
OfKinds(c, kinds) == UNION {Range(AllocVector[c][y]) : y \in kinds}

\* One kind at most and no pointers.
fastPath(c, k) == /\ kernelInfo[k].SVMPtrs = {} /\ kernelInfo[k].USMPtrs = {}
                  /\ Cardinality(KindsToSet(c, k)) <= 1

\* The launch relies on every allocation of the kinds the kernel asked for, and
\* on the SVM pointers the driver has been told of.
BeginLaunch(t, q, k) ==
    /\ Idle(t) /\ launches < MaxLaunches /\ launches' = launches + 1
    /\ KernelContext[k] = QueueContext[q]
    /\ call' = [call EXCEPT ![t] =
                  Call("launch", IF kernelInfo[k].indirect = {} THEN "enqueue" ELSE "set",
                       NULL, 0, q, k, Allocated(QueueContext[q], kernelInfo[k].indirect), {})]
    /\ UNCHANGED <<m_Mutex, memory, kernels, running, allocations, settings>>

\* What clSetKernelExecInfo is passed on the other path: the first count entries
\* of a vector that starts with count null pointers (0), the pointers after them.
\* The driver may take null pointers for no pointers or refuse them.
Combined(c, k) ==
    LET pointers == SetToSeq(kernelInfo[k].SVMPtrs) \o SetToSeq(kernelInfo[k].USMPtrs)
                    \o FlattenSeq([i \in 1 .. 3 |->
                         LET y == <<Host, Device, Shared>>[i]
                         IN  IF y \in KindsToSet(c, k) THEN AllocVector[c][y] ELSE <<>>])
        count    == Len(pointers)
        combined == [i \in 1 .. count |-> 0] \o pointers
    IN  Range(SubSeq(combined, 1, count)) \cap Addresses

\* Mutant: a kernel that has a list keeps it.
setUSMKernelExecInfoOnce(t) ==
    /\ call[t].next = "set" /\ Unlocked
    /\ LET k == call[t].kernel
           c == QueueContext[call[t].queue]
       IN  /\ execInfo' = IF execInfo[k] # {} THEN execInfo
                           ELSE [execInfo EXCEPT ![k] = OfKinds(c, KindsToSet(c, k))]
           /\ call' = [call EXCEPT ![t].next = "enqueue", ![t].fast = fastPath(c, k)]
    /\ UNCHANGED <<m_Mutex, memory, kernelInfo, running, counts>>

setUSMKernelExecInfo(t) ==
    /\ call[t].next = "set" /\ Unlocked
    /\ LET k == call[t].kernel
           c == QueueContext[call[t].queue]
       IN  /\ IF fastPath(c, k)
              THEN execInfo' = IF KindsToSet(c, k) = {} THEN execInfo
                               ELSE [execInfo EXCEPT ![k] = OfKinds(c, KindsToSet(c, k))]
              ELSE execInfo' \in {execInfo, [execInfo EXCEPT ![k] = Combined(c, k)]}
           /\ call' = [u \in Threads |->
                         [call[u] EXCEPT
                            !.next = IF u = t THEN "enqueue" ELSE @,
                            !.fast = IF call[u].kernel = k THEN @ /\ fastPath(c, k) ELSE @]]
    /\ UNCHANGED <<m_Mutex, memory, kernelInfo, running, counts>>

\* The driver starts the kernel, or refuses.
clEnqueueNDRangeKernel(t) ==
    /\ call[t].next = "enqueue"
    /\ running' \in {running, running \cup
                       {[queue |-> call[t].queue, fast |-> call[t].fast,
                         sees |-> call[t].needs \subseteq execInfo[call[t].kernel]]}}
    /\ call' = [call EXCEPT ![t] = NoCall]
    /\ UNCHANGED <<m_Mutex, memory, kernels, counts>>

Complete(r) ==
    /\ running' = running \ {r}
    /\ call' = [t \in Threads |-> [call[t] EXCEPT !.before = @ \ {r}]]
    /\ UNCHANGED <<m_Mutex, memory, kernels, counts>>

Next ==
    \/ \E t \in Threads, c \in Contexts :
          \/ emulatedHostMemAlloc(t, c) \/ emulatedDeviceMemAlloc(t, c)
          \/ emulatedSharedMemAlloc(t, c)
          \/ \E p \in Addresses : clMemFreeINTEL_EMU(t, c, p) \/ BeginBlockingFree(t, c, p)
    \/ \E t \in Threads :
          \/ finishAll(t) \/ clMemBlockingFreeINTEL_EMU(t)
          \/ setUSMKernelExecInfo(t) \/ clEnqueueNDRangeKernel(t)
          \/ \E k \in Kernels : \/ trackUSMKernelExecInfo(t, k)
                                \/ \E q \in Queues : BeginLaunch(t, q, k)
    \/ \E r \in running : Complete(r)

Spec == Init /\ [][Next]_vars

-----------------------------------------------------------------------------
(* Properties                                                              *)

\* A query about any address, in the middle of an allocation or just past its
\* end, reports the allocation that holds the address and no other.
QueriesFindTheAllocation ==
    \A c \in Contexts, p \in Addresses :
        LET holding == {b \in DOMAIN svm[c] : p \in Interval(b, svm[c][b])}
        IN  emulatedGetMemAllocInfoINTEL(c, p) = IF holding = {} THEN 0
                                                 ELSE CHOOSE b \in holding : TRUE

\* A kernel that reaches one kind of memory indirectly is launched with every
\* allocation of that kind its application could mean, whatever the threads that
\* allocate, free and launch do between the listing and the launch.
OneKindIsVisible == \A r \in running : r.fast => r.sees

\* The same of every kernel, the ones that reach several kinds included: the
\* extension is emulated "using SVM APIs" (docs/controls.md).
IndirectMemoryIsVisible == \A r \in running : r.sees

\* Memory is freed by clMemBlockingFreeINTEL when no kernel that was launched
\* before the call is still running, on any queue the layer has listed.
BlockingFreeWaits ==
    \A t \in Threads : \A r \in call[t].before :
        call[t].next = "free" /\ QueueContext[r.queue] = call[t].context => r.queue \notin Listed
=============================================================================
