SPECIFICATION MCSpec
CONSTANTS
    Threads = {t1}
    OneContext = c1
    Contexts = {c1}
    Queues = {q1}
    QueueContext <- OneContextQueues
    KernelContext <- OneContextKernels
    Listed = {q1}
    Kernels = {k1}
    NULL = NULL
    Host = Host
    Device = Device
    Shared = Shared
    Top = 2
    MaxAllocations = 2
    MaxLaunches = 1
    MaxSettings = 2
    Semaphores = {s1}
    Events = {e1}
    Overlapping = FALSE
    StaleEvents = FALSE
    MaxRefs = 1
    MaxRefusals = 0
    MaxLeaks = 0
INVARIANT
    IndirectMemoryIsVisible
CHECK_DEADLOCK FALSE
