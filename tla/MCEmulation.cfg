SPECIFICATION MCSpec
CONSTANTS
    Threads = {t1, t2}
    OneContext = c1
    Contexts = {c1}
    Queues = {q1, q2}
    QueueContext <- OneContextQueues
    KernelContext <- OneContextKernels
    Listed = {q1}
    Kernels = {k1}
    NULL = NULL
    Host = Host
    Device = Device
    Shared = Shared
    Top = 3
    MaxAllocations = 2
    MaxLaunches = 2
    MaxSettings = 2
    Semaphores = {s1, s2}
    Events = {e1, e2}
    Overlapping = FALSE
    StaleEvents = FALSE
    MaxRefs = 2
    MaxRefusals = 1
    MaxLeaks = 1
SYMMETRY Symmetry
INVARIANTS
    TypesOK
    QueriesFindTheAllocation
    
    
    EventsAreCounted
PROPERTIES
    ImplementsSemaphores
CHECK_DEADLOCK FALSE
