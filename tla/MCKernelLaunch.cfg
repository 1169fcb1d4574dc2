SPECIFICATION Spec
CONSTANTS
    Threads = {t1, t2}
    Queues = {q1, q2}
    Kernels = {k1, k2}
    NULL = NULL
    Args = {0, 1}
    LocalArgs = {1}
    Memory = {1, 2, 3}
    KindOf <- Kinds
    SizeOf <- Sizes
    Signature <- OneSignature
    Configs <- AllConfigs
    MaxLaunches = 2
    MaxObjects = 2
    MaxArgs = 3
SYMMETRY Symmetry
INVARIANTS
    TypeOK
    DumpsShowTheKernel
    ReplaysAreLimited
CHECK_DEADLOCK FALSE
