SPECIFICATION Spec
CONSTANTS
    t1 = t1
    t2 = t2
    b1 = b1
    b2 = b2
    m1 = m1
    p1 = p1
    NULL = NULL
    Threads <- MCThreads
    Buffers <- MCBuffers
    Mutables <- MCMutables
    Platforms <- MCPlatforms
    Overlapping = FALSE
    MaxRefs = 2
    MaxCommands = 4
    MaxCalls = 5
SYMMETRY MCSymmetry
INVARIANTS TypeOK DumpsAreRight  MutablesAreRouted
CHECK_DEADLOCK FALSE
