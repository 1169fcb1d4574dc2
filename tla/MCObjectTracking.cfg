SPECIFICATION Spec
\* The application may stop calling.
CHECK_DEADLOCK FALSE
CONSTANTS
    Threads = {t1, t2}
    Handles = {h1, h2}
    Focus <- Kinds
    MaxCounted = 4
    MaxRefs = 2
SYMMETRY Symmetry
INVARIANTS
    TypeOK
    
    InfoOfLiveObjects
    CallsAreRouted
    QueuesAreListed
