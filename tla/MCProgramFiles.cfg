SPECIFICATION Spec
CONSTANTS
    Threads = {t1, t2}
    Programs = {p1, p2}
    Sources = {s1}
    Options = {o1}
    NULL = NULL
    Configs <- MCConfigs
    MaxCreations = 2
    MaxBuilds = 2
    MaxCopies = 1
SYMMETRY Symmetry
INVARIANTS
    TypeOK
    NothingIsOverwritten
    
CHECK_DEADLOCK FALSE
