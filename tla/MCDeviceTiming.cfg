SPECIFICATION Spec
CONSTANTS
    NoThread = NoThread
    NoHandle = NoHandle
    Threads = {t1, t2}
    Handles = {h1, h2}
    MaxEnqueue = 3
    MaxAppRefs = 2
    Configs <- MCConfigs
SYMMETRY Symmetry
INVARIANTS
    TypeOK
    
    
    AccountedOnce
PROPERTIES
    WaitDrains
