SPECIFICATION Spec
\* The process ends.
CHECK_DEADLOCK FALSE
CONSTANTS
    Threads = {t1, t2, t3}
    Signatures = {s1, s2}
    MaxEnqueue = 4
    Configs <- MCConfigs
SYMMETRY Symmetry
INVARIANTS
    TypeOK
    FlagIsTrue
    CapturesAreLimited
    UniqueKernelsOnce
    IndividualCapturesEnd
