SPECIFICATION MCSpec
\* The process ends.
CHECK_DEADLOCK FALSE
CONSTANTS
    Threads = {t1, t2}
    NoThread = none
    MaxCalls = 3
    Configs <- MCConfigs
    Callers = {c1, c2, c3}
    MaxCommands = 5
    ReportConfigs <- MCReportConfigs
SYMMETRY Symmetry
INVARIANTS
    TypesOK
    
    FlowsMeet
    BlockingCallsAreDurable
    CounterIsLimited
    ReportsAgree
    FinalReport
PROPERTIES
    ImplementsTraceLog
