SPECIFICATION FairSpec
CONSTANTS
    NoThread = NoThread
    NoHandle = NoHandle
    Threads = {t1, t2}
    Handles = {h1, h2}
    MaxEnqueue = 2
    MaxAppRefs = 1
    Configs <- MCLiveConfigs
PROPERTIES
    CallsReturn
