\* Four processes, of which the last has no kernel stack.
CONSTANTS
    MaxPid = 4
    MAXIMUM_PROCESS = 4
SPECIFICATION FairSpec
INVARIANTS
    TypeOK
    ExitNeverResumes
    NoLostWakeup
    SomeoneCanRun
    ReturnsToItself
    QueueComplete
PROPERTIES
    WaitsForItsChild
    StarvationFree
    ImplementsScheduler
