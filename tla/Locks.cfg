\* One lock of the kernel, the lock of the input buffer, which handlers take, and
\* the lock inside the RwLock around the process map.
CONSTANTS
    process = process
    input = input
    map = map
    Locks = {process, input, map}
    IrqLocks = {input}
    Relocked = {process}
    MaxFailed = 1
    RW = map
    MaxReaders = 2
SPECIFICATION RwSpec
INVARIANTS
    RwTypeOK
    LockedMeansMasked
    InterruptsRestored
    LevelCounts
    NoInterruptThroughUserVector
    WriterAlone
    WriterWaitsForItself
