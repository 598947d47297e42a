\* Three processes and kernel stacks for pids 0 and 1 only.
CONSTANTS
    MaxPid = 3
    MAXIMUM_PROCESS = 2
SPECIFICATION Spec
INVARIANT EveryProcessHasStack
