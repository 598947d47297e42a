\* A spawn that fails, with stacks for everybody.
CONSTANTS
    MaxPid = 3
    MAXIMUM_PROCESS = 4
SPECIFICATION Spec
INVARIANT FailedSpawnLeavesNothing
