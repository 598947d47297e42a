\* The shell and one child.
CONSTANTS
    MaxPid = 2
    MAXIMUM_PROCESS = 3
SPECIFICATION KuFairSpec
INVARIANTS
    KuTypeOK
    PageFollowsWrapper
PROPERTY PanicEnds
