\* Six pages below the guard, two for the stack, frames for some of the heaps only.
CONSTANTS
    STACK_GUARD = 6
    STACK_PAGES = 2
    Images <- SmallImages
    MAX_ALLOC = 2
    MAX_BUFFER = 2
    Frames = 9
SPECIFICATION FairSpec
INVARIANTS
    TypeOK
    BelowMarkIsBacked
    ReadsTheBuffer
PROPERTY GrantedAccessEnds
