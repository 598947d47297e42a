\* One segment of one page, and frames for any heap.
CONSTANTS
    STACK_GUARD = 6
    STACK_PAGES = 1
    Images <- OnePageImage
    MAX_ALLOC = 2
    MAX_BUFFER = 2
    Frames = 20
SPECIFICATION Spec
INVARIANT GrantedCanBeUsed
