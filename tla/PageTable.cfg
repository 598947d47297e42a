\* Four levels of two entries, and memory for one or two of three processes.
CONSTANTS
    Pages = 35
    NUM_MULTIPLES = 2
    Wanted = {1, 2}
    Freed = {1}
    Entries = 2
    Levels = 4
    MaxSpaces = 3
    Programs <- SmallPrograms
    STACK_PAGES = 2
    HeapSizes = {1, 2}
SPECIFICATION PtSpec
INVARIANTS
    PtTypeOK
    NeverPanics
    NoTableIsMapped
    OnlyDataLeaks
PROPERTY ImplementsVirtualMap
