\* One process, of a program whose only segment has no flags.
CONSTANTS
    Pages = 20
    NUM_MULTIPLES = 2
    Wanted = {1, 2}
    Freed = {1}
    Entries = 2
    Levels = 4
    MaxSpaces = 1
    Programs <- FlaglessProgram
    STACK_PAGES = 2
    HeapSizes = {1}
SPECIFICATION PtSpec
INVARIANT CleansTablesOnly
