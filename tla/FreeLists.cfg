\* Blocks of several sizes are given back, split and handed out again; the bitmap
\* has two words of two bits, so that a search passes from one to the other.
CONSTANTS
    Pages = 7
    NUM_MULTIPLES = 4
    Wanted = {1, 2, 3}
    Freed = {1, 2, 3}
    NUM_BITMAPS = 2
    NUM_MULTIPLES_PER_BITMAP = 2
SPECIFICATION FlSpec
INVARIANTS
    TypeOK
    NoOverlap
    NothingLost
    HeadersIntact
    ListsAreChains
    FirstAvailableIsSmallest
PROPERTIES
    HandsOutZeroes
