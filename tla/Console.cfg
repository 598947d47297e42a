\* Four bytes typed into a FIFO of two and a buffer of three: it can overflow.
CONSTANTS
    Chars = {"shutdown", "y"}
    Capacity = 3
    FifoSize = 2
    MaxInput = 4
SPECIFICATION FairSpec
INVARIANTS
    TypeOK
    LineAsShown
    FirstLineSafe
    HangsAtBootOnly
PROPERTY LineArrives
