\* A line, and an erasure on the next one.
CONSTANTS
    Chars = {"shutdown", "y"}
    Capacity = 8
    FifoSize = 2
    MaxInput = 4
SPECIFICATION Spec
INVARIANT ShellSurvives
