\* One run at a time, every change in a millisecond of its own.
CONSTANTS
    Workers = {w1}
    Files = {a, b}
    Dir = dir
    Inside = {b}
    MaxTime = 11
    MaxRuns = 3
    MaxWrites = 2
    Ties = FALSE
    Truncates = FALSE
    Faults = FALSE
SPECIFICATION Spec
INVARIANTS
    TypeOK
    StoreIsTree
PROPERTIES
    OnlyTouched
    KeepsHome
CHECK_DEADLOCK FALSE
