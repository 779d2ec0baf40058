\* Two runs at a time, against the claim that later runs find the files.
CONSTANTS
    Workers = {w1, w2}
    Files = {a, b}
    Dir = dir
    Inside = {a, b}
    MaxTime = 11
    MaxRuns = 3
    MaxWrites = 2
    Ties = FALSE
    Truncates = FALSE
    Faults = FALSE
SPECIFICATION Spec
INVARIANT StoreIsTree
CHECK_DEADLOCK FALSE
