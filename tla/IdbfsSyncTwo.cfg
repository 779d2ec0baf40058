\* Two runs at a time, truncation, and requests that fail.
CONSTANTS
    Workers = {w1, w2}
    Files = {a, b}
    Dir = dir
    Inside = {b}
    MaxTime = 8
    MaxRuns = 3
    MaxWrites = 2
    Ties = FALSE
    Truncates = TRUE
    Faults = TRUE
SPECIFICATION Spec
SYMMETRY WorkerSymmetry
INVARIANTS
    StampsAgree
CHECK_DEADLOCK FALSE
