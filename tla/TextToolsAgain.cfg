SPECIFICATION Spec
CONSTANTS
    Hash <- MCHash
    Fold <- MCFold
    Ignored <- MCIgnored
    Incomplete <- MCIncomplete
    Dots = ".."
    MaxTries = 2
    Context0 = 64
    Memory = 1024
    Termwidth = 5
    Octal = {}
    BufSize = 3
    NSymtab = 2
    Pa2Num = 50
    Cases <- WrongSets
    Series <- Wrong
    MaxCalls = 3
    MakeCall <- MCCall
INVARIANT LikeTheFirst
CHECK_DEADLOCK FALSE
