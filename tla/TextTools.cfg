SPECIFICATION Spec
CONSTANTS
    Hash <- MCHash
    Fold <- MCFold
    Ignored <- MCIgnored
    Incomplete <- MCIncomplete
    Dots = ".."
    MaxTries = 2
    Context0 = 64
    Memory = 128
    Termwidth = 5
    Octal = {}
    BufSize = 3
    NSymtab = 2
    Pa2Num = 2
    Cases <- AllSets
    Series <- AllSeries
    MaxCalls = 2
    MakeCall <- MCCall
INVARIANTS
    ScriptsApply Shortest TreeReported
    SubstituteRight RangesRight EditedAlone
    FiltersRight InputSorted LinesFound AwkMeans
 
CHECK_DEADLOCK FALSE
