SPECIFICATION Spec
CONSTANTS
    Names <- MCNames
    Numbers = {"0", "1", "2", "3", "10"}
    Digits <- MCDigits
    MaxBase = 16
    Fuel = 200
    Radix = 2
    BaseDigs = 3
    KaratsubaLen = 2
    DefSize = 2
    DivisorBound = 4
    BigDigMax = 1000
    Cases <- RootSets
    Program <- MCProgram
INVARIANT RootEnds
CHECK_DEADLOCK FALSE
