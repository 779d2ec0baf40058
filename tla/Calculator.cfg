SPECIFICATION Spec
CONSTANTS
    Names <- MCNames
    Numbers = {"0", "1", "2", "3", "10"}
    Digits <- MCDigits
    MaxBase = 16
    Fuel = 200
    Radix = 4
    BaseDigs = 2
    KaratsubaLen = 2
    DefSize = 2
    DivisorBound = 4
    BigDigMax = 1000
    Cases <- AllSets
    Program <- MCProgram
INVARIANTS NumbersRight TextsRight ProgramMeans NothingLeft
CHECK_DEADLOCK FALSE
