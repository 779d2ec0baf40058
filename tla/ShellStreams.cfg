\* Every kind of tool, three files and pipes, two levels of nesting.
CONSTANTS
    Channels = {f1, f2, f3}
    Input = Input
    Output = Output
    Closed = Closed
    Kept = Kept
    InputSize = 2
    MaxItems = 4
    MaxFrames = 3
    Tools = {"sed", "awk", "file", "fd", "zsh"}
SPECIFICATION Spec
SYMMETRY Symmetry
INVARIANTS
    TypeOK
    InputRight
    OutputArrives
    ScopedDescriptors
