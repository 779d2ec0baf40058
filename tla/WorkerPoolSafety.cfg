\* Two workers, three jobs, every fault, up to three replaced workers.
CONSTANTS
    Jobs = {j1, j2, j3}
    NoJob = NoJob
    PoolSize = 2
    MaxWorkers = 5
    Faults = {"shutdown", "warmFail", "error"}
SPECIFICATION Spec
SYMMETRY JobSymmetry
INVARIANTS
    TypeOK
    PoolConsistent
    RunsSeparate
PROPERTIES
    NoOvertaking
    SettledOnce
    ImplementsService
    KeepsContract
CHECK_DEADLOCK FALSE
