\* Called by the pool: an idbfs job, a busySleepFallback job and one with both.
CONSTANTS
    Jobs = {a, b, c}
    NoJob = NoJob
    IdbJobs = {a, c}
    BusyJobs = {b, c}
    Patient = TRUE
    Faults = TRUE
SPECIFICATION Spec
INVARIANTS
    TypeOK
    Isolated
    ReadyMeansWarm
PROPERTIES
    KeepsContract
CHECK_DEADLOCK FALSE
