\* The hand-written caller, two idbfs jobs, and everything that can fail does.
CONSTANTS
    Jobs = {a, b}
    NoJob = NoJob
    IdbJobs = {a, b}
    BusyJobs = {b}
    Patient = FALSE
    Faults = TRUE
SPECIFICATION FairSpec
INVARIANT LostForCause
PROPERTIES
    EveryRunConcludes
CHECK_DEADLOCK FALSE
