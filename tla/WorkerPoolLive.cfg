\* No optional fault; enough workers for every job to time out.
CONSTANTS
    Jobs = {j1, j2, j3}
    NoJob = NoJob
    PoolSize = 2
    MaxWorkers = 5
    Faults = {}
SPECIFICATION FairSpec
PROPERTIES
    EveryRunSettles
    PoolRecovers
    ImplementsFairService
CHECK_DEADLOCK FALSE
