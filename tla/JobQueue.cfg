SPECIFICATION FairSpec
CONSTANTS
    Jobs = {j1, j2, j3}
    NoJob = NoJob
    Worker = Worker
    Loader = Loader
    Free = Free
    MaxLoads = 2
    Cimoms <- AllCimoms
INVARIANTS
    TypeOK
    NoJobDiesWithWorker
    NoLostWakeup
    NeverCrashes
PROPERTIES
    EnqueuedIsServed
    ImplementsAbstractJobs
CHECK_DEADLOCK FALSE
