SPECIFICATION FairSpec
CONSTANTS
    Jobs = {j1}
    NoJob = NoJob
    Worker = Worker
    Loader = Loader
    Free = Free
    MaxLoads = 1
    Cimoms <- OneCimom
PROPERTIES
    UninitializeReturns
CHECK_DEADLOCK FALSE
