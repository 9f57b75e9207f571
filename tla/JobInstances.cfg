CONSTANTS
    t1 = t1
    t2 = t2
    k1 = k1
    k2 = k2
    Threads <- MCThreads
    Tasks <- MCTasks
    Named <- MCNamed
    Asks <- MCAsks
SPECIFICATION Spec
INVARIANTS
    TypeOK
    SessionsReturned
    EnumerationComplete
    NotFoundMeansAbsent
PROPERTY EveryRequestEnds
CHECK_DEADLOCK FALSE
