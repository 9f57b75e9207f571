SPECIFICATION FairSpec
CONSTANTS
    Jobs = {j1, j2}
    NoJob = NoJob
    Absent = Absent
    Gone = Gone
    Requests <- SomeRequests
    OtherClients = TRUE
    Kills = TRUE
INVARIANTS
    TypeOK
    CompletedMeansDone
    ExceptionMeansUntouched
PROPERTIES
    EveryTaskEnds
CHECK_DEADLOCK FALSE
