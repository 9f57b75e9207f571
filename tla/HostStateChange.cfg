SPECIFICATION Spec
CONSTANTS
    Jobs = {j1, j2}
    NoJob = NoJob
    Absent = Absent
    Gone = Gone
    Requests <- AllRequests
    Kills = TRUE
SYMMETRY Symmetry
INVARIANTS
    TypeOK
    CompletedMeansDone
    ModeMeansDisabled
    FailureRestores
CHECK_DEADLOCK FALSE
