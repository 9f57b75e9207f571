SPECIFICATION FairSpec
CONSTANTS
    Jobs = {j1, j2}
    NoJob = NoJob
    Absent = Absent
    Gone = Gone
    Disks = 3
INVARIANTS
    TypeOK
    CompletedMeansDone
    ExposedIsKnown
    EndLeavesNothing
    MigrationKeepsChannel
PROPERTIES
    EveryJobEnds
CHECK_DEADLOCK FALSE
