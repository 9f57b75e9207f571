SPECIFICATION FairSpec
CONSTANTS
    Absent = Absent
    Gone = Gone
    Jobs = {j1}
    NoJob = NoJob
    Callers = {c1, c2}
    Worker = Worker
    NoVm = NoVm
    Vms <- MCVms
    Existing <- MCExisting
    Disks <- MCDisks
    Attached <- MCAttached
    Protected <- MCProtected
    Slots <- MCSlots
    Requests <- MCRequests
    MaxVifs = 2
    MaxRequests = 2
    MaxEvents <- MCMaxEvents
CHECK_DEADLOCK FALSE
INVARIANTS
    TypeOK
    CompletedIsWhole
    NothingLeftBehind
    InUseDisksSurvive
PROPERTIES
    EveryRequestEnds
