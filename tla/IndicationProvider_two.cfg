SPECIFICATION Spec
CONSTANTS
    Threads = {t1, t2, t3}
    NoThread = NoThread
    MaxFilters = 2
SYMMETRY Symmetry
INVARIANTS
    OneGenerator
CHECK_DEADLOCK FALSE
