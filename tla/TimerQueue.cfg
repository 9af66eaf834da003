SPECIFICATION Spec
CONSTANTS
    Timers = {1, 2}
    Kinds <- KindsPeriodic
    MaxTime = 3
    MaxPending = 1
INVARIANTS NoDrift 
PROPERTIES RemovedNeverRuns PassedOverByRepeated
CHECK_DEADLOCK FALSE
