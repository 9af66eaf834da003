SPECIFICATION Spec
CONSTANTS
    Workers = {w1, w2}
    Callers = {c1, c2}
    Tasks = {x1, x2, x3}
    NullTasks = {x2}
    NoTask = none
    NoOne = free
INVARIANTS SerialOrder AtMostOneAfterStop
PROPERTIES TasksRun StopReturns
CHECK_DEADLOCK FALSE
