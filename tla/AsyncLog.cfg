SPECIFICATION Spec
CONSTANTS
    Threads = {t1, t2}
    Writer = w
    Lines = {1, 2, 3, 4, 5}
    Level <- Levels
    Length <- Lengths
    RollSize = 2
    MaxTime = 1
    MaxLines = 3
    MayFail = TRUE
PROPERTIES  UninitReturns
INVARIANTS  LogOrder
CHECK_DEADLOCK FALSE
