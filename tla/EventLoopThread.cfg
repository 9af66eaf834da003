SPECIFICATION ThreadSpec
CONSTANTS
    Threads = {owner}
    Owner = owner
    Functors = {f1, f2}
PROPERTIES StartLoopReturns StopReachesRunningLoop
CHECK_DEADLOCK FALSE
