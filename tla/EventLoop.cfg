SPECIFICATION Spec
CONSTANTS
    Threads = {t1, t2}
    Functors = {f1, f2, f3}
INVARIANTS ExecutionOrder PromptWakeup
PROPERTIES QuitStopsLoop ImplementsQueue
CHECK_DEADLOCK FALSE
