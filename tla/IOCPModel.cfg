SPECIFICATION Spec
CONSTANTS
    Workers = {w1, w2}
    Clients = {c1, c2}
    Slots = {s1}
    Sockets = {k1, k2}
    None = None
INVARIANTS  NothingLeaked
PROPERTY StopReturns
CHECK_DEADLOCK FALSE
