SPECIFICATION SafeSpec
CONSTANTS
    Conns = {c1}
    Fds = {3}
    None = None
    Users = {u1}
    UserOps = {"forceClose"}
    MaxCalls = 1
    MaxStops = 0
INVARIANT ClosedOnce
CHECK_DEADLOCK FALSE
