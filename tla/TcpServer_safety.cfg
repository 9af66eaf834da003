SPECIFICATION SafeSpec
CONSTANTS
    Conns = {c1, c2}
    Fds = {3, 4}
    None = None
    Users = {u1}
    UserOps = {"send"}
    MaxCalls = 2
    MaxStops = 2
SYMMETRY MCSymmetry
INVARIANTS WriteInterest ClosedOnce StaleOnlyWhileStopping  NullOnlyAfterRestart
CHECK_DEADLOCK FALSE
