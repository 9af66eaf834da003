SPECIFICATION Spec
CONSTANTS
    Conns = {c1, c2}
    Fds = {3}
    None = None
    Users = {u1}
    UserOps = {"send", "shutdown"}
    MaxCalls = 1
    MaxStops = 1
PROPERTIES ClosedIsDestroyed 
CHECK_DEADLOCK FALSE
