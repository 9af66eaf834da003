SPECIFICATION Spec
CONSTANTS
    Fds = {1, 2, 3}
    None = None
    Users = {u1, u2}
    MaxCalls = 4
INVARIANTS  SocketsOwned 
PROPERTIES  AttemptEnds
CHECK_DEADLOCK FALSE
