CONSTANTS
    Conns = {1, 2}
    Sizes = {1, 2}
    OddSizes = {1}
    Clients = {1, 2}
    Wrap = 3
    Timeout = 0
    TCP_MAXRTX = 1
SPECIFICATION Spec
INVARIANTS NoAssertFails BlocksRight
CHECK_DEADLOCK FALSE
PROPERTY BlocksAreFreed
