SPECIFICATION FairSpec
CONSTANTS
    Steps = 4
    Ending = {2}
    Tunnels = {1}
    Pgids = {312, 4711, 32000}
CHECK_DEADLOCK FALSE
INVARIANTS
    CommandsStopped
PROPERTIES
    FirstEndNoticed
