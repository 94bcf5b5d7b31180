CONSTANTS
    Flows = {1, 2}
    Lengths = {0, 2}
    Mtu = 2
    NumPackets = 1
    Block = 2
    Header = 1
    Weight = 1
    MaxTime = 7
    Packets = 3
    WireBytes = 2
SPECIFICATION Spec
INVARIANT NoAssertFails
PROPERTIES FlowsServed FlowImplementsQueue
