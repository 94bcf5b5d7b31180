SPECIFICATION Spec
CONSTANTS
    StunCount = 2
    MaxFakes = 1
    MaxPackets = 1
CHECK_DEADLOCK FALSE
INVARIANTS
    AddressesRight
    Transparent
    SocketsRight
