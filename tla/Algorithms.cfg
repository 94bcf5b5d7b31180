CONSTANTS
    Entries = {1, 2, 3, 4, 5, 6, 7, 8}
    FewEntries = {1, 2, 3, 4, 5}
    SumByte = 4
    SIZE_MAX = 15
    Byte = 16
    NBlocks = 3
    PortDigits = 3
    PoolSize = 2
    LinkRoom = 1
    IpRoom = 2
    TransportRoom = 1
    Garbage = Garbage
    IP_REASS_MAX_PBUFS = 5
    DeviceMtu = 3
    NetifMtu = 2
    NetifIp = 1
    NetSize = 4
    AnyIp = 0
    AllOnes = 15
    Multicast = {9}
    U16 = 2
    SumSize = 31
SPECIFICATION ASpec
CHECK_DEADLOCK FALSE
INVARIANTS StructuresRight ValuesRight PacketsRight FilesRight
