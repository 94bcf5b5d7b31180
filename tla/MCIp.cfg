CONSTANTS
    PoolSize = 3
    LinkRoom = 1
    IpRoom = 2
    TransportRoom = 1
    Garbage = Garbage
    IP_REASS_MAX_PBUFS = 4
    DeviceMtu = 4
    NetifIp = 1
    NetSize = 4
    AnyIp = 0
    AllOnes = 15
    Multicast <- MCMulticast
    U16 = 2
    SumSize = 31
    Datagrams <- MCDatagrams
    Singles <- MCSingles
    Datagrams6 <- MCDatagrams6
    Singles6 <- MCSingles6
    Messages6 <- MCMessages6
    Own6 <- MCOwn6
    MessagesSent = 4
    BlockUnits = 181
    LWIP_ND6_NUM_NEIGHBORS = 3
    LWIP_ND6_NUM_ROUTERS = 2
    LWIP_ND6_NUM_PREFIXES = 2
    LWIP_ND6_REACHABLE_TIME = 4
    LWIP_ND6_DELAY_FIRST_PROBE_TIME = 2
    HostMtu = 2
    MemFaults = 1
    Pieces = 4
SPECIFICATION Spec
CHECK_DEADLOCK FALSE
INVARIANTS
    
    ReassemblyRight
    AnswersRight
    TablesFit
