CONSTANTS
    U32 = 32
    U16 = 16
    U8 = 4
    TCP_MSS = 2
    TCP_WND = 4
    TCP_SND_BUF = 2
    TCP_SND_QUEUELEN = 4
    Iss = 29
    RecvBuf = 2
    TCP_MAXRTX = 1
    DupAcks = 4
    PeerIss = 27
    PeerWnd = 2
    Bytes = 3
    ServerBytes = {0, 1, 3}
    HostBytes = 5
    Channel = 2
    Losses = 1
    SyncEvents = 1
    MayAbort = TRUE
SPECIFICATION Spec
INVARIANTS NoAssertFails StreamIntact AccountsAgree NoStall
CHECK_DEADLOCK FALSE
