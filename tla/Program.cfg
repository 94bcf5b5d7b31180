SPECIFICATION Spec
CONSTANTS
    Limit = 2
    Room = 1
    Faults = {"none", "network", "arguments", "epoll", "signalfd", "block signals",
              "open device", "set up device", "packet buffer", "write buffer",
              "tcp_new", "tcp_listen", "client memory", "username memory", "socket",
              "connects at once", "register connection", "memory", "username length"}
    ServerUnits = 1
    ClientUnits = 1
    Accepts = 1
    Packets = 1
    Arrived = 2
    Together = 2
    Kinds = {"syn", "data", "ack", "fin", "noise"}
INVARIANTS NoAssertFails AllReleased HandshakeRight
PROPERTY KeepsGoing
