------------------------------- MODULE Tunnel --------------------------------
(***************************************************************************)
(* The tunnel of measurement_proxy: tunnel.c on a router, proxy.c on a     *)
(* node in the country, and the network between them, which loses and      *)
(* reorders packets.                                                       *)
(*                                                                         *)
(* Both ends ask a STUN server for their address, exchange OPEN!, and then *)
(* carry the IP packets of the phones other than TCP, which goes over SSH. *)
(* The first packet that arrives tells the proxy the address of the other  *)
(* end. The proxy sees packets to its host twice: as UDP on its socket and *)
(* on a raw socket, from which it forwards them.                           *)
(***************************************************************************)
EXTENDS Stun, Functions

CONSTANTS
    StunCount,   \* STUN_COUNT, 3 in ministun.h
    MaxFakes,    \* descriptors left for sockets on source ports
    MaxPackets   \* bound: packets of phones and of hosts to the node

ASSUME TunnelAssumption ==
    /\ StunCount \in Nat \ {0}
    /\ MaxFakes \in Nat /\ MaxPackets \in Nat

(* Addresses. The router is behind a NAT that keeps port numbers or adds   *)
(* to them; First is the port of the first socket, Free one that the       *)
(* kernel picks.                                                           *)
First == 1
Free == 2
StunServer == <<"stun", 3478>>
Proxy == <<"node", 7>>
Host == <<"host", 53>>

Packet(proto, src, dst, data) == [proto |-> proto, src |-> src, dst |-> dst, data |-> data]

Kind(k) == [kind |-> k]

(* An IP packet as the data of a UDP packet; n tells two of them apart. *)
Carried(p, n) == [kind |-> "ip", ip |-> p, n |-> n]

(* Packets of a phone through the TUN device, which has the address of the *)
(* node, and packets of hosts to the node.                                 *)
FromPhone == {Packet(p, <<"node", 5>>, Host, Kind("query")) : p \in {"UDP", "TCP", "ICMP"}}
ToNode == {Packet(p, Host, <<"node", 5>>, Kind("answer")) : p \in {"UDP", "TCP", "ICMP"}}

VARIABLES
    nat,       \* "keeps" or "adds"
    net,       \* packets on the way
    \* tunnel.c
    tpc,       \* where main() is
    ttries,    \* STUN requests sent
    mapped,    \* the address found by STUN
    found,     \* STUN succeeded
    tsock,     \* the port of the UDP socket, 0 if there is none
    tq,        \* packets in its buffer
    remote,    \* udp_server_addr
    child,     \* the process that listens: "none", "clear" or "loop"
    \* proxy.c
    ppc,       \* where main() is
    ptries,    \* STUN requests sent
    connect,   \* the address printed as CONNECT=
    rport,     \* argument: the port of the tunnel
    client,    \* udp_client_addr
    pq,        \* packets in the buffer of the UDP socket
    rawq,      \* packets in the buffer of the raw socket
    fakes,     \* source ports with a socket
    nfakes,    \* sockets opened for them
    watching,  \* select() looks at the sockets: maxfd is not -1
    \* History.
    asked,     \* packets the phones have sent
    sent,      \* number of packets from hosts
    out        \* packets the node has sent for the phones

tunnel == <<tpc, ttries, mapped, found, tsock, tq, remote, child>>
proxy == <<ppc, ptries, connect, rport, client, pq, rawq, fakes, nfakes, watching>>
history == <<asked, sent, out>>
vars == <<nat, net, tunnel, proxy, history>>

External(port) == <<"router", IF nat = "keeps" THEN port ELSE port + 10>>

Init ==
    /\ nat \in {"keeps", "adds"}
    /\ net = {}
    /\ tpc = "stun" /\ ttries = 0 /\ mapped = NoAddr /\ found = FALSE
    /\ tsock = First /\ tq = <<>> /\ remote = NoAddr /\ child = "none"
    /\ ppc = "none" /\ ptries = 0 /\ connect = NoAddr /\ rport = 0 /\ client = NoAddr
    /\ pq = <<>> /\ rawq = <<>> /\ fakes = {} /\ nfakes = 0 /\ watching = TRUE
    /\ asked = <<>> /\ sent = 0 /\ out = {}

Request(src, n) == Packet("UDP", src, StunServer, [kind |-> "request", n |-> n])

-----------------------------------------------------------------------------
(* tunnel.c.                                                               *)

TStunSend ==
    /\ tpc = "stun"
    /\ ttries < StunCount
    /\ tpc' = "stun_wait"
    /\ ttries' = ttries + 1
    /\ net' = net \cup {Request(External(tsock), ttries)}
    /\ UNCHANGED <<nat, mapped, found, tsock, tq, remote, child, proxy, history>>

TStunTimeout ==
    /\ tpc = "stun_wait"
    /\ tq = <<>>
    /\ tpc' = "stun"
    /\ UNCHANGED <<nat, net, ttries, mapped, found, tsock, tq, remote, child, proxy, history>>

TStunAnswer ==
    /\ tpc = "stun_wait"
    /\ tq # <<>>
    /\ tpc' = "ssh"
    /\ mapped' = stun_handle_packet(Head(tq).data.msg)
    /\ found' = TRUE
    /\ tq' = Tail(tq)
    /\ UNCHANGED <<nat, net, ttries, tsock, remote, child, proxy, history>>

(* After the last try main() goes on with mapped as it is on the stack. *)
TStunFails ==
    /\ tpc = "stun"
    /\ ttries = StunCount
    /\ tpc' = "ssh"
    /\ mapped' \in {NoAddr, <<"elsewhere", 9>>}
    /\ UNCHANGED <<nat, net, ttries, found, tsock, tq, remote, child, proxy, history>>

(* The old proxy is killed, the binary copied and the proxy started, which *)
(* binds its port and opens the raw sockets; or it fails to.               *)
TStartProxy ==
    /\ tpc = "ssh"
    /\ tpc' = "connect"
    /\ ppc' \in {"stun", "exited"}
    /\ client' = mapped
    /\ rport' = mapped[2]
    /\ UNCHANGED <<nat, net, ttries, mapped, found, tsock, tq, remote, child,
                   ptries, connect, pq, rawq, fakes, nfakes, watching, history>>

(* Any step of the SSH session fails, or it ends without CONNECT=. *)
TSshFails ==
    /\ tpc \in {"ssh", "connect"}
    /\ tpc' = "exited"
    /\ tsock' = 0
    /\ tq' = <<>>
    /\ UNCHANGED <<nat, net, ttries, mapped, found, remote, child, proxy, history>>

(* OPEN! is sent, and the socket closed to free the port. *)
TOpen ==
    /\ tpc = "connect"
    /\ connect # NoAddr
    /\ tpc' = "init"
    /\ remote' = connect
    /\ net' = net \cup {Packet("UDP", External(tsock), connect, Kind("OPEN!"))}
    /\ tsock' = 0
    /\ tq' = <<>>
    /\ UNCHANGED <<nat, ttries, mapped, found, child, proxy, history>>

TInitFails ==
    /\ tpc = "init"
    /\ tpc' = "exited"
    /\ UNCHANGED <<nat, net, ttries, mapped, found, tsock, tq, remote, child, proxy, history>>

(* After tun2socks_init() a new socket is bound to the port that STUN told *)
(* and the child started. Port 0 is any port.                              *)
TRun ==
    /\ tpc = "init"
    /\ tpc' = "run"
    /\ tsock' = IF mapped[2] = 0 THEN Free ELSE mapped[2]
    /\ child' = "clear"
    /\ UNCHANGED <<nat, net, ttries, mapped, found, tq, remote, proxy, history>>

(* bind() fails, which is not looked at; the kernel picks a port. *)
TRunBindFails ==
    /\ tpc = "init"
    /\ tpc' = "run"
    /\ tsock' = Free
    /\ child' = "clear"
    /\ UNCHANGED <<nat, net, ttries, mapped, found, tq, remote, proxy, history>>

(* The child discards one packet ... *)
ChildClear ==
    /\ child = "clear"
    /\ tq # <<>>
    /\ child' = "loop"
    /\ tq' = Tail(tq)
    /\ UNCHANGED <<nat, net, tpc, ttries, mapped, found, tsock, remote, proxy, history>>

(* ... and writes the others to the TUN device. *)
ChildWrite ==
    /\ child = "loop"
    /\ tq # <<>>
    /\ tq' = Tail(tq)
    /\ UNCHANGED <<nat, net, tpc, ttries, mapped, found, tsock, remote, child, proxy, history>>

tun_packet_received(p) ==
    /\ tpc = "run"
    /\ Len(asked) + sent < MaxPackets
    /\ asked' = Append(asked, p)
    /\ net' = IF p.proto # "TCP"
              THEN net \cup {Packet("UDP", External(tsock), remote, Carried(p, Len(asked)))}
              ELSE net
    /\ UNCHANGED <<nat, tunnel, proxy, sent, out>>

(* tun2socks_run() returns. *)
TExit ==
    /\ tpc = "run"
    /\ tpc' = "exited"
    /\ net' = net \cup {Packet("UDP", External(tsock), remote, Kind("EXIT"))}
    /\ child' = "none"
    /\ tsock' = 0
    /\ tq' = <<>>
    /\ UNCHANGED <<nat, ttries, mapped, found, remote, proxy, history>>

-----------------------------------------------------------------------------
(* proxy.c.                                                                *)

PStunSend ==
    /\ ppc = "stun"
    /\ ptries < StunCount
    /\ ppc' = "stun_wait"
    /\ ptries' = ptries + 1
    /\ net' = net \cup {Request(Proxy, ptries)}
    /\ UNCHANGED <<nat, tunnel, connect, rport, client, pq, rawq, fakes, nfakes, watching, history>>

PStunTimeout ==
    /\ ppc = "stun_wait"
    /\ pq = <<>>
    /\ ppc' = "stun"
    /\ UNCHANGED <<nat, net, tunnel, ptries, connect, rport, client, pq, rawq, fakes, nfakes,
                   watching, history>>

Open == Packet("UDP", Proxy, client, Kind("OPEN!"))

(* Fault: the answer stays in the buffer of the socket. *)
PStunAnswerPeeks ==
    /\ ppc = "stun_wait"
    /\ pq # <<>>
    /\ ppc' = "wait"
    /\ connect' = stun_handle_packet(Head(pq).data.msg)
    /\ net' = net \cup {Open}
    /\ UNCHANGED <<nat, tunnel, ptries, rport, client, pq, rawq, fakes, nfakes, watching, history>>

PStunAnswer ==
    /\ ppc = "stun_wait"
    /\ pq # <<>>
    /\ ppc' = "wait"
    /\ connect' = stun_handle_packet(Head(pq).data.msg)
    /\ pq' = Tail(pq)
    /\ net' = net \cup {Open}
    /\ UNCHANGED <<nat, tunnel, ptries, rport, client, rawq, fakes, nfakes, watching, history>>

(* Without an answer nothing is printed, and the proxy waits all the same. *)
PStunFails ==
    /\ ppc = "stun"
    /\ ptries = StunCount
    /\ ppc' = "wait"
    /\ net' = net \cup {Open}
    /\ UNCHANGED <<nat, tunnel, ptries, connect, rport, client, pq, rawq, fakes, nfakes,
                   watching, history>>

(* The sender of the first packet is the client from now on. *)
PFirst ==
    /\ ppc = "wait"
    /\ pq # <<>>
    /\ ppc' = "loop"
    /\ client' = Head(pq).src
    /\ pq' = Tail(pq)
    /\ UNCHANGED <<nat, net, tunnel, ptries, connect, rport, rawq, fakes, nfakes,
                   watching, history>>

(* Fault: the ports are compared the wrong way round. *)
OwnTunnelSwapped(p) ==
    p.src[1] = client[1] /\ p.src[2] = Proxy[2] /\ p.dst[2] = rport

(* "Skipping packet, this is our own UDP tunnel!" *)
OwnTunnel(p) ==
    p.src[1] = client[1] /\ p.src[2] = rport /\ p.dst[2] = Proxy[2]

(* A packet from the raw socket: TCP and the packets of the tunnel are     *)
(* skipped, and all others forwarded. ARP requests, which the kernel       *)
(* answers as well, are left out.                                          *)
PRaw ==
    /\ ppc = "loop" /\ watching
    /\ rawq # <<>>
    /\ LET p == Head(rawq)
           skip == p.proto = "TCP" \/ (p.proto = "UDP" /\ OwnTunnel(p))
       IN  net' = IF skip THEN net
                  ELSE net \cup {Packet("UDP", Proxy, client, Carried(p, 0))}
    /\ rawq' = Tail(rawq)
    /\ UNCHANGED <<nat, tunnel, ppc, ptries, connect, rport, client, pq, fakes, nfakes,
                   watching, history>>

(* bind_public() to a port: it is taken afterwards, by this socket or by   *)
(* the one that made bind() fail.                                          *)
bind_public(ports, port) == ports \cup {port}

(* A socket on the source port of a UDP packet. socket() fails when no     *)
(* descriptor is left, and maxfd becomes -1.                               *)
FakeSocket(port) ==
    IF nfakes < MaxFakes
    THEN /\ fakes' = bind_public(fakes, port)
         /\ nfakes' = nfakes + 1
         /\ watching' = watching
    ELSE /\ watching' = FALSE
         /\ UNCHANGED <<fakes, nfakes>>

(* Fault: the packet is sent from the port of the proxy, as a NAT does. *)
PUdpPacketRewrites ==
    /\ ppc = "loop" /\ watching
    /\ pq # <<>> /\ Head(pq).data.kind = "ip"
    /\ LET p == Head(pq).data.ip
       IN  /\ out' = IF p.proto = "TCP" THEN out ELSE out \cup {[p EXCEPT !.src = Proxy]}
           /\ IF p.proto = "UDP" THEN FakeSocket(p.src[2]) ELSE UNCHANGED <<fakes, nfakes, watching>>
    /\ pq' = Tail(pq)
    /\ UNCHANGED <<nat, net, tunnel, ppc, ptries, connect, rport, client, rawq, asked, sent>>

(* A packet from the tunnel is sent as it is. *)
PUdpPacket ==
    /\ ppc = "loop" /\ watching
    /\ pq # <<>> /\ Head(pq).data.kind = "ip"
    /\ LET p == Head(pq).data.ip
       IN  /\ out' = IF p.proto = "TCP" THEN out ELSE out \cup {p}
           /\ IF p.proto = "UDP" THEN FakeSocket(p.src[2]) ELSE UNCHANGED <<fakes, nfakes, watching>>
    /\ pq' = Tail(pq)
    /\ UNCHANGED <<nat, net, tunnel, ppc, ptries, connect, rport, client, rawq, asked, sent>>

(* Some port number that is left in the buffer. *)
StalePort == 0

(* EXIT and OPEN! are shorter than an IP header; what is read behind their *)
(* end is what the buffer held before. strcmp() finds EXIT if that is a    *)
(* zero; if it looks like UDP a socket is opened. The kernel refuses to    *)
(* send such a packet.                                                     *)
PUdpShort ==
    /\ ppc = "loop" /\ watching
    /\ pq # <<>> /\ Head(pq).data.kind \in {"OPEN!", "EXIT"}
    /\ \/ UNCHANGED <<fakes, nfakes, watching>>
       \/ FakeSocket(StalePort)
    /\ pq' = Tail(pq)
    /\ UNCHANGED <<nat, net, tunnel, ppc, ptries, connect, rport, client, rawq, history>>

(* The sender of a packet is not looked at: a late answer of the STUN      *)
(* server is read as an IP packet. Its random transaction id stands where  *)
(* the protocol and the addresses are, and an attribute where the ports    *)
(* are.                                                                    *)
Misread(proto) == Packet(proto, <<"id", StalePort>>, <<"id", StalePort>>, Kind("stun"))

(* It is sent like a packet of a phone, unless the kernel has no route. *)
PUdpStun ==
    /\ ppc = "loop" /\ watching
    /\ pq # <<>> /\ Head(pq).data.kind = "stun"
    /\ \E proto \in {"UDP", "TCP", "ICMP"} :
          /\ out' = out \/ (proto # "TCP" /\ out' = out \cup {Misread(proto)})
          /\ IF proto = "UDP" THEN FakeSocket(StalePort) ELSE UNCHANGED <<fakes, nfakes, watching>>
    /\ pq' = Tail(pq)
    /\ UNCHANGED <<nat, net, tunnel, ppc, ptries, connect, rport, client, rawq, asked, sent>>

PExit ==
    /\ ppc = "loop" /\ watching
    /\ pq # <<>> /\ Head(pq).data.kind = "EXIT"
    /\ ppc' = "exited"
    /\ pq' = <<>>
    /\ rawq' = <<>>
    /\ UNCHANGED <<nat, net, tunnel, ptries, connect, rport, client, fakes, nfakes,
                   watching, history>>

-----------------------------------------------------------------------------
(* The network, the hosts and the STUN server. A packet is lost when it    *)
(* stays in net, as does one to a port without a socket. An answer of the  *)
(* server arrives when it is sent, as does a packet of a host: both may be *)
(* sent at any time.                                                       *)

TunnelGets(p) ==
    /\ tsock # 0 /\ External(tsock) = p.dst
    /\ tq' = Append(tq, p)
    /\ UNCHANGED <<tpc, ttries, mapped, found, tsock, remote, child>>

(* The contents of a STUN message do not matter to the raw socket. *)
Seen(p) == IF p.data.kind = "stun" THEN [p EXCEPT !.data = Kind("stun")] ELSE p

NodeGets(p) ==
    /\ ppc \notin {"none", "exited"}
    /\ rawq' = Append(rawq, Seen(p))
    /\ pq' = IF p.proto = "UDP" /\ p.dst = Proxy THEN Append(pq, p) ELSE pq
    /\ UNCHANGED <<ppc, ptries, connect, rport, client, fakes, nfakes, watching>>

Arrives(p) ==
    \/ p.dst[1] = "router" /\ TunnelGets(p) /\ UNCHANGED proxy
    \/ p.dst[1] = "node" /\ NodeGets(p) /\ UNCHANGED tunnel

Deliver(p) ==
    /\ net' = net \ {p}
    /\ Arrives(p)
    /\ UNCHANGED <<nat, history>>

StunAnswers(p) ==
    /\ p.dst = StunServer /\ p.data.kind = "request"
    /\ net' = net \ {p}
    /\ \E m \in Messages(p.src, StunServer) :
          Arrives(Packet("UDP", StunServer, p.src, [kind |-> "stun", msg |-> m]))
    /\ UNCHANGED <<nat, history>>

HostSends(p) ==
    /\ ppc = "loop"
    /\ Len(asked) + sent < MaxPackets
    /\ sent' = sent + 1
    /\ NodeGets(p)
    /\ UNCHANGED <<nat, net, tunnel, asked, out>>

-----------------------------------------------------------------------------

TunnelStep ==
    \/ TStunSend \/ TStunTimeout \/ TStunAnswer \/ TStunFails
    \/ TStartProxy \/ TSshFails \/ TOpen \/ TInitFails \/ TRun \/ TRunBindFails
    \/ ChildClear \/ ChildWrite \/ TExit
    \/ \E p \in FromPhone : tun_packet_received(p)

ProxyStep ==
    \/ PStunSend \/ PStunTimeout \/ PStunAnswer \/ PStunFails \/ PFirst
    \/ PRaw \/ PUdpPacket \/ PUdpShort \/ PUdpStun \/ PExit

Network ==
    \/ \E p \in net : Deliver(p) \/ StunAnswers(p)
    \/ \E p \in ToNode : HostSends(p)

Next == TunnelStep \/ ProxyStep \/ Network

Spec == Init /\ [][Next]_vars

-----------------------------------------------------------------------------

(* An address that STUN reported is the address packets of the socket have *)
(* in the network: other attributes, cut off messages and error responses  *)
(* give no address at all.                                                 *)
MappedRight ==
    /\ found /\ mapped # NoAddr => mapped = External(First)
    /\ connect \in {NoAddr, Proxy}

(* "automatic NAT traversal using STUN": while both ends run, packets of   *)
(* the proxy go to the socket of the tunnel, although that socket is not   *)
(* the one that STUN and OPEN! were sent from and any of these may be      *)
(* lost. This needs a NAT that keeps the port and the port to be free      *)
(* again, and a proxy that got its answer at the first request: the answer *)
(* to another one may be taken for the first packet of the tunnel.         *)
Connected ==
    /\ ppc = "loop" /\ ptries = 1 /\ connect # NoAddr
    /\ tpc = "run" /\ nat = "keeps" /\ tsock = First
    => client = External(tsock)

(* The proxy waits for a "connection from remote host": the client is the  *)
(* router, whose packets alone come through the tunnel.                    *)
ClientIsTunnel ==
    ppc = "loop" => client[1] = "router"

(* The STUN server may answer after the proxy has stopped to wait: there   *)
(* was a second request, or no address was found.                          *)
AnswerMayBeLate == ptries > 1 \/ connect = NoAddr

(* "transparent tunneling of packets": what leaves the node is what the    *)
(* phones have sent, unchanged and without TCP, and besides only late      *)
(* answers of the STUN server: none if the first request was answered with *)
(* an address.                                                             *)
Transparent ==
    \A p \in out :
        /\ p.proto # "TCP"
        /\ \/ \E k \in DOMAIN asked : asked[k] = p
           \/ p = Misread(p.proto) /\ AnswerMayBeLate

(* Packets of the tunnel itself, which the raw socket sees too, do not get *)
(* into the tunnel again as long as the tunnel sends from the port that    *)
(* STUN has found.                                                         *)
NoTunnelInTunnel ==
    mapped = External(First) =>
        \A p \in net : p.dst[1] = "router" /\ p.data.kind = "ip" => p.data.ip.src # mapped

(* "open and bind a UDP socket on the source port so the kernel doesn't    *)
(* send ICMP unreachable packets": the source port of every packet sent    *)
(* for the phones is taken, as long as there were descriptors.             *)
PortsTaken ==
    watching => \A p \in out : p.proto = "UDP" => p.src[2] \in fakes

(* The addresses that the two ends learn from STUN and from each other are *)
(* those at which they can be reached.                                     *)
AddressesRight == MappedRight /\ Connected

(* The raw socket and the sockets for the phones' ports keep apart what is *)
(* for the tunnel, for the phones and for the node.                        *)
SocketsRight == NoTunnelInTunnel /\ PortsTaken

-----------------------------------------------------------------------------
(* The inductive invariant.                                                *)

(* What stun_handle_packet() finds in a message of the server is the       *)
(* address that the message was sent to, or none.  The formula is closed:  *)
(* TLC evaluates it.                                                       *)
ASSUME StunAssumption ==
    \A a \in {<<"router", First>>, <<"router", First + 10>>, Proxy} :
        \A m \in Messages(a, StunServer) : stun_handle_packet(m) \in {a, NoAddr}

TypeOK ==
    /\ nat \in {"keeps", "adds"}
    /\ tpc \in {"stun", "stun_wait", "ssh", "connect", "init", "run", "exited"}
    /\ ppc \in {"none", "stun", "stun_wait", "wait", "loop", "exited"}
    /\ ttries \in Nat /\ ptries \in Nat /\ tsock \in Nat
    /\ found \in BOOLEAN /\ watching \in BOOLEAN
    /\ asked \in Seq(FromPhone)

(* The order of the two programs: the proxy is started after the STUN      *)
(* request of the tunnel, and the tunnel sends to it once it has told its  *)
(* address.                                                                *)
OrderInv ==
    /\ tpc \in {"stun", "stun_wait", "ssh"} => ppc = "none" /\ remote = NoAddr
    /\ tpc \in {"stun", "stun_wait", "ssh", "connect"} => tsock = First
    /\ tpc \in {"stun", "stun_wait"} => ~found
    /\ tpc \in {"init", "run"} => remote = Proxy
    /\ ppc = "none" => client = NoAddr
    /\ ppc # "none" => rport = mapped[2]
    /\ remote # NoAddr => connect = Proxy
    /\ ppc \in {"none", "stun", "stun_wait"} => connect = NoAddr
    /\ remote \in {NoAddr, Proxy}
    /\ mapped \in {NoAddr, <<"elsewhere", 9>>, External(First)}

(* Packets leave the node in the loop of the proxy only. *)
OutInv == out # {} => ppc \in {"loop", "exited"}

(* A packet that the tunnel sent; its source is that of the first socket,  *)
(* or that of the socket of the loop as long as the tunnel runs.           *)
Source(a) ==
    /\ a[1] = "router"
    /\ a = External(First) \/ (tpc = "run" /\ a = External(tsock)) \/ tpc = "exited"

FromTunnel(p) ==
    /\ p.proto = "UDP" /\ p.dst = Proxy /\ Source(p.src)
    /\ remote = Proxy
    /\ p.data.kind \in {"OPEN!", "EXIT", "ip"}
    /\ p.data.kind = "ip" =>
          p.data.ip.proto # "TCP" /\ \E k \in DOMAIN asked : asked[k] = p.data.ip

(* A packet that the proxy sent to its client. *)
FromProxy(p) ==
    /\ p.proto = "UDP" /\ p.src = Proxy /\ p.dst[1] # "node" /\ ppc # "none"
    /\ p.data.kind \in {"OPEN!", "ip"}
    /\ p.data.kind = "ip" /\ mapped = External(First) /\ p.dst[1] = "router" =>
          p.data.ip.src # mapped

Asks(p) ==
    \/ p = Request(External(First), p.data.n)
    \/ p = Request(Proxy, p.data.n) /\ p.data.n \in 0 .. ptries - 1

NetInv == \A p \in net : FromTunnel(p) \/ FromProxy(p) \/ Asks(p)

(* An answer of the STUN server. *)
Answer(p, a) ==
    /\ p.proto = "UDP" /\ p.src = StunServer /\ p.dst = a /\ p.data.kind = "stun"
    /\ p.data.msg \in Messages(a, StunServer)

TunnelQueueInv ==
    /\ tq \in Seq(Range(tq))
    /\ tpc \in {"stun", "stun_wait"} => \A p \in Range(tq) : Answer(p, External(First))

ProxyQueueInv ==
    /\ pq \in Seq(Range(pq))
    /\ \A p \in Range(pq) : Answer(p, Proxy) \/ FromTunnel(p)

RawQueueInv ==
    /\ rawq \in Seq(Range(rawq))
    /\ \A p \in Range(rawq) :
          \/ p.src = Host
          \/ p.src = StunServer
          \/ p.proto = "UDP" /\ p.src[1] = "router" /\ p.dst = Proxy

ClientInv ==
    /\ client[1] # "node"
    /\ ppc = "loop" => client = StunServer \/ Source(client)

(* After one request there is one answer at most. *)
OnceInv ==
    /\ ppc = "none" => ptries = 0 /\ pq = <<>>
    /\ ptries <= 1 =>
          /\ ppc \in {"stun", "stun_wait"} =>
                Len(pq) <= ptries /\ (pq # <<>> => Request(Proxy, 0) \notin net)
          /\ connect # NoAddr =>
                /\ Request(Proxy, 0) \notin net
                /\ \A p \in Range(pq) : ~Answer(p, Proxy)
                /\ ppc = "loop" => client # StunServer

TunnelInv ==
    /\ TypeOK /\ OrderInv /\ NetInv
    /\ TunnelQueueInv /\ ProxyQueueInv /\ RawQueueInv
    /\ ClientInv /\ OnceInv
    /\ MappedRight /\ OutInv /\ Transparent /\ PortsTaken

=============================================================================
