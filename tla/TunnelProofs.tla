---------------------------- MODULE TunnelProofs -----------------------------
(***************************************************************************)
(* The tunnel of measurement_proxy keeps AddressesRight, Transparent and   *)
(* SocketsRight for every number of STUN requests, descriptors and         *)
(* packets, however the network delays, reorders and loses packets.        *)
(*                                                                         *)
(* TunnelInv is the inductive invariant.  It says which packets are in the *)
(* network and in the buffers, by their sender.  That uses the order in    *)
(* which the two programs run, and that a socket of the tunnel has the     *)
(* port of the first one, or the port of the loop while that runs.         *)
(***************************************************************************)
EXTENDS Tunnel, TLAPS

(* Buffers of sockets: a packet that arrives is added to those before it. *)
LEMMA AppendQueue ==
    ASSUME NEW q, q \in Seq(Range(q)), NEW p
    PROVE  /\ Append(q, p) \in Seq(Range(Append(q, p)))
           /\ Len(q) \in Nat /\ Len(Append(q, p)) = Len(q) + 1
           /\ Range(Append(q, p)) = Range(q) \cup {p}
<1> DEFINE S == Range(q) \cup {p}
           r == Append(q, p)
<1>1. q \in Seq(S)
  OBVIOUS
<1>2. /\ r \in Seq(S) /\ Len(q) \in Nat /\ DOMAIN q = 1 .. Len(q)
      /\ Len(r) = Len(q) + 1
      /\ DOMAIN r = 1 .. Len(q) + 1
      /\ \A k \in 1 .. Len(q) : r[k] = q[k]
      /\ r[Len(q) + 1] = p
  BY <1>1
<1> HIDE DEF r
<1>3. r \in [1 .. Len(r) -> Range(r)] /\ Len(r) \in Nat
  BY <1>2 DEF Range
<1>4. r \in Seq(Range(r))
  BY <1>3
<1>5. Range(r) = Range(q) \cup {p}
  BY <1>2 DEF Range
<1> QED
  BY <1>2, <1>4, <1>5 DEF r

(* Taking the first packet leaves a buffer with packets it had before. *)
LEMMA TailQueue ==
    ASSUME NEW q, q \in Seq(Range(q)), q # <<>>
    PROVE  /\ Tail(q) \in Seq(Range(Tail(q)))
           /\ Len(q) \in Nat /\ Len(Tail(q)) = Len(q) - 1
           /\ Head(q) \in Range(q)
           /\ Range(Tail(q)) \subseteq Range(q)
<1> DEFINE r == Tail(q)
<1>1. /\ r \in Seq(Range(q)) /\ Len(q) \in Nat /\ DOMAIN q = 1 .. Len(q)
      /\ Len(r) = Len(q) - 1 /\ Len(q) > 0
      /\ Head(q) = q[1]
      /\ DOMAIN r = 1 .. Len(q) - 1
      /\ \A k \in 1 .. Len(q) - 1 : r[k] = q[k + 1]
  OBVIOUS
<1> HIDE DEF r
<1>2. r \in [1 .. Len(r) -> Range(r)] /\ Len(r) \in Nat
  BY <1>1 DEF Range
<1>3. r \in Seq(Range(r))
  BY <1>2
<1>4. Range(r) \subseteq Range(q) /\ Head(q) \in Range(q)
  BY <1>1 DEF Range
<1> QED
  BY <1>1, <1>3, <1>4 DEF r

(* A buffer without packets. *)
LEMMA EmptyQueue == <<>> \in Seq(Range(<<>>)) /\ Range(<<>>) = {} /\ Len(<<>>) = 0
  BY DEF Range

-----------------------------------------------------------------------------
(* Every step keeps the types.                                             *)
LEMMA TypeNext ==
    ASSUME TypeOK, OrderInv, MappedRight, Next
    PROVE  TypeOK'
<1> USE DEF TypeOK
<1>1. CASE TStunSend \/ TStunTimeout \/ TStunFails \/ TStartProxy \/ TSshFails
  BY <1>1 DEF TStunSend, TStunTimeout, TStunFails, TStartProxy, TSshFails, proxy, history
<1>2. CASE TStunAnswer
  BY <1>2 DEF TStunAnswer, proxy, history
<1>3. CASE TOpen \/ TInitFails \/ TRunBindFails \/ ChildClear \/ ChildWrite \/ TExit
  BY <1>3 DEF TOpen, TInitFails, TRunBindFails, ChildClear, ChildWrite, TExit, proxy, history, Free
<1>4. CASE TRun
  <2>1. mapped[2] \in Nat
    BY DEF OrderInv, NoAddr, External, First
  <2> QED
    BY <1>4, <2>1 DEF TRun, proxy, history, Free
<1>5. ASSUME NEW p \in FromPhone, tun_packet_received(p) PROVE TypeOK'
  BY <1>5 DEF tun_packet_received, tunnel, proxy
<1>6. CASE PStunSend \/ PStunTimeout \/ PStunAnswer \/ PStunFails \/ PFirst \/ PRaw \/ PExit
  BY <1>6 DEF PStunSend, PStunTimeout, PStunAnswer, PStunFails, PFirst, PRaw, PExit, tunnel, history
<1>7. CASE PUdpPacket \/ PUdpShort \/ PUdpStun
  BY <1>7, Zenon DEF PUdpPacket, PUdpShort, PUdpStun, FakeSocket, tunnel, history
<1>8. ASSUME NEW p, Arrives(p), UNCHANGED <<nat, history>> PROVE TypeOK'
  BY <1>8 DEF Arrives, TunnelGets, NodeGets, tunnel, proxy, history
<1>9. ASSUME NEW p \in ToNode, HostSends(p) PROVE TypeOK'
  BY <1>9 DEF HostSends, NodeGets, tunnel
<1>10. CASE Network
  BY <1>8, <1>9, <1>10, Zenon DEF Network, Deliver, StunAnswers
<1> QED
  BY <1>1, <1>2, <1>3, <1>4, <1>5, <1>6, <1>7, <1>10 DEF Next, TunnelStep, ProxyStep

-----------------------------------------------------------------------------
(* What no step does: main() of tunnel.c does not go back, so that an      *)
(* address from which the tunnel has sent stays one.                       *)
LEMMA SourceKept ==
    ASSUME TypeOK, OrderInv, Next, NEW a, Source(a)
    PROVE  Source(a)'
<1>1. /\ nat' = nat
      /\ tpc = "run" => (tpc' = "run" /\ tsock' = tsock) \/ tpc' = "exited"
      /\ tpc = "exited" => tpc' = "exited"
  <2>1. CASE TunnelStep
    BY <2>1 DEF TunnelStep, TStunSend, TStunTimeout, TStunAnswer, TStunFails, TStartProxy,
       TSshFails, TOpen, TInitFails, TRun, TRunBindFails, ChildClear, ChildWrite, TExit,
       tun_packet_received, tunnel
  <2>2. CASE ProxyStep
    BY <2>2 DEF ProxyStep, PStunSend, PStunTimeout, PStunAnswer, PStunFails, PFirst,
       PRaw, PUdpPacket, PUdpShort, PUdpStun, PExit, tunnel
  <2>3. CASE Network
    BY <2>3, Zenon DEF Network, Deliver, StunAnswers, HostSends, Arrives, TunnelGets, NodeGets, tunnel
  <2> QED
    BY <2>1, <2>2, <2>3 DEF Next
<1> QED
  BY <1>1 DEF Source, External, TypeOK

(* The NAT, the addresses that main() has fixed and the packets of the     *)
(* phones stay.                                                            *)
LEMMA ProgressKept ==
    ASSUME TypeOK, OrderInv, MappedRight, Next
    PROVE  /\ nat' = nat
           /\ remote = Proxy => remote' = Proxy
           /\ ppc # "none" => ppc' # "none" /\ mapped' = mapped
           /\ ptries' \in Nat /\ ptries' >= ptries
           /\ \A k \in DOMAIN asked : k \in DOMAIN asked' /\ asked'[k] = asked[k]
<1> USE DEF TypeOK
<1>1. CASE TStunSend \/ TStunTimeout \/ TStunAnswer \/ TStunFails
  BY <1>1 DEF TStunSend, TStunTimeout, TStunAnswer, TStunFails, proxy, history, OrderInv
<1>2. CASE TStartProxy \/ TSshFails
  BY <1>2 DEF TStartProxy, TSshFails, proxy, history, OrderInv
<1>7. CASE TOpen
  BY <1>7 DEF TOpen, proxy, history, MappedRight
<1>8. CASE TInitFails \/ TRun \/ TRunBindFails \/ ChildClear \/ ChildWrite \/ TExit
  BY <1>8 DEF TInitFails, TRun, TRunBindFails, ChildClear, ChildWrite, TExit, proxy, history
<1>3. ASSUME NEW p \in FromPhone, tun_packet_received(p)
      PROVE  \A k \in DOMAIN asked : k \in DOMAIN asked' /\ asked'[k] = asked[k]
  BY <1>3 DEF tun_packet_received
<1>4. ASSUME NEW p \in FromPhone, tun_packet_received(p)
      PROVE  UNCHANGED <<nat, remote, ppc, mapped, ptries>>
  BY <1>4 DEF tun_packet_received, tunnel, proxy
<1>5. CASE ProxyStep
  <2>1. /\ UNCHANGED <<nat, remote, mapped, asked>>
        /\ ppc # "none" /\ ppc' # "none"
        /\ ptries' \in {ptries, ptries + 1}
    BY <1>5 DEF ProxyStep, PStunSend, PStunTimeout, PStunAnswer, PStunFails, PFirst,
       PRaw, PUdpPacket, PUdpShort, PUdpStun, PExit, tunnel, history
  <2> QED
    BY <2>1
<1>6. CASE Network
  <2>1. UNCHANGED <<nat, remote, mapped, asked, ppc, ptries>>
    BY <1>6, Zenon DEF Network, Deliver, StunAnswers, HostSends, Arrives, TunnelGets, NodeGets,
       tunnel, proxy, history
  <2> QED
    BY <2>1
<1> QED
  BY <1>1, <1>2, <1>3, <1>4, <1>5, <1>6, <1>7, <1>8 DEF Next, TunnelStep

(* A packet keeps its sender. *)
LEMMA PacketKept ==
    ASSUME TypeOK, OrderInv, MappedRight, Next, NEW p
    PROVE  /\ FromTunnel(p) => FromTunnel(p)'
           /\ FromProxy(p) => FromProxy(p)'
           /\ Asks(p) => Asks(p)'
           /\ \A a : Answer(p, a) => Answer(p, a)'
<1>1. FromTunnel(p) => FromTunnel(p)'
  <2> SUFFICES ASSUME FromTunnel(p) PROVE FromTunnel(p)'
    OBVIOUS
  <2>1. Source(p.src)'
    BY SourceKept DEF FromTunnel
  <2>2. p.data.kind = "ip" =>
          p.data.ip.proto # "TCP" /\ \E k \in DOMAIN asked' : asked'[k] = p.data.ip
    BY ProgressKept DEF FromTunnel
  <2>3. remote' = Proxy
    BY ProgressKept DEF FromTunnel
  <2> QED
    BY <2>1, <2>2, <2>3 DEF FromTunnel
<1>2. FromProxy(p) => FromProxy(p)'
  BY ProgressKept DEF FromProxy, External
<1>3. Asks(p) => Asks(p)'
  <2>1. nat' = nat /\ ptries' \in Nat /\ ptries' >= ptries /\ ptries \in Nat
    BY ProgressKept DEF TypeOK
  <2> QED
    BY <2>1 DEF Asks, Request, External
<1>4. \A a : Answer(p, a) => Answer(p, a)'
  BY DEF Answer
<1> QED
  BY <1>1, <1>2, <1>3, <1>4

-----------------------------------------------------------------------------
(* The packets in the network. *)
LEMMA NetNext ==
    ASSUME TypeOK, OrderInv, MappedRight, NetInv, RawQueueInv, ClientInv, Next
    PROVE  NetInv'
<1> DEFINE Known(p) == FromTunnel(p) \/ FromProxy(p) \/ Asks(p)
<1>1. ASSUME net' \subseteq net PROVE NetInv'
  BY <1>1, PacketKept DEF NetInv
<1>2. ASSUME NEW p, net' = net \cup {p}, Known(p)' PROVE NetInv'
  BY <1>2, PacketKept DEF NetInv
<1>3. CASE TStunSend
  <2> PICK p : p = Request(External(First), ttries)
    OBVIOUS
  <2>1. net' = net \cup {p} /\ nat' = nat
    BY <1>3 DEF TStunSend, OrderInv
  <2>2. Asks(p)'
    BY <2>1 DEF Asks, Request, Packet, External
  <2> QED
    BY <1>2, <2>1, <2>2
<1>4. CASE TOpen
  <2> PICK p : p = Packet("UDP", External(First), Proxy, Kind("OPEN!"))
    OBVIOUS
  <2>1. net' = net \cup {p} /\ nat' = nat /\ remote' = Proxy
    BY <1>4 DEF TOpen, OrderInv, MappedRight
  <2>2. Source(p.src)'
    BY <2>1 DEF Source, External, Packet
  <2>3. p.proto = "UDP" /\ p.dst = Proxy /\ p.src = External(First) /\ p.data.kind = "OPEN!"
    BY DEF Packet, Kind
  <2>4. FromTunnel(p)'
    BY <2>1, <2>2, <2>3 DEF FromTunnel
  <2> QED
    BY <1>2, <2>1, <2>4
<1>5. CASE TExit
  <2> PICK p : p = Packet("UDP", External(tsock), Proxy, Kind("EXIT"))
    OBVIOUS
  <2>1. net' = net \cup {p} /\ nat' = nat /\ remote' = Proxy /\ tpc' = "exited"
    BY <1>5 DEF TExit, OrderInv
  <2>2. Source(p.src)'
    BY <2>1 DEF Source, External, Packet
  <2>3. p.proto = "UDP" /\ p.dst = Proxy /\ p.src = External(tsock) /\ p.data.kind = "EXIT"
    BY DEF Packet, Kind
  <2>4. FromTunnel(p)'
    BY <2>1, <2>2, <2>3 DEF FromTunnel
  <2> QED
    BY <1>2, <2>1, <2>4
<1>6. ASSUME NEW ip \in FromPhone, tun_packet_received(ip) PROVE NetInv'
  <2> PICK p : p = Packet("UDP", External(tsock), Proxy, Carried(ip, Len(asked)))
    OBVIOUS
  <2>1. /\ nat' = nat /\ remote' = Proxy /\ tpc' = "run" /\ tsock' = tsock
        /\ (ip.proto # "TCP" /\ net' = net \cup {p}) \/ net' = net
    BY <1>6 DEF tun_packet_received, OrderInv, tunnel
  <2>2. Source(p.src)'
    BY <2>1 DEF Source, External, Packet
  <2>3. /\ p.proto = "UDP" /\ p.dst = Proxy /\ p.src = External(tsock)
        /\ p.data.kind = "ip" /\ p.data.ip = ip
    BY DEF Packet, Carried
  <2>4. \E k \in DOMAIN asked' : asked'[k] = ip
    <3>1. asked' = Append(asked, ip) /\ asked \in Seq(FromPhone)
      BY <1>6 DEF tun_packet_received, TypeOK
    <3>2. Len(asked) + 1 \in DOMAIN asked' /\ asked'[Len(asked) + 1] = ip
      BY <3>1
    <3> QED
      BY <3>2
  <2>5. ip.proto # "TCP" => FromTunnel(p)'
    BY <2>1, <2>2, <2>3, <2>4 DEF FromTunnel
  <2> QED
    BY <1>1, <1>2, <2>1, <2>5
<1>7. CASE PStunSend
  <2> PICK p : p = Request(Proxy, ptries)
    OBVIOUS
  <2>1. net' = net \cup {p} /\ ptries' = ptries + 1 /\ ptries \in Nat
    BY <1>7 DEF PStunSend, TypeOK
  <2>2. p.data.n = ptries
    BY DEF Request, Packet
  <2>3. Asks(p)'
    BY <2>1, <2>2 DEF Asks
  <2> QED
    BY <1>2, <2>1, <2>3
<1>8. CASE PStunAnswer \/ PStunFails
  <2> PICK p : p = Open
    OBVIOUS
  <2>1. net' = net \cup {p} /\ ppc' = "wait"
    BY <1>8 DEF PStunAnswer, PStunFails
  <2>2. /\ p.proto = "UDP" /\ p.src = Proxy /\ p.dst = client
        /\ p.data.kind = "OPEN!"
    BY DEF Open, Packet, Kind
  <2>3. FromProxy(p)'
    BY <2>1, <2>2 DEF FromProxy, ClientInv
  <2> QED
    BY <1>2, <2>1, <2>3
<1>9. CASE PRaw
  <2> PICK ip : ip = Head(rawq)
    OBVIOUS
  <2> PICK p : p = Packet("UDP", Proxy, client, Carried(ip, 0))
    OBVIOUS
  <2>1. /\ net' = net \/ (net' = net \cup {p} /\ ~(ip.proto = "UDP" /\ OwnTunnel(ip)))
        /\ ppc' = "loop" /\ ppc = "loop" /\ mapped' = mapped /\ nat' = nat
    BY <1>9 DEF PRaw, tunnel
  <2>2. /\ p.proto = "UDP" /\ p.src = Proxy /\ p.dst = client
        /\ p.data.kind = "ip" /\ p.data.ip = ip
    BY DEF Packet, Carried
  <2>3. \/ ip.src = Host
        \/ ip.src = StunServer
        \/ ip.proto = "UDP" /\ ip.src[1] = "router" /\ ip.dst = Proxy
    <3>1. Head(rawq) \in Range(rawq)
      BY <1>9, TailQueue DEF PRaw, RawQueueInv
    <3> QED
      BY <3>1 DEF RawQueueInv
  <2>4. ASSUME mapped = External(First), client[1] = "router",
               ~(ip.proto = "UDP" /\ OwnTunnel(ip))
        PROVE  ip.src # mapped
    <3>1. rport = mapped[2]
      BY <2>1 DEF OrderInv
    <3> SUFFICES ASSUME ip.src = mapped PROVE FALSE
      OBVIOUS
    <3>2. ip.src # Host /\ ip.src # StunServer
      BY <2>4 DEF External, Host, StunServer
    <3>3. OwnTunnel(ip)
      BY <2>3, <2>4, <3>1, <3>2 DEF OwnTunnel
    <3> QED
      BY <2>3, <2>4, <3>2, <3>3
  <2>5. ~(ip.proto = "UDP" /\ OwnTunnel(ip)) => FromProxy(p)'
    BY <2>1, <2>2, <2>4 DEF FromProxy, ClientInv, External
  <2> QED
    BY <1>1, <1>2, <2>1, <2>5
<1>10. CASE \/ TStunTimeout \/ TStunAnswer \/ TStunFails \/ TStartProxy \/ TSshFails
            \/ TInitFails \/ TRun \/ TRunBindFails \/ ChildClear \/ ChildWrite
  BY <1>1, <1>10 DEF TStunTimeout, TStunAnswer, TStunFails, TStartProxy, TSshFails,
     TInitFails, TRun, TRunBindFails, ChildClear, ChildWrite
<1>11. CASE PStunTimeout \/ PFirst \/ PUdpPacket \/ PUdpShort \/ PUdpStun \/ PExit
  BY <1>1, <1>11, Zenon DEF PStunTimeout, PFirst, PUdpPacket, PUdpShort, PUdpStun, PExit
<1>12. CASE Network
  BY <1>1, <1>12, Zenon DEF Network, Deliver, StunAnswers, HostSends
<1> QED
  BY <1>3, <1>4, <1>5, <1>6, <1>7, <1>8, <1>9, <1>10, <1>11, <1>12
  DEF Next, TunnelStep, ProxyStep

-----------------------------------------------------------------------------
(* The addresses found by STUN. *)
LEMMA MappedNext ==
    ASSUME TypeOK, OrderInv, MappedRight, TunnelQueueInv, ProxyQueueInv, Next
    PROVE  MappedRight' /\ mapped' \in {NoAddr, <<"elsewhere", 9>>, External(First)}
<1>1. NoAddr # Proxy
  BY DEF NoAddr, Proxy
<1>2. External(First) \in {<<"router", First>>, <<"router", First + 10>>}
  BY DEF External
<1>3. ASSUME UNCHANGED <<nat, mapped, found, connect>>
      PROVE  MappedRight' /\ mapped' \in {NoAddr, <<"elsewhere", 9>>, External(First)}
  BY <1>3 DEF MappedRight, External, OrderInv
<1>4. CASE TStunAnswer
  <2>1. Head(tq) \in Range(tq)
    BY <1>4, TailQueue DEF TStunAnswer, TunnelQueueInv
  <2>2. Answer(Head(tq), External(First))
    BY <1>4, <2>1 DEF TStunAnswer, TunnelQueueInv
  <2>3. mapped' \in {External(First), NoAddr}
    BY <1>2, <1>4, <2>1, <2>2, StunAssumption DEF TStunAnswer, Answer
  <2>4. nat' = nat /\ connect' = connect
    BY <1>4 DEF TStunAnswer, proxy
  <2> QED
    BY <2>3, <2>4 DEF MappedRight, External
<1>5. CASE TStunFails
  BY <1>5 DEF TStunFails, MappedRight, OrderInv, External, proxy
<1>6. CASE PStunAnswer
  <2>1. Head(pq) \in Range(pq)
    BY <1>6, TailQueue DEF PStunAnswer, ProxyQueueInv
  <2>2. Answer(Head(pq), Proxy)
    BY <1>1, <1>6, <2>1 DEF PStunAnswer, ProxyQueueInv, FromTunnel, OrderInv
  <2>3. connect' \in {Proxy, NoAddr}
    BY <1>6, <2>1, <2>2, StunAssumption DEF PStunAnswer, Answer
  <2>4. UNCHANGED <<nat, mapped, found>>
    BY <1>6 DEF PStunAnswer, tunnel
  <2> QED
    BY <2>3, <2>4 DEF MappedRight, External, OrderInv
<1>7. CASE TStunSend \/ TStunTimeout \/ TStartProxy \/ TSshFails \/ TOpen \/ TInitFails
  BY <1>3, <1>7 DEF TStunSend, TStunTimeout, TStartProxy, TSshFails, TOpen, TInitFails, proxy
<1>8. CASE TRun \/ TRunBindFails \/ ChildClear \/ ChildWrite \/ TExit
  BY <1>3, <1>8, Zenon DEF TRun, TRunBindFails, ChildClear, ChildWrite, TExit, proxy
<1>9. ASSUME NEW p \in FromPhone, tun_packet_received(p) PROVE UNCHANGED <<nat, mapped, found, connect>>
  BY <1>9 DEF tun_packet_received, tunnel, proxy
<1>10. CASE PStunSend \/ PStunTimeout \/ PStunFails \/ PFirst
  BY <1>3, <1>10 DEF PStunSend, PStunTimeout, PStunFails, PFirst, tunnel
<1>11. CASE PRaw \/ PUdpPacket \/ PUdpShort \/ PUdpStun \/ PExit
  BY <1>3, <1>11 DEF PRaw, PUdpPacket, PUdpShort, PUdpStun, PExit, tunnel
<1>12. CASE Network
  BY <1>3, <1>12, Zenon DEF Network, Deliver, StunAnswers, HostSends, Arrives, TunnelGets, NodeGets,
     tunnel, proxy
<1> QED
  BY <1>3, <1>4, <1>5, <1>6, <1>7, <1>8, <1>9, <1>10, <1>11, <1>12
  DEF Next, TunnelStep, ProxyStep

(* The order of the two programs. *)
LEMMA OrderNext ==
    ASSUME TypeOK, OrderInv, MappedRight, TunnelQueueInv, ProxyQueueInv, Next
    PROVE  OrderInv'
<1>0. mapped' \in {NoAddr, <<"elsewhere", 9>>, External(First)'} /\ MappedRight'
  <2>1. External(First)' = External(First)
    BY ProgressKept DEF External
  <2> QED
    BY <2>1, MappedNext
<1>1. NoAddr # Proxy
  BY DEF NoAddr, Proxy
<1> USE DEF TypeOK, OrderInv
<1>2. CASE TStunSend \/ TStunTimeout
  BY <1>0, <1>2 DEF TStunSend, TStunTimeout, proxy
<1>3. CASE TStunAnswer \/ TStunFails
  BY <1>0, <1>3 DEF TStunAnswer, TStunFails, proxy
<1>4. CASE TStartProxy
  BY <1>0, <1>1, <1>4 DEF TStartProxy
<1>5. CASE TSshFails \/ TInitFails
  BY <1>0, <1>5 DEF TSshFails, TInitFails, proxy
<1>6. CASE TOpen
  BY <1>0, <1>1, <1>6 DEF TOpen, proxy, MappedRight
<1>7. CASE TRun \/ TRunBindFails
  BY <1>0, <1>7 DEF TRun, TRunBindFails, proxy
<1>8. CASE ChildClear \/ ChildWrite \/ TExit
  BY <1>0, <1>8 DEF ChildClear, ChildWrite, TExit, proxy
<1>9. ASSUME NEW p \in FromPhone, tun_packet_received(p) PROVE OrderInv'
  BY <1>0, <1>9 DEF tun_packet_received, tunnel, proxy
<1>10. CASE PStunSend \/ PStunTimeout
  BY <1>0, <1>10 DEF PStunSend, PStunTimeout, tunnel
<1>11. CASE PStunAnswer \/ PStunFails
  BY <1>0, <1>1, <1>11 DEF PStunAnswer, PStunFails, tunnel
<1>12. CASE PFirst \/ PRaw \/ PExit
  BY <1>0, <1>12 DEF PFirst, PRaw, PExit, tunnel
<1>13. CASE PUdpPacket \/ PUdpShort \/ PUdpStun
  BY <1>0, <1>13 DEF PUdpPacket, PUdpShort, PUdpStun, tunnel
<1>14. CASE Network
  <2>1. UNCHANGED <<tpc, ppc, remote, tsock, found, client, rport, mapped, connect>>
    BY <1>14, Zenon DEF Network, Deliver, StunAnswers, HostSends, Arrives, TunnelGets, NodeGets,
       tunnel, proxy
  <2> QED
    BY <1>0, <2>1
<1> QED
  BY <1>2, <1>3, <1>4, <1>5, <1>6, <1>7, <1>8, <1>9, <1>10, <1>11, <1>12, <1>13, <1>14, Zenon
  DEF Next, TunnelStep, ProxyStep

-----------------------------------------------------------------------------
(* What may arrive, from the network or from the STUN server. *)
Seems(p) ==
    /\ p.dst[1] = "router" /\ tpc \in {"stun", "stun_wait"} => Answer(p, External(First))
    /\ p.dst[1] = "node" => Answer(p, Proxy) \/ FromTunnel(p)
    /\ p.dst[1] = "node" =>
          \/ Seen(p).src = StunServer
          \/ Seen(p).proto = "UDP" /\ Seen(p).src[1] = "router" /\ Seen(p).dst = Proxy

(* The hosts of the addresses. *)
LEMMA Addresses ==
    /\ StunServer[1] = "stun" /\ Proxy[1] = "node" /\ Host[1] = "host"
    /\ External(First)[1] = "router"
  BY DEF StunServer, Proxy, Host, External

(* A packet on the way that arrives. *)
LEMMA DeliveredKnown ==
    ASSUME TypeOK, OrderInv, NetInv, NEW p \in net
    PROVE  Seems(p)
<1>1. CASE FromTunnel(p)
  <2>1. Seen(p) = p
    BY <1>1 DEF FromTunnel, Seen
  <2> QED
    BY <1>1, <2>1, Addresses DEF FromTunnel, Seems, Source
<1>2. CASE FromProxy(p)
  BY <1>2 DEF FromProxy, Seems, OrderInv
<1>3. CASE Asks(p)
  <2>1. p.dst = StunServer
    BY <1>3 DEF Asks, Request, Packet
  <2> QED
    BY <2>1, Addresses DEF Seems
<1> QED
  BY <1>1, <1>2, <1>3 DEF NetInv

(* The answer to a STUN request goes to the end that sent the request. *)
LEMMA AnswerKnown ==
    ASSUME TypeOK, OrderInv, NetInv, NEW r \in net, r.data.kind = "request",
           NEW m \in Messages(r.src, StunServer),
           NEW p, p = Packet("UDP", StunServer, r.src, [kind |-> "stun", msg |-> m])
    PROVE  /\ Seems(p) /\ Asks(r)
           /\ p.src = StunServer /\ p.dst = r.src /\ p.data.kind = "stun"
<1>1. Asks(r)
  BY DEF NetInv, FromTunnel, FromProxy
<1>2. r.src \in {External(First), Proxy}
  BY <1>1 DEF Asks, Request, Packet
<1>3. /\ p.proto = "UDP" /\ p.src = StunServer /\ p.dst = r.src
      /\ p.data.kind = "stun" /\ p.data.msg = m
  BY DEF Packet
<1>4. Answer(p, r.src)
  BY <1>3 DEF Answer
<1>5. Seen(p).src = StunServer
  BY <1>3 DEF Seen, Packet
<1> QED
  BY <1>1, <1>2, <1>3, <1>4, <1>5, Addresses, Zenon DEF Seems

(* A step of the network: nothing arrives but packets that are known. *)
LEMMA NetworkKnown ==
    ASSUME TypeOK, OrderInv, NetInv, Network
    PROVE  \/ \E p : Seems(p) /\ Arrives(p)
           \/ \E p \in ToNode : HostSends(p)
<1>1. ASSUME NEW p \in net, Deliver(p) PROVE \E q : Seems(q) /\ Arrives(q)
  BY <1>1, DeliveredKnown DEF Deliver
<1>2. ASSUME NEW r \in net, StunAnswers(r) PROVE \E q : Seems(q) /\ Arrives(q)
  <2>1. PICK m \in Messages(r.src, StunServer) :
           Arrives(Packet("UDP", StunServer, r.src, [kind |-> "stun", msg |-> m]))
    BY <1>2 DEF StunAnswers
  <2>2. r.data.kind = "request"
    BY <1>2 DEF StunAnswers
  <2> QED
    BY <2>1, <2>2, AnswerKnown
<1> QED
  BY <1>1, <1>2 DEF Network

(* The buffer of the socket of tunnel.c: before it starts the proxy there  *)
(* is nothing but answers of the STUN server.                              *)
LEMMA TunnelQueueNext ==
    ASSUME TypeOK, OrderInv, NetInv, TunnelQueueInv, Next
    PROVE  TunnelQueueInv'
<1>0. /\ tpc' \in {"stun", "stun_wait"} => tpc \in {"stun", "stun_wait"}
      /\ External(First)' = External(First)
  <2>1. nat' = nat /\ (tpc' = tpc \/ tpc = "stun" \/ tpc = "stun_wait" \/ tpc' \notin {"stun", "stun_wait"})
    <3>1. CASE TunnelStep
      BY <3>1, Zenon DEF TunnelStep, TStunSend, TStunTimeout, TStunAnswer, TStunFails, TStartProxy,
         TSshFails, TOpen, TInitFails, TRun, TRunBindFails, ChildClear, ChildWrite, TExit,
         tun_packet_received, tunnel
    <3>2. CASE ProxyStep
      BY <3>2, Zenon DEF ProxyStep, PStunSend, PStunTimeout, PStunAnswer, PStunFails, PFirst,
         PRaw, PUdpPacket, PUdpShort, PUdpStun, PExit, tunnel
    <3>3. CASE Network
      BY <3>3, Zenon DEF Network, Deliver, StunAnswers, HostSends, Arrives, TunnelGets, NodeGets, tunnel
    <3> QED
      BY <3>1, <3>2, <3>3 DEF Next
  <2> QED
    BY <2>1 DEF External
<1>1. ASSUME tq' = tq PROVE TunnelQueueInv'
  BY <1>0, <1>1 DEF TunnelQueueInv, Answer
<1>2. ASSUME tq' = <<>> PROVE TunnelQueueInv'
  BY <1>2, EmptyQueue DEF TunnelQueueInv
<1>3. ASSUME tq # <<>>, tq' = Tail(tq) PROVE TunnelQueueInv'
  <2>1. tq' \in Seq(Range(tq')) /\ Range(tq') \subseteq Range(tq)
    BY <1>3, TailQueue DEF TunnelQueueInv
  <2> QED
    BY <1>0, <2>1 DEF TunnelQueueInv, Answer
<1>4. ASSUME NEW p, Seems(p), Arrives(p) PROVE TunnelQueueInv'
  <2>1. CASE p.dst[1] = "router" /\ TunnelGets(p)
    <3>1. tq' \in Seq(Range(tq')) /\ Range(tq') = Range(tq) \cup {p} /\ tpc' = tpc
      BY <2>1, AppendQueue DEF TunnelGets, TunnelQueueInv
    <3>2. tpc \in {"stun", "stun_wait"} => Answer(p, External(First))
      BY <1>4, <2>1 DEF Seems
    <3> QED
      BY <1>0, <3>1, <3>2 DEF TunnelQueueInv, Answer
  <2>2. CASE UNCHANGED tunnel
    BY <1>1, <2>2 DEF tunnel
  <2> QED
    BY <1>4, <2>1, <2>2 DEF Arrives
<1>5. CASE TStunSend \/ TStunTimeout \/ TStunFails \/ TStartProxy \/ TInitFails
  BY <1>1, <1>5 DEF TStunSend, TStunTimeout, TStunFails, TStartProxy, TInitFails
<1>6. CASE TRun \/ TRunBindFails
  BY <1>1, <1>6 DEF TRun, TRunBindFails
<1>7. CASE TSshFails \/ TOpen \/ TExit
  BY <1>2, <1>7 DEF TSshFails, TOpen, TExit
<1>8. CASE TStunAnswer \/ ChildClear \/ ChildWrite
  BY <1>3, <1>8 DEF TStunAnswer, ChildClear, ChildWrite
<1>9. ASSUME NEW p \in FromPhone, tun_packet_received(p) PROVE tq' = tq
  BY <1>9 DEF tun_packet_received, tunnel
<1>10. CASE ProxyStep
  BY <1>1, <1>10, Zenon DEF ProxyStep, PStunSend, PStunTimeout, PStunAnswer, PStunFails, PFirst,
     PRaw, PUdpPacket, PUdpShort, PUdpStun, PExit, tunnel
<1>11. ASSUME NEW p \in ToNode, HostSends(p) PROVE tq' = tq
  BY <1>11 DEF HostSends, tunnel
<1>12. CASE Network
  BY <1>1, <1>4, <1>11, <1>12, NetworkKnown
<1> QED
  BY <1>1, <1>5, <1>6, <1>7, <1>8, <1>9, <1>10, <1>12 DEF Next, TunnelStep

(* The buffer of the UDP socket of proxy.c. *)
LEMMA ProxyQueueNext ==
    ASSUME TypeOK, OrderInv, MappedRight, NetInv, ProxyQueueInv, Next
    PROVE  ProxyQueueInv'
<1>0. ASSUME NEW p, Answer(p, Proxy) \/ FromTunnel(p) PROVE (Answer(p, Proxy) \/ FromTunnel(p))'
  BY <1>0, PacketKept
<1>1. ASSUME pq' = pq PROVE ProxyQueueInv'
  <2>1. Range(pq') = Range(pq)
    BY <1>1
  <2> QED
    BY <1>0, <1>1, <2>1 DEF ProxyQueueInv
<1>2. ASSUME pq' = <<>> PROVE ProxyQueueInv'
  BY <1>2, EmptyQueue DEF ProxyQueueInv
<1>3. ASSUME pq # <<>>, pq' = Tail(pq) PROVE ProxyQueueInv'
  <2>1. pq' \in Seq(Range(pq')) /\ Range(pq') \subseteq Range(pq)
    BY <1>3, TailQueue DEF ProxyQueueInv
  <2> QED
    BY <1>0, <2>1 DEF ProxyQueueInv
<1>4. ASSUME NEW p, Seems(p), Arrives(p) PROVE ProxyQueueInv'
  <2>1. CASE p.dst[1] = "node" /\ pq' = Append(pq, p)
    <3>1. pq' \in Seq(Range(pq')) /\ Range(pq') = Range(pq) \cup {p}
      BY <2>1, AppendQueue DEF ProxyQueueInv
    <3>2. Answer(p, Proxy) \/ FromTunnel(p)
      BY <1>4, <2>1, Zenon DEF Seems
    <3> QED
      BY <1>0, <3>1, <3>2 DEF ProxyQueueInv
  <2>2. CASE pq' = pq
    BY <1>1, <2>2
  <2> QED
    BY <1>4, <2>1, <2>2 DEF Arrives, NodeGets, proxy
<1>5. CASE TunnelStep
  BY <1>1, <1>5, Zenon DEF TunnelStep, TStunSend, TStunTimeout, TStunAnswer, TStunFails, TStartProxy,
     TSshFails, TOpen, TInitFails, TRun, TRunBindFails, ChildClear, ChildWrite, TExit,
     tun_packet_received, proxy
<1>6. CASE PStunSend \/ PStunTimeout \/ PStunFails \/ PRaw
  BY <1>1, <1>6 DEF PStunSend, PStunTimeout, PStunFails, PRaw
<1>7. CASE PStunAnswer \/ PFirst \/ PUdpPacket \/ PUdpShort \/ PUdpStun
  BY <1>3, <1>7 DEF PStunAnswer, PFirst, PUdpPacket, PUdpShort, PUdpStun
<1>8. CASE PExit
  BY <1>2, <1>8 DEF PExit
<1>9. ASSUME NEW p \in ToNode, HostSends(p) PROVE pq' = pq
  <2>1. p.dst # Proxy
    BY DEF ToNode, Packet, Proxy
  <2> QED
    BY <1>9, <2>1 DEF HostSends, NodeGets
<1>10. CASE Network
  BY <1>1, <1>4, <1>9, <1>10, NetworkKnown
<1> QED
  BY <1>5, <1>6, <1>7, <1>8, <1>10 DEF Next, ProxyStep

(* The buffer of the raw socket. *)
LEMMA RawQueueNext ==
    ASSUME TypeOK, OrderInv, NetInv, RawQueueInv, Next
    PROVE  RawQueueInv'
<1>1. ASSUME rawq' = rawq PROVE RawQueueInv'
  BY <1>1 DEF RawQueueInv
<1>2. ASSUME rawq' = <<>> PROVE RawQueueInv'
  BY <1>2, EmptyQueue DEF RawQueueInv
<1>3. ASSUME rawq # <<>>, rawq' = Tail(rawq) PROVE RawQueueInv'
  <2>1. rawq' \in Seq(Range(rawq')) /\ Range(rawq') \subseteq Range(rawq)
    BY <1>3, TailQueue DEF RawQueueInv
  <2> QED
    BY <2>1 DEF RawQueueInv
<1>4. ASSUME NEW p, rawq' = Append(rawq, p),
             \/ p.src = Host
             \/ p.src = StunServer
             \/ p.proto = "UDP" /\ p.src[1] = "router" /\ p.dst = Proxy
      PROVE  RawQueueInv'
  <2>1. rawq' \in Seq(Range(rawq')) /\ Range(rawq') = Range(rawq) \cup {p}
    BY <1>4, AppendQueue DEF RawQueueInv
  <2> QED
    BY <1>4, <2>1 DEF RawQueueInv
<1>5. ASSUME NEW p, Seems(p), Arrives(p) PROVE RawQueueInv'
  <2>1. CASE p.dst[1] = "node" /\ NodeGets(p)
    BY <1>4, <1>5, <2>1 DEF Seems, NodeGets
  <2>2. CASE UNCHANGED proxy
    BY <1>1, <2>2 DEF proxy
  <2> QED
    BY <1>5, <2>1, <2>2 DEF Arrives
<1>6. ASSUME NEW p \in ToNode, HostSends(p) PROVE RawQueueInv'
  <2>1. p.src = Host /\ Seen(p) = p
    BY DEF ToNode, Packet, Kind, Seen
  <2> QED
    BY <1>4, <1>6, <2>1 DEF HostSends, NodeGets
<1>7. CASE TunnelStep
  BY <1>1, <1>7, Zenon DEF TunnelStep, TStunSend, TStunTimeout, TStunAnswer, TStunFails, TStartProxy,
     TSshFails, TOpen, TInitFails, TRun, TRunBindFails, ChildClear, ChildWrite, TExit,
     tun_packet_received, proxy
<1>8. CASE PStunSend \/ PStunTimeout \/ PStunAnswer \/ PStunFails \/ PFirst \/ PUdpPacket \/ PUdpShort \/ PUdpStun
  BY <1>1, <1>8 DEF PStunSend, PStunTimeout, PStunAnswer, PStunFails, PFirst, PUdpPacket, PUdpShort, PUdpStun
<1>9. CASE PRaw
  BY <1>3, <1>9 DEF PRaw
<1>10. CASE PExit
  BY <1>2, <1>10 DEF PExit
<1>11. CASE Network
  BY <1>5, <1>6, <1>11, NetworkKnown
<1> QED
  BY <1>7, <1>8, <1>9, <1>10, <1>11 DEF Next, ProxyStep

-----------------------------------------------------------------------------
(* The address of the client. *)
LEMMA ClientNext ==
    ASSUME TypeOK, OrderInv, ProxyQueueInv, ClientInv, Next
    PROVE  ClientInv'
<1>1. ASSUME client' = client, ppc' = "loop" => ppc = "loop" PROVE ClientInv'
  <2> PICK a : a = client
    OBVIOUS
  <2>1. ppc' = "loop" => a = StunServer \/ Source(a)'
    BY <1>1, SourceKept DEF ClientInv
  <2> QED
    BY <1>1, <2>1 DEF ClientInv, Source, External
<1>2. CASE TStartProxy
  BY <1>2 DEF TStartProxy, ClientInv, OrderInv, NoAddr, External
<1>3. CASE PFirst
  <2> PICK a : a = Head(pq).src
    OBVIOUS
  <2>1. a = StunServer \/ Source(a)
    <3>1. Head(pq) \in Range(pq)
      BY <1>3, TailQueue DEF PFirst, ProxyQueueInv
    <3> QED
      BY <3>1 DEF ProxyQueueInv, Answer, FromTunnel
  <2>2. a = StunServer \/ Source(a)'
    BY <2>1, SourceKept
  <2>3. client' = a
    BY <1>3 DEF PFirst
  <2> QED
    BY <2>2, <2>3, Addresses DEF ClientInv, Source, External
<1>4. CASE \/ TStunSend \/ TStunTimeout \/ TStunAnswer \/ TStunFails
           \/ TSshFails \/ TOpen \/ TInitFails \/ TRun \/ TRunBindFails
           \/ ChildClear \/ ChildWrite \/ TExit
  BY <1>1, <1>4, Zenon DEF TStunSend, TStunTimeout, TStunAnswer, TStunFails,
     TSshFails, TOpen, TInitFails, TRun, TRunBindFails, ChildClear, ChildWrite, TExit, proxy
<1>5. ASSUME NEW p \in FromPhone, tun_packet_received(p) PROVE ClientInv'
  BY <1>1, <1>5 DEF tun_packet_received, proxy
<1>6. CASE \/ PStunSend \/ PStunTimeout \/ PStunAnswer \/ PStunFails
           \/ PRaw \/ PUdpPacket \/ PUdpShort \/ PUdpStun \/ PExit
  BY <1>1, <1>6, Zenon DEF PStunSend, PStunTimeout, PStunAnswer, PStunFails, PRaw, PUdpPacket,
     PUdpShort, PUdpStun, PExit
<1>7. CASE Network
  <2>1. client' = client /\ ppc' = ppc
    BY <1>7, Zenon DEF Network, Deliver, StunAnswers, HostSends, Arrives, NodeGets, proxy
  <2> QED
    BY <1>1, <2>1
<1> QED
  BY <1>2, <1>3, <1>4, <1>5, <1>6, <1>7 DEF Next, TunnelStep, ProxyStep

(* One request of the proxy, one answer. *)
LEMMA OnceNext ==
    ASSUME TypeOK, OrderInv, NetInv, ProxyQueueInv, OnceInv, Next
    PROVE  OnceInv'
<1> DEFINE R == Request(Proxy, 0)
<1>0. /\ R.data.kind = "request" /\ R.src = Proxy /\ R.dst = StunServer
      /\ NoAddr # Proxy
  BY DEF Request, Packet, NoAddr, Proxy
<1>1. ASSUME UNCHANGED <<ppc, ptries, pq, connect, client>>, R \in net' => R \in net
      PROVE  OnceInv'
  BY <1>1 DEF OnceInv, Answer
<1>2. CASE TStunSend
  <2>1. Request(External(First), ttries) # R
    <3>1. Request(External(First), ttries).src = External(First)
      BY DEF Request, Packet
    <3> QED
      BY <1>0, <3>1, Addresses
  <2> QED
    BY <1>1, <1>2, <2>1 DEF TStunSend, OrderInv, proxy
<1>3. ASSUME NEW src, NEW dst, NEW data, data.kind # "request"
      PROVE  Packet("UDP", src, dst, data) # R
  <2>1. Packet("UDP", src, dst, data).data = data
    BY DEF Packet
  <2> QED
    BY <1>0, <1>3, <2>1
<1> HIDE DEF R
<1>4. CASE TOpen \/ TExit
  BY <1>1, <1>3, <1>4 DEF TOpen, TExit, Kind, proxy
<1>5. ASSUME NEW p \in FromPhone, tun_packet_received(p) PROVE OnceInv'
  BY <1>1, <1>3, <1>5 DEF tun_packet_received, Carried, proxy
<1>6. CASE \/ TStunTimeout \/ TStunAnswer \/ TStunFails
           \/ TSshFails \/ TInitFails \/ TRun \/ TRunBindFails \/ ChildClear \/ ChildWrite
  BY <1>1, <1>6, Zenon DEF TStunTimeout, TStunAnswer, TStunFails, TSshFails, TInitFails, TRun,
     TRunBindFails, ChildClear, ChildWrite, proxy
<1>7. CASE TStartProxy
  <2>1. /\ ppc = "none" /\ ppc' \in {"stun", "exited"} /\ UNCHANGED <<ptries, connect, pq>>
        /\ connect = NoAddr
    BY <1>7 DEF TStartProxy, OrderInv
  <2>2. ptries = 0 /\ pq = <<>>
    BY <2>1 DEF OnceInv
  <2> QED
    BY <2>1, <2>2, EmptyQueue DEF OnceInv
<1>8. CASE PStunSend
  <2>1. /\ ptries' = ptries + 1 /\ ppc' = "stun_wait" /\ UNCHANGED <<pq, connect>>
        /\ ppc = "stun" /\ connect = NoAddr
    BY <1>8 DEF PStunSend, OrderInv
  <2>2. ptries' <= 1 => pq = <<>>
    BY <2>1 DEF OnceInv, TypeOK, ProxyQueueInv
  <2> QED
    BY <2>1, <2>2, EmptyQueue DEF OnceInv, TypeOK
<1>9. CASE PStunTimeout
  BY <1>9 DEF PStunTimeout, OnceInv, Answer
<1>10. CASE PStunAnswer
  <2>1. /\ ptries' = ptries /\ ppc' = "wait" /\ ppc = "stun_wait"
        /\ net' = net \cup {Open} /\ pq # <<>> /\ pq' = Tail(pq)
    BY <1>10 DEF PStunAnswer
  <2>2. Open # R
    BY <1>3 DEF Open, Kind
  <2>3. ptries <= 1 => Range(pq') = {}
    <3> SUFFICES ASSUME ptries <= 1 PROVE Range(pq') = {}
      OBVIOUS
    <3>1. Len(pq) <= 1 /\ Len(pq) \in Nat /\ Len(pq') = Len(pq) - 1 /\ pq' \in Seq(Range(pq'))
      BY <2>1, TailQueue DEF OnceInv, ProxyQueueInv, TypeOK
    <3> QED
      BY <3>1 DEF Range
  <2> QED
    BY <2>1, <2>2, <2>3 DEF OnceInv, R
<1>11. CASE PStunFails
  BY <1>11 DEF PStunFails, OnceInv, OrderInv
<1>12. CASE PFirst
  <2>1. /\ UNCHANGED <<ptries, net, connect>> /\ ppc' = "loop" /\ pq # <<>> /\ pq' = Tail(pq)
        /\ client' = Head(pq).src
    BY <1>12 DEF PFirst
  <2>2. Range(pq') \subseteq Range(pq) /\ Head(pq) \in Range(pq)
    BY <2>1, TailQueue DEF ProxyQueueInv
  <2>3. ~Answer(Head(pq), Proxy) => Head(pq).src # StunServer
    BY <2>2, Addresses DEF ProxyQueueInv, FromTunnel, Source
  <2> QED
    BY <2>1, <2>2, <2>3, Zenon DEF OnceInv, Answer
<1>13. CASE PRaw
  BY <1>1, <1>3, <1>13 DEF PRaw, Carried
<1>14. CASE PUdpPacket \/ PUdpShort \/ PUdpStun
  <2>1. /\ UNCHANGED <<ptries, net, connect, client, ppc>> /\ ppc = "loop"
        /\ pq # <<>> /\ pq' = Tail(pq)
    BY <1>14, Zenon DEF PUdpPacket, PUdpShort, PUdpStun
  <2>2. Range(pq') \subseteq Range(pq)
    BY <2>1, TailQueue DEF ProxyQueueInv
  <2> QED
    BY <2>1, <2>2 DEF OnceInv, Answer
<1>15. CASE PExit
  BY <1>15, EmptyQueue, Zenon DEF PExit, OnceInv
<1>16. ASSUME NEW p \in net, Deliver(p) PROVE OnceInv'
  <2>1. net' \subseteq net
    BY <1>16 DEF Deliver
  <2>2. CASE UNCHANGED proxy
    BY <1>1, <2>1, <2>2 DEF proxy
  <2>3. CASE p.dst[1] = "node" /\ NodeGets(p)
    <3>1. FromTunnel(p)
      BY <2>3, Addresses DEF NetInv, FromProxy, Asks, Request, Packet
    <3>2. connect = Proxy /\ ~Answer(p, Proxy)
      BY <1>0, <3>1, Addresses DEF FromTunnel, OrderInv, Answer, Source
    <3>3. ppc \notin {"none", "stun", "stun_wait"}
      BY <1>0, <3>2 DEF OrderInv
    <3>4. Range(pq') \subseteq Range(pq) \cup {p}
      BY <2>3, AppendQueue DEF NodeGets, ProxyQueueInv
    <3> QED
      BY <1>0, <2>1, <2>3, <3>2, <3>3, <3>4, Zenon DEF OnceInv, NodeGets, Answer
  <2> QED
    BY <1>16, <2>2, <2>3 DEF Deliver, Arrives
<1>17. ASSUME NEW r \in net, StunAnswers(r) PROVE OnceInv'
  <2>1. PICK m \in Messages(r.src, StunServer) :
           Arrives(Packet("UDP", StunServer, r.src, [kind |-> "stun", msg |-> m]))
    BY <1>17 DEF StunAnswers
  <2> PICK p : p = Packet("UDP", StunServer, r.src, [kind |-> "stun", msg |-> m])
    OBVIOUS
  <2>2. r.data.kind = "request" /\ net' = net \ {r}
    BY <1>17 DEF StunAnswers
  <2>3. Asks(r) /\ p.dst = r.src
    BY <2>2, AnswerKnown
  <2>4. CASE UNCHANGED proxy
    BY <1>1, <2>2, <2>4 DEF proxy
  <2>5. CASE p.dst[1] = "node" /\ NodeGets(p)
    <3>1. r = Request(Proxy, r.data.n) /\ r.data.n \in 0 .. ptries - 1
      BY <2>3, <2>5, Addresses DEF Asks, Request, Packet
    <3>2. UNCHANGED <<ppc, ptries, connect, client>> /\ pq' \in {pq, Append(pq, p)}
          /\ ppc # "none"
      BY <2>5 DEF NodeGets
    <3> SUFFICES ASSUME ptries <= 1
                 PROVE  /\ ppc \in {"stun", "stun_wait"} => Len(pq') <= ptries
                        /\ R \notin net' /\ connect = NoAddr
      BY <3>2 DEF OnceInv, R
    <3>3. r = R /\ ptries = 1
      BY <3>1 DEF TypeOK, R
    <3>4. R \notin net' /\ connect = NoAddr
      BY <2>2, <3>3 DEF OnceInv, R
    <3>5. ppc \in {"stun", "stun_wait"} => pq = <<>>
      BY <3>3 DEF OnceInv, R
    <3>6. ppc \in {"stun", "stun_wait"} => Len(pq') <= 1
      BY <3>2, <3>5, EmptyQueue, AppendQueue
    <3> QED
      BY <3>3, <3>4, <3>6
  <2> QED
    BY <2>1, <2>4, <2>5 DEF Arrives
<1>18. ASSUME NEW p \in ToNode, HostSends(p) PROVE OnceInv'
  <2>1. p.dst # Proxy
    BY DEF ToNode, Packet, Proxy
  <2> QED
    BY <1>1, <1>18, <2>1 DEF HostSends, NodeGets
<1> QED
  BY <1>2, <1>4, <1>5, <1>6, <1>7, <1>8, <1>9, <1>10, <1>11, <1>12, <1>13, <1>14, <1>15,
     <1>16, <1>17, <1>18 DEF Next, TunnelStep, ProxyStep, Network

(* The proxy does not change what STUN has told once it forwards packets.  *)
LEMMA OutKept ==
    ASSUME OrderInv, OutInv, Next
    PROVE  OutInv' /\ (out # {} => connect' = connect)
<1> USE DEF OutInv
<1>2. CASE TunnelStep
  <2>1. tpc = "ssh" => ppc = "none"
    BY DEF OrderInv
  <2>2. CASE TStartProxy
    BY <2>1, <2>2 DEF TStartProxy, history
  <2>3. CASE ~TStartProxy
    <3>1. UNCHANGED <<ppc, connect, out>>
      BY <1>2, <2>3, Zenon DEF TunnelStep, TStunSend, TStunTimeout, TStunAnswer, TStunFails,
         TSshFails, TOpen, TInitFails, TRun, TRunBindFails, ChildClear, ChildWrite, TExit,
         tun_packet_received, proxy, history
    <3> QED
      BY <3>1
  <2> QED
    BY <2>2, <2>3
<1>3. CASE ProxyStep
  BY <1>3 DEF ProxyStep, PStunSend, PStunTimeout, PStunAnswer, PStunFails, PFirst,
     PRaw, PUdpPacket, PUdpShort, PUdpStun, PExit, history
<1>4. CASE Network
  <2>1. UNCHANGED <<ppc, connect, out>>
    BY <1>4, Zenon DEF Network, Deliver, StunAnswers, HostSends, Arrives, TunnelGets, NodeGets,
       proxy, history
  <2> QED
    BY <2>1
<1> QED
  BY <1>2, <1>3, <1>4 DEF Next

(* What leaves the node, and the ports it leaves from. *)
LEMMA OutNext ==
    ASSUME TypeOK, OrderInv, MappedRight, ProxyQueueInv, OnceInv, OutInv, Transparent, PortsTaken, Next
    PROVE  Transparent' /\ PortsTaken'
<1>0. \A k \in DOMAIN asked : k \in DOMAIN asked' /\ asked'[k] = asked[k]
  BY ProgressKept
<1>9. out # {} /\ AnswerMayBeLate => AnswerMayBeLate'
  <2>1. ptries \in Nat /\ ptries' \in Nat /\ ptries' >= ptries
    BY ProgressKept DEF TypeOK
  <2>2. out # {} => connect' = connect
    BY OutKept
  <2> QED
    BY <2>1, <2>2 DEF AnswerMayBeLate
<1>1. ASSUME UNCHANGED <<out, fakes, watching>> PROVE Transparent' /\ PortsTaken'
  BY <1>0, <1>9, <1>1 DEF Transparent, PortsTaken
<1>2. CASE PUdpPacket
  <2> PICK p : p = Head(pq).data.ip
    OBVIOUS
  <2>1. Head(pq) \in Range(pq) /\ Head(pq).data.kind = "ip"
    BY <1>2, TailQueue, Zenon DEF PUdpPacket, ProxyQueueInv
  <2>2. p.proto # "TCP" /\ \E k \in DOMAIN asked : asked[k] = p
    BY <2>1 DEF ProxyQueueInv, Answer, FromTunnel
  <2>3. out' = out \cup {p}
    BY <1>2, <2>2 DEF PUdpPacket
  <2>4. Transparent'
    BY <1>0, <1>9, <2>2, <2>3 DEF Transparent
  <2>5. /\ watching
        /\ p.proto = "UDP" => ~watching' \/ (watching' = watching /\ fakes' = fakes \cup {p.src[2]})
        /\ p.proto # "UDP" => UNCHANGED <<fakes, watching>>
    BY <1>2, Zenon DEF PUdpPacket, FakeSocket, bind_public
  <2>6. PortsTaken'
    BY <2>3, <2>5 DEF PortsTaken
  <2> QED
    BY <2>4, <2>6
<1>3. CASE PUdpShort
  <2>1. out' = out /\ watching /\ (~watching' \/ (watching' = watching /\ fakes \subseteq fakes'))
    BY <1>3, Zenon DEF PUdpShort, FakeSocket, bind_public, history
  <2> QED
    BY <1>0, <1>9, <2>1, Zenon DEF Transparent, PortsTaken
<1>10. CASE PUdpStun
  <2> PICK proto \in {"UDP", "TCP", "ICMP"} :
        /\ out' = out \/ (proto # "TCP" /\ out' = out \cup {Misread(proto)})
        /\ IF proto = "UDP" THEN FakeSocket(StalePort) ELSE UNCHANGED <<fakes, nfakes, watching>>
    BY <1>10 DEF PUdpStun
  <2>1. ppc = "loop" /\ watching /\ UNCHANGED <<ptries, connect>>
    BY <1>10 DEF PUdpStun
  <2>2. AnswerMayBeLate /\ AnswerMayBeLate'
    <3>1. Head(pq) \in Range(pq) /\ Head(pq).data.kind = "stun"
      BY <1>10, TailQueue, Zenon DEF PUdpStun, ProxyQueueInv
    <3>2. Answer(Head(pq), Proxy)
      BY <3>1 DEF ProxyQueueInv, FromTunnel
    <3>3. ~(ptries <= 1 /\ connect # NoAddr)
      BY <3>1, <3>2, Zenon DEF OnceInv
    <3> QED
      BY <2>1, <3>3 DEF AnswerMayBeLate, TypeOK
  <2>3. Misread(proto).proto = proto /\ Misread(proto).src[2] = StalePort
    BY DEF Misread, Packet, StalePort
  <2>4. Transparent'
    BY <1>0, <1>9, <2>2, <2>3 DEF Transparent
  <2>5. /\ proto = "UDP" => ~watching' \/ (watching' = watching /\ fakes' = fakes \cup {StalePort})
        /\ proto # "UDP" => UNCHANGED <<fakes, watching>>
    BY Zenon DEF FakeSocket, bind_public
  <2>6. PortsTaken'
    BY <2>1, <2>3, <2>5 DEF PortsTaken
  <2> QED
    BY <2>4, <2>6
<1>4. CASE \/ TStunSend \/ TStunTimeout \/ TStunAnswer \/ TStunFails \/ TStartProxy
           \/ TSshFails \/ TOpen \/ TInitFails \/ TRun \/ TRunBindFails
           \/ ChildClear \/ ChildWrite \/ TExit
  BY <1>1, <1>4, Zenon DEF TStunSend, TStunTimeout, TStunAnswer, TStunFails, TStartProxy,
     TSshFails, TOpen, TInitFails, TRun, TRunBindFails, ChildClear, ChildWrite, TExit,
     proxy, history
<1>5. ASSUME NEW p \in FromPhone, tun_packet_received(p) PROVE UNCHANGED <<out, fakes, watching>>
  BY <1>5 DEF tun_packet_received, proxy
<1>6. CASE PStunSend \/ PStunTimeout \/ PStunAnswer \/ PStunFails \/ PFirst \/ PRaw \/ PExit
  BY <1>1, <1>6, Zenon DEF PStunSend, PStunTimeout, PStunAnswer, PStunFails, PFirst, PRaw, PExit, history
<1>7. CASE Network
  BY <1>1, <1>7, Zenon DEF Network, Deliver, StunAnswers, HostSends, Arrives, NodeGets, proxy, history
<1> QED
  BY <1>1, <1>2, <1>3, <1>4, <1>5, <1>6, <1>7, <1>10 DEF Next, TunnelStep, ProxyStep

-----------------------------------------------------------------------------
(* The invariant of the tunnel.                                            *)
THEOREM TunnelAlways == Spec => []TunnelInv
<1>1. Init => TunnelInv
  <2> SUFFICES ASSUME Init PROVE TunnelInv
    OBVIOUS
  <2> USE DEF Init
  <2>1. TypeOK
    <3>1. found \in BOOLEAN /\ watching \in BOOLEAN
      BY Zenon
    <3>2. asked \in Seq(FromPhone)
      OBVIOUS
    <3>3. /\ nat \in {"keeps", "adds"} /\ tpc = "stun" /\ ppc = "none"
          /\ ttries = 0 /\ ptries = 0 /\ tsock = 1
      BY DEF First
    <3> QED
      BY <3>1, <3>2, <3>3 DEF TypeOK
  <2>2. OrderInv
    BY DEF OrderInv, NoAddr, Proxy
  <2>3. NetInv
    BY DEF NetInv
  <2>4. TunnelQueueInv /\ ProxyQueueInv /\ RawQueueInv
    BY EmptyQueue DEF TunnelQueueInv, ProxyQueueInv, RawQueueInv
  <2>5. ClientInv
    BY DEF ClientInv, NoAddr
  <2>6. OnceInv
    BY EmptyQueue DEF OnceInv
  <2>7. MappedRight /\ OutInv /\ Transparent /\ PortsTaken
    BY DEF MappedRight, OutInv, Transparent, PortsTaken
  <2> QED
    BY <2>1, <2>2, <2>3, <2>4, <2>5, <2>6, <2>7 DEF TunnelInv
<1>2. TunnelInv /\ [Next]_vars => TunnelInv'
  <2> SUFFICES ASSUME TunnelInv, [Next]_vars PROVE TunnelInv'
    OBVIOUS
  <2> USE DEF TunnelInv
  <2>1. CASE Next
    BY <2>1, TypeNext, OrderNext, NetNext, TunnelQueueNext, ProxyQueueNext, RawQueueNext,
       ClientNext, OnceNext, MappedNext, OutKept, OutNext
  <2>2. CASE UNCHANGED vars
    <3> USE <2>2 DEF vars, tunnel, proxy, history
    <3>1. TypeOK' /\ OrderInv'
      BY DEF TypeOK, OrderInv, External
    <3>2. NetInv'
      <4>1. \A p : /\ FromTunnel(p)' <=> FromTunnel(p)
                   /\ FromProxy(p)' <=> FromProxy(p)
                   /\ Asks(p)' <=> Asks(p)
        BY Zenon DEF FromTunnel, FromProxy, Asks, Request, Source, External
      <4> QED
        BY <4>1 DEF NetInv
    <3>6. ClientInv'
      BY DEF ClientInv, Source, External
    <3>3. TunnelQueueInv' /\ ProxyQueueInv' /\ RawQueueInv'
      BY Zenon DEF TunnelQueueInv, ProxyQueueInv, RawQueueInv, Answer, FromTunnel, Source, External
    <3>4. OnceInv'
      BY Zenon DEF OnceInv, Answer
    <3>5. MappedRight' /\ OutInv' /\ PortsTaken'
      BY DEF MappedRight, OutInv, PortsTaken, External
    <3>7. Transparent'
      BY DEF Transparent, AnswerMayBeLate
    <3> QED
      BY <3>1, <3>2, <3>3, <3>4, <3>5, <3>6, <3>7
  <2> QED
    BY <2>1, <2>2
<1> QED
  BY <1>1, <1>2, PTL DEF Spec

(* "transparent tunneling of packets": nothing leaves the node (PUdpPacket *)
(* of proxy.c) but what a phone has sent, unchanged, and no TCP; the late  *)
(* answers of the STUN server, which leave it as well, need a second       *)
(* request or an answer without an address.                                *)
THEOREM TunnelIsTransparent == Spec => []Transparent
<1>1. TunnelInv => Transparent
  BY DEF TunnelInv
<1> QED
  BY <1>1, TunnelAlways, PTL

(* The addresses that tunnel.c and proxy.c get from STUN, and from each    *)
(* other's packets, are those at which the two can be reached.             *)
THEOREM AddressesAreRight == Spec => []AddressesRight
<1>1. TunnelInv => AddressesRight
  <2> SUFFICES ASSUME TunnelInv PROVE Connected
    BY DEF TunnelInv, AddressesRight
  <2> SUFFICES ASSUME ppc = "loop", ptries = 1, connect # NoAddr, tpc = "run", tsock = First
               PROVE  client = External(tsock)
    BY DEF Connected
  <2>1. client # StunServer
    BY DEF TunnelInv, OnceInv
  <2>2. Source(client)
    BY <2>1 DEF TunnelInv, ClientInv
  <2> QED
    BY <2>2 DEF Source
<1> QED
  BY <1>1, TunnelAlways, PTL

(* The proxy, which sees its own packets on the raw socket too, keeps them *)
(* out of the tunnel, and holds the ports it sends from.                   *)
THEOREM SocketsAreRight == Spec => []SocketsRight
<1>1. TunnelInv => SocketsRight
  <2> SUFFICES ASSUME TunnelInv PROVE NoTunnelInTunnel
    BY DEF TunnelInv, SocketsRight
  <2> SUFFICES ASSUME mapped = External(First), NEW p \in net,
                      p.dst[1] = "router", p.data.kind = "ip"
               PROVE  p.data.ip.src # mapped
    BY DEF NoTunnelInTunnel
  <2>1. ~FromTunnel(p)
    BY Addresses DEF FromTunnel
  <2>2. ~Asks(p)
    BY DEF Asks, Request, Packet
  <2>3. FromProxy(p)
    BY <2>1, <2>2 DEF TunnelInv, NetInv
  <2> QED
    BY <2>3 DEF FromProxy
<1> QED
  BY <1>1, TunnelAlways, PTL
=============================================================================
