------------------------------ MODULE IpDevice ------------------------------
(***************************************************************************)
(* The packets between the device and lwIP's IP: device_read_handler_send  *)
(* and netif_input_func of tun2socks.c, with the host behind the device.   *)
(*                                                                         *)
(* The host sends datagrams in fragments of at most HostMtu blocks, over   *)
(* IPv4 (Datagrams) or IPv6 (Datagrams6), and one more packet: one of the  *)
(* fragments a second time or one of Singles or Singles6.  With all of the *)
(* datagrams this is a fragment that others follow, with one of them it is *)
(* any.  Or it sends some of the messages of neighbour discovery in        *)
(* Messages6.  The packets arrive in any order, or do not arrive.          *)
(***************************************************************************)
EXTENDS Ip6Input

CONSTANTS Datagrams, Singles,     \* sequences of blocks, the header first
          Datagrams6, Singles6,   \* the same; a datagram is [id, packet]
          Messages6,
          Own6,                   \* the IPv6 address of the interface
          HostMtu,
          MemFaults,              \* bound: the events during which memory runs out
          MessagesSent            \* bound: messages of neighbour discovery

VARIABLES s,      \* the state of Ip, Ip6 and Pbuf
          net,    \* for each packet on its way, how many copies of it are
          faults  \* how many events ran out of memory

vars == <<s, net, faults>>

-----------------------------------------------------------------------------

\* Without an IPv6 address of the interface, IPv6 packets are dropped.
netif_input_func(t, p) ==
    IF t.pb[p].len > 0 /\ IpHeader(t, p).v = 4 THEN ip_input(t, p)
    ELSE IF t.pb[p].len > 0 /\ IpHeader(t, p).v = 6 /\ t.options.netif_ip6addr
    THEN ip6_input(t, p)
    ELSE pbuf_free(t, p)

device_read_handler_send(t, data) ==
    LET p == pbuf_alloc(t, "RAW", Len(data), "POOL")
        taken == pbuf_take(p.s, p.r, data)
    IN IF p.r = NULL THEN p.s
       ELSE netif_input_func(LWIP_ASSERT(taken.s, "pbuf_take", taken.r), p.r)

-----------------------------------------------------------------------------
(* The host and the device between it and tun2socks. *)

\* The places at which a host cuts data of the length len into pieces of n.
Cuts(len, n) == {k \in 0..len - 1 : k % n = 0}

\* A datagram in fragments that the host's link carries.
FragmentsOf(d) ==
    LET n == HostMtu - 1
    IN { LET left == Len(d) - 1 - k
             m == LeastOf(left, n)
         IN <<[d[1] EXCEPT !.off = k, !.mf = left > n, !.len = m + 1]>>
                \o SubSeq(d, k + 2, k + 1 + m)
         : k \in Cuts(Len(d) - 1, n) }

FragmentsOf6(d) ==
    LET n == HostMtu - 1
        h == d.packet[1]
    IN { LET left == Len(d.packet) - 1 - k
             m == LeastOf(left, n)
         IN << [h EXCEPT !.nexth = "FRAGMENT", !.plen = m + 1],
               [nexth |-> h.nexth, off |-> k, mf |-> left > n, id |-> d.id] >>
                \o SubSeq(d.packet, k + 2, k + 1 + m)
         : k \in Cuts(Len(d.packet) - 1, n) }

Packets == UNION {FragmentsOf(d) : d \in Datagrams}
Packets6 == UNION {FragmentsOf6(d) : d \in Datagrams6}

\* A fragment that others follow.
NotLast6(x) == x[1].dst = Own6 /\ x[1].nexth = "FRAGMENT" /\ x[2].mf

\* The packets all of which are sent, with one more that is extra.
AllAnd(packets, extra) ==
    [x \in packets \cup {extra} |-> IF x = extra /\ x \in packets THEN 2 ELSE 1]

Plenty == 99

Start(pointer, ip6) ==
    [pb |-> <<>>, mem |-> 0, bad |-> {}, reass |-> <<>>, count |-> 0, ip_id |-> 0, mtu |-> 0,
     sent |-> <<>>, up |-> <<>>, options |-> [netif_ip6addr |-> ip6],
     addr6 |-> NetifAddresses(Own6), reass6 |-> <<>>, count6 |-> 0, pointer |-> pointer,
     neighbors |-> [i \in 1..LWIP_ND6_NUM_NEIGHBORS |-> NoNeighbor],
     routers |-> [i \in 1..LWIP_ND6_NUM_ROUTERS |-> NoRouter],
     prefixes |-> [i \in 1..LWIP_ND6_NUM_PREFIXES |-> NoPrefix],
     reachable_time |-> LWIP_ND6_REACHABLE_TIME]

\* The packets of a run: IPv4's, IPv6's, or neighbour discovery.
Init ==
    /\ faults = 0
    /\ \/ /\ s = Start(8, FALSE)
          /\ \/ \E extra \in {x \in Packets \cup Singles : x[1].mf} : net = AllAnd(Packets, extra)
             \/ \E d \in Datagrams : \E extra \in FragmentsOf(d) \cup Singles :
                   net = AllAnd(FragmentsOf(d), extra)
       \/ /\ s = Start(4, TRUE)
          /\ \E d \in Datagrams6 : \E extra \in FragmentsOf6(d) : net = AllAnd(FragmentsOf6(d), extra)
       \/ /\ s = Start(8, TRUE)
          /\ \/ \E extra \in {x \in Packets6 \cup Singles6 : NotLast6(x)} : net = AllAnd(Packets6, extra)
             \/ \E d \in Datagrams6 : \E extra \in FragmentsOf6(d) \cup Singles6 :
                   net = AllAnd(FragmentsOf6(d), extra)
       \/ /\ s = Start(8, TRUE)
          /\ \E some \in kSubset(MessagesSent, Messages6) : net = [x \in some |-> 1]

\* The device delivers a packet; from some point on no memory is left.
Deliver ==
    /\ s.bad = {}
    /\ \E x \in DOMAIN net, mem \in {Plenty, 0, 1, 2} :
         /\ net[x] > 0
         /\ mem # Plenty => faults < MemFaults
         /\ faults' = IF mem = Plenty THEN faults ELSE faults + 1
         /\ net' = [net EXCEPT ![x] = @ - 1]
         /\ s' = [device_read_handler_send([s EXCEPT !.mem = mem, !.sent = <<>>, !.up = <<>>], x)
                    EXCEPT !.mem = 0]

Next == Deliver

Spec == Init /\ [][Next]_vars

-----------------------------------------------------------------------------
(* Properties *)

\* The pbufs of the fragments that wait for others.
PbufsOf(datagram) ==
    FoldLeft(LAMBDA ids, p : ids \o ChainOf(s.pb, p), <<>>, FragmentsFrom(s, datagram.p))

HeldBy(datagrams) == FoldLeft(LAMBDA ids, d : ids \o PbufsOf(d), <<>>, datagrams)

Held == HeldBy(s.reass) \o HeldBy(s.reass6)


\* Whether x is a datagram of IPv6 as it is passed on, behind the Fragment
\* Header.  With pointers of eight bytes the first block of every fragment is
\* torn: ip6_frag.c lays the helper over the Fragment Header, and the helper
\* is longer than the header.
Body6(d) ==
    [k \in 1..Len(d.packet) - 1 |->
        IF s.pointer = 8 /\ (k - 1) % (HostMtu - 1) = 0
        THEN [torn |-> d.packet[k + 1]] ELSE d.packet[k + 1]]

\* The data of a datagram without some fragments in the middle: those between
\* the first ones and one that is neither the last nor next to them.
WithHole(body) ==
    LET cuts == Cuts(Len(body), HostMtu - 1)
        holes == {h \in cuts \X cuts : 0 < h[1] /\ h[1] < h[2] /\ h[2] + HostMtu - 1 < Len(body)}
    IN {SubSeq(body, 1, h[1]) \o SubSeq(body, h[2] + 1, Len(body)) : h \in holes}

\* Whether x is d, with body as its data, as ip_reass or ip6_reass passes it on.
Passed4(x, d, body) == x[1] = d[1] /\ Tail(x) = body
Passed6(x, d, body) ==
    /\ x[1] = [d.packet[1] EXCEPT !.nexth = "FRAGMENT", !.plen = Len(d.packet)]
    /\ SubSeq(x, 3, Len(x)) = body

DeliveredWhole(x) ==
    \/ x \in Singles6 \cup Messages6
    \/ x[1].v = 6 /\ \E d \in Datagrams6 : Passed6(x, d, Body6(d))
    \/ /\ x[1].v = 4 /\ Len(x) = x[1].len
       /\ \E y \in Datagrams \cup Singles : IsPrefix(x, y)

DeliveredWithHole(x) ==
    \/ x[1].v = 4 /\ \E d \in Datagrams : \E body \in WithHole(Tail(d)) : Passed4(x, d, body)
    \/ x[1].v = 6 /\ \E d \in Datagrams6 : \E body \in WithHole(Body6(d)) : Passed6(x, d, body)

(* What reaches icmp_input, icmp6_input or tcp_input is a packet as the    *)
(* host sent it: ip_reass and ip6_reass put the fragments of a datagram    *)
(* together in their order, whatever order they came in and whichever of   *)
(* them came twice, without those of another datagram.  One thing may be   *)
(* missing: no hole is looked for in front of a fragment that is put       *)
(* between two others, so that fragments between the first ones and this   *)
(* one are not waited for if all after it are there.                       *)
DeliveredAsSent == \A i \in DOMAIN s.up : DeliveredWhole(s.up[i]) \/ DeliveredWithHole(s.up[i])

(* "all fragments are received" when a datagram is passed on (ip_frag.c):  *)
(* it is whole.                                                            *)
NoHoles == \A i \in DOMAIN s.up : DeliveredWhole(s.up[i])

(* A datagram of which every fragment waits in the queue does not wait: it *)
(* was passed on when the last of them came, in whatever order (the return *)
(* value of ip_reass_chain_frag_into_datagram_and_validate, and valid in   *)
(* ip6_reass).                                                             *)
CompleteIsDelivered ==
    s.bad = {} =>
        /\ \A i \in DOMAIN s.reass, d \in Datagrams :
             SameDatagram(s.reass[i].iphdr, d[1]) =>
                 Len(FragmentsFrom(s, s.reass[i].p)) < Cardinality(FragmentsOf(d))
        /\ \A i \in DOMAIN s.reass6, d \in Datagrams6 :
             Key(s.reass6[i]) = <<d.packet[1].src, d.packet[1].dst, d.id>> =>
                 Len(FragmentsFrom(s, s.reass6[i].p)) < Cardinality(FragmentsOf6(d))

(* Reassembly loses nothing that came complete and makes up nothing. *)
ReassemblyRight == DeliveredAsSent /\ CompleteIsDelivered

Right4(x, i) ==
    LET h == x[1]
        body == SubSeq(x, h.hl + 1, Len(x))
    IN /\ Len(x) = h.len
       /\ h.sum = IF h.hl = IP_HLEN THEN "good" ELSE "bad"
       /\ inet_chksum(body) = 0
       /\ IF body[1].type = "ER"
          THEN /\ i = Len(s.sent) /\ Len(s.up) = 1
               /\ s.up[1][1].src = h.dst /\ s.up[1][1].dst = h.src
               /\ Tail(body) = SubSeq(s.up[1], h.hl + 2, Len(s.up[1]))
          ELSE /\ body[2].src = h.dst
               /\ \E y \in Packets \cup Singles : y[1] = body[2] /\ y[2] = body[3]

\* The ICMPv6 message of a packet, <<>> if there is none.
MessageOf(x) ==
    LET places == {k \in DOMAIN x : "type" \in DOMAIN x[k]}
    IN IF places = {} THEN <<>> ELSE SubSeq(x, Least(places), Len(x))

Right6(x, i) ==
    LET h == x[1]
        body == Tail(x)
        asked == MessageOf(s.up[1])
    IN /\ h.plen = Len(body)
       /\ ip6_chksum_pseudo(body, h.src, h.dst) = 0
       /\ h.src = Own6
       /\ CASE body[1].type = "EREP" ->
                 /\ i = Len(s.sent) /\ Len(s.up) = 1
                 /\ s.up[1][1].src = h.dst /\ Tail(body) = Tail(asked)
            [] body[1].type = "NA" ->
                 /\ i = 1 /\ asked[1].type = "NS" /\ asked[1].target = body[1].target
                 /\ h.dst = IF body[1].solicited THEN s.up[1][1].src ELSE AllNodes
            [] body[1].type = "PP" -> body[2] = s.up[1][1] /\ body[3] = s.up[1][2]
            [] body[1].type = "TE" ->
                 body[2].src = h.dst /\ \E y \in Packets6 \cup Singles6 : y[1] = body[2]

(* What tun2socks answers is right: an echo reply goes back to the sender  *)
(* of a request just delivered, with its data and checksums that fit, one  *)
(* for one; an advertisement is for the target asked about; an error       *)
(* quotes a packet of the host and goes to it (all but the Fragment Header *)
(* of a datagram that icmp6_time_exceeded is about: the helper lies there).*)
(* Nothing longer than the device takes is written.  One checksum is wrong *)
(* always: that of the header of the reply to a request with IP options,   *)
(* of which icmp_input sums IP_HLEN bytes only.                            *)
AnswersAreRight ==
    \A i \in DOMAIN s.sent :
        LET x == s.sent[i]
        IN /\ Len(x) <= DeviceMtu
           /\ x[1].v = 4 => Right4(x, i)
           /\ x[1].v = 6 => Right6(x, i)

\* Requests that icmp_input, icmp6_input and nd6_input answer, and the answers.
Asks4(x) ==
    /\ x[1].v = 4 /\ x[1].proto = "ICMP" /\ x[1].dst = NetifIp
    /\ Len(x) > x[1].hl /\ Len(x) <= DeviceMtu
    /\ x[x[1].hl + 1].type = "ECHO"
    /\ inet_chksum(SubSeq(x, x[1].hl + 1, Len(x))) = 0

Asks6(x) ==
    LET m == MessageOf(x) IN
    /\ x[1].v = 6 /\ m # <<>> /\ Len(m) < DeviceMtu
    /\ ip6_chksum_pseudo(m, x[1].src, x[1].dst) = 0
    /\ s.addr6[1].state = "VALID"
    /\ \/ m[1].type = "EREQ" /\ x[1].dst = Own6
       \/ m[1].type = "NS" /\ m[1].target = Own6 /\ Len(m) > 1

(* A request that fits the device is answered, unless memory ran out: an   *)
(* echo (icmp_input, icmp6_input), and a solicitation of the interface's   *)
(* address, for which there is always a neighbour to forget, since routers *)
(* do not take all the places (nd6_new_neighbor_cache_entry).              *)
RequestsAnswered ==
    \A i \in DOMAIN s.up :
        LET x == s.up[i] IN
        /\ faults = 0 /\ Asks4(x) => s.sent # <<>> /\ Last(s.sent)[x[1].hl + 1].type = "ER"
        /\ faults = 0 /\ Asks6(x) => s.sent # <<>> /\ Last(s.sent)[2].type \in {"EREP", "NA"}

(* icmp_input "recalculate[s] the header checksum" (icmp.c): it fits. *)
HeaderChecksumsFit == \A i \in DOMAIN s.sent : s.sent[i][1].v = 4 => s.sent[i][1].sum = "good"

(* Every request gets its answer, and every answer is right. *)
AnswersRight == AnswersAreRight /\ RequestsAnswered

(* The tables of nd6.c fit: no neighbour is kept twice, every router of    *)
(* default_router_list has a neighbour of its own, marked as a router, and *)
(* no other is marked.  So nothing takes the place of a router's neighbour *)
(* that the list points to, whichever messages come in whichever order.    *)
TablesFit ==
    LET used == {r \in DOMAIN s.routers : s.routers[r].neighbor # NULL}
        kept == {n \in DOMAIN s.neighbors : s.neighbors[n].state # "NO_ENTRY"}
        listed == {p \in DOMAIN s.prefixes : s.prefixes[p].used}
    IN /\ \A m, n \in kept : s.neighbors[m].addr = s.neighbors[n].addr => m = n
       /\ \A r, q \in used : s.routers[r].neighbor = s.routers[q].neighbor => r = q
       /\ {s.routers[r].neighbor : r \in used} = {n \in kept : s.neighbors[n].isrouter}
       /\ \A p, q \in listed : s.prefixes[p].prefix = s.prefixes[q].prefix => p = q

(* No assertion of pbuf.c, icmp.c or ip_frag.c fails, so tun2socks is not  *)
(* aborted by a packet.                                                    *)
NoAssertFails == s.bad = {}

=============================================================================
