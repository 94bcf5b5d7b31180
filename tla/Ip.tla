--------------------------------- MODULE Ip ---------------------------------
(***************************************************************************)
(* lwIP's IPv4 (tun2socks/lwip/src/core/ipv4): ip4.c, ip_frag.c and icmp.c *)
(* between the functions of tun2socks.c that read from and write to the    *)
(* device, and tcp_input.                                                  *)
(*                                                                         *)
(* The unit of a packet is a block: its IP header, eight bytes of it, or   *)
(* an ICMP header.  An IP header is [v, hl, len, src, dst, id, off, mf,    *)
(* proto, sum], off in blocks and sum "good" or "bad"; an ICMP header is   *)
(* [type, sum]; any other block is [d |-> number].  While a fragment waits *)
(* for the others, a struct ip_reass_helper [next, start, end] lies over   *)
(* its IP header.                                                          *)
(*                                                                         *)
(* The state s of Pbuf also has                                            *)
(*   reass   the datagrams that are incomplete, the newest first: iphdr,   *)
(*           the first fragment p, last and dlen once the end is known,    *)
(*   count   ip_reass_pbufcount,                                           *)
(*   ip_id   the next identification,                                      *)
(*   mtu     netif->mtu: 0, nothing but an IPv6 router sets it,            *)
(*   sent    the packets written to the device since the last event,       *)
(*   up      the packets passed to icmp_input and tcp_input since then.    *)
(***************************************************************************)
EXTENDS Pbuf, SequencesExt

CONSTANTS IP_REASS_MAX_PBUFS,
          DeviceMtu,               \* BTap_GetMTU
          NetifIp, NetSize,        \* the interface's address, the size of its network
          AnyIp, AllOnes, Multicast, \* special addresses
          U16,                     \* size of a u16_t
          SumSize                  \* size of the checksum's field

IP_HLEN == 1
ICMP_HLEN == 1

\* What lwip_init_job_hadler and netif_init_func make of the interface.
Netif == [ip |-> NetifIp, up |-> TRUE, broadcast |-> FALSE,
          pretend |-> TRUE]

ip_addr_netcmp(a, b) == a \div NetSize = b \div NetSize

ip4_addr_isbroadcast(addr, netif) ==
    \/ addr \in {AnyIp, AllOnes}
    \/ /\ netif.broadcast
       /\ addr # netif.ip
       /\ ip_addr_netcmp(addr, netif.ip)
       /\ addr % NetSize = NetSize - 1

\* The IP header at the payload of p, and the state with another one there.
IpHeader(s, p) == Payload(s.pb[p])[1]
PutBlock(s, p, block) == [s EXCEPT !.pb[p] = Written(@, 0, <<block>>)]

-----------------------------------------------------------------------------
(* Checksums over blocks; Checksum.tla has the arithmetic. *)

TypeValue == [ER |-> 0, DUR |-> 3, ECHO |-> 8, TE |-> 11]

BlockValue(b) == IF b = Garbage THEN 0
                 ELSE IF "d" \in DOMAIN b THEN b.d
                 ELSE IF "type" \in DOMAIN b THEN TypeValue[b.type] + b.sum
                 ELSE b.id

inet_chksum(blocks) ==
    LET total == FoldLeft(LAMBDA x, b : x + BlockValue(b), 0, blocks)
    IN (SumSize - (total % SumSize)) % SumSize

\* A header of IP_HLEN: a longer one has options, which are not summed up.
HeaderSum(h) == IF h.hl = IP_HLEN THEN "good" ELSE "bad"

-----------------------------------------------------------------------------
(* Output. *)

common_netif_output(s, p) ==
    LET packet == PacketOf(s.pb, p)
    IN IF Len(packet) > DeviceMtu THEN s ELSE [s EXCEPT !.sent = Append(@, packet)]

RECURSIVE FragLoop(_, _, _, _, _, _, _)
\* header: the result of the allocation of the pbuf in front of the fragment
\* in rambuf; the other parameters are those of the next round.
FragSent(header, p, rambuf, iphdr, poff, left, ofo) ==
    IF header.r = NULL THEN pbuf_free(header.s, rambuf)
    ELSE FragLoop(pbuf_free(common_netif_output(pbuf_chain(header.s, header.r, rambuf),
                                                header.r), header.r),
                  p, rambuf, iphdr, poff, left, ofo)

FragLoop(s, p, rambuf, iphdr, poff, left, ofo) ==
    LET nfb == s.mtu - IP_HLEN
        last == left <= nfb
        cop == IF last THEN left ELSE nfb
        h == [iphdr EXCEPT !.off = ofo, !.mf = iphdr.mf \/ ~last,
                           !.len = cop + IP_HLEN, !.sum = HeaderSum(iphdr)]
        copied == pbuf_copy_partial(s, p, cop, poff)
        s1 == [s EXCEPT !.pb[rambuf].buf = [i \in 1..s.mtu |->
                   IF i = 1 THEN h
                   ELSE IF i - 1 \in DOMAIN copied THEN copied[i - 1] ELSE Garbage]]
    IN IF left = 0 THEN pbuf_free(s, rambuf)
       ELSE FragSent(pbuf_alloc(IF last THEN pbuf_realloc(s1, rambuf, left + IP_HLEN) ELSE s1,
                                "LINK", 0, "RAM"),
                     p, rambuf, iphdr, poff + Len(copied), left - cop, ofo + nfb)

\* rambuf: the result of the allocation of the buffer for the fragments.
FragWith(rambuf, p, mtu) ==
    LET h == IpHeader(rambuf.s, p)
    IN IF rambuf.r = NULL THEN rambuf.s
       ELSE FragLoop([rambuf.s EXCEPT !.pb[rambuf.r].len = mtu, !.pb[rambuf.r].tot = mtu],
                     p, rambuf.r, h, IP_HLEN, rambuf.s.pb[p].tot - IP_HLEN, h.off)

ip_frag(s, p) == FragWith(pbuf_alloc(s, "LINK", 0, "REF"), p, s.mtu)

\* A packet with its header: dest == IP_HDRINCL.
SendWhole(s, p) ==
    IF s.mtu # 0 /\ s.pb[p].tot > s.mtu THEN ip_frag(s, p)
    ELSE common_netif_output(s, p)

ip_output_if(s, p, src, dst, proto) ==
    LET room == pbuf_header(LWIP_ASSERT(s, "p->ref == 1", s.pb[p].ref = 1), p, IP_HLEN)
        h == [v |-> 4, hl |-> IP_HLEN, len |-> room.s.pb[p].tot, src |-> src, dst |-> dst,
              id |-> s.ip_id, off |-> 0, mf |-> FALSE, proto |-> proto, sum |-> "good"]
    IN IF room.r THEN room.s
       ELSE SendWhole([PutBlock(room.s, p, h) EXCEPT !.ip_id = (@ + 1) % U16], p)

\* The one interface is the route to every address.
ip_output(s, p, dst, proto) ==
    IF Netif.up THEN ip_output_if(s, p, Netif.ip, dst, proto) ELSE s

-----------------------------------------------------------------------------
(* ICMP. *)

\* q: the result of the allocation of the response.
ResponseIn(q, blocks, dst) ==
    IF q.r = NULL THEN q.s
    ELSE pbuf_free(ip_output(TakeFrom(q.s, q.r, blocks), q.r, dst, "ICMP"), q.r)

icmp_send_response(s, p, type) ==
    LET quoted == SubSeq(s.pb[p].buf, s.pb[p].off + 1, s.pb[p].off + IP_HLEN + 1)
        body == [type |-> type, sum |-> inet_chksum(<<[type |-> type, sum |-> 0]>> \o quoted)]
    IN ResponseIn(pbuf_alloc(s, "IP", ICMP_HLEN + IP_HLEN + 1, "RAM"), <<body>> \o quoted,
                  IpHeader(s, p).src)

icmp_dest_unreach(s, p) == icmp_send_response(s, p, "DUR")
icmp_time_exceeded(s, p) == icmp_send_response(s, p, "TE")

\* The packet with room for the headers of a reply: a copy, unless p has it.
\* r: the result of the allocation of the copy.
CopyWithRoom(r, p, hlen) ==
    LET fits == LWIP_ASSERT(r.s, "check that first pbuf can hold the ICMP header",
                            r.s.pb[r.r].len >= hlen + ICMP_HLEN)
        copy == pbuf_header(pbuf_copy(fits, r.r, p), r.r, -hlen)
    IN IF r.r = NULL THEN r
       ELSE [s |-> pbuf_free(LWIP_ASSERT(copy.s, "restoring payload", ~copy.r), p), r |-> r.r]

WithRoom(s, p, hlen) ==
    LET ip == pbuf_header(s, p, hlen)
    IN IF ~pbuf_header(s, p, IpRoom + LinkRoom).r THEN [s |-> s, r |-> p]
       ELSE IF ip.r THEN [s |-> LWIP_ASSERT(ip.s, "moving p->payload to ip header", FALSE),
                          r |-> NULL]
       ELSE CopyWithRoom(pbuf_alloc(ip.s, "LINK", ip.s.pb[p].tot, "RAM"), p, hlen)

(* Fault: the checksum stays the request's. *)
ChecksumKept(sum) == sum

\* The checksum once the type ECHO became ER.
AdjustedChecksum(sum) == (sum + TypeValue.ECHO) % SumSize

\* The request in p, whose header is h, becomes the reply to it.
EchoReply(s, p, h) ==
    LET b == s.pb[p]
        icmp == Payload(b)[1]
        reply == [type |-> "ER", sum |-> AdjustedChecksum(icmp.sum)]
        iphdr == [b.buf[b.off - h.hl + 1] EXCEPT !.src = h.dst, !.dst = h.src,
                                                 !.sum = HeaderSum(h)]
        done == pbuf_header([s EXCEPT !.pb[p] = Written(Written(b, -h.hl, <<iphdr>>),
                                                        0, <<reply>>)], p, h.hl)
    IN pbuf_free(IF done.r THEN LWIP_ASSERT(done.s, "Can't move over header in packet", FALSE)
                 ELSE SendWhole(LWIP_ASSERT(done.s, "p->ref == 1", done.s.pb[p].ref = 1), p), p)

\* q: the packet with room.
ReplyIn(q, p, h) == IF q.r = NULL THEN pbuf_free(q.s, p) ELSE EchoReply(q.s, q.r, h)

icmp_input(s, p, h) ==
    LET packet == PacketOf(s.pb, p)
    IN IF \/ s.pb[p].len < ICMP_HLEN
          \/ packet[1].type # "ECHO"
          \/ h.dst \in Multicast
          \/ ip4_addr_isbroadcast(h.dst, Netif)
          \/ inet_chksum(packet) # 0
       THEN pbuf_free(s, p)
       ELSE ReplyIn(WithRoom(s, p, h.hl), p, h)

=============================================================================
