--------------------------------- MODULE Ip6 ---------------------------------
(***************************************************************************)
(* lwIP's IPv6 (tun2socks/lwip/src/core/ipv6) as tun2socks uses it when it *)
(* has an IPv6 address (--netif-ip6addr): the output of ip6.c, icmp6.c and *)
(* the tables of nd6.c.                                                    *)
(*                                                                         *)
(* As in Ip, the unit of a packet is a block.  An IPv6 header is           *)
(* [v, plen, nexth, src, dst]; the header of an extension is [nexth, hlen],*)
(* hlen the blocks after its first; a Fragment Header is [nexth, off, mf,  *)
(* id].  An ICMPv6 header is [type, sum] and the fields of its type; the   *)
(* options of neighbour discovery are blocks [opt, ...].  An address is    *)
(* [scope, net, id], scope the kind of address its first bits say it is.   *)
(*                                                                         *)
(* The state s of Ip also has                                              *)
(*   addr6    the interface's addresses and their states,                  *)
(*   reass6, count6   reassdatagrams, ip6_reass_pbufcount of ip6_frag.c,   *)
(*   pointer  the size of a pointer, in bytes: the build's,                *)
(*   neighbors, routers, prefixes   neighbor_cache, default_router_list,   *)
(*            prefix_list; places count from 1, NULL is none,              *)
(*   reachable_time.                                                       *)
(* The interface has no link addresses (hwaddr_len is 0), nothing queues   *)
(* packets for a neighbour or fills destination_cache (ethip6.c has no     *)
(* caller), and nd6_tmr has no caller.                                     *)
(***************************************************************************)
EXTENDS Ip

CONSTANTS LWIP_ND6_NUM_NEIGHBORS, LWIP_ND6_NUM_ROUTERS, LWIP_ND6_NUM_PREFIXES,
          LWIP_ND6_REACHABLE_TIME, LWIP_ND6_DELAY_FIRST_PROBE_TIME

\* More neighbours are kept than routers: there is one to recycle.
ASSUME NeighborsAssumption ==
    LWIP_ND6_NUM_ROUTERS \in Nat \ {0} /\ LWIP_ND6_NUM_NEIGHBORS > LWIP_ND6_NUM_ROUTERS

IP6_HLEN == 1
IP6_FRAG_HLEN == 1
ICMP6_HLEN == 1
LLADDR_LEN == 1

Least(S) == CHOOSE x \in S : \A y \in S : x <= y

-----------------------------------------------------------------------------
(* Addresses. *)

Addr(scope, net, id) == [scope |-> scope, net |-> net, id |-> id]

\* The groups of all nodes have the network 0, those of solicited nodes 1.
IP6_ADDR_ANY == Addr("any", 0, 0)
AllNodes == Addr("mc_link", 0, 1)
SolicitedNode(a) == Addr("mc_link", 1, a.id)

ip6_addr_isany(a) == a.scope = "any"
ip6_addr_ismulticast(a) == a.scope \in {"mc_if", "mc_link", "mc_site", "mc_org", "mc_global"}
ip6_addr_isallnodes(a) == a.scope \in {"mc_if", "mc_link"} /\ a.net = 0 /\ a.id = 1
ip6_addr_issolicitednode(a) == a.scope = "mc_link" /\ a.net = 1
ip6_addr_netcmp(a, b) == a.scope = b.scope /\ a.net = b.net

ip6_addr_isvalid(state) == state \in {"VALID", "PREFERRED", "DEPRECATED"}
ip6_addr_istentative(state) == state = "TENTATIVE"

\* What lwip_init_job_hadler and netif_add make of the interface's addresses.
NetifAddresses(own) ==
    <<[a |-> own, state |-> "VALID"], [a |-> IP6_ADDR_ANY, state |-> "INVALID"],
      [a |-> IP6_ADDR_ANY, state |-> "INVALID"]>>

ValidPlaces(t) == {i \in DOMAIN t.addr6 : ip6_addr_isvalid(t.addr6[i].state)}

\* r: the address, or IP6_ADDR_ANY if there is none.
ip6_select_source_address(t, dest) ==
    LET valid == ValidPlaces(t)
        of(scope) == {i \in valid : t.addr6[i].a.scope = scope}
        near(places) == {i \in places : ip6_addr_netcmp(dest, t.addr6[i].a)}
        choices == << IF dest.scope \in {"link", "mc_link", "mc_if"} THEN of("link") ELSE {},
                      IF dest.scope \in {"site", "mc_site"} THEN near(of("site")) ELSE {},
                      IF dest.scope \in {"unique", "mc_org"} THEN near(of("unique")) ELSE {},
                      IF dest.scope \in {"global", "mc_global"} THEN near(of("global")) ELSE {},
                      IF dest.scope \in {"global", "mc_global"} THEN of("global") ELSE {},
                      near(valid) >>
        some == {k \in DOMAIN choices : choices[k] # {}}
    IN IF some = {} THEN IP6_ADDR_ANY ELSE t.addr6[Least(choices[Least(some)])].a

-----------------------------------------------------------------------------
(* Checksums. *)

Type6Value == [EREQ |-> 1, EREP |-> 2, TE |-> 3, PP |-> 4, NS |-> 5, NA |-> 6, RA |-> 7,
               RS |-> 8, RD |-> 9, PTB |-> 10]

RECURSIVE Block6Value(_)
Block6Value(b) == IF b = Garbage THEN 0
                  ELSE IF "torn" \in DOMAIN b THEN Block6Value(b.torn) + 1
                  ELSE IF "d" \in DOMAIN b THEN b.d
                  ELSE IF "type" \in DOMAIN b THEN Type6Value[b.type] + b.sum
                  ELSE 0

ip6_chksum_pseudo(blocks, src, dst) ==
    LET total == FoldLeft(LAMBDA x, b : x + Block6Value(b), src.id + dst.id, blocks)
    IN (SumSize - (total % SumSize)) % SumSize

\* An ICMPv6 message with its checksum.
Summed(message, src, dst) ==
    [message EXCEPT ![1].sum =
        ip6_chksum_pseudo([message EXCEPT ![1].sum = 0], src, dst)]

-----------------------------------------------------------------------------
(* Output. *)

\* There is one interface: the fast return.
ip6_route(src, dst) == Netif

ip6_output_if(t, p, src, dst, nexth) ==
    LET room == pbuf_header(LWIP_ASSERT(t, "p->ref == 1", t.pb[p].ref = 1), p, IP6_HLEN)
        from == IF ip6_addr_isany(src) THEN ip6_select_source_address(t, dst) ELSE src
        h == [v |-> 6, plen |-> room.s.pb[p].tot - IP6_HLEN, nexth |-> nexth,
              src |-> from, dst |-> dst]
        fits == LWIP_ASSERT(room.s, "check that first pbuf can hold struct ip6_hdr",
                            room.s.pb[p].len >= IP6_HLEN)
    IN IF room.r \/ ip6_addr_isany(from) THEN room.s
       ELSE common_netif_output(PutBlock(fits, p, h), p)

\* A message in a pbuf of its own to dst.
SendIcmp6(t, message, src, dst) ==
    LET q == pbuf_alloc(t, "IP", Len(message), "RAM")
        full == TakeFrom(q.s, q.r, Summed(message, src, dst))
    IN IF q.r = NULL THEN q.s
       ELSE pbuf_free(ip6_output_if(full, q.r, src, dst, "ICMP6"), q.r)

\* p's payload is the IPv6 header, the packet being handled comes from src.
\* A datagram whose time is over has the addresses of its own header.
icmp6_send_response(t, p, type, src) ==
    LET h == IpHeader(t, p)
        b == t.pb[p]
        message == <<[type |-> type, sum |-> 0]>>
                       \o SubSeq(b.buf, b.off + 1, b.off + IP6_HLEN + 1)
        dst == IF type = "TE" THEN h.src ELSE src
        from == IF type = "TE" THEN h.dst ELSE ip6_select_source_address(t, dst)
    IN IF type # "TE" /\ ip6_addr_isany(from) THEN t
       ELSE SendIcmp6(t, message, from, dst)

icmp6_time_exceeded(t, p) == icmp6_send_response(t, p, "TE", IP6_ADDR_ANY)
icmp6_param_problem(t, p, src) == icmp6_send_response(t, p, "PP", src)

nd6_send_na(t, target, dst, solicited) ==
    SendIcmp6(t, <<[type |-> "NA", sum |-> 0, target |-> target, solicited |-> solicited,
                    override |-> TRUE],
                   [opt |-> "TARGET_LLADDR"]>>, target, dst)

=============================================================================
