--------------------------------- MODULE Nd6 ---------------------------------
(***************************************************************************)
(* Neighbour discovery (tun2socks/lwip/src/core/ipv6/nd6.c) and icmp6_input*)
(* (icmp6.c), which calls it.                                              *)
(***************************************************************************)
EXTENDS Ip6

-----------------------------------------------------------------------------
(* The tables.  0 stands for the -1 of the code: there is no such entry. *)

NoNeighbor == [addr |-> IP6_ADDR_ANY, state |-> "NO_ENTRY", isrouter |-> FALSE, counter |-> 0]
NoRouter == [neighbor |-> NULL, life |-> 0]
NoPrefix == [prefix |-> IP6_ADDR_ANY, used |-> FALSE, life |-> 0]

LeastOrNone(S) == IF S = {} THEN 0 ELSE Least(S)

nd6_find_neighbor_cache_entry(t, a) ==
    LeastOrNone({i \in DOMAIN t.neighbors : t.neighbors[i].addr = a})

nd6_free_neighbor_cache_entry(t, i) == [t EXCEPT !.neighbors[i] = NoNeighbor]

(* Fault: routers are recycled like other neighbours. *)
AnyRecyclable(t) == DOMAIN t.neighbors

\* Routers are never recycled.
Recyclable(t) == {i \in DOMAIN t.neighbors : ~t.neighbors[i].isrouter}

\* The entry to use next: an empty one, or the one to recycle.  No packets
\* are queued, so the search for an incomplete entry without some finds all.
NeighborToUse(t) ==
    LET in(state) == {i \in Recyclable(t) : t.neighbors[i].state = state}
        empty == {i \in DOMAIN t.neighbors : t.neighbors[i].state = "NO_ENTRY"}
        counter(i) == t.neighbors[i].counter
        oldest == {i \in in("REACHABLE") : \A j \in in("REACHABLE") : counter(i) <= counter(j)}
        tried == {i \in in("INCOMPLETE") : \A j \in in("INCOMPLETE") : counter(i) >= counter(j)}
        choices == <<empty, in("STALE"), in("PROBE"), in("DELAY"), oldest>>
        some == {k \in DOMAIN choices : choices[k] # {}}
    IN IF some # {} THEN Least(choices[Least(some)])
       ELSE IF tried # {} THEN CHOOSE i \in tried : \A j \in tried : j <= i
       ELSE 0

nd6_new_neighbor_cache_entry(t) ==
    LET i == NeighborToUse(t)
    IN [s |-> IF i = 0 THEN t ELSE nd6_free_neighbor_cache_entry(t, i), r |-> i]

nd6_get_router(t, a) ==
    LeastOrNone({i \in DOMAIN t.routers :
        t.routers[i].neighbor # NULL /\ t.neighbors[t.routers[i].neighbor].addr = a})

\* new: the entry for the router's address and the state with it.
RouterIn(new) ==
    LET empty == {i \in DOMAIN new.s.routers : new.s.routers[i].neighbor = NULL}
    IN IF new.r = 0 THEN new
       ELSE IF empty = {}
       THEN [s |-> [new.s EXCEPT !.neighbors[new.r].isrouter = FALSE], r |-> 0]
       ELSE [s |-> [new.s EXCEPT !.neighbors[new.r].isrouter = TRUE,
                                 !.routers[Least(empty)].neighbor = new.r],
             r |-> Least(empty)]

\* new: the result of nd6_new_neighbor_cache_entry, which becomes the entry e.
EntryUsed(new, e) == IF new.r = 0 THEN new ELSE [new EXCEPT !.s.neighbors[new.r] = e]

nd6_new_router(t, a) ==
    LET known == nd6_find_neighbor_cache_entry(t, a)
        entry == [addr |-> a, state |-> "INCOMPLETE", isrouter |-> FALSE, counter |-> 0]
    IN RouterIn(IF known # 0 THEN [s |-> t, r |-> known]
                ELSE EntryUsed(nd6_new_neighbor_cache_entry(t), entry))

nd6_get_onlink_prefix(t, a) ==
    LeastOrNone({i \in DOMAIN t.prefixes :
        t.prefixes[i].used /\ ip6_addr_netcmp(t.prefixes[i].prefix, a)})

nd6_new_onlink_prefix(t, a) ==
    LET i == LeastOrNone({j \in DOMAIN t.prefixes :
                            ~t.prefixes[j].used \/ t.prefixes[j].life = 0})
    IN [s |-> IF i = 0 THEN t
              ELSE [t EXCEPT !.prefixes[i].used = TRUE, !.prefixes[i].prefix = a],
        r |-> i]

-----------------------------------------------------------------------------
(* Messages.  m is the message of p, its first block the header; src and   *)
(* dst are the addresses of its packet.  Every way out of the handlers     *)
(* frees p: nd6_input does it here.                                        *)

\* Neighbor Advertisement: one to a group was not asked for.
NeighborAdvertisement(t, p, m, dst) ==
    LET target == m[1].target
        mine == {i \in DOMAIN t.addr6 : t.addr6[i].a = target}
        i == nd6_find_neighbor_cache_entry(t, target)
        long == t.pb[p].len >= ICMP6_HLEN + LLADDR_LEN
        t1 == [t EXCEPT !.neighbors[i].counter = t.reachable_time]
    IN IF ip6_addr_ismulticast(dst)
       THEN IF long /\ mine # {} THEN [t EXCEPT !.addr6[Least(mine)].state = "INVALID"] ELSE t
       ELSE IF i = 0 THEN t
       ELSE IF (m[1].override \/ t.neighbors[i].state = "INCOMPLETE") /\ ~long THEN t1
       ELSE [t1 EXCEPT !.neighbors[i].state = "REACHABLE"]

\* The sender checks whether the address is taken (its own is still ANY).
DuplicateCheck(t, target) ==
    FoldLeft(LAMBDA u, i :
                IF u.addr6[i].a # target THEN u
                ELSE LET sent == nd6_send_na(u, target, AllNodes, FALSE)
                     IN IF ip6_addr_istentative(u.addr6[i].state)
                        THEN [sent EXCEPT !.addr6[i].state = "INVALID"] ELSE sent,
             t, [i \in DOMAIN t.addr6 |-> i])

Delayed(addr) ==
    [addr |-> addr, state |-> "DELAY", isrouter |-> FALSE,
     counter |-> LWIP_ND6_DELAY_FIRST_PROBE_TIME]

\* The sender of an address that is known to be on the link.
Heard(t, src) ==
    LET i == nd6_find_neighbor_cache_entry(t, src)
    IN IF i # 0 /\ t.neighbors[i].state = "INCOMPLETE"
       THEN [s |-> [t EXCEPT !.neighbors[i].state = "DELAY",
                             !.neighbors[i].counter = LWIP_ND6_DELAY_FIRST_PROBE_TIME],
             r |-> i]
       ELSE IF i # 0 THEN [s |-> t, r |-> i]
       ELSE EntryUsed(nd6_new_neighbor_cache_entry(t), Delayed(src))

\* heard: the entry of the sender and the state with it.
AnsweredTo(heard, target, src) ==
    IF heard.r = 0 THEN heard.s ELSE nd6_send_na(heard.s, target, src, TRUE)

NeighborSolicitation(t, p, m, src) ==
    LET target == m[1].target
        accepted == \E i \in DOMAIN t.addr6 :
                        /\ t.addr6[i].a = target
                        /\ \/ ip6_addr_isvalid(t.addr6[i].state)
                           \/ ip6_addr_istentative(t.addr6[i].state) /\ ip6_addr_isany(src)
        long == t.pb[p].len >= ICMP6_HLEN + LLADDR_LEN
    IN IF ~accepted THEN t
       ELSE IF ip6_addr_isany(src) THEN DuplicateCheck(t, target)
       ELSE IF ~long THEN t
       ELSE AnsweredTo(Heard(t, src), target, src)

\* The value of an MTU option in the byte order of the packet, which the code
\* compares with 1280 and stores as a u16_t on a little-endian machine.
MtuStored(mtu, old) ==
    LET byte == [k \in 1..4 |-> (mtu \div 256 ^ (4 - k)) % 256]
        low == byte[2] * 256 + byte[1]
    IN IF byte[4] > 0 \/ byte[3] > 0 \/ low >= 1280 THEN low ELSE old

\* One option of a router advertisement.  x.i is the router's place until a
\* prefix is found: then it is the place of the prefix (the code has one
\* variable for both), which is the router that a later option is about.
\* Past the end of the list of routers, of which the code has fewer than of
\* prefixes, the model has no router.
RouterOption(x, o) ==
    LET t == x.s
        n == IF x.i \in DOMAIN t.routers THEN t.routers[x.i].neighbor ELSE NULL
        known == nd6_get_onlink_prefix(t, o.prefix)
        new == nd6_new_onlink_prefix(t, o.prefix)
        i == IF known # 0 THEN known ELSE new.r
        t1 == IF known # 0 THEN t ELSE new.s
    IN CASE o.opt = "SOURCE_LLADDR" ->
              IF n # NULL /\ t.neighbors[n].state = "INCOMPLETE"
              THEN [x EXCEPT !.s.neighbors[n].state = "REACHABLE",
                             !.s.neighbors[n].counter = t.reachable_time]
              ELSE x
         [] o.opt = "MTU" -> [x EXCEPT !.s.mtu = MtuStored(o.mtu, @)]
         [] o.opt = "PREFIX_INFO" /\ o.onlink ->
              [s |-> IF i = 0 THEN t1 ELSE [t1 EXCEPT !.prefixes[i].life = o.life], i |-> i]
         [] OTHER -> x

\* found: the router's place and the state with it.
FromRouter(found, m) ==
    LET t == [found.s EXCEPT !.routers[found.r].life = m[1].life,
                             !.reachable_time = IF m[1].reachable > 0 THEN m[1].reachable ELSE @]
    IN IF found.r = 0 THEN found.s
       ELSE FoldLeft(RouterOption, [s |-> t, i |-> found.r], Tail(m)).s

RouterAdvertisement(t, m, src) ==
    LET known == nd6_get_router(t, src)
    IN FromRouter(IF known # 0 THEN [s |-> t, r |-> known] ELSE nd6_new_router(t, src), m)

\* Redirect and Packet too big are about entries of destination_cache, which
\* has none: they are dropped.
nd6_input(t, p, src, dst) ==
    LET m == PacketOf(t.pb, p)
        done == CASE m[1].type = "NA" -> NeighborAdvertisement(t, p, m, dst)
                  [] m[1].type = "NS" -> NeighborSolicitation(t, p, m, src)
                  [] m[1].type = "RA" -> RouterAdvertisement(t, m, src)
                  [] m[1].type \in {"RD", "PTB"} -> t
    IN pbuf_free(done, p)

-----------------------------------------------------------------------------
(* ICMPv6. *)

Echo6(t, p, src, dst) ==
    LET r == pbuf_alloc(t, "IP", t.pb[p].tot, "RAM")
        copy == pbuf_copy(r.s, r.r, p)
        reply == [Payload(copy.pb[r.r]) EXCEPT ![1].type = "EREP"]
        full == TakeFrom(copy, r.r, Summed(reply, dst, src))
    IN IF r.r = NULL THEN t
       ELSE pbuf_free(ip6_output_if(full, r.r, dst, src, "ICMP6"), r.r)

icmp6_input(t, p, src, dst) ==
    LET m == PacketOf(t.pb, p)
        type == m[1].type
    IN IF t.pb[p].len < ICMP6_HLEN \/ ip6_chksum_pseudo(m, src, dst) # 0 THEN pbuf_free(t, p)
       ELSE IF type \in {"NA", "NS", "RA", "RD", "PTB"} THEN nd6_input(t, p, src, dst)
       ELSE IF type = "EREQ" /\ ~ip6_addr_ismulticast(dst) THEN pbuf_free(Echo6(t, p, src, dst), p)
       ELSE pbuf_free(t, p)

=============================================================================
