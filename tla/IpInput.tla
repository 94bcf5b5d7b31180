------------------------------ MODULE IpInput ------------------------------
(***************************************************************************)
(* An IPv4 packet from the device on its way up: ip_input (ip4.c) and the  *)
(* reassembly of fragments (ip_frag.c).                                    *)
(***************************************************************************)
EXTENDS Ip

-----------------------------------------------------------------------------
(* Reassembly.  A datagram is known by its place in s.reass, 0 is none. *)

SameDatagram(a, b) == a.src = b.src /\ a.dst = b.dst /\ a.id = b.id

\* The helper over the header of a fragment.
Helper(t, p) == IF p = NULL THEN [next |-> NULL, start |-> 0, end |-> 0] ELSE IpHeader(t, p)

RECURSIVE FragmentsFrom(_, _)
FragmentsFrom(t, p) == IF p = NULL THEN <<>> ELSE <<p>> \o FragmentsFrom(t, Helper(t, p).next)

RECURSIVE FreeFragments(_, _)
FreeFragments(t, p) ==
    IF p = NULL THEN t ELSE FreeFragments(pbuf_free(t, p), Helper(t, p).next)

ClenOf(t, p) ==
    FoldLeft(LAMBDA n, q : n + pbuf_clen(t, q), 0, FragmentsFrom(t, p))

ip_reass_dequeue_datagram(t, i, prev) ==
    [LWIP_ASSERT(t, "sanity check linked list", i = 1 \/ prev # 0)
        EXCEPT !.reass = RemoveAt(@, i), !.mem = @ + 1]

\* The first fragment was received: time exceeded.
TimeExceeded(t, ipr) ==
    pbuf_free(icmp_time_exceeded(PutBlock(t, ipr.p, ipr.iphdr), ipr.p), ipr.p)

\* r: how many pbufs were freed.
ip_reass_free_complete_datagram(t, i, prev) ==
    LET ipr == t.reass[i]
        t1 == LWIP_ASSERT(LWIP_ASSERT(t, "prev != ipr", prev # i),
                          "prev->next == ipr", prev = 0 \/ prev + 1 = i)
        first == Helper(t, ipr.p)
        freed == ClenOf(t, ipr.p)
        t2 == LWIP_ASSERT(
                  ip_reass_dequeue_datagram(
                      IF first.start = 0 THEN FreeFragments(TimeExceeded(t1, ipr), first.next)
                      ELSE FreeFragments(t1, ipr.p), i, prev),
                  "ip_reass_pbufcount >= clen", t.count >= freed)
    IN IF t1.bad # {} THEN [s |-> t1, r |-> 0]
       ELSE [s |-> [t2 EXCEPT !.count = @ - freed], r |-> freed]

\* Nothing decrements the timers (ip_reass_tmr has no caller), so of the
\* other datagrams the last in the list is the oldest.  prev is the last
\* datagram with a successor, whichever is the oldest.
RECURSIVE RemoveOldest(_, _, _, _)
\* one: the result for the oldest of n datagrams of others.
RemovedOne(one, n, fraghdr, needed, freed) ==
    LET total == freed + one.r
    IN IF one.s.bad = {} /\ total < needed /\ n > 1
       THEN RemoveOldest(one.s, fraghdr, needed, total)
       ELSE [s |-> one.s, r |-> total]

RemoveOldest(t, fraghdr, needed, freed) ==
    LET n == Len(t.reass)
        others == {i \in 1..n : ~SameDatagram(t.reass[i].iphdr, fraghdr)}
        oldest == CHOOSE i \in others : \A j \in others : j <= i
    IN IF others = {} THEN [s |-> t, r |-> freed]
       ELSE RemovedOne(ip_reass_free_complete_datagram(t, oldest, n - 1), Cardinality(others),
                       fraghdr, needed, freed)

ip_reass_remove_oldest_datagram(t, fraghdr, needed) == RemoveOldest(t, fraghdr, needed, 0)

NewDatagram(t, fraghdr) ==
    LET new == [iphdr |-> fraghdr, p |-> NULL, last |-> FALSE, dlen |-> 0]
    IN [s |-> [t EXCEPT !.reass = <<new>> \o @, !.mem = @ - 1], r |-> TRUE]

\* freed: what was freed to make room.
EnqueueAfter(freed, fraghdr, clen) ==
    IF freed.r >= clen /\ freed.s.mem > 0 THEN NewDatagram(freed.s, fraghdr)
    ELSE [s |-> freed.s, r |-> FALSE]

\* r: whether there is a datagram for the fragment, the first of the list.
ip_reass_enqueue_new_datagram(t, fraghdr, clen) ==
    IF t.mem > 0 THEN NewDatagram(t, fraghdr)
    ELSE EnqueueAfter(ip_reass_remove_oldest_datagram(t, fraghdr, clen), fraghdr, clen)

(* Fault: holes are not looked for. *)
HolesIgnored(t, list) == TRUE

\* Whether each of the fragments ends where the next one starts.
Contiguous(t, list) ==
    \A k \in 1..Len(list) - 1 : Helper(t, list[k]).end = Helper(t, list[k + 1]).start

\* Puts the fragment p between the fragments before it and those after it.
\* r: whether the datagram is complete, as far as the code looks: it does not
\* look for a hole in front of a fragment that it puts between two others.
ip_reass_chain_frag_into_datagram_and_validate(t, i, p) ==
    LET h == IpHeader(t, p)
        list == FragmentsFrom(t, t.reass[i].p)
        new == [next |-> NULL, start |-> h.off, end |-> h.off + h.len - h.hl]
        before == SelectSeq(list, LAMBDA q : Helper(t, q).start <= new.start)
        after == SubSeq(list, Len(before) + 1, Len(list))
        overlaps == \/ \E k \in DOMAIN before : \/ Helper(t, before[k]).start = new.start
                                                \/ new.start < Helper(t, before[k]).end
                    \/ before # <<>> /\ after # <<>> /\ new.end > Helper(t, after[1]).start
        t1 == PutBlock(t, p, [new EXCEPT !.next = IF after = <<>> THEN NULL ELSE after[1]])
        t2 == IF before = <<>> THEN [t1 EXCEPT !.reass[i].p = p]
              ELSE PutBlock(t1, Last(before), [Helper(t, Last(before)) EXCEPT !.next = p])
        complete == /\ t.reass[i].last
                    /\ Contiguous(t2, IF after = <<>> THEN Append(before, p) ELSE before)
                    /\ Helper(t2, t2.reass[i].p).start = 0
                    /\ Contiguous(t2, <<p>> \o after)
        end == Last(<<p>> \o after)
    IN IF overlaps
       THEN [s |-> pbuf_free([t1 EXCEPT !.count = @ - pbuf_clen(t, p)], p), r |-> FALSE]
       ELSE IF ~complete THEN [s |-> t2, r |-> FALSE]
       ELSE [s |-> LWIP_ASSERT(LWIP_ASSERT(t2, "sanity check", t2.reass[i].p # end),
                       "validate_datagram:datagram end!=datagram len",
                       Helper(t2, end).end = t.reass[i].dlen),
             r |-> TRUE]

\* The fragments after the first, without their headers, behind the packet p.
RECURSIVE Join(_, _, _)
Join(t, p, r) ==
    IF r = NULL THEN t
    ELSE Join(pbuf_cat(pbuf_header(t, r, -IP_HLEN).s, p, r), p, Helper(t, r).next)


ip_reass_complete(t, i) ==
    LET ipr == t.reass[i]
        r == Helper(t, ipr.p).next
        t1 == PutBlock(t, ipr.p, [ipr.iphdr EXCEPT !.len = ipr.dlen + IP_HLEN, !.off = 0,
                                                   !.mf = FALSE, !.sum = "good"])
        t2 == ip_reass_dequeue_datagram(Join(t1, ipr.p, r), i, i - 1)
    IN [s |-> [t2 EXCEPT !.count = @ - pbuf_clen(t2, ipr.p)], r |-> ipr.p]

\* Until it completes its datagram, a fragment gives no packet.
Waits(t) == [s |-> t, r |-> NULL]

Dropped(t, p) == Waits(pbuf_free(t, p))

\* chained: the result for the fragment that was put into the datagram i.
CompleteOrWait(chained, i) ==
    IF chained.r THEN ip_reass_complete(chained.s, i) ELSE Waits(chained.s)

\* The fragment p, whose header is h, is part of the datagram i.
FragmentOf(t, i, p, h) ==
    LET t1 == [t EXCEPT !.count = @ + pbuf_clen(t, p),
                        !.reass[i] = IF h.mf THEN @
                                     ELSE [@ EXCEPT !.last = TRUE,
                                                    !.dlen = h.off + h.len - h.hl]]
    IN CompleteOrWait(ip_reass_chain_frag_into_datagram_and_validate(t1, i, p), i)

\* new: the result for the datagram of the first fragment that comes of it.
FirstFragment(new, p, h) ==
    IF new.r THEN FragmentOf(new.s, 1, p, h) ELSE Dropped(new.s, p)

\* The list has room for the fragment.
PutFragment(t, p, h) ==
    LET places == {i \in DOMAIN t.reass : SameDatagram(t.reass[i].iphdr, h)}
        i == CHOOSE j \in places : \A k \in places : j <= k
    IN IF places = {}
       THEN FirstFragment(ip_reass_enqueue_new_datagram(t, h, pbuf_clen(t, p)), p, h)
       ELSE FragmentOf(IF h.off = 0 /\ t.reass[i].iphdr.off # 0
                       THEN [t EXCEPT !.reass[i].iphdr = h] ELSE t, i, p, h)

Full(t, p) == t.count + pbuf_clen(t, p) > IP_REASS_MAX_PBUFS

\* freed: what was freed to make room; r is 0 if nothing had to be.
PutAfter(freed, needed, p, h) ==
    IF freed.s.bad # {} THEN Waits(freed.s)
    ELSE IF needed /\ (freed.r = 0 \/ Full(freed.s, p)) THEN Dropped(freed.s, p)
    ELSE PutFragment(freed.s, p, h)

\* r: the datagram, if the fragment p completes it.
ip_reass(t, p) ==
    LET h == IpHeader(t, p)
    IN IF h.hl # IP_HLEN THEN Dropped(t, p)
       ELSE PutAfter(IF Full(t, p) THEN ip_reass_remove_oldest_datagram(t, h, pbuf_clen(t, p))
                     ELSE [s |-> t, r |-> 0], Full(t, p), p, h)

-----------------------------------------------------------------------------
(* Input. *)

\* p, whose payload is an IP packet, on to the protocol above IP.
ToUpper(t, p) ==
    LET h == IpHeader(t, p)
        t1 == pbuf_header([t EXCEPT !.up = Append(@, PacketOf(t.pb, p))], p, -h.hl).s
        own == ~ip4_addr_isbroadcast(h.dst, Netif) /\ h.dst \notin Multicast
    IN CASE h.proto = "TCP"  -> pbuf_free(t1, p)
         [] h.proto = "ICMP" -> icmp_input(t1, p, h)
         [] OTHER -> pbuf_free(IF own THEN icmp_dest_unreach(pbuf_header(t1, p, h.hl).s, p)
                               ELSE t1, p)

Malformed(t, p, h) ==
    h.v # 4 \/ h.hl > t.pb[p].len \/ h.len > t.pb[p].tot \/ h.sum # "good"

\* The interface takes the packet: its address, or any with TCP.
ForUs(h) ==
    \/ /\ Netif.up
       /\ Netif.ip # AnyIp
       /\ h.dst = Netif.ip \/ ip4_addr_isbroadcast(h.dst, Netif)
    \/ Netif.pretend /\ h.proto = "TCP"

\* whole: the result of ip_reass.
WholeToUpper(whole) == IF whole.r = NULL THEN whole.s ELSE ToUpper(whole.s, whole.r)

ip_input(t, p) ==
    LET h == IpHeader(t, p)
        t1 == pbuf_realloc(t, p, h.len)
    IN IF Malformed(t, p, h) THEN pbuf_free(t, p)
       ELSE IF ip4_addr_isbroadcast(h.src, Netif) \/ h.src \in Multicast \/ ~ForUs(h)
       THEN pbuf_free(t1, p)
       ELSE WholeToUpper(IF h.off = 0 /\ ~h.mf THEN [s |-> t1, r |-> p] ELSE ip_reass(t1, p))

=============================================================================
