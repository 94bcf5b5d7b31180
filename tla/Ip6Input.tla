------------------------------ MODULE Ip6Input ------------------------------
(***************************************************************************)
(* An IPv6 packet from the device on its way up: ip6_input (ip6.c) and the *)
(* reassembly of fragments (ip6_frag.c).                                   *)
(*                                                                         *)
(* A datagram of s.reass6 is [src, dst, id, nexth, hdr, at, p, dlen]: hdr  *)
(* is the pbuf iphdr points into and at the place of the header in it.     *)
(* While a fragment waits, a struct ip6_reass_helper lies over its Fragment*)
(* Header; where a pointer has eight bytes the helper is four bytes longer *)
(* than the header, and the block after it is torn.  The code has no       *)
(* assertion for the two places where it goes on with a datagram that was  *)
(* freed to make room; the model stops there as if it had.                 *)
(***************************************************************************)
EXTENDS IpInput, Nd6

CONSTANT BlockUnits  \* how many units of eight bytes a block of data stands for

-----------------------------------------------------------------------------
(* Reassembly. *)

Key(ipr) == <<ipr.src, ipr.dst, ipr.id>>

PlaceOf(t, key) == LeastOrNone({i \in DOMAIN t.reass6 : Key(t.reass6[i]) = key})

ip6_reass_free_complete_datagram(t, i) ==
    LET ipr == t.reass6[i]
        first == Helper(t, ipr.p)
        back == pbuf_header(t, ipr.p, t.pb[ipr.p].off - ipr.at)
        answered == pbuf_free(icmp6_time_exceeded(back.s, ipr.p), ipr.p)
        rest == IF first.start # 0 THEN FreeFragments(t, ipr.p)
                ELSE FreeFragments(LWIP_ASSERT(answered, "moving p->payload to ip6 header", ~back.r),
                                   first.next)
        freed == ClenOf(t, ipr.p)
    IN [LWIP_ASSERT(rest, "ip_reass_pbufcount >= clen", t.count6 >= freed)
            EXCEPT !.reass6 = RemoveAt(@, i), !.count6 = @ - freed, !.mem = @ + 1]

\* Nothing decrements the timers (ip6_reass_tmr has no caller), so the last of
\* the other datagrams is the oldest; without others it is the one of key.
RECURSIVE ip6_reass_remove_oldest_datagram(_, _, _)
MoreRoom(t, key, needed) ==
    IF t.count6 + needed > IP_REASS_MAX_PBUFS /\ t.reass6 # <<>>
    THEN ip6_reass_remove_oldest_datagram(t, key, needed)
    ELSE t

ip6_reass_remove_oldest_datagram(t, key, needed) ==
    LET others == {i \in DOMAIN t.reass6 : Key(t.reass6[i]) # key}
        oldest == IF others = {} THEN 1 ELSE CHOOSE i \in others : \A j \in others : j <= i
    IN MoreRoom(IF t.reass6 = <<>> THEN t ELSE ip6_reass_free_complete_datagram(t, oldest),
                key, needed)

Full6(t, clen) == t.count6 + clen > IP_REASS_MAX_PBUFS

\* t: the state in which as many datagrams were freed as can be.
DatagramKept(t, key, clen) ==
    [s |-> LWIP_ASSERT(t, "the datagram is not freed", PlaceOf(t, key) # 0),
     r |-> ~Full6(t, clen)]

DatagramIn(t, key, clen) ==
    DatagramKept(IF Full6(t, clen) THEN ip6_reass_remove_oldest_datagram(t, key, clen) ELSE t,
                 key, clen)

\* t: the state in which there is memory for a new datagram, if at all.
NewDatagram6(t, new, clen) ==
    IF t.mem = 0 THEN [s |-> t, r |-> FALSE]
    ELSE DatagramIn([t EXCEPT !.reass6 = <<new>> \o @, !.mem = @ - 1], Key(new), clen)

\* r: whether there is a datagram for the fragment f of the packet of p, whose
\* header h is at the place at, and no more pbufs wait than may.
DatagramFor(t, p, f, h, at) ==
    LET clen == pbuf_clen(t, p)
        new == [src |-> h.src, dst |-> h.dst, id |-> f.id, nexth |-> f.nexth, hdr |-> p,
                at |-> at, p |-> NULL, dlen |-> 0]
    IN IF PlaceOf(t, Key(new)) # 0 THEN DatagramIn(t, Key(new), clen)
       ELSE NewDatagram6(IF t.mem > 0 THEN t ELSE ip6_reass_remove_oldest_datagram(t, <<>>, clen),
                         new, clen)

\* The helper over the Fragment Header of p.
PutHelper(t, p, helper) ==
    LET b == t.pb[p]
        torn == IF t.pointer = 8 /\ b.len > 1 /\ "start" \notin DOMAIN Payload(b)[1]
                THEN <<[torn |-> Payload(b)[2]]>> ELSE <<>>
    IN [t EXCEPT !.pb[p] = Written(b, 0, <<helper>> \o torn)]

LinkTo(t, prev, p) == PutHelper(t, prev, [Helper(t, prev) EXCEPT !.next = p])

\* Puts the fragment p into the datagram i.  r: whether the datagram is
\* complete, as far as the code looks: it does not look for a hole in front of
\* a fragment that it puts between two others.
InsertFragment(t, i, p, f, at, len) ==
    LET list == FragmentsFrom(t, t.reass6[i].p)
        new == [next |-> NULL, start |-> f.off, end |-> f.off + len]
        before == SelectSeq(list, LAMBDA q : Helper(t, q).start <= new.start)
        after == SubSeq(list, Len(before) + 1, Len(list))
        overlaps == \/ \E k \in DOMAIN before : \/ Helper(t, before[k]).start = new.start
                                                \/ new.start < Helper(t, before[k]).end
                    \/ after # <<>> /\ new.end > Helper(t, after[1]).start
        t1 == PutHelper(t, p, [new EXCEPT !.next = IF after = <<>> THEN NULL ELSE after[1]])
        t2 == IF before = <<>> THEN [t1 EXCEPT !.reass6[i].p = p]
              ELSE LinkTo(t1, Last(before), p)
        t3 == [t2 EXCEPT !.count6 = @ + pbuf_clen(t, p),
                         !.reass6[i].hdr = IF new.start = 0 THEN p ELSE @,
                         !.reass6[i].at = IF new.start = 0 THEN at ELSE @,
                         !.reass6[i].dlen = IF f.mf THEN @ ELSE new.end]
        complete == /\ Contiguous(t3, IF after = <<>> THEN Append(before, p) ELSE before)
                    /\ Helper(t3, t3.reass6[i].p).start = 0
                    /\ t3.reass6[i].dlen # 0
                    /\ Contiguous(t3, <<p>> \o after)
    IN IF overlaps THEN [s |-> pbuf_free(t1, p), r |-> FALSE] ELSE [s |-> t3, r |-> complete]

\* The fragments from r on, without their Fragment Headers, behind p.
JoinFragments(t, p, r) ==
    FoldLeft(LAMBDA u, q : pbuf_cat(pbuf_header(u, q, -IP6_FRAG_HLEN).s, p, q),
             t, FragmentsFrom(t, r))

\* r: the packet, from its IPv6 header on.  prev is the datagram in front of
\* it when it was looked up: the list is repaired there.
CompleteDatagram(t, i, prev) ==
    LET ipr == t.reass6[i]
        p == ipr.p
        f == [nexth |-> ipr.nexth, off |-> 0, mf |-> FALSE, id |-> 0]
        t1 == PutBlock(JoinFragments(t, p, Helper(t, p).next), p, f)
        before == t.pb[p].off - ipr.at
        h == [t1.pb[p].buf[ipr.at + 1] EXCEPT !.plen =
                 ipr.dlen + before + IP6_FRAG_HLEN - IP6_HLEN]
        t2 == [t1 EXCEPT !.pb[p] = Written(@, -before, <<h>>),
                         !.reass6 = RemoveAt(@, i), !.mem = @ + 1,
                         !.count6 = @ - pbuf_clen(t1, p)]
        back == pbuf_header(t2, p, before)
        linked == i = 1 \/ Key(t.reass6[i - 1]) = prev
    IN [s |-> LWIP_ASSERT(LWIP_ASSERT(back.s, "moving p->payload to ip6 header", ~back.r),
                          "a valid 'prev'", linked),
        r |-> p]

\* inserted: the result for the fragment put into the datagram i.
CompleteOrWait6(inserted, i, prev) ==
    IF inserted.r THEN CompleteDatagram(inserted.s, i, prev) ELSE Waits(inserted.s)

\* place: the result of looking for the datagram.
PutFragment6(place, p, f, h, at, prev) ==
    LET b == place.s.pb[p]
        len == h.plen - (b.off - at - IP6_HLEN) - IP6_FRAG_HLEN
        i == PlaceOf(place.s, <<h.src, h.dst, f.id>>)
    IN IF place.s.bad # {} THEN Waits(place.s)
       ELSE IF ~place.r THEN Dropped(place.s, p)
       ELSE CompleteOrWait6(InsertFragment(place.s, i, p, f, at, len), i, prev)

\* p's payload is the Fragment Header, the IPv6 header is at the place at.
ip6_reass(t, p, at) ==
    LET f == Payload(t.pb[p])[1]
        h == t.pb[p].buf[at + 1]
        i == PlaceOf(t, <<h.src, h.dst, f.id>>)
    IN PutFragment6(DatagramFor(t, p, f, h, at), p, f, h, at,
                    IF i > 1 THEN Key(t.reass6[i - 1]) ELSE <<>>)

-----------------------------------------------------------------------------
(* Input. *)

\* The test for offset and flag, on the field in the byte order of the packet
\* on a little-endian machine: IP6_FRAG_OFFSET_MASK and IP6_FRAG_MORE_FLAG see
\* other bits than they mean.
OneFragment(f) ==
    LET field == f.off * BlockUnits * 8 + (IF f.mf THEN 1 ELSE 0)
        seen == (field % 256) * 256 + field \div 256
    IN seen \div 8 = 0 /\ seen % 2 = 0

\* What follows the IPv6 header at the place at, from the header of the kind
\* nexth at p's payload on.  r is NULL if the packet was dropped or waits, tot
\* the length of the headers.
RECURSIVE ExtensionHeaders(_, _, _, _)
\* whole: the result of ip6_reass.
HeadersOfWhole(whole) ==
    IF whole.r = NULL THEN whole
    ELSE ExtensionHeaders(pbuf_header(whole.s, whole.r, -IP6_HLEN).s, whole.r,
                          whole.s.pb[whole.r].off, IpHeader(whole.s, whole.r).nexth)

ExtensionHeaders(t, p, at, nexth) ==
    LET b == t.pb[p]
        x == Payload(b)[1]
        hlen == IF nexth = "FRAGMENT" THEN IP6_FRAG_HLEN ELSE 1 + x.hlen
    IN IF nexth \notin {"HOPBYHOP", "DESTOPTS", "ROUTING", "FRAGMENT"}
       THEN [s |-> t, r |-> p, nexth |-> nexth, tot |-> b.off - at]
       ELSE IF b.len = 0 \/ hlen > b.len THEN Dropped(t, p)
       ELSE IF nexth # "FRAGMENT" \/ OneFragment(x)
       THEN ExtensionHeaders(pbuf_header(t, p, -hlen).s, p, at, x.nexth)
       ELSE HeadersOfWhole(ip6_reass(t, p, at))

\* The interface takes the packet: one of its addresses or groups, or any with TCP.
ForUs6(t, h) ==
    LET own == {t.addr6[i].a : i \in ValidPlaces(t)}
    IN \/ ip6_addr_isallnodes(h.dst)
       \/ ip6_addr_issolicitednode(h.dst) /\ \E a \in own : h.dst = SolicitedNode(a)
       \/ ~ip6_addr_ismulticast(h.dst) /\ Netif.up /\ h.dst \in own
       \/ Netif.pretend /\ h.nexth = "TCP"

\* p's payload is what follows the headers.
ToUpper6(t, p, nexth, tot, h) ==
    LET packet == PacketOf(pbuf_header(t, p, tot).s.pb, p)
        t1 == [t EXCEPT !.up = Append(@, packet)]
    IN CASE nexth = "NONE"  -> pbuf_free(t, p)
         [] nexth = "TCP"   -> pbuf_free(t1, p)
         [] nexth = "ICMP6" -> icmp6_input(t1, p, h.src, h.dst)
         [] OTHER -> pbuf_free(IF ip6_addr_ismulticast(h.dst) \/ packet[1].nexth = "ICMP6" THEN t1
                               ELSE icmp6_param_problem(pbuf_header(t1, p, tot).s, p, h.src), p)

\* x: the result of ExtensionHeaders.
HeadersToUpper(x, h) ==
    IF x.r = NULL THEN x.s ELSE ToUpper6(x.s, x.r, x.nexth, x.tot, h)

ip6_input(t, p) ==
    LET h == IpHeader(t, p)
        t1 == pbuf_realloc(t, p, IP6_HLEN + h.plen)
    IN IF h.v # 6 \/ IP6_HLEN > t.pb[p].len \/ h.plen + IP6_HLEN > t.pb[p].tot
       THEN pbuf_free(t, p)
       ELSE IF ip6_addr_isany(h.src) /\ ~ip6_addr_issolicitednode(h.dst) THEN pbuf_free(t1, p)
       ELSE IF ~ForUs6(t, h) THEN pbuf_free(t1, p)
       ELSE HeadersToUpper(ExtensionHeaders(pbuf_header(t1, p, -IP6_HLEN).s, p, t.pb[p].off,
                                            h.nexth), h)

=============================================================================
