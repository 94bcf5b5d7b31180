-------------------------------- MODULE Pbuf --------------------------------
(***************************************************************************)
(* lwIP's packet buffers (tun2socks/lwip/src/core/pbuf.c).                 *)
(*                                                                         *)
(* A pbuf is a buffer buf of units (bytes, or blocks of them, as the user  *)
(* of the module likes), of which the len units after off are its payload; *)
(* next chains pbufs into a packet, tot is the length of the packet from   *)
(* here to its end, ref counts the pointers to the pbuf.  The state s of   *)
(* the functions has at least                                              *)
(*   pb    the pbufs that are allocated, by address,                       *)
(*   mem   how many more allocations succeed,                              *)
(*   bad   the assertions that failed: the first of them ends the program. *)
(***************************************************************************)
EXTENDS Integers, Sequences, FiniteSets, TLC

CONSTANTS PoolSize,      \* PBUF_POOL_BUFSIZE
          LinkRoom, IpRoom, TransportRoom,  \* the headers' sizes
          Garbage        \* what a buffer holds that nothing was written to

NULL == 0

LeastOf(a, b) == IF a < b THEN a ELSE b

LWIP_ASSERT(s, name, holds) == IF holds THEN s ELSE [s EXCEPT !.bad = @ \cup {name}]

\* The payload of one pbuf.
Payload(b) == SubSeq(b.buf, b.off + 1, b.off + b.len)

\* The units data written at the offset at of the payload.
Written(b, at, data) ==
    [b EXCEPT !.buf = [i \in DOMAIN @ |->
        IF i - b.off - at \in DOMAIN data THEN data[i - b.off - at] ELSE @[i]]]

RECURSIVE ChainOf(_, _), PacketOf(_, _)

\* The pbufs of a packet, and its units.
ChainOf(pb, p) == IF p = NULL THEN <<>> ELSE <<p>> \o ChainOf(pb, pb[p].next)
PacketOf(pb, p) == IF p = NULL THEN <<>> ELSE Payload(pb[p]) \o PacketOf(pb, pb[p].next)

-----------------------------------------------------------------------------
(* Allocation.  The result of the functions that return a value is the     *)
(* state s and the value r.                                                *)

LayerOffset(layer) ==
    CASE layer = "TRANSPORT" -> LinkRoom + IpRoom + TransportRoom
      [] layer = "IP"        -> LinkRoom + IpRoom
      [] layer = "LINK"      -> LinkRoom
      [] layer = "RAW"       -> 0

NewPbuf(type, size, off, len, tot) ==
    [type |-> type, next |-> NULL, ref |-> 1, off |-> off, len |-> len, tot |-> tot,
     buf |-> [i \in 1..size |-> Garbage]]

\* memp_malloc and mem_malloc (external: malloc).
Malloc(s, b) ==
    IF s.mem = 0 THEN [s |-> s, r |-> NULL]
    ELSE LET a == CHOOSE i \in 1..Cardinality(DOMAIN s.pb) + 1 : i \notin DOMAIN s.pb
         IN [s |-> [s EXCEPT !.pb = [i \in DOMAIN @ \cup {a} |-> IF i = a THEN b ELSE @[i]],
                             !.mem = @ - 1],
             r |-> a]

\* Returns the state and how many pbufs were deallocated.
RECURSIVE pbuf_free_count(_, _)
pbuf_free_count(s, p) ==
    IF p = NULL THEN [s |-> s, r |-> 0]
    ELSE IF p \notin DOMAIN s.pb \/ s.pb[p].ref = 0
    THEN [s |-> LWIP_ASSERT(s, "pbuf_free: p->ref > 0", FALSE), r |-> 0]
    ELSE IF s.pb[p].ref > 1 THEN [s |-> [s EXCEPT !.pb[p].ref = @ - 1], r |-> 0]
    ELSE LET rest == pbuf_free_count(
                        [s EXCEPT !.pb = [a \in DOMAIN s.pb \ {p} |-> s.pb[a]]], s.pb[p].next)
         IN [rest EXCEPT !.r = @ + 1]

pbuf_free(s, p) ==
    pbuf_free_count(LWIP_ASSERT(s, "pbuf_free: p != NULL", p # NULL), p).s

\* The pbufs after r, for the rest of a packet whose first pbuf is head.
RECURSIVE PoolTail(_, _, _, _)
\* q: the result of the allocation of the pbuf behind r.
PoolNext(q, head, r, rem_len, len) ==
    IF q.r = NULL THEN [s |-> pbuf_free(q.s, head), r |-> NULL]
    ELSE PoolTail([q.s EXCEPT !.pb[r].next = q.r], head, q.r, rem_len - len)

PoolTail(s, head, r, rem_len) ==
    LET len == LeastOf(rem_len, PoolSize)
    IN IF rem_len <= 0 THEN [s |-> s, r |-> head]
       ELSE PoolNext(Malloc(s, NewPbuf("POOL", PoolSize, 0, len, rem_len)), head, r, rem_len, len)

PoolRest(p, rem_len) == IF p.r = NULL THEN p ELSE PoolTail(p.s, p.r, p.r, rem_len)

pbuf_alloc(s, layer, length, type) ==
    LET offset == LayerOffset(layer)
        first == LeastOf(length, PoolSize - offset)
    IN CASE type = "POOL" ->
              PoolRest(Malloc(s, NewPbuf(type, PoolSize, offset, first, length)), length - first)
         [] type = "RAM" -> Malloc(s, NewPbuf(type, offset + length, offset, length, length))
         [] type = "REF" -> Malloc(s, NewPbuf(type, length, 0, length, length))

-----------------------------------------------------------------------------
(* The shape of a packet. *)

RECURSIVE ReallocFrom(_, _, _, _)
ReallocFrom(s, q, rem_len, grow) ==
    LET b == s.pb[q] IN
    IF rem_len > b.len
    THEN IF b.next = NULL THEN LWIP_ASSERT(s, "pbuf_realloc: q != NULL", FALSE)
         ELSE ReallocFrom([s EXCEPT !.pb[q].tot = @ + grow], b.next, rem_len - b.len, grow)
    ELSE LET cut == [s EXCEPT !.pb[q].len = rem_len, !.pb[q].tot = rem_len,
                              !.pb[q].next = NULL]
         IN IF b.next = NULL THEN cut ELSE pbuf_free(cut, b.next)

pbuf_realloc(s, p, new_len) ==
    IF new_len >= s.pb[p].tot THEN s ELSE ReallocFrom(s, p, new_len, new_len - s.pb[p].tot)

\* r: whether it failed.
pbuf_header(s, p, increment) ==
    LET b == s.pb[p]
        moved == [s EXCEPT !.pb[p].off = @ - increment, !.pb[p].len = @ + increment,
                           !.pb[p].tot = @ + increment]
    IN IF increment < 0 /\ -increment > b.len
       THEN [s |-> LWIP_ASSERT(s, "increment_magnitude <= p->len", FALSE), r |-> TRUE]
       ELSE IF (IF b.type \in {"RAM", "POOL"} THEN b.off - increment >= 0 ELSE increment <= 0)
       THEN [s |-> moved, r |-> FALSE]
       ELSE [s |-> s, r |-> TRUE]

pbuf_clen(s, p) == Len(ChainOf(s.pb, p))

pbuf_ref(s, p) == [s EXCEPT !.pb[p].ref = @ + 1]

(* Fault: only the first pbuf learns that the packet has grown. *)
CatFirstOnly(s, h, t) ==
    LET chain == ChainOf(s.pb, h)
        last == chain[Len(chain)]
    IN [s EXCEPT !.pb = [a \in DOMAIN @ |->
            IF a = last THEN [@[a] EXCEPT !.next = t, !.tot = @ + s.pb[t].tot]
            ELSE IF a = h THEN [@[a] EXCEPT !.tot = @ + s.pb[t].tot]
            ELSE @[a]]]

pbuf_cat(s, h, t) ==
    LET chain == ChainOf(s.pb, h)
        last == chain[Len(chain)]
    IN LWIP_ASSERT([s EXCEPT !.pb = [a \in DOMAIN @ |->
            IF a = last THEN [@[a] EXCEPT !.next = t, !.tot = @ + s.pb[t].tot]
            ELSE IF \E i \in DOMAIN chain : chain[i] = a
            THEN [@[a] EXCEPT !.tot = @ + s.pb[t].tot]
            ELSE @[a]]],
        "p->tot_len == p->len (of last pbuf in chain)", s.pb[last].tot = s.pb[last].len)

pbuf_chain(s, h, t) == pbuf_ref(pbuf_cat(s, h, t), t)

\* r: the rest of the packet, if something still refers to it.
pbuf_dechain(s, p) ==
    LET q == s.pb[p].next
        rest == s.pb[p].tot - s.pb[p].len
        cut == [LWIP_ASSERT(s, "p->tot_len == p->len + q->tot_len", s.pb[q].tot = rest)
                    EXCEPT !.pb[q].tot = rest, !.pb[p].next = NULL,
                           !.pb[p].tot = s.pb[p].len]
        freed == pbuf_free_count(cut, q)
    IN IF q = NULL
       THEN [s |-> LWIP_ASSERT(s, "p->tot_len == p->len", s.pb[p].tot = s.pb[p].len), r |-> NULL]
       ELSE [s |-> freed.s, r |-> IF freed.r > 0 THEN NULL ELSE q]

-----------------------------------------------------------------------------
(* Its contents. *)

\* From the offset o1 of the pbuf p1 on, what p2 holds from its offset o2 on.
RECURSIVE CopyFrom(_, _, _, _, _)
CopyFrom(s, p1, o1, p2, o2) ==
    LET to == s.pb[p1]
        from == s.pb[p2]
        len == LeastOf(to.len - o1, from.len - o2)
        done == [s EXCEPT !.pb[p1] = Written(@, o1, SubSeq(Payload(from), o2 + 1, o2 + len))]
        n2 == IF o2 + len >= from.len THEN from.next ELSE p2
        n1 == IF o1 + len = to.len THEN to.next ELSE p1
        queue(p) == p # NULL /\ s.pb[p].len = s.pb[p].tot /\ s.pb[p].next # NULL
    IN IF n1 = NULL /\ n2 # NULL
       THEN LWIP_ASSERT(done, "p_to != NULL", FALSE)
       ELSE IF queue(n1) \/ queue(n2)
       THEN LWIP_ASSERT(done, "pbuf_copy() does not allow packet queues!", FALSE)
       ELSE IF n2 = NULL THEN done
       ELSE CopyFrom(done, n1, IF n1 = p1 THEN o1 + len ELSE 0,
                           n2, IF n2 = p2 THEN o2 + len ELSE 0)

pbuf_copy(s, p_to, p_from) ==
    IF s.pb[p_to].tot < s.pb[p_from].tot
    THEN LWIP_ASSERT(s, "pbuf_copy: target not big enough to hold source", FALSE)
    ELSE CopyFrom(s, p_to, 0, p_from, 0)

\* The units copied.
RECURSIVE pbuf_copy_partial(_, _, _, _)
pbuf_copy_partial(s, p, len, offset) ==
    IF len = 0 \/ p = NULL THEN <<>>
    ELSE LET b == s.pb[p] IN
         IF offset # 0 /\ offset >= b.len THEN pbuf_copy_partial(s, b.next, len, offset - b.len)
         ELSE LET n == LeastOf(b.len - offset, len)
              IN SubSeq(Payload(b), offset + 1, offset + n)
                    \o pbuf_copy_partial(s, b.next, len - n, 0)

RECURSIVE TakeFrom(_, _, _)
TakeFrom(s, p, data) ==
    IF data = <<>> THEN s
    ELSE IF p = NULL THEN LWIP_ASSERT(s, "pbuf_take: invalid pbuf", FALSE)
    ELSE LET n == LeastOf(Len(data), s.pb[p].len)
         IN TakeFrom([s EXCEPT !.pb[p] = Written(@, 0, SubSeq(data, 1, n))], s.pb[p].next,
                     SubSeq(data, n + 1, Len(data)))

\* r: whether the data fit.
pbuf_take(s, p, data) ==
    IF s.pb[p].tot < Len(data) THEN [s |-> s, r |-> FALSE]
    ELSE [s |-> TakeFrom(s, p, data), r |-> TRUE]

\* r: the one pbuf that the packet has become.
pbuf_coalesce(s, p, layer) ==
    IF s.pb[p].next = NULL THEN [s |-> s, r |-> p]
    ELSE LET q == pbuf_alloc(s, layer, s.pb[p].tot, "RAM")
         IN IF q.r = NULL THEN [s |-> q.s, r |-> p]
            ELSE [s |-> pbuf_free(pbuf_copy(q.s, q.r, p), p), r |-> q.r]

\* The pbuf with the unit at the offset, and the unit's offset in it.
RECURSIVE Locate(_, _, _)
Locate(s, p, offset) ==
    IF p = NULL \/ s.pb[p].len > offset THEN [q |-> p, start |-> offset]
    ELSE Locate(s, s.pb[p].next, offset - s.pb[p].len)

pbuf_get_at(s, p, offset) ==
    LET at == Locate(s, p, offset)
    IN IF at.q = NULL THEN 0 ELSE Payload(s.pb[at.q])[at.start + 1]

\* 0xffff, the result if there is no unit at the offset or nothing was found.
NotFound == 65535

pbuf_memcmp(s, p, offset, s2) ==
    LET at == Locate(s, p, offset)
        differ == {i \in DOMAIN s2 : pbuf_get_at(s, at.q, at.start + i - 1) # s2[i]}
    IN IF at.q = NULL THEN NotFound
       ELSE IF differ = {} THEN 0
       ELSE CHOOSE i \in differ : \A j \in differ : i <= j

\* A place where the units differ is stepped over: so is a match that
\* begins before it.
RECURSIVE FindFrom(_, _, _, _)
FindFrom(s, p, mem, i) ==
    IF i > s.pb[p].tot - Len(mem) THEN NotFound
    ELSE LET plus == pbuf_memcmp(s, p, i, mem)
         IN IF plus = 0 THEN i ELSE FindFrom(s, p, mem, i + plus)

pbuf_memfind(s, p, mem, start_offset) ==
    IF s.pb[p].tot >= Len(mem) + start_offset THEN FindFrom(s, p, mem, start_offset)
    ELSE NotFound

pbuf_strstr(s, p, substr) ==
    IF substr = <<>> THEN NotFound ELSE pbuf_memfind(s, p, substr, 0)

=============================================================================
