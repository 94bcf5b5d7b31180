------------------------------- MODULE TcpOut -------------------------------
(***************************************************************************)
(* The sending half of lwIP's TCP (tun2socks/lwip/src/core/tcp_out.c) for  *)
(* one connection of tun2socks.                                            *)
(*                                                                         *)
(* The state is one record s, so that a C function is an operator from     *)
(* records to records and its calls nest in the order of the code:         *)
(*   pcb     struct tcp_pcb; state "FREE" when it is not allocated         *)
(*   cl      struct tcp_client (module Client)                             *)
(*   out     the segments handed to ip_output by the current step          *)
(*   input   tcp_input_pcb = pcb: a segment of it is being processed       *)
(*   failed  an ASSERT or LWIP_ASSERT has failed                           *)
(* The payload of a segment is the sequence of the bytes it carries, a     *)
(* byte being its position in its stream.  Round-trip times, and with them *)
(* the length of the retransmission timeout, are abstracted to "may have   *)
(* elapsed".                                                               *)
(***************************************************************************)
EXTENDS Integers, Sequences, SequencesExt

CONSTANTS U32,               \* sequence numbers are counted modulo U32
          U16,               \* 16-bit quantities are counted modulo U16
          U8,                \* the count of retransmissions wraps at U8
          TCP_MSS,
          TCP_WND,           \* the receive window, and sizeof(client->buf)
          TCP_SND_BUF,
          TCP_SND_QUEUELEN

Min2(a, b) == IF a < b THEN a ELSE b
Max2(a, b) == IF a > b THEN a ELSE b

Asserted(s, cond) == IF cond THEN s ELSE [s EXCEPT !.failed = TRUE]

-----------------------------------------------------------------------------
(* tcp_impl.h: sequence numbers wrap around. *)

Plus(a, n) == (a + n) % U32
SeqDiff(a, b) == LET d == (a - b) % U32
                 IN IF 2 * d < U32 THEN d ELSE d - U32

TCP_SEQ_LT(a, b)  == SeqDiff(a, b) < 0
TCP_SEQ_LEQ(a, b) == SeqDiff(a, b) <= 0
TCP_SEQ_GT(a, b)  == SeqDiff(a, b) > 0
TCP_SEQ_GEQ(a, b) == SeqDiff(a, b) >= 0
TCP_SEQ_BETWEEN(a, b, c) == TCP_SEQ_GEQ(a, b) /\ TCP_SEQ_LEQ(a, c)

TCP_TCPLEN(seg) ==
    Len(seg.data) + IF seg.flags \cap {"SYN", "FIN"} # {} THEN 1 ELSE 0
SegEnd(seg) == Plus(seg.seq, TCP_TCPLEN(seg))

tcp_ack(p) == IF "ACK_DELAY" \in p.flags
              THEN [p EXCEPT !.flags = (@ \ {"ACK_DELAY"}) \cup {"ACK_NOW"}]
              ELSE [p EXCEPT !.flags = @ \cup {"ACK_DELAY"}]
tcp_ack_now(p) == [p EXCEPT !.flags = @ \cup {"ACK_NOW"}]

tcp_do_output_nagle(p) ==
    \/ p.unacked = <<>>
    \/ "INFR" \in p.flags
    \/ Len(p.unsent) > 1
    \/ p.unsent # <<>> /\ Len(p.unsent[1].data) >= TCP_MSS
    \/ p.snd_buf = 0
    \/ p.snd_queuelen >= TCP_SND_QUEUELEN

-----------------------------------------------------------------------------
(* Segments on the wire. *)

Wire(flags, seq, ack, wnd, data) ==
    [flags |-> flags, seq |-> seq, ack |-> ack, wnd |-> wnd, data |-> data]

(* ip_output, down to common_netif_output of tun2socks: nothing is written *)
(* to the device any more once the program is quitting.                    *)
ip_output(s, seg) == IF s.quitting THEN s ELSE [s EXCEPT !.out = Append(@, seg)]

(* A segment with the current acknowledgment and window of the pcb; both   *)
(* ways of building one also note the window's right edge it announces.    *)
SendHeader(s, flags, seq, data) ==
    LET p == s.pcb
        a == ip_output(s, Wire(flags, seq, p.rcv_nxt, p.rcv_ann_wnd, data))
    IN [a EXCEPT !.pcb.rcv_ann_right_edge = Plus(p.rcv_nxt, p.rcv_ann_wnd)]

tcp_send_empty_ack(s) ==
    LET a == SendHeader(s, {"ACK"}, s.pcb.snd_nxt, <<>>)
    IN [a EXCEPT !.pcb.flags = @ \ {"ACK_DELAY", "ACK_NOW"}]

tcp_rst(s, seq, ack) == ip_output(s, Wire({"RST", "ACK"}, seq, ack, TCP_WND, <<>>))

tcp_output_segment(s, seg) ==
    LET a == SendHeader(s, seg.flags, seg.seq, seg.data)
    IN [a EXCEPT !.pcb.rtime = Max2(@, 0)]

-----------------------------------------------------------------------------
(* Sending what is queued. *)

(* A segment is filed before the first one that does not precede it. *)
InsertBySeq(q, seg) ==
    LET n == Len(SelectSeq(q, LAMBDA x : TCP_SEQ_LT(x.seq, seg.seq)))
    IN SubSeq(q, 1, n) \o <<seg>> \o SubSeq(q, n + 1, Len(q))

FitsWindow(p, seg) ==
    (seg.seq - p.lastack + Len(seg.data)) % U32 <= Min2(p.snd_wnd, p.cwnd)

RECURSIVE SendQueued(_)
SendQueued(s) ==
    LET p == s.pcb IN
    IF \/ p.unsent = <<>>
       \/ ~FitsWindow(p, p.unsent[1])
       \/ ~tcp_do_output_nagle(p) /\ p.flags \cap {"NAGLEMEMERR", "FIN"} = {}
    THEN s
    ELSE LET seg == [p.unsent[1] EXCEPT !.flags = @ \cup {"ACK"}]
             a == tcp_output_segment(
                    [s EXCEPT !.pcb.unsent = Tail(@),
                              !.pcb.flags = @ \ {"ACK_DELAY", "ACK_NOW"}], seg)
             nxt == SegEnd(seg)
         IN SendQueued([a EXCEPT
                !.pcb.snd_nxt = IF TCP_SEQ_LT(@, nxt) THEN nxt ELSE @,
                !.pcb.unacked = IF TCP_TCPLEN(seg) > 0 THEN InsertBySeq(@, seg)
                                                       ELSE @])

tcp_output(s) ==
    LET p == s.pcb
        a == SendQueued(s)
    IN IF s.input THEN s
       ELSE IF /\ "ACK_NOW" \in p.flags
               /\ p.unsent = <<>> \/ ~FitsWindow(p, p.unsent[1])
       THEN tcp_send_empty_ack(s)
       ELSE [a EXCEPT !.pcb.flags = @ \ {"NAGLEMEMERR"},
                      !.pcb.unsent_oversize = IF a.pcb.unsent = <<>> THEN 0 ELSE @]

-----------------------------------------------------------------------------
(* Queueing. *)

tcp_create_segment(seq, data, flags) ==
    [seq |-> seq, data |-> data, flags |-> flags, clen |-> 1]

QueueLenValid(p) ==
    (p.snd_queuelen # 0) <=> (p.unacked # <<>> \/ p.unsent # <<>>)

tcp_write_checks(s, len) ==
    LET p == s.pcb IN
    IF p.state \notin {"SYN_RCVD", "ESTABLISHED", "CLOSE_WAIT"}
    THEN [s |-> s, err |-> "ERR_CONN"]
    ELSE IF len > p.snd_buf \/ p.snd_queuelen >= TCP_SND_QUEUELEN
    THEN [s |-> [s EXCEPT !.pcb.flags = @ \cup {"NAGLEMEMERR"}], err |-> "ERR_MEM"]
    ELSE [s |-> Asserted(s, QueueLenValid(p)), err |-> "ERR_OK"]

(* tcp_write splits the data: what fits the spare room of the last unsent  *)
(* segment's buffer, what fills that segment up to mss_local in a new      *)
(* pbuf, and new segments.  With the copy flag every pbuf but the first of *)
(* an idle connection is allocated with room up to mss_local.              *)
mss_local(p) == Min2(TCP_MSS, p.snd_wnd_max \div 2)

NewSegments(p, data, pos) ==
    LET mss == mss_local(p)
        n == (Len(data) - pos + mss - 1) \div mss
        At(i) == pos + (i - 1) * mss
    IN [i \in 1 .. n |->
          tcp_create_segment(Plus(p.snd_lbb, At(i)),
              SubSeq(data, At(i) + 1, Min2(At(i) + mss, Len(data))), {})]

tcp_write(s, data) ==
    LET c == tcp_write_checks(s, Len(data))
        p == s.pcb
        len == Len(data)
        last == Last(p.unsent)
        space == IF p.unsent = <<>> THEN 0 ELSE mss_local(p) - Len(last.data)
        used == Min2(p.unsent_oversize, len)
        concat == IF p.unsent # <<>> /\ space > used /\ last.data # <<>>
                  THEN Min2(space - used, len - used) ELSE 0
        pos == used + concat
        queue == NewSegments(p, data, pos)
        clen == IF concat > 0 THEN 1 ELSE 0
        queuelen == p.snd_queuelen + clen + Len(queue)
        oversize == IF queue # <<>>
                    THEN IF Len(queue) > 1 \/ p.unsent # <<>> \/ p.unacked # <<>>
                         THEN mss_local(p) - Len(Last(queue).data) ELSE 0
                    ELSE IF concat > 0 THEN space - pos
                    ELSE p.unsent_oversize - used
        grown == IF p.unsent = <<>> THEN <<>>
                 ELSE Append(Front(p.unsent),
                        [last EXCEPT !.data = @ \o SubSeq(data, 1, pos),
                                     !.clen = @ + clen])
        a == Asserted(s, /\ p.unsent = <<>> => p.unsent_oversize = 0
                         /\ p.unsent_oversize > used => used = len)
    IN IF c.err # "ERR_OK" THEN c
       ELSE IF pos < len /\ (mss_local(p) = 0 \/ queuelen > TCP_SND_QUEUELEN)
       THEN [s |-> [a EXCEPT !.pcb.flags = @ \cup {"NAGLEMEMERR"}], err |-> "ERR_MEM"]
       ELSE [s |-> [a EXCEPT !.pcb.unsent = grown \o queue,
                             !.pcb.unsent_oversize = oversize,
                             !.pcb.snd_lbb = Plus(@, len),
                             !.pcb.snd_buf = @ - len,
                             !.pcb.snd_queuelen = queuelen],
             err |-> "ERR_OK"]

tcp_enqueue_flags(s, flags) ==
    LET p == s.pcb IN
    IF p.snd_queuelen >= TCP_SND_QUEUELEN
    THEN [s |-> [s EXCEPT !.pcb.flags = @ \cup {"NAGLEMEMERR"}], err |-> "ERR_MEM"]
    ELSE IF p.snd_buf = 0 THEN [s |-> s, err |-> "ERR_MEM"]
    ELSE [s |-> [s EXCEPT
                   !.pcb.unsent = Append(@, tcp_create_segment(p.snd_lbb, <<>>, flags)),
                   !.pcb.unsent_oversize = 0,
                   !.pcb.snd_lbb = Plus(@, 1),
                   !.pcb.snd_buf = @ - 1,
                   !.pcb.flags = @ \cup (flags \cap {"FIN"}),
                   !.pcb.snd_queuelen = @ + 1],
          err |-> "ERR_OK"]

(* The FIN rides on the last unsent segment if there is one; snd_lbb and   *)
(* snd_buf are not adjusted then.                                          *)
tcp_send_fin(s) ==
    LET p == s.pcb IN
    IF p.unsent # <<>> /\ Last(p.unsent).flags \cap {"SYN", "FIN"} = {}
    THEN [s |-> [s EXCEPT !.pcb.unsent[Len(p.unsent)].flags = @ \cup {"FIN"},
                          !.pcb.flags = @ \cup {"FIN"}],
          err |-> "ERR_OK"]
    ELSE tcp_enqueue_flags(s, {"FIN"})

-----------------------------------------------------------------------------
(* Retransmission. *)

tcp_rexmit_rto(s) ==
    IF s.pcb.unacked = <<>> THEN s
    ELSE tcp_output([s EXCEPT !.pcb.unsent = s.pcb.unacked \o @,
                              !.pcb.unacked = <<>>,
                              !.pcb.nrtx = (@ + 1) % U8])

tcp_rexmit(s) ==
    IF s.pcb.unacked = <<>> THEN s
    ELSE LET seg == Head(s.pcb.unacked)
             q == InsertBySeq(s.pcb.unsent, seg)
         IN [s EXCEPT !.pcb.unacked = Tail(@),
                      !.pcb.unsent = q,
                      !.pcb.unsent_oversize = IF Last(q) = seg THEN 0 ELSE @,
                      !.pcb.nrtx = (@ + 1) % U8]

tcp_rexmit_fast(s) ==
    IF s.pcb.unacked = <<>> \/ "INFR" \in s.pcb.flags THEN s
    ELSE LET a == tcp_rexmit(s)
             ssthresh == Max2(Min2(a.pcb.cwnd, a.pcb.snd_wnd) \div 2, 2 * TCP_MSS)
         IN [a EXCEPT !.pcb.ssthresh = ssthresh,
                      !.pcb.cwnd = (ssthresh + 3 * TCP_MSS) % U16,
                      !.pcb.flags = @ \cup {"INFR"}]

(* One byte (or the FIN) of the first outstanding segment; snd_nxt stays. *)
tcp_zero_window_probe(s) ==
    LET q == s.pcb.unacked \o s.pcb.unsent
        seg == q[1]
    IN IF q = <<>> THEN s
       ELSE IF "FIN" \in seg.flags /\ seg.data = <<>>
       THEN SendHeader(s, {"ACK", "FIN"}, seg.seq, <<>>)
       ELSE SendHeader(s, {"ACK"}, seg.seq, SubSeq(seg.data, 1, 1))
=============================================================================
