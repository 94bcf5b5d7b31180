------------------------------- MODULE TcpIn -------------------------------
(***************************************************************************)
(* The receiving half of lwIP's TCP (tun2socks/lwip/src/core/tcp_in.c) and *)
(* its timers (tcp.c), which call back into the client.                    *)
(*                                                                         *)
(* A segment that arrives is [flags, seq, ack, wnd, data].  Processing it  *)
(* leaves in the state what the C code keeps in static variables:          *)
(* recv_data, and recv_flags as the set rf.  Two fields are history: again *)
(* is the number of bytes that client_sent_func was told of a second time, *)
(* stretched the number of sequence numbers taken from ooseq for which     *)
(* there was no data.                                                      *)
(***************************************************************************)
EXTENDS Client

CONSTANT TCP_MAXRTX, DupAcks   \* DupAcks: dupacks is counted up to here

-----------------------------------------------------------------------------
(* tcp_receive, part one: the acknowledgment. *)

(* Fault: a closed window does not start the persist timer. *)
NoPersist(p, in) ==
    IF \/ TCP_SEQ_LT(p.snd_wl1, in.seq)
       \/ p.snd_wl1 = in.seq /\ TCP_SEQ_LT(p.snd_wl2, in.ack)
       \/ p.snd_wl2 = in.ack /\ in.wnd > p.snd_wnd
    THEN [p EXCEPT !.snd_wnd = in.wnd, !.snd_wnd_max = Max2(@, in.wnd),
                   !.snd_wl1 = in.seq, !.snd_wl2 = in.ack,
                   !.persist_backoff = 0]
    ELSE p

WindowUpdate(p, in) ==
    IF \/ TCP_SEQ_LT(p.snd_wl1, in.seq)
       \/ p.snd_wl1 = in.seq /\ TCP_SEQ_LT(p.snd_wl2, in.ack)
       \/ p.snd_wl2 = in.ack /\ in.wnd > p.snd_wnd
    THEN [p EXCEPT !.snd_wnd = in.wnd, !.snd_wnd_max = Max2(@, in.wnd),
                   !.snd_wl1 = in.seq, !.snd_wl2 = in.ack,
                   !.persist_backoff = IF in.wnd = 0 THEN 1 ELSE 0]
    ELSE p

(* cwnd grows unless that would wrap it around. *)
Grown(p, n) == IF (p.cwnd + n) % U16 > p.cwnd THEN (p.cwnd + n) % U16 ELSE p.cwnd

OldAck(s, in, right_wnd_edge) ==
    LET p == s.pcb
        dup == /\ TCP_TCPLEN(in) = 0
               /\ Plus(p.snd_wl2, p.snd_wnd) = right_wnd_edge
               /\ p.rtime >= 0
               /\ p.lastack = in.ack
        n == IF dup THEN Min2(p.dupacks + 1, DupAcks) ELSE 0
        a == [s EXCEPT !.pcb.acked = 0, !.pcb.dupacks = n]
    IN IF n > 3 THEN [a EXCEPT !.pcb.cwnd = Grown(p, TCP_MSS)]
       ELSE IF n = 3 THEN tcp_rexmit_fast(a)
       ELSE a

(* A segment that is acknowledged leaves its queue; an acknowledged FIN is *)
(* not reported to the application.                                        *)
Retire(s, seg) ==
    LET a == Asserted(s, s.pcb.snd_queuelen >= seg.clen) IN
    [a EXCEPT !.pcb.acked = IF "FIN" \in seg.flags THEN Max2(@ - 1, 0) ELSE @,
              !.pcb.snd_queuelen = @ - seg.clen]

RECURSIVE RetireUnacked(_, _)
RetireUnacked(s, ackno) ==
    LET q == s.pcb.unacked IN
    IF q # <<>> /\ TCP_SEQ_LEQ(SegEnd(q[1]), ackno)
    THEN LET a == [Retire(s, q[1]) EXCEPT !.pcb.unacked = Tail(q)]
         IN RetireUnacked(Asserted(a, a.pcb.snd_queuelen # 0 => QueueLenValid(a.pcb)),
                          ackno)
    ELSE s

RECURSIVE RetireUnsent(_, _)
RetireUnsent(s, ackno) ==
    LET q == s.pcb.unsent IN
    IF q # <<>> /\ TCP_SEQ_BETWEEN(ackno, SegEnd(q[1]), s.pcb.snd_nxt)
    THEN LET a == [Retire(s, q[1]) EXCEPT
                     !.pcb.unsent = Tail(q),
                     !.pcb.unsent_oversize = IF Tail(q) = <<>> THEN 0 ELSE @]
         IN RetireUnsent(Asserted(a, a.pcb.snd_queuelen # 0 => QueueLenValid(a.pcb)),
                         ackno)
    ELSE s

NewAck(s, in) ==
    LET p == s.pcb
        q == IF "INFR" \in p.flags
             THEN [p EXCEPT !.flags = @ \ {"INFR"}, !.cwnd = p.ssthresh] ELSE p
        acked == (in.ack - p.lastack) % U32
        cwnd == Grown(q, IF q.cwnd < q.ssthresh THEN TCP_MSS
                         ELSE (TCP_MSS * TCP_MSS) \div q.cwnd)
        a == RetireUnacked([s EXCEPT !.pcb =
               [q EXCEPT !.nrtx = 0, !.acked = acked, !.snd_buf = @ + acked,
                         !.dupacks = 0, !.lastack = in.ack, !.cwnd = cwnd]], in.ack)
    IN [a EXCEPT !.pcb.rtime = IF a.pcb.unacked = <<>> THEN -1 ELSE 0]

\* a: the state after the window update.
AckNumber(a, in, edge) ==
    LET p == a.pcb
    IN IF TCP_SEQ_LEQ(in.ack, p.lastack) THEN OldAck(a, in, edge)
       ELSE IF TCP_SEQ_BETWEEN(in.ack, Plus(p.lastack, 1), p.snd_nxt)
       THEN NewAck(a, in)
       ELSE [a EXCEPT !.pcb.acked = 0]

ReceiveAck(s, in) ==
    LET edge == Plus(s.pcb.snd_wnd, s.pcb.snd_wl2)
    IN IF "ACK" \notin in.flags THEN s
       ELSE RetireUnsent(AckNumber([s EXCEPT !.pcb = WindowUpdate(@, in)], in, edge), in.ack)

-----------------------------------------------------------------------------
(* Part two: segments that arrive out of order wait on ooseq, sorted and   *)
(* without overlap.  As in struct tcp_seg, the length of a segment is kept *)
(* beside its data.                                                        *)

SegLen(seg) == seg.len + IF seg.flags \cap {"SYN", "FIN"} # {} THEN 1 ELSE 0
SegLimit(seg) == Plus(seg.seq, SegLen(seg))
DataEnd(seg) == Plus(seg.seq, seg.len)

(* pbuf_realloc never makes a pbuf longer. *)
Trim(seg, len) == [seg EXCEPT !.len = len, !.data = SubSeq(@, 1, Min2(len, Len(@)))]
TrimTo(seg, seq) == IF TCP_SEQ_GT(DataEnd(seg), seq)
                    THEN Trim(seg, (seq - seg.seq) % U32) ELSE seg

RECURSIVE Swallow(_, _)
Swallow(cseg, next) ==
    IF next # <<>> /\ TCP_SEQ_GEQ(DataEnd(cseg), DataEnd(next[1]))
    THEN Swallow([cseg EXCEPT !.flags = @ \cup (next[1].flags \cap {"FIN"})], Tail(next))
    ELSE IF next = <<>> THEN <<cseg>>
    ELSE <<TrimTo(cseg, next[1].seq)>> \o next

tcp_oos_insert_segment(cseg, next) ==
    IF "FIN" \in cseg.flags THEN <<cseg>> ELSE Swallow(cseg, next)

tcp_seg_copy(in) == [seq |-> in.seq, data |-> in.data, len |-> in.len,
                     flags |-> in.flags \cap {"FIN", "SYN"}]

(* The place i of the queue at which the loop stops. *)
StopsAt(q, in, i) ==
    \/ in.seq = q[i].seq
    \/ i = 1 /\ TCP_SEQ_LT(in.seq, q[1].seq)
    \/ i > 1 /\ TCP_SEQ_BETWEEN(in.seq, Plus(q[i-1].seq, 1), Plus(q[i].seq, -1))
    \/ i = Len(q) /\ TCP_SEQ_GT(in.seq, q[i].seq)

QueueOoseq(s, in) ==
    LET p == s.pcb
        q == p.ooseq
        i == CHOOSE j \in DOMAIN q : /\ StopsAt(q, in, j)
                                     /\ \A k \in 1 .. j - 1 : ~StopsAt(q, in, k)
        before == SubSeq(q, 1, i - 1)
        after == SubSeq(q, i, Len(q))
        right_edge == Plus(p.rcv_nxt, p.rcv_wnd)
        overran == Plus(in.seq, SegLen(in)) > right_edge
        cut == IF overran THEN [Trim(in, (right_edge - in.seq) % U32) EXCEPT
                                  !.flags = @ \ {"FIN"}] ELSE in
        Put(queue) == [s EXCEPT !.pcb.ooseq = queue]
    IN IF q = <<>> THEN Put(<<tcp_seg_copy(in)>>)
       ELSE IF in.seq = q[i].seq
       THEN IF in.len > q[i].len
            THEN Put(before \o tcp_oos_insert_segment(tcp_seg_copy(in), after)) ELSE s
       ELSE IF TCP_SEQ_LT(in.seq, q[i].seq)
       THEN Put((IF i = 1 THEN <<>>
                 ELSE Append(Front(before), TrimTo(Last(before), in.seq)))
                \o tcp_oos_insert_segment(tcp_seg_copy(in), after))
       ELSE IF "FIN" \in q[i].flags THEN s
       ELSE Asserted(Put(Append(Append(before, TrimTo(q[i], in.seq)), tcp_seg_copy(cut))),
                     overran => SegLimit(cut) = right_edge)

(* An in-order segment swallows what it covers of the queue. *)
RECURSIVE Covered(_, _)
Covered(in, q) ==
    IF q # <<>> /\ TCP_SEQ_GEQ(SegLimit(in), DataEnd(q[1]))
    THEN Covered([in EXCEPT !.flags = @ \cup (IF "SYN" \in @ THEN {}
                                              ELSE q[1].flags \cap {"FIN"})], Tail(q))
    ELSE [in |-> in, q |-> q]

(* What has become in-order data is taken off the queue. *)
RECURSIVE TakeOoseq(_)
TakeOoseq(s) ==
    LET q == s.pcb.ooseq IN
    IF q = <<>> \/ q[1].seq # s.pcb.rcv_nxt THEN s
    ELSE LET n == SegLen(q[1])
             a == Asserted(s, s.pcb.rcv_wnd >= n)
             b == tcp_update_rcv_ann_wnd([a EXCEPT !.pcb.rcv_nxt = Plus(@, n),
                                                   !.pcb.rcv_wnd = @ - n]).s
             fin == "FIN" \in q[1].flags
         IN TakeOoseq([b EXCEPT
                !.recv_data = @ \o q[1].data,
                !.stretched = @ + q[1].len - Len(q[1].data),
                !.rf = IF fin THEN @ \cup {"GOT_FIN"} ELSE @,
                !.pcb.state = IF fin /\ @ = "ESTABLISHED" THEN "CLOSE_WAIT" ELSE @,
                !.pcb.ooseq = Tail(q)])

\* c.in is what in became in front of the queue c.q that is left of ooseq.
TakeSegment(s, in, c) ==
    LET p == s.pcb
        trimmed == c.q # <<>> /\ TCP_SEQ_GT(SegLimit(c.in), c.q[1].seq)
        in2 == IF trimmed THEN Trim(c.in, (c.q[1].seq - in.seq) % U32) ELSE c.in
        n == SegLen(in2)
        a == Asserted(s, /\ trimmed => SegLimit(in2) = c.q[1].seq
                         /\ p.rcv_wnd >= n)
        b == tcp_update_rcv_ann_wnd(
               [a EXCEPT !.pcb.ooseq = c.q, !.pcb.rcv_nxt = Plus(in.seq, n),
                         !.pcb.rcv_wnd = @ - n]).s
        d == TakeOoseq([b EXCEPT
               !.recv_data = in2.data,
               !.rf = IF "FIN" \in in2.flags THEN @ \cup {"GOT_FIN"} ELSE @])
    IN [d EXCEPT !.pcb = tcp_ack(@)]

ReceiveInOrder(s, in) ==
    LET p == s.pcb
        over == SegLen(in) > p.rcv_wnd
        in1 == IF over THEN [Trim(in, p.rcv_wnd) EXCEPT !.flags = @ \ {"FIN"}] ELSE in
    IN TakeSegment(Asserted(s, over => SegLimit(in1) = Plus(p.rcv_nxt, p.rcv_wnd)), in,
                   IF p.ooseq = <<>> \/ "FIN" \in in1.flags THEN [in |-> in1, q |-> <<>>]
                   ELSE Covered(in1, p.ooseq))

InWindow(p, seq) ==
    TCP_SEQ_BETWEEN(seq, p.rcv_nxt, Plus(p.rcv_nxt, p.rcv_wnd - 1))

(* Fault: nothing is cut off. *)
ReceiveAllOf(s, in) ==
    IF TCP_SEQ_LEQ(in.seq, s.pcb.rcv_nxt) /\ TCP_SEQ_GT(SegLimit(in), s.pcb.rcv_nxt)
    THEN ReceiveInOrder(s, in) ELSE tcp_send_empty_ack(s)

(* The part of a segment that was received before is cut off. *)
ReceiveData(s, in0) ==
    LET p == s.pcb
        off == (p.rcv_nxt - in0.seq) % U32
        partly == TCP_SEQ_BETWEEN(p.rcv_nxt, Plus(in0.seq, 1), Plus(SegLimit(in0), -1))
        in == IF partly THEN [in0 EXCEPT !.seq = p.rcv_nxt,
                                         !.len = @ - off,
                                         !.data = SubSeq(@, off + 1, Len(@))] ELSE in0
        a == IF ~partly /\ TCP_SEQ_LT(in.seq, p.rcv_nxt)
             THEN [s EXCEPT !.pcb = tcp_ack_now(@)] ELSE s
    IN IF ~InWindow(p, in.seq) THEN tcp_send_empty_ack(a)
       ELSE IF in.seq = p.rcv_nxt THEN ReceiveInOrder(a, in)
       ELSE QueueOoseq(tcp_send_empty_ack(a), in)

ReceiveText(a, in) ==
    IF /\ SegLen(in) > 0
       /\ a.pcb.state \in {"ESTABLISHED", "FIN_WAIT_1", "FIN_WAIT_2"}
    THEN ReceiveData(a, in)
    ELSE IF InWindow(a.pcb, in.seq) THEN a
    ELSE [a EXCEPT !.pcb = tcp_ack_now(@)]

tcp_receive(s, in) == ReceiveText(ReceiveAck(s, in), in)

-----------------------------------------------------------------------------
(* tcp_process: the state machine. *)

GotFin(s) == "GOT_FIN" \in s.rf
AllAcked(s, in) == "ACK" \in in.flags /\ in.ack = s.pcb.snd_nxt

AckNow(s) == [s EXCEPT !.pcb = tcp_ack_now(@)]
InState(s, state) == [s EXCEPT !.pcb.state = state]

\* r: the state after tcp_receive, cwnd what it was before.
Established(r, cwnd) ==
    LET b == [r EXCEPT !.pcb.acked = Max2(@ - 1, 0),
                       !.pcb.cwnd = IF cwnd = 1 THEN 2 * TCP_MSS ELSE TCP_MSS]
    IN IF GotFin(b) THEN InState(AckNow(b), "CLOSE_WAIT") ELSE b

\* acc: the result of the accept callback.
Accepted(acc, in, cwnd) ==
    IF acc.err = "ERR_ABRT" THEN acc
    ELSE IF acc.err # "ERR_OK"
    THEN Ret(TCP_EVENT_ERR(tcp_abort(acc.s)), "ERR_ABRT")
    ELSE Ret(Established(tcp_receive(acc.s, in), cwnd), "ERR_OK")

ProcessSynRcvd(s, in, es) ==
    LET p == s.pcb
    IN IF "ACK" \in in.flags
       THEN IF ~TCP_SEQ_BETWEEN(in.ack, Plus(p.lastack, 1), p.snd_nxt)
            THEN Ret(tcp_rst(s, in.ack, SegEnd(in)), "ERR_OK")
            ELSE Accepted(listener_accept_func(InState(s, "ESTABLISHED"), es), in, p.cwnd)
       ELSE IF "SYN" \in in.flags /\ in.seq = Plus(p.rcv_nxt, -1)
       THEN Ret(tcp_rexmit(s), "ERR_OK")
       ELSE Ret(s, "ERR_OK")

AfterReceive(s, in, old) ==
    CASE old \in {"ESTABLISHED", "CLOSE_WAIT"} ->
           IF GotFin(s) THEN InState(AckNow(s), "CLOSE_WAIT") ELSE s
      [] old = "FIN_WAIT_1" ->
           IF GotFin(s)
           THEN IF AllAcked(s, in) THEN ToTimeWait(AckNow(s))
                                   ELSE InState(AckNow(s), "CLOSING")
           ELSE IF AllAcked(s, in) THEN InState(s, "FIN_WAIT_2") ELSE s
      [] old = "FIN_WAIT_2" -> IF GotFin(s) THEN ToTimeWait(AckNow(s)) ELSE s
      [] old = "CLOSING" -> IF AllAcked(s, in) THEN ToTimeWait(s) ELSE s
      [] old = "LAST_ACK" ->
           IF AllAcked(s, in) THEN [s EXCEPT !.rf = @ \cup {"CLOSED"}] ELSE s

\* tcp_process returns before tcp_receive: acked is that of an earlier segment.
ReportedAgain(s) == [s EXCEPT !.again = @ + IF s.pcb.sent THEN s.pcb.acked ELSE 0]

tcp_process(s, in, es) ==
    LET p == s.pcb IN
    IF "RST" \in in.flags
    THEN IF TCP_SEQ_BETWEEN(in.seq, p.rcv_nxt, Plus(p.rcv_nxt, p.rcv_wnd))
         THEN Ret([s EXCEPT !.rf = {"RESET"}, !.pcb.flags = @ \ {"ACK_DELAY"}], "ERR_RST")
         ELSE Ret(ReportedAgain(s), "ERR_OK")
    ELSE IF "SYN" \in in.flags /\ p.state # "SYN_RCVD"
    THEN Ret(ReportedAgain(AckNow(s)), "ERR_OK")
    ELSE IF p.state = "SYN_RCVD" THEN ProcessSynRcvd(s, in, es)
    ELSE Ret(AfterReceive(tcp_receive(s, in), in, p.state), "ERR_OK")

-----------------------------------------------------------------------------
(* tcp_input: find the pcb, process the segment, call the client back. *)

TCP_EVENT_SENT(s, es) ==
    IF s.pcb.acked > 0 /\ s.pcb.sent THEN client_sent_func(s, s.pcb.acked, es)
    ELSE Ret(s, "ERR_OK")

TCP_EVENT_RECV(s, data, es) ==
    IF s.pcb.recv THEN client_recv_func(s, data, es)
    ELSE Ret(tcp_recv_null(s, data), "ERR_OK")

TCP_EVENT_CLOSED(s) ==
    IF s.pcb.recv THEN client_recv_func(s, <<>>, <<>>) ELSE Ret(s, "ERR_OK")

(* The FIN is not part of the application's data: its place in the window  *)
(* is given back.                                                          *)
Closed(s) ==
    TCP_EVENT_CLOSED([s EXCEPT !.pcb.rcv_wnd = IF @ # TCP_WND THEN @ + 1 ELSE @])

RemoveAndFree(s) == memp_free(tcp_pcb_remove(s))

\* r: the result of the receive callback.
KeptIfRefused(r, data) ==
    IF r.err \in {"ERR_OK", "ERR_ABRT"} THEN r
    ELSE Ret([r.s EXCEPT !.pcb.refused_data = data], "ERR_OK")

DeliverData(s, es) ==
    LET a == Asserted(s, s.pcb.refused_data = <<>>)
    IN IF s.recv_data = <<>> THEN Ret(s, "ERR_OK")
       ELSE IF "RXCLOSED" \in s.pcb.flags THEN Ret(TCP_EVENT_ERR(tcp_abort(a)), "ERR_ABRT")
       ELSE KeptIfRefused(TCP_EVENT_RECV(a, s.recv_data, es), s.recv_data)

DeliverFin(s) ==
    IF ~GotFin(s) THEN Ret(s, "ERR_OK")
    ELSE IF s.pcb.refused_data # <<>>
    THEN Ret([s EXCEPT !.pcb.refused_fin = TRUE], "ERR_OK")
    ELSE Closed(s)

\* r: the result of the receive callback for the data that p had kept.
RefusedAgain(r, p) ==
    IF r.err = "ERR_ABRT" THEN r
    ELSE IF r.err # "ERR_OK"
    THEN Ret([r.s EXCEPT !.pcb.refused_data = p.refused_data,
                         !.pcb.refused_fin = p.refused_fin], "ERR_OK")
    ELSE IF p.refused_fin THEN Closed(r.s) ELSE r

tcp_process_refused_data(s, es) ==
    IF s.pcb.refused_data = <<>> THEN Ret(s, "ERR_OK")
    ELSE RefusedAgain(TCP_EVENT_RECV([s EXCEPT !.pcb.refused_data = <<>>,
                                               !.pcb.refused_fin = FALSE],
                                     s.pcb.refused_data, es), s.pcb)

Inseg(in) == [flags |-> in.flags, seq |-> in.seq, ack |-> in.ack, wnd |-> in.wnd,
              data |-> in.data, len |-> Len(in.data)]

(* A segment for a pcb on the active list: what the application refused    *)
(* before is offered again, the segment is processed, then the application *)
(* hears what was sent, what came and that the host has closed.  Each of   *)
(* these may end the connection.  es1 are the events of SYNC_COMMIT in the *)
(* accept or sent callback, es2 those in the receive callback.             *)

AfterFin(fin) ==
    IF fin.err = "ERR_ABRT" THEN fin.s ELSE tcp_output([fin.s EXCEPT !.input = FALSE])

AfterData(data) ==
    IF data.err = "ERR_ABRT" THEN data.s ELSE AfterFin(DeliverFin(data.s))

AfterSent(sent, es2) ==
    IF sent.err = "ERR_ABRT" THEN sent.s ELSE AfterData(DeliverData(sent.s, es2))

EndReported(s) == IF s.pcb.errf THEN client_err_func(s) ELSE s

AfterProcess(pr, es1, es2) ==
    IF pr.err = "ERR_ABRT" THEN pr.s
    ELSE IF "RESET" \in pr.s.rf THEN RemoveAndFree(EndReported(pr.s))
    ELSE IF "CLOSED" \in pr.s.rf
    THEN RemoveAndFree(IF "RXCLOSED" \in pr.s.pcb.flags THEN pr.s ELSE EndReported(pr.s))
    ELSE AfterSent(TCP_EVENT_SENT(pr.s, es1), es2)

AfterRefused(z, in, es1, es2) ==
    IF z.err = "ERR_ABRT" \/ (z.s.pcb.refused_data # <<>> /\ TCP_TCPLEN(in) > 0)
    THEN z.s
    ELSE AfterProcess(tcp_process([z.s EXCEPT !.input = TRUE], in, es1), es1, es2)

ActiveInput(s, in, es1, es2) ==
    AfterRefused(tcp_process_refused_data(s, es2), in, es1, es2)

tcp_timewait_input(s, in) ==
    IF "RST" \in in.flags THEN s
    ELSE IF "SYN" \in in.flags /\ TCP_SEQ_BETWEEN(in.seq, s.pcb.rcv_nxt,
                                     Plus(s.pcb.rcv_nxt, s.pcb.rcv_wnd))
    THEN tcp_rst(s, in.ack, SegEnd(in))
    ELSE IF TCP_TCPLEN(in) > 0 THEN tcp_output(AckNow(s))
    ELSE s

\* e: the result of tcp_enqueue_flags.
SynAnswered(e) ==
    IF e.err # "ERR_OK" THEN TCP_EVENT_ERR(tcp_abandon(e.s, FALSE)) ELSE tcp_output(e.s)

tcp_listen_input(s, in) ==
    LET npcb == [tcp_alloc EXCEPT
                   !.state = "SYN_RCVD", !.rcv_nxt = Plus(in.seq, 1),
                   !.rcv_ann_right_edge = Plus(in.seq, 1), !.snd_wnd = in.wnd,
                   !.snd_wnd_max = in.wnd, !.ssthresh = in.wnd,
                   !.snd_wl1 = Plus(in.seq, -1)]
    IN IF "RST" \in in.flags THEN s
       ELSE IF "ACK" \in in.flags THEN tcp_rst(s, in.ack, SegEnd(in))
       ELSE IF "SYN" \notin in.flags THEN s
       ELSE SynAnswered(tcp_enqueue_flags([s EXCEPT !.pcb = npcb], {"SYN", "ACK"}))

tcp_input(s, in, es1, es2) ==
    [CASE s.pcb.state = "FREE" -> tcp_listen_input(s, in)
       [] s.pcb.state = "TIME_WAIT" -> tcp_timewait_input(s, in)
       [] OTHER -> ActiveInput(s, Inseg(in), es1, es2)
     EXCEPT !.input = FALSE, !.recv_data = <<>>, !.rf = {}]

-----------------------------------------------------------------------------
(* Timers.  due is the timeout of this connection that has elapsed: "rto", *)
(* "persist", "ooseq", "state" (the time allowed in FIN_WAIT_2, SYN_RCVD,  *)
(* LAST_ACK or TIME_WAIT) or "none".                                       *)

tcp_fasttmr(s, es) ==
    LET a == IF "ACK_DELAY" \notin s.pcb.flags THEN s
             ELSE [tcp_output(AckNow(s)) EXCEPT !.pcb.flags = @ \ {"ACK_DELAY", "ACK_NOW"}]
    IN IF s.pcb.state \in {"FREE", "TIME_WAIT"} THEN s
       ELSE tcp_process_refused_data(a, es).s

Retransmit(s, due) ==
    LET p == s.pcb IN
    IF p.persist_backoff > 0
    THEN IF due = "persist" THEN tcp_zero_window_probe(s) ELSE s
    ELSE IF p.unacked # <<>> /\ p.rtime >= 0 /\ due = "rto"
    THEN tcp_rexmit_rto([s EXCEPT
            !.pcb.rtime = 0,
            !.pcb.ssthresh = Max2(Min2(p.cwnd, p.snd_wnd) \div 2, 2 * TCP_MSS),
            !.pcb.cwnd = TCP_MSS])
    ELSE s

TimedOut(p, due) ==
    /\ due = "state"
    /\ \/ p.state \in {"SYN_RCVD", "LAST_ACK"}
       \/ p.state = "FIN_WAIT_2" /\ "RXCLOSED" \in p.flags

\* b: the state after the retransmissions.
SlowTimeouts(b, giveup, due) ==
    IF giveup \/ TimedOut(b.pcb, due)
    THEN TCP_EVENT_ERR([memp_free(tcp_pcb_purge(b)) EXCEPT !.err = b.pcb.errf])
    ELSE tcp_output(b)

tcp_slowtmr(s, due) ==
    LET giveup == s.pcb.nrtx = TCP_MAXRTX
        a == IF giveup THEN s ELSE Retransmit(s, due)
    IN IF s.pcb.state = "FREE" THEN s
       ELSE IF s.pcb.state = "TIME_WAIT" THEN IF due = "state" THEN memp_free(s) ELSE s
       ELSE SlowTimeouts(IF due = "ooseq" THEN [a EXCEPT !.pcb.ooseq = <<>>] ELSE a,
                         giveup, due)
=============================================================================
