-------------------------------- MODULE Tcp --------------------------------
(***************************************************************************)
(* The life of a TCP control block of lwIP (tun2socks/lwip/src/core/tcp.c),*)
(* as tun2socks uses it: allocated for a SYN, closed, aborted, its receive *)
(* window opened by the application.  Only the listening side exists:      *)
(* tun2socks never calls tcp_connect.  The pcb lists are left out: a pcb   *)
(* is on the TIME-WAIT list in state TIME_WAIT, on the active list in any  *)
(* other state, and the connections on them do not touch one another.      *)
(***************************************************************************)
EXTENDS TcpOut

CONSTANT Iss            \* initial sequence number

(* struct tcp_pcb; recv, sent and errf say whether the callback is set to  *)
(* the function of the client.                                             *)
NoPcb == [state |-> "FREE", flags |-> {}, rcv_nxt |-> 0, rcv_wnd |-> 0,
          rcv_ann_wnd |-> 0, rcv_ann_right_edge |-> 0, rtime |-> -1,
          nrtx |-> 0, dupacks |-> 0, lastack |-> 0, cwnd |-> 0, ssthresh |-> 0,
          snd_nxt |-> 0, snd_wl1 |-> 0, snd_wl2 |-> 0, snd_lbb |-> 0,
          snd_wnd |-> 0, snd_wnd_max |-> 0, acked |-> 0, snd_buf |-> 0,
          snd_queuelen |-> 0, unsent_oversize |-> 0, persist_backoff |-> 0,
          unsent |-> <<>>, unacked |-> <<>>, ooseq |-> <<>>,
          refused_data |-> <<>>, refused_fin |-> FALSE,
          recv |-> FALSE, sent |-> FALSE, errf |-> FALSE]

tcp_alloc == [NoPcb EXCEPT !.snd_buf = TCP_SND_BUF, !.rcv_wnd = TCP_WND,
                           !.rcv_ann_wnd = TCP_WND, !.cwnd = 1,
                           !.snd_wl2 = Iss, !.snd_nxt = Iss,
                           !.lastack = Iss, !.snd_lbb = Iss]

(* memp_free: the memory is gone, nothing of the pcb may be used. *)
memp_free(s) == [s EXCEPT !.pcb = NoPcb]

(* Nothing of the data of a pcb in TIME_WAIT is looked at again: the       *)
(* fields its two uses do not read are blanked.                            *)
Blank(p) == [NoPcb EXCEPT !.state = p.state, !.flags = p.flags,
               !.rcv_nxt = p.rcv_nxt, !.rcv_wnd = p.rcv_wnd,
               !.rcv_ann_wnd = p.rcv_ann_wnd, !.snd_nxt = p.snd_nxt,
               !.rcv_ann_right_edge = p.rcv_ann_right_edge]

tcp_pcb_purge(s) ==
    IF s.pcb.state \in {"CLOSED", "TIME_WAIT"} THEN s
    ELSE [s EXCEPT !.pcb.refused_data = <<>>, !.pcb.refused_fin = FALSE,
                   !.pcb.unsent = <<>>, !.pcb.unacked = <<>>,
                   !.pcb.ooseq = <<>>, !.pcb.rtime = -1,
                   !.pcb.unsent_oversize = 0]

LastAck(s) ==
    IF s.pcb.state # "TIME_WAIT" /\ "ACK_DELAY" \in s.pcb.flags
    THEN tcp_output([s EXCEPT !.pcb = tcp_ack_now(@)])
    ELSE s

QueuesEmpty(p) == p.unsent = <<>> /\ p.unacked = <<>> /\ p.ooseq = <<>>

Removed(s) == [Asserted(s, QueuesEmpty(s.pcb)) EXCEPT !.pcb.state = "CLOSED"]

tcp_pcb_remove(s) == Removed(LastAck(tcp_pcb_purge(s)))

ToTimeWait(s) ==
    LET a == [tcp_pcb_purge(s) EXCEPT !.pcb.state = "TIME_WAIT"]
    IN [a EXCEPT !.pcb = [Blank(@) EXCEPT !.acked = a.pcb.acked,
                                          !.recv = a.pcb.recv,
                                          !.sent = a.pcb.sent,
                                          !.errf = a.pcb.errf]]

\* a: the state in which the pcb, which was p, is removed.
Abandoned(a, p, reset) ==
    IF p.state = "TIME_WAIT" THEN memp_free(a)
    ELSE [memp_free(IF reset /\ p.state # "CLOSED" THEN tcp_rst(a, p.snd_nxt, p.rcv_nxt) ELSE a)
             EXCEPT !.err = p.errf]

(* The error callback is the last thing tcp_abandon does; the modules that *)
(* know the client call it: s.err says that it is due.                     *)
tcp_abandon(s, reset) == Abandoned(tcp_pcb_remove(s), s.pcb, reset)

tcp_abort(s) == tcp_abandon(s, TRUE)

\* f: the result of tcp_send_fin.
FinSent(f, state) ==
    LET next == IF state = "CLOSE_WAIT" THEN "LAST_ACK" ELSE "FIN_WAIT_1"
    IN IF f.err # "ERR_OK" THEN f
       ELSE [s |-> tcp_output([f.s EXCEPT !.pcb.state = next]), err |-> "ERR_OK"]

(* Closing with data that the application has not taken is answered with a *)
(* reset.                                                                  *)
tcp_close_shutdown(s) ==
    LET p == s.pcb
        a == tcp_rst(Asserted(s, "RXCLOSED" \in p.flags), p.snd_nxt, p.rcv_nxt)
    IN IF /\ p.state \in {"ESTABLISHED", "CLOSE_WAIT"}
          /\ p.refused_data # <<>> \/ p.rcv_wnd # TCP_WND
       THEN [s |-> IF p.state = "ESTABLISHED" THEN ToTimeWait(a)
                                              ELSE memp_free(tcp_pcb_purge(a)),
             err |-> "ERR_OK"]
       ELSE IF p.state \notin {"SYN_RCVD", "ESTABLISHED", "CLOSE_WAIT"}
       THEN [s |-> s, err |-> "ERR_OK"]
       ELSE FinSent(tcp_send_fin(s), p.state)

tcp_close(s) ==
    tcp_close_shutdown([s EXCEPT !.pcb.flags = @ \cup {"RXCLOSED"}])

(* The window is announced again only when it has moved enough. *)
tcp_update_rcv_ann_wnd(s) ==
    LET p == s.pcb
        new_right_edge == Plus(p.rcv_nxt, p.rcv_wnd)
        step == Min2(TCP_WND \div 2, TCP_MSS)
    IN IF TCP_SEQ_GEQ(new_right_edge, Plus(p.rcv_ann_right_edge, step))
       THEN [s |-> [s EXCEPT !.pcb.rcv_ann_wnd = p.rcv_wnd],
             inflation |-> (new_right_edge - p.rcv_ann_right_edge) % U32]
       ELSE IF TCP_SEQ_GT(p.rcv_nxt, p.rcv_ann_right_edge)
       THEN [s |-> [s EXCEPT !.pcb.rcv_ann_wnd = 0], inflation |-> 0]
       ELSE LET wnd == (p.rcv_ann_right_edge - p.rcv_nxt) % U32
            IN [s |-> [Asserted(s, wnd < U16) EXCEPT !.pcb.rcv_ann_wnd = wnd],
                inflation |-> 0]

WndUpdateThreshold == TCP_WND \div 4

\* u: the result of tcp_update_rcv_ann_wnd.
AnnouncedIfMoved(u) ==
    IF u.inflation >= WndUpdateThreshold
    THEN tcp_output([u.s EXCEPT !.pcb = tcp_ack_now(@)])
    ELSE u.s

tcp_recved(s, len) ==
    LET a == Asserted(s, len <= U16 - 1 - s.pcb.rcv_wnd)
    IN AnnouncedIfMoved(tcp_update_rcv_ann_wnd(
           [a EXCEPT !.pcb.rcv_wnd = Min2(@ + len, TCP_WND)]))

(* The receive callback of a pcb that has none: the data is thrown away. *)
tcp_recv_null(s, data) == tcp_recved(s, Len(data))
=============================================================================
