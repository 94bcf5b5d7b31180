----------------------------- MODULE Tun2socks -----------------------------
(***************************************************************************)
(* tun2socks forwarding one TCP connection: a host behind the tunnel       *)
(* device, the device, lwIP's TCP, the client of tun2socks and the SOCKS   *)
(* connection.                                                             *)
(*                                                                         *)
(* A packet that tun2socks writes to the device is handled by the host's   *)
(* network stack at once; packets of the host wait, in order, until        *)
(* tun2socks reads them (toLwip).  Either may be lost.  The host is a TCP  *)
(* implementation that takes data in order only, retransmits and never     *)
(* sends outside the window it was offered.  It may crash and connect      *)
(* again from the same port.                                               *)
(***************************************************************************)
EXTENDS TcpIn, FiniteSets, FiniteSetsExt

CONSTANTS PeerIss,      \* the host's initial sequence number
          PeerWnd,      \* the host's receive buffer
          Bytes,        \* bound: bytes sent, both ways together
          ServerBytes,  \* bound: how many of them the server sends
          HostBytes,    \* bound: bytes of the host if the server sends none
          Channel,      \* bound: packets waiting to be read from the device
          Losses,       \* bound: packets lost
          SyncEvents,   \* bound: events reported within one SYNC_COMMIT
          MayAbort      \* whether the host may reset or forget the connection

VARIABLES s, peer, toLwip, lost

vars == <<s, peer, toLwip, lost>>

Init ==
    /\ \E n \in ServerBytes :
         /\ s = [pcb |-> NoPcb, cl |-> NoClient, out |-> <<>>, input |-> FALSE,
                 err |-> FALSE, recv_data |-> <<>>, rf |-> {}, quitting |-> FALSE,
                 failed |-> FALSE, again |-> 0, stretched |-> 0,
                 srv |-> [got |-> <<>>, given |-> 0, ended |-> FALSE, bytes |-> n]]
         /\ peer = [state |-> "closed", sent |-> 0, una |-> 0, edge |-> 0,
                    fin |-> FALSE, got |-> <<>>, read |-> 0, eof |-> FALSE,
                    bytes |-> IF n = 0 THEN HostBytes ELSE Bytes - n]
    /\ toLwip = <<>> /\ lost = 0

-----------------------------------------------------------------------------
(* The host. *)

PSeq(n) == Plus(PeerIss, 1 + n)
Irs == Plus(Iss, 1)
HostWnd(p) == PeerWnd - (Len(p.got) - p.read)

PeerSegment(p, flags, n, data) ==
    Wire(flags, PSeq(n), Plus(Irs, Len(p.got) + IF p.eof THEN 1 ELSE 0), HostWnd(p), data)
PeerAck(p) == PeerSegment(p, {"ACK"}, p.sent + IF p.fin THEN 1 ELSE 0, <<>>)

\* A failed assertion aborts the program.
Running == ~s.quitting /\ ~s.failed

Send(seg) == /\ Len(toLwip) < Channel /\ Running
             /\ toLwip' = Append(toLwip, seg)

\* What a host knows that has reset or forgotten the connection: nothing.
Forgotten(p, state) == [p EXCEPT !.state = state, !.una = 0, !.edge = 0, !.read = 0]

PeerConnect ==
    /\ peer.state \in {"closed", "syn"}
    /\ toLwip = <<>>
    /\ peer' = [peer EXCEPT !.state = "syn"]
    /\ Send(Wire({"SYN"}, PeerIss, 0, PeerWnd, <<>>))
    /\ UNCHANGED <<s, lost>>

(* New data, or the oldest unacknowledged data again. *)
PeerSend ==
    /\ peer.state = "up"
    /\ \E n \in {peer.una, peer.sent}, len \in 1 .. TCP_MSS :
         LET end == n + len IN
         /\ end <= Min2(peer.bytes, peer.edge)
         /\ n = peer.sent => ~peer.fin
         /\ n < peer.sent => end <= peer.sent /\ toLwip = <<>>
         /\ Send(PeerSegment(peer, {"ACK"}, n, [i \in 1 .. len |-> n + i]))
         /\ peer' = [peer EXCEPT !.sent = Max2(@, end)]
    /\ UNCHANGED <<s, lost>>

(* A FIN, also again as long as it is not acknowledged. *)
PeerClose ==
    /\ peer.state = "up"
    /\ peer.una <= peer.sent
    /\ peer.fin => toLwip = <<>>
    /\ Send(PeerSegment(peer, {"ACK", "FIN"}, peer.sent, <<>>))
    /\ peer' = [peer EXCEPT !.fin = TRUE]
    /\ UNCHANGED <<s, lost>>

PeerAbort ==
    /\ MayAbort
    /\ peer.state = "up"
    /\ Send(PeerSegment(peer, {"RST", "ACK"}, peer.sent + IF peer.fin THEN 1 ELSE 0, <<>>))
    /\ peer' = Forgotten(peer, "gone")
    /\ UNCHANGED <<s, lost>>

(* The host has crashed, and connects again from the same port.  (Bound: a *)
(* host that got something; without it tun2socks has nothing to report.)   *)
PeerRestart ==
    /\ MayAbort
    /\ peer.state = "up" /\ peer.got # <<>>
    /\ Send(Wire({"SYN"}, PeerIss, 0, PeerWnd, <<>>))
    /\ peer' = Forgotten(peer, "again")
    /\ UNCHANGED <<s, lost>>

PeerRead ==
    /\ peer.state = "up"
    /\ peer.read < Len(peer.got)
    /\ peer' = [peer EXCEPT !.read = Len(peer.got)]
    /\ Send(PeerAck(peer'))
    /\ UNCHANGED <<s, lost>>

(* A segment is taken as far as it continues the data and fits. *)
PeerTakes(p, seg) ==
    LET off == SeqDiff(Plus(Irs, Len(p.got)), seg.seq)
        room == SubSeq(seg.data, off + 1, Min2(Len(seg.data), off + HostWnd(p)))
        whole == off + Len(room) = Len(seg.data)
    IN IF p.eof \/ off \notin 0 .. Len(seg.data) THEN p
       ELSE [p EXCEPT !.got = @ \o room,
                      !.eof = "FIN" \in seg.flags /\ whole]

PeerAcked(p, seg) ==
    LET n == SeqDiff(seg.ack, PSeq(0)) IN
    [p EXCEPT !.una = Max2(@, n), !.edge = Max2(@, n + seg.wnd)]

AcksUnsent(p, seg) ==
    SeqDiff(seg.ack, PSeq(0)) > p.sent + IF p.fin THEN 1 ELSE 0

(* The host handles a packet; it acknowledges what takes sequence space.   *)
(* One that acknowledges what was never sent is dropped and answered; one  *)
(* of a connection that the host has forgotten is answered with a reset.   *)
PeerReceive(h, seg) ==
    LET p == PeerTakes(PeerAcked([h.peer EXCEPT !.state = "up"], seg), seg) IN
    IF h.peer.state \in {"closed", "gone"} THEN h
    ELSE IF "RST" \in seg.flags THEN [h EXCEPT !.peer = Forgotten(@, "gone")]
    ELSE IF h.peer.state = "again"
    THEN [peer |-> Forgotten(h.peer, "gone"),
          sent |-> Append(h.sent, Wire({"RST"}, seg.ack, 0, 0, <<>>))]
    ELSE IF h.peer.state = "up" /\ AcksUnsent(h.peer, seg)
    THEN [h EXCEPT !.sent = Append(@, PeerAck(h.peer))]
    ELSE IF h.peer.state = "syn" /\ "SYN" \notin seg.flags THEN h
    ELSE [peer |-> p,
          sent |-> IF TCP_TCPLEN(seg) > 0 THEN Append(h.sent, PeerAck(p)) ELSE h.sent]

-----------------------------------------------------------------------------
(* The device. *)

(* A handler of tun2socks, which has left the packets waiting, runs to its *)
(* end, and the host handles those of its packets that are not lost; the   *)
(* queue of the device drops what it cannot hold.                          *)
Step(t, waiting) ==
    \E drop \in SUBSET DOMAIN t.out :
        LET arrived == [i \in 1 .. Len(t.out) |-> IF i \in drop THEN <<>> ELSE <<t.out[i]>>]
            h == FoldLeft(PeerReceive, [peer |-> peer, sent |-> <<>>], FlattenSeq(arrived))
            q == waiting \o h.sent
        IN /\ lost + Cardinality(drop) <= Losses
           /\ lost' = lost + Cardinality(drop)
           /\ s' = [t EXCEPT !.out = <<>>]
           /\ peer' = h.peer
           /\ toLwip' = SubSeq(q, 1, Min2(Len(q), Channel))

Lose ==
    /\ lost < Losses
    /\ lost' = lost + 1
    /\ toLwip # <<>> /\ toLwip' = Tail(toLwip)
    /\ UNCHANGED <<s, peer>>

-----------------------------------------------------------------------------
(* tun2socks. *)

Given  == [t : {"given"}, n : 1 .. RecvBuf]
Taken  == [t : {"taken"}, n : 1 .. TCP_WND]
Ends   == [t : {"error", "closed"}, n : {0}]

UpTo(S, n) == UNION {[1 .. i -> S] : i \in 0 .. n}

(* The events that may be reported inside the handler of this segment. *)
AcceptOrSent ==
    IF s.pcb.state = "SYN_RCVD"
    THEN {<<>>, <<[t |-> "error", n |-> 0]>>, <<InitFailed>>}
    ELSE IF s.cl.alive /\ s.cl.waiting THEN UpTo(Given \cup Ends, SyncEvents)
    ELSE {<<>>}
Received ==
    IF s.cl.alive /\ s.cl.socks_up /\ ~s.cl.socks_closed /\ s.cl.buf = <<>>
       /\ Head(toLwip).data # <<>>
    THEN UpTo(Taken \cup Ends, SyncEvents) ELSE {<<>>}

(* device_read_handler_send, down to tcp_input. *)
DeviceRead ==
    /\ toLwip # <<>> /\ Running
    /\ \E es1 \in AcceptOrSent, es2 \in Received :
         Step(tcp_input(s, Head(toLwip), es1, es2), Tail(toLwip))

(* tcp_timer_handler: tcp_fasttmr, and every other time tcp_slowtmr. *)
TcpTimer ==
    /\ Running
    /\ s.pcb.state # "FREE"
    /\ \/ Step(tcp_fasttmr(s, <<>>), toLwip)
       \/ \E due \in {"none", "rto", "persist", "ooseq", "state"} :
            Step(tcp_slowtmr(tcp_fasttmr(s, <<>>), due), toLwip)

(* A job or file descriptor event of the SOCKS connection. *)
Socks ==
    /\ Running
    /\ \E e \in SocksEvents(s) : Step(SocksEvent(s, e), toLwip)

(* A signal: the main loop ends, and main murders every client; the       *)
(* packets that still wait are never read.                                 *)
Terminate ==
    /\ Running
    /\ LET q == [s EXCEPT !.quitting = TRUE]
       IN Step(IF q.cl.alive THEN client_murder(q) ELSE q, <<>>)

Next == \/ PeerConnect \/ PeerSend \/ PeerClose \/ PeerAbort \/ PeerRestart
        \/ PeerRead \/ Lose \/ DeviceRead \/ TcpTimer \/ Socks \/ Terminate

Spec == Init /\ [][Next]_vars

-----------------------------------------------------------------------------
(* Properties. *)

(* No ASSERT of tun2socks.c and no LWIP_ASSERT of the TCP code fails,      *)
(* whatever order packets, timers, SOCKS events and the end of the program *)
(* come in, but for one case: a SYN of a host that connects again, or a    *)
(* reset out of the window, makes tcp_input report the bytes of the last   *)
(* acknowledgement to client_sent_func a second time.                      *)
NoAssertFails == s.failed => s.again > 0

(* client_sent_func: ASSERT(len <= client->socks_recv_tcp_pending), and    *)
(* every other assertion, always holds.                                    *)
NoAssertEverFails == ~s.failed

Counting(n) == [i \in 1 .. n |-> i]

(* The bytes of the host that the server got.                              *)
(* One gap may be in them.  tcp_receive compares the end of a segment that *)
(* it puts at the end of ooseq with the edge of the window as numbers.     *)
(* When the edge has wrapped around and the end has not, the segment is    *)
(* stretched up to the edge, and the bytes that really lie there are taken *)
(* for received.  Nothing else is missing, and nothing away from the place *)
(* where the numbers wrap around.                                          *)
HostStream ==
    \E k \in 0 .. peer.sent :
        /\ \A i \in DOMAIN s.srv.got : s.srv.got[i] = IF i <= k THEN i ELSE i + s.stretched
        /\ s.stretched > 0 => U32 \in PeerIss + k + 2 .. PeerIss + k + 1 + s.stretched

(* The bytes of the host arrive without a gap. *)
HostStreamWhole == s.srv.got = Counting(Len(s.srv.got))

(* Both byte streams arrive as they were sent: in order, without a gap and *)
(* without repetition, in spite of retransmission, of segments cut at the  *)
(* window and of data queued out of order, except for what HostStream      *)
(* allows.  A host that sees the end of the stream has got everything the  *)
(* SOCKS server had sent, unless the host itself ended the connection      *)
(* first.                                                                  *)
StreamIntact ==
    /\ HostStream
    /\ peer.got = Counting(Len(peer.got))
    /\ Len(s.srv.got) <= peer.sent
    /\ Len(peer.got) <= s.srv.given
    /\ peer.eof /\ ~peer.fin => Len(peer.got) = s.srv.given

(* client_recv_func never has to refuse data for want of room: the receive *)
(* window, which only tcp_recved opens, leaves exactly the free part of    *)
(* the client's buffer, without the numbers that a stretched segment took. *)
(* (Refused data would send tcp_fasttmr and tcp_input down a path on which *)
(* tcp_fasttmr can loop.)                                                  *)
WindowMatchesBuffer ==
    /\ s.pcb.refused_data = <<>>
    /\ s.cl.alive /\ ~s.cl.client_closed =>
         s.pcb.rcv_wnd = TCP_WND - Len(s.cl.buf) - s.stretched

Queued(p) == p.unacked \o p.unsent
Pbufs(q) == FoldLeft(LAMBDA n, seg : n + seg.clen, 0, q)

(* The segments not yet acknowledged lie one after the other, up to        *)
(* snd_lbb, and snd_queuelen counts their pbufs.                           *)
QueueAccounting ==
    LET q == Queued(s.pcb) IN
    /\ s.pcb.snd_queuelen = Pbufs(q) \/ s.pcb.state \in {"FREE", "TIME_WAIT"}
    /\ \A i \in 2 .. Len(q) : q[i].seq = SegEnd(q[i-1])
    /\ q # <<>> => SegEnd(Last(q)) \in {s.pcb.snd_lbb, Plus(s.pcb.snd_lbb, 1)}

(* tcp_pending counts exactly the bytes that lwIP still holds: a client    *)
(* whose SOCKS side is gone is freed neither too early nor never.  Bytes   *)
(* that were reported twice were taken off twice.                          *)
PendingMatches ==
    s.cl.alive /\ ~s.cl.client_closed =>
        /\ s.cl.tcp_pending + s.again = SeqDiff(s.pcb.snd_lbb, s.pcb.lastack)
        /\ s.cl.tcp_pending + s.again = TCP_SND_BUF - s.pcb.snd_buf

(* As long as the client holds its pcb, lwIP has not freed it, and the     *)
(* callbacks that lead back to a client are set only while it is there.    *)
PcbAlive ==
    LET held == s.cl.alive /\ ~s.cl.client_closed IN
    /\ held => s.pcb.errf /\ s.pcb.state \in {"ESTABLISHED", "CLOSE_WAIT"}
    /\ s.pcb.errf \/ s.pcb.recv \/ s.pcb.sent => held

(* What lwIP and the client each note about the connection agrees. *)
AccountsAgree ==
    ~s.failed => WindowMatchesBuffer /\ QueueAccounting /\ PendingMatches /\ PcbAlive

(* Data that waits to be sent or acknowledged never waits for nothing: a   *)
(* timer of tcp_slowtmr runs for it or tcp_output may send it.  What is    *)
(* too long for a window that is small but not closed has no timer: it     *)
(* waits for the host to open its window.                                  *)
NoStall ==
    LET p == s.pcb IN
    Queued(p) # <<>> /\ ~s.quitting =>
        \/ p.persist_backoff > 0
        \/ p.unacked # <<>> /\ p.rtime >= 0
        \/ p.unacked = <<>> /\ FitsWindow(p, p.unsent[1])
        \/ p.unacked = <<>> /\ p.snd_wnd > 0

(* A segment is retransmitted no more than TCP_MAXRTX times: nrtx stays an *)
(* index of tcp_backoff, and a connection whose host has gone is given up. *)
RetransmissionsBounded == s.pcb.nrtx <= TCP_MAXRTX
=============================================================================
