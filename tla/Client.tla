------------------------------- MODULE Client -------------------------------
(***************************************************************************)
(* A client of tun2socks (struct tcp_client and the client_ functions of   *)
(* tun2socks/tun2socks/tun2socks.c): it joins the TCP connection of a host *)
(* behind the tunnel device with a SOCKS connection, copies data both ways *)
(* and takes both down, whichever ends first.                              *)
(*                                                                         *)
(* The SOCKS connection is seen through BSocksClient's interface: events   *)
(*   [t |-> "up"], [t |-> "error"], [t |-> "closed"],                      *)
(*   [t |-> "taken", n |-> n]   n bytes of the buffer offered were sent,   *)
(*   [t |-> "given", n |-> n]   n bytes were received.                     *)
(* A handler may run jobs before it goes on (SYNC_FROMHERE, SYNC_COMMIT):  *)
(* the events that these jobs report are the parameter es of the handlers. *)
(* The field srv of the state is the far end of the SOCKS connection: the  *)
(* bytes it got, how many it has sent, and whether it has ended.           *)
(***************************************************************************)
EXTENDS Tcp

CONSTANTS RecvBuf        \* CLIENT_SOCKS_RECV_BUF_SIZE

(* struct tcp_client.  rbuf holds the bytes of socks_recv_buf from         *)
(* socks_recv_buf_sent on: it is empty exactly if socks_recv_buf_used = -1.*)
NoClient == [alive |-> FALSE, client_closed |-> FALSE, buf |-> <<>>,
             socks_up |-> FALSE, socks_closed |-> FALSE, rbuf |-> <<>>,
             waiting |-> FALSE, tcp_pending |-> 0,
             sending |-> FALSE, receiving |-> FALSE]

(* After DEAD_ENTER, DEAD_KILLED is true if the TCP side was freed. *)
DEAD_KILLED(s) == ~s.cl.alive \/ s.cl.client_closed

-----------------------------------------------------------------------------
(* Taking a client down. *)

client_dealloc(s) ==
    [Asserted(s, s.cl.client_closed /\ s.cl.socks_closed) EXCEPT !.cl = NoClient]

RemoveCallbacks(s) == [s EXCEPT !.pcb.errf = FALSE, !.pcb.recv = FALSE,
                                !.pcb.sent = FALSE]

BSocksClient_Free(s) == [s EXCEPT !.cl.sending = FALSE, !.cl.receiving = FALSE]

RECURSIVE client_free_socks(_)

(* Data still to be sent to SOCKS keeps the client alive. *)
client_handle_freed_client(s) ==
    LET a == [Asserted(s, ~s.cl.client_closed) EXCEPT !.cl.client_closed = TRUE]
    IN IF a.cl.buf # <<>> /\ ~a.cl.socks_closed THEN a
       ELSE IF ~a.cl.socks_closed THEN client_free_socks(a)
       ELSE client_dealloc(a)

\* c: the result of tcp_close.
ClosedOrAborted(c) == IF c.err = "ERR_OK" THEN c.s ELSE tcp_abort(c.s)

client_free_client(s) ==
    client_handle_freed_client(ClosedOrAborted(
        tcp_close(RemoveCallbacks(Asserted(s, ~s.cl.client_closed)))))

client_abort_client(s) ==
    client_handle_freed_client(
        tcp_abort(RemoveCallbacks(Asserted(s, ~s.cl.client_closed))))

SocksFreed(s) ==
    LET c == [BSocksClient_Free(s) EXCEPT !.cl.socks_closed = TRUE]
    IN IF /\ c.cl.socks_up /\ ~c.cl.client_closed
          /\ c.cl.rbuf # <<>> \/ c.cl.tcp_pending > 0
       THEN c
       ELSE IF ~c.cl.client_closed THEN client_free_client(c)
       ELSE client_dealloc(c)

(* Data still to be acknowledged by the host keeps the client alive. *)
client_free_socks(s) ==
    LET a == Asserted(s, ~s.cl.socks_closed)
    IN SocksFreed(IF a.cl.socks_up /\ ~a.cl.client_closed
                  THEN [a EXCEPT !.pcb.recv = FALSE] ELSE a)

client_murder(s) ==
    LET a == IF s.cl.client_closed THEN s
             ELSE [tcp_abort(RemoveCallbacks(s)) EXCEPT !.cl.client_closed = TRUE]
        b == IF a.cl.socks_closed THEN a
             ELSE [BSocksClient_Free(a) EXCEPT !.cl.socks_closed = TRUE]
    IN client_dealloc(b)

client_err_func(s) == client_handle_freed_client(s)

(* TCP_EVENT_ERR, where lwIP has already let go of the pcb. *)
TCP_EVENT_ERR(s) ==
    IF s.err THEN client_err_func([s EXCEPT !.err = FALSE]) ELSE s

-----------------------------------------------------------------------------
(* From SOCKS to the host. *)

client_socks_recv_initiate(s) ==
    [Asserted(s, /\ ~s.cl.client_closed /\ ~s.cl.socks_closed /\ s.cl.socks_up
                 /\ s.cl.rbuf = <<>> /\ ~s.cl.receiving)
        EXCEPT !.cl.receiving = TRUE]

(* The loop queues until the send buffer is full; up is FALSE when the     *)
(* connection was aborted.                                                 *)
RECURSIVE QueueOut(_)

\* w: the result of tcp_write for the first n bytes of the buffer.
BytesQueued(w, n) ==
    LET a == [w.s EXCEPT !.cl.rbuf = SubSeq(@, n + 1, Len(@)),
                         !.cl.tcp_pending = @ + n]
    IN IF w.err = "ERR_MEM" THEN [s |-> w.s, up |-> TRUE]
       ELSE IF w.err # "ERR_OK" THEN [s |-> client_abort_client(w.s), up |-> FALSE]
       ELSE IF a.cl.rbuf # <<>> THEN QueueOut(a)
       ELSE [s |-> a, up |-> TRUE]

QueueOut(s) ==
    LET n == Min2(Len(s.cl.rbuf), s.pcb.snd_buf)
    IN IF n = 0 THEN [s |-> s, up |-> TRUE]
       ELSE BytesQueued(tcp_write(s, SubSeq(s.cl.rbuf, 1, n)), n)

OutputDone(a) ==
    IF a.cl.rbuf = <<>> THEN [s |-> a, up |-> TRUE]
    ELSE IF a.cl.tcp_pending = 0
    THEN [s |-> client_abort_client(a), up |-> FALSE]
    ELSE [s |-> [a EXCEPT !.cl.waiting = TRUE], up |-> TRUE]

OutputIfUp(q) == IF q.up THEN OutputDone(tcp_output(q.s)) ELSE q

client_socks_recv_send_out(s) ==
    OutputIfUp(QueueOut(Asserted(s, /\ ~s.cl.client_closed /\ s.cl.socks_up
                                    /\ s.cl.rbuf # <<>> /\ ~s.cl.waiting)))

\* o: the result of client_socks_recv_send_out.
RecvAgain(o) ==
    IF o.up /\ o.s.cl.rbuf = <<>> THEN client_socks_recv_initiate(o.s) ELSE o.s

(* Fault: that the host has gone is not looked at. *)
RecvDoneUnchecked(s, n) ==
    LET data == [i \in 1 .. n |-> s.srv.given + i]
    IN RecvAgain(client_socks_recv_send_out([s EXCEPT !.cl.receiving = FALSE,
                 !.srv.given = @ + n, !.cl.rbuf = data, !.cl.waiting = FALSE]))

client_socks_recv_handler_done(s, n) ==
    LET a == Asserted([s EXCEPT !.cl.receiving = FALSE],
                      /\ n \in 1 .. RecvBuf /\ s.cl.socks_up
                      /\ ~s.cl.socks_closed /\ s.cl.rbuf = <<>>)
        data == [i \in 1 .. n |-> s.srv.given + i]
        b == [a EXCEPT !.srv.given = @ + n]
    IN IF s.cl.client_closed THEN b
       ELSE RecvAgain(client_socks_recv_send_out([b EXCEPT !.cl.rbuf = data,
                                                           !.cl.waiting = FALSE]))

-----------------------------------------------------------------------------
(* From the host to SOCKS. *)

client_send_to_socks(s) ==
    [Asserted(s, /\ ~s.cl.socks_closed /\ s.cl.socks_up
                 /\ s.cl.buf # <<>> /\ ~s.cl.sending)
        EXCEPT !.cl.sending = TRUE]

SendMore(c) ==
    IF c.cl.buf # <<>> THEN client_send_to_socks(c)
    ELSE IF c.cl.client_closed THEN client_free_socks(c)
    ELSE c

client_socks_send_handler_done(s, n) ==
    LET a == Asserted([s EXCEPT !.cl.sending = FALSE],
                      /\ ~s.cl.socks_closed /\ s.cl.socks_up
                      /\ n \in 1 .. Len(s.cl.buf))
        b == [a EXCEPT !.srv.got = @ \o SubSeq(s.cl.buf, 1, n),
                       !.cl.buf = SubSeq(@, n + 1, Len(@))]
    IN SendMore(IF b.cl.client_closed THEN b ELSE tcp_recved(b, n))

-----------------------------------------------------------------------------
(* Events of the SOCKS connection. *)

SocksUp(s) ==
    LET a == [Asserted(s, ~s.cl.socks_up) EXCEPT
                !.cl.rbuf = <<>>, !.cl.tcp_pending = 0, !.cl.socks_up = TRUE,
                !.pcb.sent = IF s.cl.client_closed THEN @ ELSE TRUE]
        b == IF a.cl.buf # <<>> THEN client_send_to_socks(a) ELSE a
    IN IF b.cl.client_closed THEN b ELSE client_socks_recv_initiate(b)

client_socks_handler(s, event) ==
    LET a == Asserted(s, ~s.cl.socks_closed)
        ended == [a EXCEPT !.srv.ended = TRUE]
    IN CASE event = "up"     -> SocksUp(a)
         [] event = "error"  -> client_free_socks(ended)
         [] event = "closed" -> client_free_socks(Asserted(ended, s.cl.socks_up))

(* What BSocksClient may report, as the operations it has been given and   *)
(* the far end allow.                                                      *)
SocksEvents(s) ==
    IF ~s.cl.alive \/ s.cl.socks_closed THEN {}
    ELSE {[t |-> "error", n |-> 0]}
      \cup (IF s.cl.socks_up THEN {} ELSE {[t |-> "up", n |-> 0]})
      \cup (IF s.cl.receiving THEN {[t |-> "closed", n |-> 0]} ELSE {})
      \cup (IF s.cl.sending THEN [t : {"taken"}, n : {1, Len(s.cl.buf)}] ELSE {})
      \cup (IF s.cl.receiving
            THEN [t : {"given"}, n : 1 .. Min2(RecvBuf, s.srv.bytes - s.srv.given)]
            ELSE {})

SocksEvent(s, e) ==
    CASE e.t = "taken" -> client_socks_send_handler_done(s, e.n)
      [] e.t = "given" -> client_socks_recv_handler_done(s, e.n)
      [] OTHER         -> client_socks_handler(s, e.t)

(* SYNC_COMMIT: the pending jobs run, and report the events es, one after  *)
(* the other as far as the state allows them, before the handler goes on.  *)
RECURSIVE SYNC_COMMIT(_, _, _)
SYNC_COMMIT(s, es, allowed) ==
    IF es # <<>> /\ Head(es) \in SocksEvents(s) /\ Head(es).t \in allowed
    THEN SYNC_COMMIT(SocksEvent(s, Head(es)), Tail(es), allowed)
    ELSE s

-----------------------------------------------------------------------------
(* Callbacks from lwIP: the new state and what the callback returns. *)

Ret(s, err) == [s |-> s, err |-> err]
RetSync(s) == Ret(s, IF DEAD_KILLED(s) THEN "ERR_ABRT" ELSE "ERR_OK")

(* BSocksClient_Init may fail; lwIP then gets rid of the connection. *)
InitFailed == [t |-> "nosocks", n |-> 0]

listener_accept_func(s, es) ==
    LET a == [s EXCEPT !.cl = [NoClient EXCEPT !.alive = TRUE],
                       !.pcb.errf = TRUE, !.pcb.recv = TRUE]
    IN IF es = <<InitFailed>> THEN Ret(s, "ERR_MEM")
       ELSE RetSync(SYNC_COMMIT(a, es, {"error"}))

(* Fault: the window is opened when data is buffered, not when it is sent. *)
RecvOpensWindow(s, data, es) ==
    LET a == tcp_recved([s EXCEPT !.cl.buf = @ \o data], Len(data))
    IN IF data = <<>> THEN Ret(client_free_client(s), "ERR_ABRT")
       ELSE IF Len(data) > TCP_WND - Len(s.cl.buf) THEN Ret(s, "ERR_MEM")
       ELSE IF s.cl.buf = <<>> /\ s.cl.socks_up
       THEN RetSync(SYNC_COMMIT(client_send_to_socks(a), es, {"taken", "error"}))
       ELSE Ret(a, "ERR_OK")

client_recv_func(s, data, es) ==
    LET a == [s EXCEPT !.cl.buf = @ \o data]
    IN IF data = <<>> THEN Ret(client_free_client(s), "ERR_ABRT")
       ELSE IF Len(data) > TCP_WND - Len(s.cl.buf) THEN Ret(s, "ERR_MEM")
       ELSE IF s.cl.buf = <<>> /\ s.cl.socks_up
       THEN RetSync(SYNC_COMMIT(client_send_to_socks(a), es, {"taken", "error"}))
       ELSE Ret(a, "ERR_OK")

\* o: the result of client_socks_recv_send_out.
SentOut(o, es) ==
    LET b == Asserted(o.s, o.s.cl.tcp_pending > 0)
    IN IF ~o.up THEN Ret(o.s, "ERR_ABRT")
       ELSE IF b.cl.rbuf = <<>> /\ ~b.cl.socks_closed
       THEN RetSync(SYNC_COMMIT(client_socks_recv_initiate(b), es,
                                {"given", "closed", "error"}))
       ELSE Ret(b, "ERR_OK")

client_sent_func(s, len, es) ==
    LET a == [Asserted(s, /\ ~s.cl.client_closed /\ s.cl.socks_up
                          /\ len \in 1 .. s.cl.tcp_pending)
                EXCEPT !.cl.tcp_pending = @ - len]
    IN IF a.cl.rbuf # <<>>
       THEN SentOut(client_socks_recv_send_out(
                [Asserted(a, a.cl.waiting) EXCEPT !.cl.waiting = FALSE]), es)
       ELSE IF a.cl.socks_closed /\ a.cl.tcp_pending = 0
       THEN Ret(client_free_client(a), "ERR_ABRT")
       ELSE Ret(a, "ERR_OK")
=============================================================================
