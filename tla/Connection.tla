----------------------------- MODULE Connection -----------------------------
(***************************************************************************)
(* system/BConnection_unix.c: a BConnector opens the TCP connection to the *)
(* SOCKS server, a BConnection sends and receives on it.  Fields:          *)
(*   ctor   the BConnector: live, fd (it owns the socket), connected,      *)
(*          have_bfd                                                       *)
(*   con    the BConnection: live, hupd (is_hupd), wait (wait_events), the *)
(*          states snd and rcv, and the arguments of the operations: data  *)
(*          and len of the one, dest and avail of the other                *)
(*   k      the socket in the kernel: conn, what the connection attempt    *)
(*          has come to; in, what has arrived; end, whether more can come; *)
(*          out, everything written; taken, how much of it has left        *)
(*   buf    the buffers data is sent from and received into                *)
(*   files  the file descriptors the process has open                      *)
(*   fault  what the system refuses to do in this behaviour                *)
(*   report the event the user's handler is called with, or none: every    *)
(*          function that calls it returns at once, so the call is the     *)
(*          last thing to happen and the user's module makes it            *)
(* Data is passed by address, a buffer and a place in it, and is copied    *)
(* when the system call is made.                                           *)
(***************************************************************************)
EXTENDS Reactor

CONSTANTS Room  \* bound: what the socket buffer holds

Snd == "snd"    \* o->send.iface
Rcv == "rcv"    \* o->recv.iface
SendJob == <<"job", "send">>
RecvJob == <<"job", "recv">>
ConnectorJob == <<"job", "connector">>
ConnectionError == <<"error", "connection">>

NoConnector == [live |-> FALSE, fd |-> FALSE, connected |-> FALSE, have_bfd |-> FALSE]
Address(b, at) == [buf |-> b, at |-> at]
NoAddress == Address(Null, 0)
Stream_Init == [Iface_Init(None) EXCEPT !.data = NoAddress]

NoConnection == [live |-> FALSE, hupd |-> FALSE, wait |-> {},
                 snd |-> "NOT_INITED", data |-> NoAddress, len |-> 0,
                 rcv |-> "NOT_INITED", dest |-> NoAddress, avail |-> 0]
NoSocket == [conn |-> "none", in |-> <<>>, end |-> "open", out |-> <<>>, taken |-> 0]

open(st, f) == [st EXCEPT !.files = @ \cup {f}]
close(st, f) == [Asserted(st, f \in st.files) EXCEPT !.files = @ \ {f}]

-----------------------------------------------------------------------------
(* The socket. *)

Free(k) == Room - (Len(k.out) - k.taken)

(* What epoll finds.  An error of a TCP socket ends it, so ERR comes with  *)
(* HUP.                                                                    *)
SocketReady(k) ==
    CASE k.conn = "refused" -> {"IN", "OUT", "ERR", "HUP"}
      [] k.conn = "connected" ->
           (IF k.in # <<>> \/ k.end # "open" THEN {"IN"} ELSE {})
           \cup (IF Free(k) > 0 \/ k.end = "reset" THEN {"OUT"} ELSE {})
           \cup (IF k.end = "reset" THEN {"ERR", "HUP"} ELSE {})
      [] OTHER -> {}

Again == "EAGAIN"
Fails == "error"
read(k, len) ==
    IF k.in # <<>> THEN [got |-> SubSeq(k.in, 1, Min({len, Len(k.in)})), err |-> "no"]
    ELSE [got |-> <<>>, err |-> CASE k.end = "open" -> Again
                                  [] k.end = "eof" -> "no"
                                  [] k.end = "reset" -> Fails]
write(k, data) ==
    IF k.end = "reset" THEN [n |-> 0, err |-> Fails]
    ELSE IF Free(k) = 0 THEN [n |-> 0, err |-> Again]
    ELSE [n |-> Min({Len(data), Free(k)}), err |-> "no"]

-----------------------------------------------------------------------------
(* BConnector. *)

\* The labels fail1 and fail2 of BConnector_Init.
ConnectorFail1(st) == [ok |-> FALSE, st |-> BPending_Free(st, ConnectorJob)]
ConnectorFail2(st) == ConnectorFail1(close(st, "socket"))

BConnector_Init(st) ==
    LET job == BPending_Init(st, ConnectorJob)
        a == open(job, "socket")
        ok == [NoConnector EXCEPT !.live = TRUE, !.fd = TRUE]
    IN CASE st.fault = "socket" -> ConnectorFail1(job)
         [] st.fault \in {"connect", "register connector"} -> ConnectorFail2(a)
         [] st.fault = "connects at once" ->
              [ok |-> TRUE, st |-> BPending_Set(
                 [a EXCEPT !.ctor = [ok EXCEPT !.connected = TRUE],
                           !.k = [NoSocket EXCEPT !.conn = "connected"]], ConnectorJob)]
         [] OTHER ->
              [ok |-> TRUE, st |-> BReactor_SetFileDescriptorEvents(
                 BReactor_AddFileDescriptor(
                   [a EXCEPT !.ctor = [ok EXCEPT !.have_bfd = TRUE],
                             !.k = [NoSocket EXCEPT !.conn = "progress"]], "connector"),
                 "connector", {"WRITE"})]

BConnector_Free(st) ==
    LET a == Asserted(st, st.ctor.live)
        b == IF st.ctor.have_bfd THEN BReactor_RemoveFileDescriptor(a, "connector") ELSE a
        c == IF st.ctor.fd THEN [close(b, "socket") EXCEPT !.k = NoSocket] ELSE b
    IN BPending_Free([c EXCEPT !.ctor = NoConnector], ConnectorJob)

connector_fd_handler(st) ==
    LET a == BReactor_RemoveFileDescriptor(
               Asserted(st, st.ctor.fd /\ ~st.ctor.connected /\ st.ctor.have_bfd),
               "connector")
        connected == st.k.conn = "connected"
    IN [a EXCEPT !.ctor.have_bfd = FALSE, !.ctor.connected = connected,
                 !.report = IF connected THEN "connected" ELSE "not connected"]

connector_job_handler(st) ==
    [Asserted(st, st.ctor.fd /\ st.ctor.connected /\ ~st.ctor.have_bfd)
       EXCEPT !.report = "connected"]

-----------------------------------------------------------------------------
(* BConnection: creation and release. *)

(* Fault: the socket stays open when it cannot be registered. *)
BConnection_Init_open(st) ==
    LET a == [st EXCEPT !.ctor.fd = FALSE]
    IN IF st.fault = "register connection" THEN [ok |-> FALSE, st |-> a]
       ELSE [ok |-> TRUE, st |-> BPending_Init(
               BReactorLimit_Init(BReactorLimit_Init(
                 [BReactor_AddFileDescriptor(a, "connection")
                    EXCEPT !.con = [NoConnection EXCEPT !.live = TRUE]],
                 "send"), "recv"), ConnectionError)]

BConnection_Init(st) ==
    LET a == [Asserted(st, /\ st.ctor.fd /\ st.ctor.connected /\ ~st.ctor.have_bfd
                           /\ ~BPending_IsSet(st, ConnectorJob))
                EXCEPT !.ctor.fd = FALSE]
    IN IF st.fault = "register connection"
       THEN [ok |-> FALSE, st |-> [close(a, "socket") EXCEPT !.k = NoSocket]]
       ELSE [ok |-> TRUE, st |-> BPending_Init(
               BReactorLimit_Init(BReactorLimit_Init(
                 [BReactor_AddFileDescriptor(a, "connection")
                    EXCEPT !.con = [NoConnection EXCEPT !.live = TRUE]],
                 "send"), "recv"), ConnectionError)]

BConnection_Free(st) ==
    LET a == BPending_Free(
               Asserted(st, /\ st.con.live /\ st.con.snd = "NOT_INITED"
                            /\ st.con.rcv = "NOT_INITED"), ConnectionError)
        b == BReactorLimit_Free(BReactorLimit_Free(a, "recv"), "send")
        c == IF st.con.hupd THEN b ELSE BReactor_RemoveFileDescriptor(b, "connection")
    IN [close(c, "socket") EXCEPT !.con = NoConnection, !.k = NoSocket]

(* wait_events is changed and handed to the reactor. *)
SetWait(st, wait) ==
    BReactor_SetFileDescriptorEvents([st EXCEPT !.con.wait = wait], "connection", wait)
StopWaiting(st, event) ==
    IF st.con.hupd THEN st ELSE SetWait(st, st.con.wait \ {event})

BConnection_SendAsync_Init(st) ==
    BPending_Init(Iface_New(
        [DebugError_AssertNoError(Asserted(st, st.con.snd = "NOT_INITED"), ConnectionError)
           EXCEPT !.con.snd = "READY"], Snd, Stream_Init), SendJob)

BConnection_SendAsync_Free(st) ==
    [Iface_Free(BPending_Free(StopWaiting(
        Asserted(st, st.con.snd \in {"READY", "BUSY"}), "WRITE"), SendJob), Snd)
       EXCEPT !.con.snd = "NOT_INITED", !.con.data = NoAddress, !.con.len = 0]

BConnection_RecvAsync_Init(st) ==
    BPending_Init(Iface_New(
        [DebugError_AssertNoError(Asserted(st, st.con.rcv = "NOT_INITED"), ConnectionError)
           EXCEPT !.con.rcv = "READY"], Rcv, Stream_Init), RecvJob)

BConnection_RecvAsync_Free(st) ==
    [Iface_Free(BPending_Free(StopWaiting(
        Asserted(st, st.con.rcv \in {"READY", "BUSY", "INITED_CLOSED"}), "READ"),
        RecvJob), Rcv)
       EXCEPT !.con.rcv = "NOT_INITED", !.con.dest = NoAddress, !.con.avail = 0]

-----------------------------------------------------------------------------
(* BConnection: sending and receiving. *)

(* The bytes of a buffer from an address on, and the buffer with bytes put *)
(* there; both stay inside the buffer.                                     *)
Inside(st, addr, len) == addr.at + len <= Len(st.buf[addr.buf])
Bytes(st, addr, len) == SubSeq(st.buf[addr.buf], addr.at + 1, addr.at + len)
Put(st, addr, data) ==
    [st EXCEPT !.buf[addr.buf] = [i \in DOMAIN @ |->
        IF i \in addr.at + 1 .. addr.at + Len(data) THEN data[i - addr.at] ELSE @[i]]]

connection_report_error(st) ==
    [DEBUGERROR(st, ConnectionError) EXCEPT !.report = "ERROR"]

connection_send(st) ==
    LET a == Asserted(DebugError_AssertNoError(st, ConnectionError),
                      st.con.snd = "BUSY" /\ Inside(st, st.con.data, st.con.len))
        b == IF st.con.hupd THEN a ELSE BReactorLimit_Increment(a, "send")
        w == write(st.k, Bytes(st, st.con.data, st.con.len))
    IN CASE ~st.con.hupd /\ BReactorLimit_Exceeded(st, "send") ->
              SetWait(a, st.con.wait \cup {"WRITE"})
         [] w.err = Again /\ ~st.con.hupd -> SetWait(b, st.con.wait \cup {"WRITE"})
         [] w.err # "no" -> connection_report_error(b)
         [] OTHER -> StreamPassInterface_Done(
              [b EXCEPT !.k.out = @ \o Bytes(st, st.con.data, w.n), !.con.snd = "READY"],
              Snd, w.n)

connection_recv(st) ==
    LET a == Asserted(DebugError_AssertNoError(st, ConnectionError),
                      st.con.rcv = "BUSY" /\ Inside(st, st.con.dest, st.con.avail))
        b == IF st.con.hupd THEN a ELSE BReactorLimit_Increment(a, "recv")
        r == read(st.k, st.con.avail)
    IN CASE ~st.con.hupd /\ BReactorLimit_Exceeded(st, "recv") ->
              SetWait(a, st.con.wait \cup {"READ"})
         [] r.err = Again /\ ~st.con.hupd -> SetWait(b, st.con.wait \cup {"READ"})
         [] r.err # "no" \/ r.got = <<>> ->
              IF r.err # "no" THEN connection_report_error(b)
              ELSE [b EXCEPT !.con.rcv = "INITED_CLOSED", !.report = "RECVCLOSED"]
         [] OTHER -> StreamRecvInterface_Done(
              [Put(b, st.con.dest, r.got) EXCEPT
                 !.k.in = SubSeq(@, Len(r.got) + 1, Len(@)), !.con.rcv = "READY"],
              Rcv, Len(r.got))

connection_send_if_handler_send(st) ==
    connection_send([Asserted(st, st.con.snd = "READY") EXCEPT
        !.con.data = st.iface[Snd].data, !.con.len = st.iface[Snd].len,
        !.con.snd = "BUSY"])

connection_recv_if_handler_recv(st) ==
    connection_recv([Asserted(st, st.con.rcv = "READY") EXCEPT
        !.con.dest = st.iface[Rcv].data, !.con.avail = st.iface[Rcv].len,
        !.con.rcv = "BUSY"])

connection_recv_job_handler(st) == connection_recv(st)

connection_fd_handler(st, events) ==
    LET a == SetWait(Asserted(DebugError_AssertNoError(st, ConnectionError),
                              ~st.con.hupd), st.con.wait \ events)
        b == IF "HUP" \in events
             THEN [BReactor_RemoveFileDescriptor(a, "connection") EXCEPT !.con.hupd = TRUE]
             ELSE a
        bad == events \cap {"ERR", "HUP"} # {}
        have_send == "WRITE" \in events \/ (bad /\ st.con.snd = "BUSY")
        have_recv == "READ" \in events \/ (bad /\ st.con.rcv = "BUSY")
    IN CASE have_send -> connection_send(IF have_recv THEN BPending_Set(b, RecvJob) ELSE b)
         [] ~have_send /\ have_recv -> connection_recv(b)
         [] OTHER -> IF b.con.hupd THEN b ELSE connection_report_error(b)
=============================================================================
