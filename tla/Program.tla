------------------------------- MODULE Program -------------------------------
(***************************************************************************)
(* tun2socks as a process: tun2socks_init with what can fail in it, the    *)
(* event loop, the TUN device, the signals, one client at a time with its  *)
(* SOCKS connection, and the teardown at the end of tun2socks_run, which   *)
(* a signal or the loss of the device may ask for at any moment.           *)
(*                                                                         *)
(* lwIP is reduced here to the callbacks it makes when a packet or the TCP *)
(* timer comes, with a send buffer that takes everything: the TCP modules  *)
(* have the rest.  Fields of the record s, besides those of Reactor,       *)
(* Connection and Socks:                                                   *)
(*   pc       start, run, ended                                            *)
(*   waiting  the process is in epoll_wait                                 *)
(*   quitting, netif (have_netif), listener                                *)
(*   tap      the BTap: live, and out (output_packet # NULL)               *)
(*   packet   the packet in the SinglePacketBuffer                         *)
(*   cl       the tcp_client: closed (client_closed), sclosed              *)
(*            (socks_closed), up (socks_up), recv (the recv callback is    *)
(*            set), pend (socks_recv_tcp_pending)                          *)
(*   mem      the memory blocks held                                       *)
(*   dev, gone  the packets waiting in the device, and that it is lost     *)
(*   signal   none, pending or taken                                       *)
(*   sent     how much of its stream the SOCKS server has sent             *)
(*   fed, got the data the client has sent and been given                  *)
(*   accepts  how many connections lwIP has offered                        *)
(*   pbufs    the pbufs of received data that nobody has freed             *)
(* username: a user name is given, with the option to append the source to *)
(* it, as tun2socks_main can and tun2socks_init does not.  server: what    *)
(* the SOCKS server answers.                                               *)
(***************************************************************************)
EXTENDS Socks

CONSTANTS Faults,      \* what may fail, one of them in a behaviour
          ServerUnits, ClientUnits,  \* bound: the data of the two sides
          Accepts,     \* bound: connections of clients
          Packets,     \* bound: packets waiting in the device
          Kinds,       \* the packets that come: noise, syn, data, ack, fin, rst
          Arrived,     \* bound: units waiting in the socket
          Together     \* bound: descriptors ready at the same time, if nothing
                       \* fails and the server does as tunnel.c's does

VARIABLES s, server, username

vars == <<s, server, username>>

ServerData == SubSeq(<<"s1", "s2", "s3">>, 1, ServerUnits)
ClientData == SubSeq(<<"c1", "c2", "c3">>, 1, ClientUnits)

Dev == "dev"     \* BTap_GetOutput(&device)
Read == "read"   \* device_read_interface
LwipJob == <<"job", "lwip init">>
TapError == <<"error", "tap">>
SyncMark == <<"mark", "sync">>
TcpTimer == "tcp"
TCP_TMR_INTERVAL == 1

alloc(st, m) == [st EXCEPT !.mem = @ \cup {m}]
free(st, m) == [Asserted(st, m \in st.mem) EXCEPT !.mem = @ \ {m}]

terminate(st) ==
    BReactor_Quit([Asserted(st, ~st.quitting) EXCEPT !.quitting = TRUE])

-----------------------------------------------------------------------------
(* tuntap/BTap.c *)

PollRead(st, on) ==
    BReactor_SetFileDescriptorEvents([st EXCEPT !.tap.out = on], Dev,
                                     IF on THEN {"READ"} ELSE {})

(* A step that fails after the device is open closes it again. *)
BTap_Init(st) ==
    CASE st.fault = "open device" -> [ok |-> FALSE, st |-> st]
      [] st.fault = "set up device" -> [ok |-> FALSE, st |-> close(open(st, "tun"), "tun")]
      [] OTHER -> [ok |-> TRUE, st |-> BPending_Init(Iface_New(
           [BReactor_AddFileDescriptor(open(st, "tun"), Dev)
              EXCEPT !.tap = [live |-> TRUE, out |-> FALSE]], Dev, Iface_Init(1)), TapError)]

BTap_Free(st) ==
    [close(BReactor_RemoveFileDescriptor(Iface_Free(BPending_Free(
        Asserted(st, st.tap.live), TapError), Dev), Dev), "tun")
       EXCEPT !.tap = [live |-> FALSE, out |-> FALSE]]

BTap_Send(st) == DebugError_AssertNoError(Asserted(st, st.tap.live), TapError)

device_error_handler(st) == terminate(st)
BTap_report_error(st) == device_error_handler(DEBUGERROR(st, TapError))

(* A packet is read if there is one; reading a device that is gone fails. *)
TakePacket(st) ==
    PacketRecvInterface_Done([st EXCEPT !.packet = Head(st.dev), !.dev = Tail(@)], Dev, 1)

output_handler_recv(st) ==
    LET a == DebugError_AssertNoError(Asserted(st, ~st.tap.out), TapError)
    IN CASE st.dev # <<>> -> TakePacket(a)
         [] st.dev = <<>> /\ ~st.gone -> PollRead(a, TRUE)
         [] OTHER -> BTap_report_error(a)

fd_handler(st, events) ==
    LET a == DebugError_AssertNoError(st, TapError)
        b == IF events \cap {"ERR", "HUP"} # {} THEN BReactor_Quit(a) ELSE a
        c == Asserted(b, st.tap.out)
    IN CASE "READ" \notin events -> b
         [] "READ" \in events /\ st.dev # <<>> -> TakePacket(PollRead(c, FALSE))
         [] "READ" \in events /\ st.dev = <<>> /\ ~st.gone -> c
         [] OTHER -> BTap_report_error(c)

-----------------------------------------------------------------------------
(* flow/SinglePacketBuffer.c between the device and lwIP. *)

SinglePacketBuffer_Init(st) ==
    IF st.fault = "packet buffer" THEN [ok |-> FALSE, st |-> st]
    ELSE [ok |-> TRUE,
          st |-> PacketRecvInterface_Receiver_Recv(alloc(st, "packet buffer"), Dev, 0)]
SinglePacketBuffer_Free(st) == [free(st, "packet buffer") EXCEPT !.packet = "none"]

input_handler_done(st) ==
    PacketPassInterface_Sender_Send(st, Read, 0, st.iface[Dev].len)
output_handler_done(st) == PacketRecvInterface_Receiver_Recv(st, Dev, 0)

-----------------------------------------------------------------------------
(* system/BSignal.c, system/BUnixSignal.c *)

(* BUnixSignal_Free, with unblock 0. *)
SignalFd_Free(st) == close(BReactor_RemoveFileDescriptor(st, "signal"), "signalfd")

BSignal_Init(st) ==
    LET a == BReactor_SetFileDescriptorEvents(
                 BReactor_AddFileDescriptor(open(st, "signalfd"), "signal"),
                 "signal", {"READ"})
    IN CASE st.fault = "signalfd" -> [ok |-> FALSE, st |-> st]
         [] st.fault = "block signals" -> [ok |-> FALSE, st |-> SignalFd_Free(a)]
         [] OTHER -> [ok |-> TRUE, st |-> a]

BSignal_Finish(st) == SignalFd_Free(st)

signal_handler(st) == terminate(Asserted(st, ~st.quitting))
signalfd_handler(st) ==
    IF st.signal = "pending" THEN signal_handler([st EXCEPT !.signal = "taken"]) ELSE st

-----------------------------------------------------------------------------
(* The client of tun2socks.c.  What lwIP sends goes to the device through  *)
(* common_netif_output; BTap_Send sets no job, so the SYNC around it has   *)
(* nothing to run.                                                         *)

common_netif_output(st) == IF st.quitting THEN st ELSE BTap_Send(st)

NoClient == [live |-> FALSE, closed |-> FALSE, sclosed |-> FALSE, up |-> FALSE,
             recv |-> FALSE, pend |-> 0]

client_dealloc(st) ==
    [Asserted(st, st.cl.live /\ st.cl.closed /\ st.cl.sclosed) EXCEPT
       !.cl = NoClient, !.mem = @ \ {"client", "username"},
       !.buf.client = <<>>, !.buf.recv = <<>>]

(* The first half of client_handle_freed_client and the first half of      *)
(* client_free_socks: one side goes ...                                    *)
ClientGone(st) ==
    [Asserted(st, ~st.cl.closed) EXCEPT !.cl.closed = TRUE, !.cl.recv = FALSE]
SocksGone(st) ==
    [BSocksClient_Free(Asserted(st, ~st.cl.sclosed)) EXCEPT
       !.cl.sclosed = TRUE, !.cl.recv = IF st.cl.up THEN FALSE ELSE @]

(* ... and the other side goes with it unless it has data to deliver. *)
WithoutClient(st) ==
    CASE st.cl.sclosed -> client_dealloc(st)
      [] ~st.cl.sclosed /\ st.buf.client # <<>> -> st
      [] OTHER -> client_dealloc(SocksGone(st))

client_handle_freed_client(st) == WithoutClient(ClientGone(st))

(* tcp_close, or tcp_abort: either may send a segment. *)
client_free_client(st) == client_handle_freed_client(common_netif_output(st))

WithoutSocks(st) ==
    CASE st.cl.closed -> client_dealloc(st)
      [] ~st.cl.closed /\ st.cl.up /\ st.cl.pend > 0 -> st
      [] OTHER -> client_free_client(st)

client_free_socks(st) == WithoutSocks(SocksGone(st))

client_murder(st) ==
    LET a == IF st.cl.closed THEN st ELSE ClientGone(common_netif_output(st))
    IN Then(IF st.cl.sclosed THEN a ELSE SocksGone(a), client_dealloc)

client_err_func(st) == client_handle_freed_client(st)

client_send_to_socks(st) ==
    StreamPassInterface_Sender_Send(
        Asserted(st, ~st.cl.sclosed /\ st.cl.up /\ st.buf.client # <<>>),
        Snd, Address("client", 0), Len(st.buf.client))

client_socks_recv_initiate(st) ==
    StreamRecvInterface_Receiver_Recv(
        Asserted(st, ~st.cl.closed /\ ~st.cl.sclosed /\ st.cl.up),
        Rcv, Address("recv", 0), Len(st.buf.recv))

client_socks_handler(st, event) ==
    LET up == [Asserted(st, ~st.cl.sclosed /\ ~st.cl.up) EXCEPT !.cl.up = TRUE, !.cl.pend = 0]
        sending == IF st.buf.client # <<>> THEN client_send_to_socks(up) ELSE up
    IN IF event # "UP"
       THEN client_free_socks(Asserted(st, ~st.cl.sclosed /\ (event = "ERROR_CLOSED" => st.cl.up)))
       ELSE IF st.cl.closed THEN sending ELSE client_socks_recv_initiate(sending)

(* tcp_recved may announce the window that opens. *)
client_socks_send_handler_done(st, len) ==
    LET a == [Asserted(st, ~st.cl.sclosed /\ st.cl.up /\ len \in 1 .. Len(st.buf.client))
                EXCEPT !.buf.client = SubSeq(@, len + 1, Len(@))]
        b == IF st.cl.closed THEN a ELSE common_netif_output(a)
    IN CASE b.buf.client # <<>> -> client_send_to_socks(b)
         [] b.buf.client = <<>> /\ st.cl.closed -> client_free_socks(b)
         [] OTHER -> b

(* With client_socks_recv_send_out, for a send buffer with room. *)
client_socks_recv_handler_done(st, len) ==
    LET a == Asserted(st, ~st.cl.sclosed /\ st.cl.up /\ len \in 1 .. Len(st.buf.recv))
    IN IF st.cl.closed THEN a
       ELSE client_socks_recv_initiate(common_netif_output(
              [a EXCEPT !.cl.pend = @ + len, !.got = @ \o SubSeq(st.buf.recv, 1, len)]))
-----------------------------------------------------------------------------
(* The jobs of the connection to the SOCKS server. *)

(* The handler an event is reported to is called: client_socks_handler,    *)
(* and those of BSocksClient, which may report an event in turn.           *)
Quietly(st) == [st EXCEPT !.report = "none"]
OnSocks(st) ==
    IF st.report = "none" THEN st ELSE client_socks_handler(Quietly(st), st.report)
OnConnector(st) ==
    IF st.report = "none" THEN st
    ELSE OnSocks(connector_handler(Quietly(st), st.report = "not connected"))
OnConnection(st) ==
    IF st.report = "none" THEN st
    ELSE OnSocks(connection_handler(Quietly(st), st.report))

SendDone(st, len) ==
    IF st.sc.state = "UP" THEN client_socks_send_handler_done(st, len)
    ELSE StreamSender_output_done(st, len)
RecvDone(st, len) ==
    IF st.sc.state = "UP" THEN client_socks_recv_handler_done(st, len)
    ELSE OnSocks(recv_handler_done(st, len))

ConnectionJob(st, job) ==
    CASE job = Operation(Snd) ->
           OnConnection(connection_send_if_handler_send(job_operation(st, Snd)))
      [] job = Operation(Rcv) ->
           OnConnection(connection_recv_if_handler_recv(job_operation(st, Rcv)))
      [] job = Operation(Pkt) -> StreamSender_input_send(job_operation(st, Pkt))
      [] job = Done(Snd) -> SendDone(job_done(st, Snd), st.iface[Snd].len)
      [] job = Done(Rcv) -> RecvDone(job_done(st, Rcv), st.iface[Rcv].len)
      [] job = Done(Pkt) -> OnSocks(send_handler_done(job_done(st, Pkt)))
      [] job = ConnectorJob -> OnConnector(connector_job_handler(st))
      [] job = RecvJob -> OnConnection(connection_recv_job_handler(st))
      [] OTHER -> Asserted(st, FALSE)  \* an object in error has not been freed

-----------------------------------------------------------------------------
(* What lwIP calls with a packet of the device or at its timer.            *)
(* SYNC_FROMHERE ... SYNC_COMMIT: the jobs set in between run before the   *)
(* callback returns; they are jobs of the connection, or an ASSERT fails.  *)

RECURSIVE BReactor_Synchronize(_)
BReactor_Synchronize(st) ==
    CASE st.exiting \/ st.failed -> st
      [] ~(st.exiting \/ st.failed) /\ ~HasJob(st) -> Asserted(st, FALSE)
      [] OTHER -> IF Head(st.jobs) = SyncMark THEN st
                  ELSE BReactor_Synchronize(
                         ConnectionJob([st EXCEPT !.jobs = Tail(@)], Head(st.jobs)))

SYNC_FROMHERE(st) == BPending_Set(BPending_Init(st, SyncMark), SyncMark)
SYNC_BREAK(st) == BPending_Free(st, SyncMark)
SYNC_COMMIT(st) == BPending_Free(BReactor_Synchronize(st), SyncMark)

Auth == <<BSocksClient_auth_none>>
        \o (IF username THEN <<BSocksClient_auth_password>> ELSE <<>>)

\* The label fail1 of listener_accept_func.
NotAccepted(st) ==
    common_netif_output([SYNC_BREAK(st) EXCEPT !.mem = @ \ {"client", "username"}])

\* c: the result of BSocksClient_Init.
AcceptedWith(c) ==
    IF ~c.ok THEN NotAccepted(c.st)
    ELSE SYNC_COMMIT([c.st EXCEPT
           !.cl = [NoClient EXCEPT !.live = TRUE, !.recv = TRUE],
           !.buf.recv = <<Unset, Unset>>, !.sent = 0, !.fed = 0, !.got = <<>>])

(* A connection that is not taken is reset. *)
listener_accept_func(st) ==
    LET a == SYNC_FROMHERE(alloc([st EXCEPT !.accepts = @ + 1], "client"))
    IN CASE st.fault = "client memory" -> common_netif_output([st EXCEPT !.accepts = @ + 1])
         [] st.fault = "username memory" /\ username -> NotAccepted(a)
         [] OTHER -> AcceptedWith(
                BSocksClient_Init(IF username THEN alloc(a, "username") ELSE a, Auth))

(* pbufs counts those handed to the client and not freed. *)
pbuf_free(st) == [st EXCEPT !.pbufs = @ - 1]

\* DEAD_KILLED: the callback returns at once.
FreedIfAlive(st) == IF st.cl.closed \/ ~st.cl.live THEN st ELSE pbuf_free(st)

client_recv_func(st) ==
    LET a == [Asserted(st, ~st.cl.closed) EXCEPT !.pbufs = @ + 1,
                !.buf.client = Append(@, ClientData[st.fed + 1]), !.fed = @ + 1]
    IN IF st.buf.client = <<>> /\ st.cl.up
       THEN FreedIfAlive(SYNC_COMMIT(client_send_to_socks(
                SYNC_FROMHERE(Asserted(a, ~st.cl.sclosed)))))
       ELSE pbuf_free(a)

client_recv_func_closed(st) == client_free_client(st)

client_sent_func(st, len) ==
    LET a == [Asserted(st, ~st.cl.closed /\ st.cl.up /\ len \in 1 .. st.cl.pend)
                EXCEPT !.cl.pend = @ - len]
    IN IF st.cl.sclosed /\ a.cl.pend = 0 THEN client_free_client(a) ELSE a

(* ip_input and tcp_input.  Before netif_add, the_netif.input is NULL. *)
netif_input_func(st, kind) ==
    LET a == Asserted(st, st.netif)
        open_client == st.cl.live /\ ~st.cl.closed
    IN CASE kind = "syn" /\ st.listener /\ ~st.cl.live -> listener_accept_func(a)
         [] kind = "data" /\ st.cl.recv /\ st.fed < Len(ClientData) -> client_recv_func(a)
         [] kind = "ack" /\ open_client /\ st.cl.pend > 0 -> client_sent_func(a, st.cl.pend)
         [] kind = "fin" /\ st.cl.recv -> client_recv_func_closed(a)
         [] kind = "rst" /\ open_client -> client_err_func(a)
         [] OTHER -> common_netif_output(a)

device_read_handler_send(st) ==
    netif_input_func(PacketPassInterface_Done(
        [Asserted(st, ~st.quitting) EXCEPT !.packet = "none"], Read), st.packet)

(* tcp_tmr may send, or give a client up. *)
tcp_timer_handler(st, gives_up) ==
    LET a == BReactor_SetTimer(Asserted(st, ~st.quitting /\ st.netif), TcpTimer,
                               TCP_TMR_INTERVAL)
    IN IF gives_up THEN client_err_func(a) ELSE common_netif_output(a)

lwip_init_job_hadler(st) ==
    LET a == [Asserted(st, ~st.quitting /\ ~st.netif /\ ~st.listener) EXCEPT !.netif = TRUE]
    IN IF st.fault \in {"tcp_new", "tcp_listen"}
       THEN IF a.quitting THEN a ELSE terminate(a)
       ELSE [a EXCEPT !.listener = TRUE]

-----------------------------------------------------------------------------
(* The jobs and what they call. *)

BPendingGroup_ExecuteJob(st) ==
    LET job == Head(st.jobs)
        a == [st EXCEPT !.jobs = Tail(@)]
    IN CASE job = Operation(Dev) -> output_handler_recv(job_operation(a, Dev))
         [] job = Operation(Read) -> device_read_handler_send(job_operation(a, Read))
         [] job = Done(Dev) -> input_handler_done(job_done(a, Dev))
         [] job = Done(Read) -> output_handler_done(job_done(a, Read))
         [] job = LwipJob -> lwip_init_job_hadler(a)
         [] OTHER -> ConnectionJob(a, job)

-----------------------------------------------------------------------------
(* Start and end. *)

process_arguments(st) == IF username THEN alloc(st, "password file") ELSE st

(* The labels of tun2socks_init: what is released from there on. *)
fail1(st) == [st EXCEPT !.mem = @ \ {"password file"}, !.pc = "ended"]
fail2(st) == Then(close(BReactor_Free(st), "epoll"), fail1)
fail3(st) == Then(BSignal_Finish(st), fail2)
fail4(st) == Then(BTap_Free(Iface_Free(st, Read)), fail3)
fail5(st) == Then(SinglePacketBuffer_Free(BPending_Free(st, LwipJob)), fail4)

tun2socks_init(st) ==
    LET arguments == process_arguments(st)
        signals == BSignal_Init(open(arguments, "epoll"))
        device == BTap_Init(signals.st)
        reading == Iface_New(device.st, Read, Iface_Init(1))
        buffer == SinglePacketBuffer_Init(reading)
        lwip == BPending_Set(BPending_Init(buffer.st, LwipJob), LwipJob)
    IN CASE st.fault \in {"network", "arguments"} -> fail1(st)
         [] st.fault = "epoll" -> fail1(arguments)
         [] st.fault = "write buffer" -> fail5(lwip)
         [] OTHER ->
            CASE ~signals.ok -> fail2(signals.st)
              [] signals.ok /\ ~device.ok -> fail3(device.st)
              [] signals.ok /\ device.ok /\ ~buffer.ok -> fail4(buffer.st)
              [] OTHER -> [BReactor_SetTimer(alloc(lwip, "write buffer"), TcpTimer,
                                             TCP_TMR_INTERVAL) EXCEPT !.pc = "run"]

(* tun2socks_run after BReactor_Exec. *)
Teardown(st) ==
    LET a == IF st.cl.live THEN client_murder(st) ELSE st
        b == BReactor_RemoveTimer([a EXCEPT !.listener = FALSE, !.netif = FALSE], TcpTimer)
    IN Then(free(b, "write buffer"), fail5)
-----------------------------------------------------------------------------
Descriptors == {"connector", "connection", "signal", Dev}
NoInterfaces == [i \in {Snd, Rcv, Pkt, Dev, Read} |->
    IF i \in {Dev, Read} THEN Iface_Init(1) ELSE Stream_Init]

(* The answers of a SOCKS server up to the data of the connection. *)
GoodServer(user) ==
    IF user THEN <<"version5", "password", "version1", "succeeded",
                   "version5", "succeeded", "ipv6", "addr", "addr">>
    ELSE <<"version5", "none", "version5", "succeeded", "ipv4", "addr">>
Servers ==
    {GoodServer(TRUE), GoodServer(FALSE),
     <<"version4", "none">>, <<"version5", "other">>,
     <<"version5", "password", "version2", "succeeded">>,
     <<"version5", "password", "version1", "refused">>,
     <<"version5", "none", "version4", "succeeded", "ipv4">>,
     <<"version5", "none", "version5", "refused", "ipv4">>,
     <<"version5", "none", "version5", "succeeded", "domain">>}

\* The faults of a program with a user name; the others come without one.
UserFaults == {"arguments", "username memory", "username length"}

Init ==
    /\ \E user \in BOOLEAN, answer \in Servers :
         /\ answer[2] = "password" => user
         /\ user => answer[2] = "password" \/ answer = GoodServer(FALSE)
         /\ username = user /\ server = answer
    /\ \E fault \in Faults, memory \in 0 .. 5 :
         /\ fault # "none" =>
              server = GoodServer(username) /\ (username <=> fault \in UserFaults)
         /\ fault # "memory" => memory = 0
         /\ s = [pc |-> "start", failed |-> FALSE, jobs |-> <<>>, iface |-> NoInterfaces,
                 pend |-> {}, tm |-> [t \in {TcpTimer} |-> NoTimer], expired |-> <<>>,
                 fd |-> [f \in Descriptors |-> NoFd], results |-> <<>>,
                 lim |-> [l \in {"send", "recv"} |-> NoLimit], exiting |-> FALSE,
                 waiting |-> FALSE, ctor |-> NoConnector, con |-> NoConnection,
                 report |-> "none", k |-> NoSocket,
                 buf |-> [b \in {"client", "recv", "socks"} |-> <<>>],
                 files |-> {}, fault |-> fault, memory |-> memory, sc |-> NoSocks,
                 pss |-> NoSender, quitting |-> FALSE, netif |-> FALSE,
                 listener |-> FALSE, tap |-> [live |-> FALSE, out |-> FALSE],
                 packet |-> "none", cl |-> NoClient, mem |-> {}, dev |-> <<>>,
                 gone |-> FALSE, signal |-> "none", sent |-> 0, fed |-> 0, got |-> <<>>,
                 accepts |-> 0, pbufs |-> 0]

(* What epoll_wait would report of a descriptor. *)
Ready(st, f) ==
    LET asked == (IF "READ" \in st.fd[f].wait THEN {"IN"} ELSE {})
                 \cup (IF "WRITE" \in st.fd[f].wait THEN {"OUT"} ELSE {})
        found == CASE f \in {"connector", "connection"} -> SocketReady(st.k)
                   [] f = "signal" -> IF st.signal = "pending" THEN {"IN"} ELSE {}
                   [] f = Dev -> IF st.gone THEN {"ERR"}
                                 ELSE IF st.dev # <<>> THEN {"IN"} ELSE {}
    IN found \cap (asked \cup {"ERR", "HUP"})
ReadySet(st) == {f \in DOMAIN st.fd : st.fd[f].active /\ Ready(st, f) # {}}

handler(st, f, events) ==
    CASE f = "connector" -> OnConnector(connector_fd_handler(st))
      [] f = "connection" -> OnConnection(connection_fd_handler(st, events))
      [] f = "signal" -> signalfd_handler(st)
      [] f = Dev -> fd_handler(st, events)

-----------------------------------------------------------------------------
(* Steps of the program: tun2socks_init, the iterations of BReactor_Exec,  *)
(* and what tun2socks_run does after it.                                   *)

(* Values that nobody reads again are forgotten. *)
Forget(st) ==
    [st EXCEPT
       !.iface = [i \in DOMAIN @ |-> IF @[i].state = "NONE"
                    THEN [NoInterfaces[i] EXCEPT !.mtu = st.iface[i].mtu] ELSE @[i]],
       !.con.data = IF st.con.snd = "BUSY" THEN @ ELSE NoAddress,
       !.con.len = IF st.con.snd = "BUSY" THEN @ ELSE 0,
       !.con.dest = IF st.con.rcv = "BUSY" THEN @ ELSE NoAddress,
       !.con.avail = IF st.con.rcv = "BUSY" THEN @ ELSE 0]

Looping == s.pc = "run" /\ ~s.failed /\ ~s.exiting

Start == s.pc = "start" /\ s' = tun2socks_init(s)

Job == Looping /\ HasJob(s) /\ s' = Forget(BPendingGroup_ExecuteJob(s))

Timer ==
    /\ Looping /\ HasTimer(s)
    /\ \E gives_up \in BOOLEAN :
         /\ gives_up => s.cl.live /\ ~s.cl.closed
         /\ s' = Forget(tcp_timer_handler(TakeTimer(s), gives_up))

Result ==
    /\ Looping /\ HasResult(s)
    /\ LET r == Head(s.results)
           a == TakeResult(s)
       IN IF r.fd = Null THEN s' = a
          ELSE LET events == Reported(s.fd[r.fd].wait, r.events)
               IN s' = IF events = {} \/ a.failed THEN a ELSE Forget(handler(a, r.fd, events))

WaitBegin == Looping /\ HasNothing(s) /\ ~s.waiting /\ s' = wait_begin(s)

WaitResults ==
    /\ Looping /\ s.waiting
    /\ \E order \in SetToSeqs(ReadySet(s)) :
         /\ order # <<>>
         /\ s' = wait_results(s, [i \in DOMAIN order |->
                     [fd |-> order[i], events |-> Ready(s, order[i])]])

WaitTimeout ==
    /\ Looping /\ s.waiting /\ ReadySet(s) = {} /\ Overdue(s) # {}
    /\ s' = wait_timeout(s)

Exit == s.pc = "run" /\ ~s.failed /\ s.exiting /\ s' = Teardown(s)

Loop == Start \/ Job \/ Timer \/ Result \/ WaitBegin \/ WaitResults \/ WaitTimeout \/ Exit

-----------------------------------------------------------------------------
(* Steps of what surrounds it: time, the SOCKS server, the device, and     *)
(* whoever sends the signal.                                               *)

Alive == s.pc = "run" /\ ~s.failed

(* They are seen by the program only in a system call.  Those of a chain   *)
(* of jobs find what came before the chain, but for the device, which may  *)
(* have the next packet whenever it is read.                               *)
Quiet ==
    /\ Alive /\ ~s.exiting /\ (s.waiting \/ HasResult(s))
    /\ Cardinality(ReadySet(s)) <
         IF s.fault = "none" /\ ~username /\ server = GoodServer(FALSE) THEN Together ELSE 1
Reading == Alive /\ ~s.exiting /\ HasJob(s) /\ Head(s.jobs) = Operation(Dev)

Tick ==
    /\ Quiet /\ s.waiting /\ \E t \in Running(s) : s.tm[t].left > 0
    /\ s' = [s EXCEPT !.tm = [t \in DOMAIN @ |-> [@[t] EXCEPT !.left = Max({@ - 1, 0})]]]

Connect ==
    /\ Quiet /\ s.k.conn = "progress"
    /\ \E conn \in {"connected", "refused"} : s' = [s EXCEPT !.k.conn = conn]

Stream == server \o ServerData
ServerSend ==
    /\ Quiet /\ s.k.conn = "connected" /\ s.k.end = "open"
    /\ s.sent < Len(Stream) /\ Len(s.k.in) < Arrived
    /\ s' = [s EXCEPT !.k.in = Append(@, Stream[s.sent + 1]), !.sent = @ + 1]

ServerEnd ==
    /\ Quiet /\ s.k.conn = "connected" /\ s.k.end = "open"
    /\ \E end \in {"eof", "reset"} : s' = [s EXCEPT !.k.end = end]

Drain ==
    /\ Quiet /\ s.k.taken < Len(s.k.out)
    /\ s' = [s EXCEPT !.k.taken = Len(s.k.out)]

DevicePacket ==
    /\ Quiet \/ Reading
    /\ ~s.gone /\ Len(s.dev) < Packets
    /\ \E kind \in Kinds :
         /\ kind = "syn" => s.accepts < Accepts /\ ~s.cl.live
         /\ kind = "data" => s.cl.live /\ ~s.cl.closed /\ s.fed < ClientUnits
         /\ kind = "ack" => s.cl.pend > 0
         /\ kind \in {"fin", "rst"} => s.cl.live /\ ~s.cl.closed
         /\ s' = [s EXCEPT !.dev = Append(@, kind)]

DeviceGone == Quiet /\ ~s.gone /\ s' = [s EXCEPT !.gone = TRUE, !.dev = <<>>]

Signal == Quiet /\ s.signal = "none" /\ s' = [s EXCEPT !.signal = "pending"]

Environment == Tick \/ Connect \/ ServerSend \/ ServerEnd \/ Drain \/ DevicePacket
               \/ DeviceGone \/ Signal

Finished == s.pc = "ended" /\ UNCHANGED vars

Next ==
    \/ (Loop \/ Environment) /\ UNCHANGED <<server, username>>
    \/ Finished

(* The process is scheduled, and the network and the server do, in the     *)
(* end, all they have to do.  The steps of the program are known by what   *)
(* only they change, and by the packets they take.                         *)
LoopEnabled ==
    \/ s.pc = "start"
    \/ Alive /\ (s.exiting \/ ~s.waiting \/ ReadySet(s) # {} \/ Overdue(s) # {})
LoopPart == <<s.pc, s.jobs, s.expired, s.results, s.waiting, s.exiting>>

NetworkEnabled ==
    /\ Quiet
    /\ \/ s.k.conn = "progress"
       \/ s.k.conn = "connected" /\ s.k.end = "open" /\ s.sent < Len(Stream)
          /\ Len(s.k.in) < Arrived
       \/ s.k.taken < Len(s.k.out)
NetworkMoves == s.sent' > s.sent \/ s.k.taken' > s.k.taken
                \/ (s.k.conn = "progress" /\ s.k'.conn \in {"connected", "refused"})

Fairness ==
    /\ []<>~LoopEnabled \/ []<><<LoopPart' # LoopPart \/ Len(s.dev') < Len(s.dev)>>_s
    /\ <>[]~NetworkEnabled \/ []<><<NetworkMoves>>_s

Spec == Init /\ [][Next]_vars /\ Fairness
-----------------------------------------------------------------------------
(* Properties. *)

(* No ASSERT fails, in particular: no handler is called for a descriptor   *)
(* or an object that is gone, no interface is used out of turn, an object  *)
(* in error is freed before the next job, a second reason to stop never    *)
(* finds the program stopping, lwIP is there before the first packet and   *)
(* the first timer, and BReactor_Free finds nothing left in the reactor.   *)
NoAssertFails == ~s.failed

(* However the program ends, wherever tun2socks_init fails and whatever    *)
(* the signal interrupts, it has given back what it took.                  *)
AllReleased ==
    s.pc = "ended" =>
        /\ s.files = {} /\ s.mem = {} /\ s.pend = {}
        /\ ~s.cl.live /\ ~s.sc.live /\ ~s.con.live /\ ~s.ctor.live
        /\ ~s.netif /\ ~s.listener /\ ~s.tap.live
        /\ \A b \in DOMAIN s.buf : s.buf[b] = <<>>

(* However the socket cuts the messages, the server is sent the messages   *)
(* of SOCKS in their order and then what the client sent, and the client   *)
(* is given what the server sent after its last message: nothing of it is  *)
(* lost, and no message of the negotiation is taken for data.              *)
Method == IF Len(server) > 1 /\ server[2] = "password" THEN Password ELSE <<>>
Messages == Hello(Auth) \o Method \o Request
Unread == IF BPending_IsSet(s, Done(Rcv)) THEN s.iface[Rcv].len ELSE 0
HandshakeRight ==
    /\ IsPrefix(s.k.out, Messages \o ClientData)
    /\ s.cl.up /\ ~s.cl.sclosed =>
         /\ IsPrefix(Messages, s.k.out) /\ server = GoodServer(Method # <<>>)
         /\ ~s.cl.closed => /\ IsPrefix(s.got, ServerData)
                            /\ Len(server) + Len(s.got) + Unread + Len(s.k.in) = s.sent

(* A pbuf handed to client_recv_func is freed by it, as tcp_receive has    *)
(* given up its own reference.                                             *)
PbufsFreed == s.pbufs = 0

(* If the device runs out of packets now and then (its reads go on without *)
(* a limit, ahead of the timers and of the other descriptors):             *)
(* - a timer that is due fires, though results keep coming;                *)
(* - a signal or the loss of the device ends the program;                  *)
(* - a client that waits for its connection gets it or is told.            *)
Pauses == []<>(s.tap.out \/ s.pc = "ended")
Due == Overdue(s) # {}
Stopped == s.pc = "run" /\ (s.signal # "none" \/ s.gone)
Asking == s.cl.live /\ ~s.cl.up
KeepsGoing ==
    Pauses => []<>~Due /\ []<>~Stopped /\ []<>~Asking
=============================================================================
