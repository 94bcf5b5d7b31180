-------------------------------- MODULE Socks --------------------------------
(***************************************************************************)
(* socksclient/BSocksClient.c: asks the SOCKS server, over a connection of *)
(* its own, to connect to the destination, and then hands the connection   *)
(* to its user.  Fields:                                                   *)
(*   sc    live, state, what the control I/O receives: dest, len           *)
(*         (recv_len) and total (recv_total), and auth, the methods offered*)
(*   pss   the PacketStreamSender of the control I/O: data, len (in_len)   *)
(*         and used (in_used)                                              *)
(* The unit of data is a field of a message: a message of several fields   *)
(* is sent and received in as many pieces as the socket makes of it.       *)
(* report is here the event of the user's handler.                         *)
(***************************************************************************)
EXTENDS Connection

Pkt == "pkt"   \* o->control.send_if
SocksError == <<"error", "socks">>

NoSocks == [live |-> FALSE, state |-> "CONNECTING", dest |-> NoAddress, len |-> 0,
            total |-> 0, auth |-> <<>>]
NoSender == [data |-> NoAddress, len |-> None, used |-> 0]

BSocksClient_auth_none == "none"
BSocksClient_auth_password == "password"

(* Messages.  Address fields: the 6 octets of an IPv4 address and port are *)
(* one unit, the 18 of an IPv6 one two.                                    *)
AddrLen(atyp) == IF atyp = "ipv4" THEN 1 ELSE 2
Hello(auth) == <<"version5">> \o auth
Password == <<"user", "password">>
Request == <<"connect", "dest">>
HelloReplyLen == 2     \* version, method
PasswordReplyLen == 2  \* version, status
ReplyHeaderLen == 3    \* version, rep, atyp

-----------------------------------------------------------------------------
(* flow/PacketStreamSender.c *)

(* Fault: what is left of a packet is taken from its start. *)
send_data_start(st) ==
    IF st.pss.used < st.pss.len
    THEN StreamPassInterface_Sender_Send(st, Snd, st.pss.data, st.pss.len - st.pss.used)
    ELSE PacketPassInterface_Done([st EXCEPT !.pss = NoSender], Pkt)

send_data(st) ==
    LET p == st.pss IN
    IF p.used < p.len
    THEN StreamPassInterface_Sender_Send(st, Snd,
             [p.data EXCEPT !.at = @ + p.used], p.len - p.used)
    ELSE PacketPassInterface_Done([st EXCEPT !.pss = NoSender], Pkt)

StreamSender_input_send(st) ==
    send_data([Asserted(st, st.pss.len = None) EXCEPT
        !.pss = [data |-> st.iface[Pkt].data, len |-> st.iface[Pkt].len, used |-> 0]])

StreamSender_output_done(st, len) ==
    send_data([Asserted(st, len \in 1 .. st.pss.len - st.pss.used)
                 EXCEPT !.pss.used = @ + len])

-----------------------------------------------------------------------------
(* I/O of the two phases, and release. *)

init_control_io(st) ==
    Iface_New([BConnection_SendAsync_Init(BConnection_RecvAsync_Init(st))
                 EXCEPT !.pss = NoSender], Pkt, [Stream_Init EXCEPT !.mtu = 99])
free_control_io(st) ==
    Then(BConnection_SendAsync_Free([Iface_Free(st, Pkt) EXCEPT !.pss = NoSender]),
         BConnection_RecvAsync_Free)
init_up_io(st) == BConnection_SendAsync_Init(BConnection_RecvAsync_Init(st))
free_up_io(st) == Then(BConnection_SendAsync_Free(st), BConnection_RecvAsync_Free)

BSocksClient_Init(st, auth) ==
    LET c == BConnector_Init(st)
    IN IF c.ok
       THEN [ok |-> TRUE,
             st |-> BPending_Init([c.st EXCEPT !.buf.socks = <<>>,
                       !.sc = [NoSocks EXCEPT !.live = TRUE, !.auth = auth]], SocksError)]
       ELSE c

IoFreed(st) ==
    IF st.sc.state = "CONNECTING" THEN st
    ELSE Then(IF st.sc.state = "UP" THEN free_up_io(st) ELSE free_control_io(st),
              BConnection_Free)

BSocksClient_Free(st) ==
    [Then(IoFreed(BPending_Free(Asserted(st, st.sc.live), SocksError)), BConnector_Free)
       EXCEPT !.sc = NoSocks, !.buf.socks = <<>>]

-----------------------------------------------------------------------------
(* Steps of the negotiation. *)

report_error(st, event) == [DEBUGERROR(st, SocksError) EXCEPT !.report = event]

Unset == "?"  \* a byte of a buffer nothing has been written to

(* BRealloc keeps what fits.  memory: how many more calls succeed. *)
HasMemory(st) == st.fault # "memory" \/ st.memory > 0
reserve_buffer(st, size) ==
    [st EXCEPT !.memory = Max({@ - 1, 0}),
               !.buf.socks = [i \in 1 .. size |->
                   IF i <= Len(@) THEN @[i] ELSE Unset]]

(* A message is written into the buffer and sent from there. *)
SendMessage(st, message, state) ==
    [PacketPassInterface_Sender_Send(
       Put(reserve_buffer(st, Len(message)), Address("socks", 0), message),
       Pkt, Address("socks", 0), Len(message)) EXCEPT !.sc.state = state]

do_receive(st) ==
    StreamRecvInterface_Receiver_Recv(Asserted(st, st.sc.len < st.sc.total), Rcv,
        Address("socks", st.sc.dest.at + st.sc.len), st.sc.total - st.sc.len)

start_receive(st, at, total, state) ==
    [do_receive([Asserted(st, total > 0) EXCEPT
        !.sc.dest = Address("socks", at), !.sc.len = 0, !.sc.total = total])
       EXCEPT !.sc.state = state]

auth_finished(st) ==
    IF HasMemory(st) THEN SendMessage(st, Request, "SENDING_REQUEST")
    ELSE report_error(st, "ERROR")

\* c: the result of BConnection_Init.
ControlStarted(c) ==
    CASE ~c.ok -> c
      [] c.ok /\ HasMemory(c.st) -> [c EXCEPT !.st = init_control_io(@)]
      [] OTHER -> [ok |-> FALSE,
                   st |-> BConnection_Free(free_control_io(init_control_io(c.st)))]

HelloOrError(c) ==
    IF c.ok THEN SendMessage(c.st, Hello(c.st.sc.auth), "SENDING_HELLO")
    ELSE report_error(c.st, "ERROR")

connector_handler(st, is_error) ==
    LET a == Asserted(st, st.sc.state = "CONNECTING")
    IN HelloOrError(IF is_error THEN [ok |-> FALSE, st |-> a]
                    ELSE ControlStarted(BConnection_Init(a)))

connection_handler(st, event) ==
    report_error(Asserted(st, st.sc.state # "CONNECTING"),
        IF st.sc.state = "UP" /\ event = "RECVCLOSED" THEN "ERROR_CLOSED" ELSE "ERROR")

\* After each message: the buffer for the reply, what is received of it, the
\* next state.
ReplyTo(state) ==
    CASE state = "SENDING_HELLO" -> <<HelloReplyLen, HelloReplyLen, "SENT_HELLO">>
      [] state = "SENDING_PASSWORD" -> <<PasswordReplyLen, PasswordReplyLen, "SENT_PASSWORD">>
      [] state = "SENDING_REQUEST" ->
           <<ReplyHeaderLen + Max({AddrLen("ipv4"), AddrLen("ipv6")}), ReplyHeaderLen,
             "SENT_REQUEST">>

send_handler_done(st) ==
    LET sending == st.sc.state \in {"SENDING_HELLO", "SENDING_PASSWORD", "SENDING_REQUEST"}
        a == Asserted(st, st.buf.socks # <<>> /\ sending)
        r == ReplyTo(st.sc.state)
    IN CASE ~sending -> a
         [] sending /\ HasMemory(st) -> start_receive(reserve_buffer(a, r[1]), 0, r[2], r[3])
         [] OTHER -> report_error(a, "ERROR")

(* What a whole message m that has been received leads to. *)
Refused(st, m) ==
    CASE st.sc.state = "SENT_HELLO" -> m[1] # "version5" \/ m[2] \notin Range(st.sc.auth)
      [] st.sc.state = "SENT_PASSWORD" -> m[1] # "version1" \/ m[2] # "succeeded"
      [] st.sc.state = "SENT_REQUEST" ->
           m[1] # "version5" \/ m[2] # "succeeded" \/ m[3] \notin {"ipv4", "ipv6"}
      [] OTHER -> FALSE

received_hello(st, m) ==
    CASE m[2] = BSocksClient_auth_none -> auth_finished(st)
      [] OTHER -> IF HasMemory(st) /\ st.fault # "username length"
                  THEN SendMessage(st, Password, "SENDING_PASSWORD")
                  ELSE report_error(st, "ERROR")

received_reply_header(st, m) ==
    start_receive(st, ReplyHeaderLen, AddrLen(m[3]), "RECEIVED_REPLY_HEADER")

received_reply_rest(st) ==
    [init_up_io(free_control_io([st EXCEPT !.buf.socks = <<>>])) EXCEPT
       !.sc.state = "UP", !.sc.dest = NoAddress, !.sc.len = 0, !.sc.total = 0,
       !.report = "UP"]

Received(st, m) ==
    CASE Refused(st, m) -> report_error(st, "ERROR")
      [] OTHER ->
         CASE st.sc.state = "SENT_HELLO" -> received_hello(st, m)
           [] st.sc.state = "SENT_PASSWORD" -> auth_finished(st)
           [] st.sc.state = "SENT_REQUEST" -> received_reply_header(st, m)
           [] st.sc.state = "RECEIVED_REPLY_HEADER" -> received_reply_rest(st)
           [] OTHER -> Asserted(st, FALSE)

recv_handler_done(st, data_len) ==
    LET a == [Asserted(st, data_len \in 0 .. st.sc.total - st.sc.len)
                EXCEPT !.sc.len = @ + data_len]
    IN IF a.sc.len < a.sc.total THEN do_receive(a) ELSE Received(a, st.buf.socks)
=============================================================================
