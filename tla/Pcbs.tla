-------------------------------- MODULE Pcbs --------------------------------
(***************************************************************************)
(* The connections of lwIP together: the network interface (netif.c), the  *)
(* four lists of TCP control blocks (tcp.c, tcp_impl.h), how a segment     *)
(* finds its block (tcp_in.c), the timers that walk the lists and take     *)
(* blocks out of them, and the clients of tun2socks.c that hold a block    *)
(* each.  What a connection carries is left to the module Tun2socks: here  *)
(* a segment is what it does to the lists.                                 *)
(*                                                                         *)
(* Fields of s:                                                            *)
(*   pc       start, run, ended, or aborted by the assertion on            *)
(*            socks_recv_tcp_pending in client_sent_func                   *)
(*   netif    the interface: in netif_list, num, name, up, pretend (TCP),  *)
(*            addr; and default, whether it is netif_default               *)
(*   p        the control blocks that can be allocated.  conn is the pair  *)
(*            of addresses and ports, idle is tcp_ticks - tmr, last is     *)
(*            last_timer, arg the client behind the callbacks, errf and    *)
(*            recv whether they are set, unacked whether data is not yet   *)
(*            acknowledged, acked whether acked > 0, persist whether the   *)
(*            persist timer runs                                           *)
(*   bound, listen, active, tw: the lists                                  *)
(*   cl       the clients: pcb (0 once client_closed), socks (not          *)
(*            socks_closed), up (socks_up), buf (buf_used > 0), out        *)
(*            (socks_recv_tcp_pending > 0), and again, a history: an       *)
(*            acknowledgement was reported to it twice                     *)
(*   ctr, timer: tcp_timer_ctr, and tcp_timer modulo 2                     *)
(*   failed   an assertion failed, freed memory was used, or a loop does   *)
(*            not end                                                      *)
(***************************************************************************)
EXTENDS Integers, Sequences, FiniteSets, FiniteSetsExt, SequencesExt

CONSTANTS Conns,       \* pairs of the addresses and ports of two ends
          Sizes,       \* how many control blocks malloc may give
          OddSizes,    \* bound: of them, those with which hosts also close their window,
                       \* and send a SYN or a reset out of the window in a connection
          Clients,     \* clients that there is memory for
          Wrap,        \* tcp_timer_ctr is counted modulo this
          Timeout,     \* slow ticks allowed in a state that must end
          TCP_MAXRTX   \* retransmissions before a connection is given up

VARIABLES s, size

vars == <<s, size>>

None == 0
Ids == 1 .. Max(Sizes)
Lpcb == Max(Sizes) + 1     \* the listening block is allocated by itself
AnyAddr == "any"
NetifAddr == "netif"

(* Which free memory malloc gives makes no difference: here the one wished *)
(* for where it is free, which leaves the fewest states.                   *)
FreeOf(free, wish) == IF wish \in free THEN wish ELSE Min(free)

Asserted(st, cond) == IF cond THEN st ELSE [st EXCEPT !.failed = TRUE]

Free == [state |-> "FREE", conn |-> AnyAddr, netif |-> FALSE, idle |-> 0, last |-> 0,
         nrtx |-> 0, rxclosed |-> FALSE, arg |-> None, errf |-> FALSE, recv |-> FALSE,
         unacked |-> FALSE, acked |-> FALSE, persist |-> FALSE]
NoClient == [live |-> FALSE, pcb |-> None, socks |-> FALSE, up |-> FALSE,
             buf |-> FALSE, out |-> FALSE, again |-> FALSE]

Alive(st) == {id \in Ids : st.p[id].state # "FREE"}
Used(st, id) == Asserted(st, st.p[id].state # "FREE")

-----------------------------------------------------------------------------
(* The lists: TCP_REG puts a block in front, TCP_RMV takes it out. *)

TCP_REG(list, id) == <<id>> \o list
TCP_RMV(list, id) == SelectSeq(list, LAMBDA x : x # id)
Elements(list) == {list[i] : i \in DOMAIN list}
MoveToFront(list, id) == TCP_REG(TCP_RMV(list, id), id)

memp_free(st, id) == [Used(st, id) EXCEPT !.p[id] = Free]

-----------------------------------------------------------------------------
(* What the error callback does: the client lost its block. *)

client_dealloc(st, c) ==
    [Asserted(st, st.cl[c].live /\ st.cl[c].pcb = None /\ ~st.cl[c].socks)
        EXCEPT !.cl[c] = NoClient]

(* Data for the SOCKS server is still sent; it needs the client alone. *)
client_handle_freed_client(st, c) ==
    LET a == [Asserted(st, st.cl[c].pcb # None) EXCEPT !.cl[c].pcb = None]
    IN IF a.cl[c].socks /\ a.cl[c].buf THEN a
       ELSE client_dealloc([a EXCEPT !.cl[c].socks = FALSE], c)

client_err_func(st, c) == client_handle_freed_client(st, c)

TCP_EVENT_ERR(st, pcb) == IF pcb.errf THEN client_err_func(st, pcb.arg) ELSE st

-----------------------------------------------------------------------------
(* Blocks are removed and made. *)

(* tcp_pcb_remove from the list of active blocks. *)
TCP_PCB_REMOVE_ACTIVE(st, id) ==
    [Used(st, id) EXCEPT !.active = TCP_RMV(@, id), !.p[id].state = "CLOSED"]

(* Fault: the client of an aborted connection is not told. *)
tcp_abandon_quiet(st, id) ==
    IF st.p[id].state = "TIME_WAIT"
    THEN memp_free([Used(st, id) EXCEPT !.tw = TCP_RMV(@, id)], id)
    ELSE memp_free(TCP_PCB_REMOVE_ACTIVE(
             Asserted(st, st.p[id].state # "LISTEN"), id), id)
tcp_abandon(st, id) ==
    IF st.p[id].state = "TIME_WAIT"
    THEN memp_free([Used(st, id) EXCEPT !.tw = TCP_RMV(@, id)], id)
    ELSE TCP_EVENT_ERR(memp_free(TCP_PCB_REMOVE_ACTIVE(
             Asserted(st, st.p[id].state # "LISTEN"), id), id), st.p[id])
tcp_abort(st, id) == tcp_abandon(st, id)

(* Of a connection in TIME_WAIT only its age matters. *)
ToTimeWait(st, id) ==
    [Used(st, id) EXCEPT
        !.active = TCP_RMV(@, id), !.tw = TCP_REG(@, id),
        !.p[id] = [@ EXCEPT !.state = "TIME_WAIT", !.nrtx = 0, !.last = 0,
                            !.unacked = FALSE, !.acked = FALSE, !.persist = FALSE]]

(* The last of the list among those idle longest. *)
Oldest(st, list) ==
    LET longest == {i \in DOMAIN list : \A j \in DOMAIN list :
                        st.p[list[j]].idle <= st.p[list[i]].idle}
    IN list[Max(longest)]

tcp_kill_timewait(st) == IF st.tw = <<>> THEN st ELSE tcp_abort(st, Oldest(st, st.tw))

(* Every connection has the same priority. *)
tcp_kill_prio(st) == IF st.active = <<>> THEN st ELSE tcp_abort(st, Oldest(st, st.active))

HasMemory(st) == Cardinality(Alive(st)) < size

(* Fault: last_timer of a new block is 0. *)
NewPcb_zero(st) == [Free EXCEPT !.state = "CLOSED"]
NewPcb(st) == [Free EXCEPT !.state = "CLOSED", !.last = st.ctr]

(* The block that was allocated, or None, and what was killed for it. *)
Allocated(st, id) ==
    IF HasMemory(st) THEN [id |-> id, st |-> [st EXCEPT !.p[id] = NewPcb(st)]]
    ELSE [id |-> None, st |-> st]
GivenMemory(st, wish) == Allocated(st, FreeOf(Ids \ Alive(st), wish))
KillPrio(st) == IF HasMemory(st) THEN st ELSE tcp_kill_prio(st)
tcp_alloc(st, wish) ==
    GivenMemory(KillPrio(IF HasMemory(st) THEN st ELSE tcp_kill_timewait(st)), wish)

-----------------------------------------------------------------------------
(* tcp_close.  unread: the application has not taken all that came, which  *)
(* is answered with a reset; no_fin: there is no memory for a FIN.         *)

tcp_close(st, id, unread, no_fin) ==
    LET state == st.p[id].state
        a == [Used(st, id) EXCEPT !.p[id].rxclosed = state # "LISTEN"]
    IN CASE state = "LISTEN" ->
              [ok |-> TRUE, st |-> memp_free([a EXCEPT !.listen = TCP_RMV(@, id)], id)]
         [] state = "CLOSED" ->
              [ok |-> TRUE, st |-> memp_free(IF st.p[id].netif
                                     THEN [a EXCEPT !.bound = TCP_RMV(@, id)] ELSE a, id)]
         [] state = "ESTABLISHED" /\ unread -> [ok |-> TRUE, st |-> ToTimeWait(a, id)]
         [] state = "CLOSE_WAIT" /\ unread ->
              [ok |-> TRUE, st |-> memp_free([a EXCEPT !.active = TCP_RMV(@, id)], id)]
         [] state \in {"ESTABLISHED", "CLOSE_WAIT"} /\ ~unread ->
              IF no_fin THEN [ok |-> FALSE, st |-> a]
              ELSE [ok |-> TRUE, st |-> [a EXCEPT !.p[id].state =
                       IF state = "CLOSE_WAIT" THEN "LAST_ACK" ELSE "FIN_WAIT_1"]]
         [] OTHER -> [ok |-> TRUE, st |-> a]

-----------------------------------------------------------------------------
(* The interface. *)

NoNetif == [listed |-> FALSE, num |-> 0, name |-> "", up |-> FALSE,
            pretend |-> FALSE, default |-> FALSE, addr |-> AnyAddr]

(* Connections to the old address are aborted.  A block's conn is never    *)
(* the address of the interface alone, so none is when it gets its first.  *)
netif_set_ipaddr(st, addr) ==
    LET old == st.netif.addr
        gone == IF addr = old THEN <<>>
                ELSE SelectSeq(st.active, LAMBDA id : st.p[id].conn = old)
        a == FoldLeft(tcp_abort, st, gone)
    IN [a EXCEPT !.netif.addr = addr]

netif_set_addr(st, addr) == netif_set_ipaddr(st, addr)
netif_init_func(st) == [st EXCEPT !.netif.name = "ho"]

netif_add(st, addr) ==
    LET a == [st EXCEPT !.netif = [NoNetif EXCEPT !.num = st.netif_num],
                        !.netif_num = @ + 1]
    IN [netif_init_func(netif_set_addr(a, addr)) EXCEPT !.netif.listed = TRUE]

netif_set_up(st) == [st EXCEPT !.netif.up = TRUE]
netif_set_down(st) == [st EXCEPT !.netif.up = FALSE]
netif_set_pretend_tcp(st, pretend) == [st EXCEPT !.netif.pretend = pretend]
netif_set_default(st, on) == [st EXCEPT !.netif.default = on]
netif_is_named(n, name, num) == n.name = name /\ n.num = num

netif_remove(st) ==
    LET a == netif_set_down(st)
    IN IF a.netif.listed THEN netif_set_default([a EXCEPT !.netif.listed = FALSE], FALSE)
       ELSE a

-----------------------------------------------------------------------------
(* The listener. *)

Lists(st) == st.listen \o st.bound \o st.active \o st.tw

tcp_bind_to_netif(st, id) ==
    IF \E i \in DOMAIN Lists(st) : st.p[Lists(st)[i]].netif THEN [ok |-> FALSE, st |-> st]
    ELSE [ok |-> TRUE, st |-> [st EXCEPT !.p[id].netif = TRUE,
                                         !.bound = TCP_REG(@, id)]]

tcp_listen_with_backlog(st, id) ==
    LET a == memp_free([st EXCEPT !.bound = TCP_RMV(@, id)], id)
    IN [a EXCEPT !.p[Lpcb] = [Free EXCEPT !.state = "LISTEN", !.netif = TRUE],
                 !.listen = TCP_REG(@, Lpcb)]

(* The first job of the program; fails says where memory runs out.  On a   *)
(* failure the program terminates.                                         *)
Quitting(st) == [st EXCEPT !.pc = "quit"]
Bound(b, id, fails) ==
    IF b.ok /\ fails # "tcp_listen"
    THEN [tcp_listen_with_backlog(b.st, id) EXCEPT !.pc = "run"]
    ELSE Quitting(tcp_close(b.st, id, FALSE, FALSE).st)
Listening(n, fails) ==
    IF fails = "tcp_new" THEN Quitting(n.st)
    ELSE Bound(tcp_bind_to_netif(n.st, n.id), n.id, fails)
lwip_init_job_hadler(st, fails) ==
    LET a == netif_set_default(netif_set_pretend_tcp(netif_set_up(
                 netif_add(st, NetifAddr)), TRUE), TRUE)
    IN Listening(IF fails = "tcp_new" THEN [id |-> None, st |-> a] ELSE tcp_alloc(a, 1), fails)

-----------------------------------------------------------------------------
(* The clients.  no_fin is as for tcp_close. *)

\* Without the sent callback acked is not looked at.
NoCallbacks(st, id) ==
    [Used(st, id) EXCEPT !.p[id] = [@ EXCEPT !.errf = FALSE, !.recv = FALSE, !.arg = None,
                                             !.acked = FALSE]]

client_free_client(st, c, no_fin) ==
    LET id == st.cl[c].pcb
        closed == tcp_close(NoCallbacks(st, id), id, st.cl[c].buf, no_fin)
        a == IF closed.ok THEN closed.st ELSE tcp_abort(closed.st, id)
    IN client_handle_freed_client(Asserted(a, id # None), c)

client_abort_client(st, c) ==
    LET id == st.cl[c].pcb
    IN client_handle_freed_client(tcp_abort(NoCallbacks(st, id), id), c)

client_free_socks(st, c, no_fin) ==
    LET cl == st.cl[c]
        a == IF cl.up /\ cl.pcb # None
             THEN [Used(st, cl.pcb) EXCEPT !.p[cl.pcb].recv = FALSE] ELSE st
        b == [Asserted(a, cl.socks) EXCEPT !.cl[c].socks = FALSE]
    IN CASE cl.pcb = None -> client_dealloc(b, c)
         [] cl.pcb # None /\ cl.up /\ cl.out -> b
         [] cl.pcb # None /\ ~(cl.up /\ cl.out) -> client_free_client(b, c, no_fin)

client_murder(st, c) ==
    LET id == st.cl[c].pcb
        a == IF id = None THEN st ELSE tcp_abort(NoCallbacks(st, id), id)
    IN client_dealloc([a EXCEPT !.cl[c].pcb = None, !.cl[c].socks = FALSE], c)

(* how: "no memory" for a client or its SOCKS connection, "fails" when the *)
(* latter fails within SYNC_COMMIT, or "ok".  The caller aborts a          *)
(* connection that was not accepted.                                       *)
listener_accept_func(st, id, how, no_fin) ==
    LET idle == {c \in Clients : ~st.cl[c].live}
        c == FreeOf(idle, id)
        a == [st EXCEPT !.cl[c] = [NoClient EXCEPT !.live = TRUE, !.pcb = id, !.socks = TRUE],
                        !.p[id].arg = c, !.p[id].errf = TRUE, !.p[id].recv = TRUE]
    IN CASE idle = {} \/ how = "no memory" -> [err |-> "ERR_MEM", st |-> st]
         [] idle # {} /\ how = "fails" ->
              [err |-> "ERR_ABRT", st |-> client_free_socks(a, c, no_fin)]
         [] idle # {} /\ how = "ok" -> [err |-> "ERR_OK", st |-> a]

(* rest: what the bytes reported leave of socks_recv_tcp_pending, "some",  *)
(* "none" or "too few" when they are more than it.                         *)
client_sent_func(st, c, rest, no_fin) ==
    LET a == [Asserted(st, st.cl[c].pcb # None /\ st.cl[c].up)
                 EXCEPT !.cl[c].out = rest = "some"]
    IN IF rest = "too few" THEN [err |-> "ERR_ABRT", st |-> [st EXCEPT !.pc = "aborted"]]
       ELSE IF a.cl[c].socks \/ a.cl[c].out THEN [err |-> "ERR_OK", st |-> a]
       ELSE [err |-> "ERR_ABRT", st |-> client_free_client(a, c, no_fin)]

(* Data, or the end of it.  how = "fails": sending it on finds the SOCKS   *)
(* connection broken, within SYNC_COMMIT.                                  *)
client_recv_func(st, c, data, how, no_fin) ==
    LET a == [st EXCEPT !.cl[c].buf = TRUE]
        ok == Asserted(st, st.cl[c].pcb # None)
        b == client_free_socks(a, c, no_fin)
    IN CASE ~data -> [err |-> "ERR_ABRT", st |-> client_free_client(ok, c, no_fin)]
         [] data /\ how = "fails" /\ st.cl[c].up /\ ~st.cl[c].buf ->
              [err |-> IF b.cl[c].pcb = None THEN "ERR_ABRT" ELSE "ERR_OK", st |-> b]
         [] data /\ ~(how = "fails" /\ st.cl[c].up /\ ~st.cl[c].buf) ->
              [err |-> "ERR_OK", st |-> [ok EXCEPT !.cl[c].buf = TRUE]]

-----------------------------------------------------------------------------
(* Segments.  ack is "all" when it acknowledges everything that was sent   *)
(* (ackno = snd_nxt) and "old" when it acknowledges nothing new; data and  *)
(* fin are new to the receiver; closed is a window of 0.  The flag OUT is  *)
(* a reset whose number is not in the window.                              *)

Segments == {[flag |-> f, ack |-> "old", data |-> FALSE, fin |-> FALSE, closed |-> FALSE] :
                f \in {"SYN", "RST", "OUT"}}
            \cup [flag : {"ACK"}, ack : {"old", "all"}, data : BOOLEAN, fin : BOOLEAN,
                  closed : BOOLEAN]

In(st, list, c) == {i \in DOMAIN list : st.p[list[i]].conn = c}

Ends == {"CLOSE_WAIT", "LAST_ACK", "CLOSING"}   \* a FIN has come

SynReceived(n, c, no_syn) ==
    LET a == [n.st EXCEPT !.p[n.id] = [@ EXCEPT !.conn = c, !.state = "SYN_RCVD", !.netif = TRUE],
                          !.active = TCP_REG(@, n.id)]
    IN IF n.id = None THEN n.st ELSE IF no_syn THEN tcp_abandon(a, n.id) ELSE a
tcp_listen_input(st, c, seg, no_syn) ==
    IF seg.flag = "SYN" THEN SynReceived(tcp_alloc(st, c), c, no_syn) ELSE st

tcp_timewait_input(st, id, seg) ==
    IF seg.flag = "ACK" /\ seg.fin THEN [st EXCEPT !.p[id].idle = 0] ELSE st

(* What tcp_receive leaves to the states: new acknowledgments end the      *)
(* counting of retransmissions, and a closed window starts the persist     *)
(* timer.                                                                  *)
tcp_receive(st, id, seg) ==
    LET all == seg.ack = "all"
    IN [st EXCEPT !.p[id] = [@ EXCEPT !.nrtx = IF all THEN 0 ELSE @,
                                      !.acked = all /\ st.p[id].unacked /\ st.p[id].errf,
                                      !.unacked = @ /\ ~all,
                                      !.persist = seg.closed]]

InState(st, id, state) == [st EXCEPT !.p[id].state = state]

\* acc: what the accept callback did.
AfterAccept(acc, id, seg) ==
    CASE acc.err = "ERR_OK" ->
           LET a == tcp_receive(acc.st, id, seg)
           IN [err |-> "ERR_OK", st |-> IF seg.fin THEN InState(a, id, "CLOSE_WAIT") ELSE a]
      [] acc.err = "ERR_MEM" -> [err |-> "ERR_ABRT", st |-> tcp_abort(acc.st, id)]
      [] acc.err = "ERR_ABRT" -> acc

ProcessSynRcvd(st, id, seg, how, no_fin) ==
    IF seg.flag = "SYN"
    THEN [err |-> "ERR_OK", st |-> [st EXCEPT !.p[id].nrtx = Min({@ + 1, TCP_MAXRTX + 1})]]
    ELSE IF seg.ack = "all"
    THEN AfterAccept(listener_accept_func(InState(st, id, "ESTABLISHED"), id, how, no_fin), id, seg)
    ELSE [err |-> "ERR_OK", st |-> st]

ProcessState(st, id, seg) ==
    LET state == st.p[id].state
        fin == seg.fin
        all == seg.ack = "all"
        a == tcp_receive(st, id, seg)
    IN CASE state \in {"ESTABLISHED", "CLOSE_WAIT"} ->
              IF fin THEN InState(a, id, "CLOSE_WAIT") ELSE a
         [] state = "FIN_WAIT_1" /\ fin -> IF all THEN ToTimeWait(a, id) ELSE InState(a, id, "CLOSING")
         [] state = "FIN_WAIT_1" /\ ~fin -> IF all THEN InState(a, id, "FIN_WAIT_2") ELSE a
         [] state = "FIN_WAIT_2" -> IF fin THEN ToTimeWait(a, id) ELSE a
         [] state = "CLOSING" -> IF all THEN ToTimeWait(a, id) ELSE a
         [] state = "LAST_ACK" -> a

Reset(st, id) ==
    LET a == TCP_EVENT_ERR(st, st.p[id])
    IN memp_free(TCP_PCB_REMOVE_ACTIVE(a, id), id)

(* tcp_input for a block of the active list, from tcp_process on. *)
tcp_process(st, id, seg, how, no_fin) ==
    LET old == st.p[id]
        a == IF old.rxclosed THEN st ELSE [st EXCEPT !.p[id].idle = 0]
    IN IF seg.flag = "OUT" THEN [err |-> "ERR_OK", st |-> st]
       ELSE IF old.state = "SYN_RCVD" THEN ProcessSynRcvd(a, id, seg, how, no_fin)
       ELSE IF seg.flag # "ACK" THEN [err |-> "ERR_OK", st |-> st]
       ELSE [err |-> "ERR_OK", st |-> ProcessState(a, id, seg)]

(* The callbacks: sent, then recv for data, then recv for the end.  Each   *)
(* may find the block gone.  A segment that does not get to tcp_receive    *)
(* (stale) leaves acked as it was, and the client hears of it again; after *)
(* that less is pending than lwIP has still to report.                     *)
Sent(r, id, stale, rest, no_fin) ==
    LET c == r.st.p[id].arg IN
    IF r.err = "ERR_OK" /\ r.st.p[id].acked
    THEN client_sent_func([r.st EXCEPT !.cl[c].again = @ \/ stale], c, rest, no_fin)
    ELSE r

Received(r, id, data, how, no_fin) ==
    LET pcb == r.st.p[id] IN
    IF r.err # "ERR_OK" \/ ~data THEN r
    ELSE IF pcb.rxclosed THEN [err |-> "ERR_ABRT", st |-> tcp_abort(r.st, id)]
    ELSE IF ~pcb.recv THEN r
    ELSE client_recv_func(r.st, pcb.arg, TRUE, how, no_fin)

Closed(r, id, fin, no_fin) ==
    LET pcb == r.st.p[id] IN
    IF r.err = "ERR_OK" /\ fin /\ pcb.recv
    THEN client_recv_func(r.st, pcb.arg, FALSE, "ok", no_fin) ELSE r

ActiveInput(st, id, seg, how, rest, no_fin) ==
    LET old == st.p[id]
        isack == seg.flag = "ACK" /\ (old.state = "SYN_RCVD" => seg.ack = "all")
    IN IF seg.flag = "RST" THEN Reset(st, id)
       ELSE IF old.state = "LAST_ACK" /\ seg.ack = "all" THEN
            LET a == IF old.rxclosed THEN st ELSE TCP_EVENT_ERR(st, old)
            IN memp_free(TCP_PCB_REMOVE_ACTIVE(a, id), id)
       ELSE Closed(Received(Sent(tcp_process(st, id, seg, how, no_fin),
                                 id, seg.flag # "ACK", rest, no_fin),
                            id, isack /\ seg.data, how, no_fin),
                   id, isack /\ seg.fin, no_fin).st

tcp_input(st, c, seg, how, rest, no_fin) ==
    IF In(st, st.active, c) # {}
    THEN LET id == st.active[Min(In(st, st.active, c))]
         IN ActiveInput([st EXCEPT !.active = MoveToFront(@, id)], id, seg, how,
                        rest, no_fin)
    ELSE IF In(st, st.tw, c) # {}
    THEN tcp_timewait_input(st, st.tw[Min(In(st, st.tw, c))], seg)
    ELSE IF st.listen # <<>> /\ netif_is_named(st.netif, "ho", 0)
    THEN tcp_listen_input([st EXCEPT !.listen = MoveToFront(@, Lpcb)], c, seg, no_fin)
    ELSE st

-----------------------------------------------------------------------------
(* The timers. *)

(* Data refused by a client is none of this module's: the walk is plain.   *)
(* A block that was visited already would be visited for ever.             *)
tcp_fasttmr(st) ==
    LET n == (st.ctr + 1) % Wrap
        all == Elements(st.active)
        a == Asserted(st, \A id \in all : st.p[id].last # n)
    IN [a EXCEPT !.ctr = n,
                 !.p = [id \in DOMAIN @ |-> IF id \in all THEN [@[id] EXCEPT !.last = n]
                                            ELSE @[id]]]

\* Whether the retransmission timer runs: there is something to send again, and
\* the window is not closed.
Unacked(st, id) ==
    LET pcb == st.p[id] IN
    /\ ~pcb.persist
    /\ pcb.unacked \/ pcb.state \in {"SYN_RCVD", "FIN_WAIT_1", "CLOSING", "LAST_ACK"}

(* Fault: a connection may stay in FIN_WAIT_2. *)
pcb_remove_not_fw2(pcb) ==
    \/ pcb.nrtx = TCP_MAXRTX
    \/ pcb.state \in {"SYN_RCVD", "LAST_ACK"} /\ pcb.idle > Timeout
(* Retransmissions used up, or too long in a state that must end. *)
pcb_remove(pcb) ==
    \/ pcb.nrtx = TCP_MAXRTX
    \/ pcb.state = "FIN_WAIT_2" /\ pcb.rxclosed /\ pcb.idle > Timeout
    \/ pcb.state \in {"SYN_RCVD", "LAST_ACK"} /\ pcb.idle > Timeout

(* The walk over the active blocks from the i-th on; due are the blocks    *)
(* whose retransmission timer runs out.                                    *)
RECURSIVE SlowFrom(_, _, _)
SlowFrom(st, i, due) ==
    LET id == st.active[i]
        pcb == st.p[id]
        a == [Asserted(st, pcb.state \notin {"FREE", "CLOSED", "LISTEN", "TIME_WAIT"})
                 EXCEPT !.p[id].last = st.ctr]
        b == memp_free([a EXCEPT !.active = RemoveAt(@, i)], id)
    IN IF i > Len(st.active) THEN st
       ELSE IF pcb.last = st.ctr THEN SlowFrom(st, i + 1, due)
       ELSE IF pcb_remove(pcb) THEN SlowFrom(TCP_EVENT_ERR(b, pcb), i, due)
       ELSE IF id \in due /\ Unacked(st, id)
       THEN SlowFrom([a EXCEPT !.p[id].nrtx = Min({@ + 1, TCP_MAXRTX + 1})], i + 1, due)
       ELSE SlowFrom(a, i + 1, due)

(* Time passes for every block; what is longer than a timeout is the same. *)
Age(pcb) == IF pcb.state = "FREE" THEN pcb
            ELSE [pcb EXCEPT !.idle = Min({@ + 1, Timeout + 1})]

TimeWaitOver(st) == {id \in Ids : st.p[id].state = "TIME_WAIT" /\ st.p[id].idle > Timeout}

tcp_slowtmr(st, due) ==
    LET a == [st EXCEPT !.ctr = (@ + 1) % Wrap,
                        !.p = [id \in DOMAIN @ |-> IF id = Lpcb THEN @[id] ELSE Age(@[id])]]
        b == SlowFrom(a, 1, due)
        over == TimeWaitOver(b)
    IN [b EXCEPT !.tw = SelectSeq(@, LAMBDA id : id \notin over),
                 !.p = [id \in DOMAIN @ |-> IF id \in over THEN Free ELSE @[id]]]

tcp_tmr(st, due) ==
    LET a == [tcp_fasttmr(st) EXCEPT !.timer = 1 - @]
    IN IF a.timer = 1 THEN tcp_slowtmr(a, due) ELSE a

-----------------------------------------------------------------------------
(* The program. *)

Init ==
    /\ size \in Sizes
    /\ s = [pc |-> "start", failed |-> FALSE,
            netif |-> NoNetif, netif_num |-> 0,
            p |-> [id \in Ids \cup {Lpcb} |-> Free],
            bound |-> <<>>, listen |-> <<>>, active |-> <<>>, tw |-> <<>>,
            cl |-> [c \in Clients |-> NoClient],
            ctr |-> 0, timer |-> 0]

Become(t) == s' = t /\ UNCHANGED size

Start ==
    /\ s.pc = "start"
    /\ \E fails \in {"nothing", "tcp_new", "tcp_listen"} : Become(lwip_init_job_hadler(s, fails))

(* What the callbacks of the client and the allocation of a FIN or SYN may *)
(* meet while a segment is handled.                                        *)
StateOf(c) == LET at == {id \in Alive(s) : s.p[id].conn = c} IN
              IF at = {} THEN "LISTEN" ELSE s.p[Min(at)].state
Ordinary(c, seg) ==
    ~seg.closed /\ (seg.flag \in {"ACK", "RST"} \/ StateOf(c) \in {"LISTEN", "SYN_RCVD"})
(* No data comes after a FIN; a FIN itself may be repeated. *)
Possible(c) ==
    CASE StateOf(c) \in Ends -> {seg \in Segments : ~seg.data /\ ~seg.fin}
      [] StateOf(c) = "TIME_WAIT" -> {seg \in Segments : ~seg.data /\ seg.ack = "old"}
      [] OTHER -> Segments
Arriving(c) == {seg \in Possible(c) : size \in OddSizes \/ Ordinary(c, seg)}
Outcomes(c, seg) ==
    IF StateOf(c) = "SYN_RCVD" /\ seg.ack = "all" THEN {"ok", "fails", "no memory"}
    ELSE IF StateOf(c) = "ESTABLISHED" /\ seg.data THEN {"ok", "fails"} ELSE {"ok"}
Draining(c) ==
    \E id \in Alive(s) :
        s.p[id].conn = c /\ s.p[id].arg # None /\ ~s.cl[s.p[id].arg].socks
NoMemory(c, seg, how) ==
    IF \/ StateOf(c) = "LISTEN" /\ seg.flag = "SYN"
       \/ how = "fails"
       \/ /\ StateOf(c) \in {"ESTABLISHED", "CLOSE_WAIT"}
          /\ seg.fin \/ (seg.ack = "all" /\ Draining(c))
       \/ StateOf(c) = "SYN_RCVD" /\ seg.fin /\ seg.ack = "all"
    THEN BOOLEAN ELSE {FALSE}

(* What the bytes reported leave of what is pending.  Those of one report  *)
(* for each acknowledgement of everything are all that is pending; bytes   *)
(* reported before may be more or less than what was sent since.           *)
Rests(c, seg) ==
    LET at == {id \in Alive(s) : s.p[id].conn = c /\ s.p[id].errf}
    IN IF at = {} THEN {"none"}
       ELSE LET pcb == s.p[Min(at)]
                cl == s.cl[pcb.arg]
            IN IF seg.flag # "ACK" /\ pcb.acked
               THEN IF cl.out THEN {"some", "none", "too few"} ELSE {"too few"}
               ELSE IF cl.again THEN {"too few"} ELSE {"none"}

(* A packet is read from the device. *)
DeviceRead(c) ==
    /\ s.pc = "run"
    /\ \E seg \in Arriving(c) : \E how \in Outcomes(c, seg) :
       \E no_fin \in NoMemory(c, seg, how), rest \in Rests(c, seg) :
         Become(tcp_input(s, c, seg, how, rest, no_fin))

(* tcp_timer_handler. *)
Retransmitting ==
    IF s.timer = 1 THEN {} ELSE {id \in Elements(s.active) : Unacked(s, id)}
Timer(due) == s.pc = "run" /\ Become(tcp_tmr(s, due))

(* client_socks_handler: the SOCKS connection is up, failed or closed. *)
SocksUp(c) ==
    /\ s.pc = "run" /\ s.cl[c].live /\ s.cl[c].socks /\ ~s.cl[c].up
    /\ Become([s EXCEPT !.cl[c].up = TRUE])
SocksEnds(c) ==
    /\ s.pc = "run" /\ s.cl[c].live /\ s.cl[c].socks
    /\ \E no_fin \in BOOLEAN : Become(client_free_socks(s, c, no_fin))

(* client_socks_send_handler_done, when all of the buffer has been sent. *)
SocksSent(c) ==
    /\ s.pc = "run" /\ s.cl[c].live /\ s.cl[c].socks /\ s.cl[c].up /\ s.cl[c].buf
    /\ LET a == [s EXCEPT !.cl[c].buf = FALSE]
       IN Become(IF a.cl[c].pcb # None THEN Used(a, a.cl[c].pcb)
                 ELSE client_free_socks(a, c, FALSE))

(* client_socks_recv_handler_done: data of the server is passed to lwIP,   *)
(* which may fail.                                                         *)
SocksReceived(c) ==
    /\ s.pc = "run" /\ s.cl[c].live /\ s.cl[c].socks /\ s.cl[c].up
    /\ s.cl[c].pcb # None /\ ~s.cl[c].out
    /\ \/ Become([Used(s, s.cl[c].pcb) EXCEPT !.cl[c].out = TRUE,
                                              !.p[s.cl[c].pcb].unacked = TRUE])
       \/ Become(client_abort_client(s, c))

(* Termination asked for, or needed: the clients, the listener and the     *)
(* interface go.                                                           *)
tun2socks_run(st) ==
    LET live == {c \in Clients : st.cl[c].live}
        a == FoldLeft(client_murder, st, SetToSeq(live))
        b == IF a.listen = <<>> THEN a ELSE tcp_close(a, Lpcb, FALSE, FALSE).st
    IN [netif_remove(b) EXCEPT !.pc = "ended"]

Quit == s.pc \in {"run", "quit"} /\ Become(tun2socks_run(s))

Next ==
    \/ Start \/ Quit
    \/ \E c \in Conns : DeviceRead(c)
    \/ \E due \in SUBSET Retransmitting : Timer(due)
    \/ \E c \in Clients : SocksUp(c) \/ SocksEnds(c) \/ SocksSent(c) \/ SocksReceived(c)

(* A slow tick at which the retransmission timer of c, if it runs, runs    *)
(* out: the retransmission is counted or the connection is given up.       *)
Retransmits(c) ==
    /\ s.timer = 0 /\ s'.timer = 1
    /\ \A id \in Retransmitting : s.p[id].conn = c =>
          \/ s'.p[id].state = "FREE"
          \/ s'.p[id].nrtx > s.p[id].nrtx
          \/ s.p[id].nrtx > TCP_MAXRTX

(* The timer of the reactor goes off again and again, and so does, after   *)
(* a time that is bounded, the retransmission timer of a connection as     *)
(* long as it runs.                                                        *)
Fairness == \A c \in Conns : []<>(s.pc # "run") \/ []<><<Retransmits(c)>>_vars

Spec == Init /\ [][Next]_vars /\ Fairness

-----------------------------------------------------------------------------
(* Properties. *)

IsList(list) == \A i, j \in DOMAIN list : i # j => list[i] # list[j]

(* No assertion fails, no block is used after it was freed, and the walks  *)
(* of the timers end: tcp_fasttmr has no way past a block that it has      *)
(* already visited, which only last_timer of a new block prevents.  The    *)
(* assertion in client_sent_func that no more is acknowledged than is      *)
(* pending fails for a client only that was told of the same bytes twice.  *)
NoAssertFails ==
    /\ ~s.failed
    /\ s.pc = "aborted" => \E c \in Clients : s.cl[c].again

(* What tcp_impl.h states of its lists: every block is in the list of its  *)
(* state and in no other, a connection has one block, and no block that    *)
(* was taken from its list stays allocated.                                *)
ListsRight ==
    /\ \A list \in {s.bound, s.listen, s.active, s.tw} : IsList(list)
    /\ \A id \in Elements(s.active) :
          s.p[id].state \in {"SYN_RCVD", "ESTABLISHED", "CLOSE_WAIT", "FIN_WAIT_1",
                             "FIN_WAIT_2", "CLOSING", "LAST_ACK"}
    /\ \A id \in Elements(s.tw) : s.p[id].state = "TIME_WAIT"
    /\ Elements(s.active) \cap Elements(s.tw) = {}
    /\ Alive(s) = Elements(s.active) \cup Elements(s.tw)
    /\ \A a, b \in Alive(s) : a # b => s.p[a].conn # s.p[b].conn
    /\ s.bound = <<>>

(* A client holds a block exactly as long as the block leads back to it:   *)
(* whoever frees a block tells its client, and no callback is left that    *)
(* would lead to a client that is gone or belongs to another connection.   *)
ClientsHoldTheirs ==
    /\ \A c \in Clients : s.cl[c].live /\ s.cl[c].pcb # None =>
          LET pcb == s.p[s.cl[c].pcb] IN
          pcb.errf /\ pcb.arg = c /\ pcb.state \in {"ESTABLISHED", "CLOSE_WAIT"}
    /\ \A id \in Alive(s) : s.p[id].errf \/ s.p[id].recv =>
          s.cl[s.p[id].arg].live /\ s.cl[s.p[id].arg].pcb = id
    /\ s.pc = "ended" => \A c \in Clients : ~s.cl[c].live

(* The blocks, the lists they are in and the clients that hold them agree. *)
BlocksRight == ListsRight /\ ClientsHoldTheirs

Held(c) == \A id \in Alive(s) : s.p[id].conn = c => s.p[id].errf
BlockOf(c) == {s.p[id] : id \in {i \in Alive(s) : s.p[i].conn = c}}
Heard(c) == s'.timer = s.timer /\ BlockOf(c)' # BlockOf(c)
WindowClosed(c) == \E id \in Alive(s) :
    s.p[id].conn = c /\ s.p[id].persist /\ s.p[id].state \in {"FIN_WAIT_1", "CLOSING"}
PastLimit(c) == \E id \in Alive(s) : s.p[id].conn = c /\ s.p[id].nrtx > TCP_MAXRTX

(* A connection without a client is not kept for ever: unless its host     *)
(* keeps sending what changes its block, the block is freed, or a client   *)
(* takes it, or the program ends.  A connection whose retransmissions      *)
(* were counted past the limit is excepted: tcp_slowtmr gives up at the    *)
(* limit only.  So is one in FIN_WAIT_1 or CLOSING whose host closed its   *)
(* window and is not heard of any more: it is probed for ever.             *)
BlocksAreFreed ==
    \A c \in Conns : \/ []<>(Held(c) \/ PastLimit(c) \/ WindowClosed(c) \/ s.pc # "run")
                      \/ []<><<Heard(c)>>_vars
=============================================================================
