------------------------------- MODULE Reactor -------------------------------
(***************************************************************************)
(* system/BReactor_badvpn.c with epoll: the event loop of tun2socks, and   *)
(* the objects its users register with it.  The record of module           *)
(* Interfaces has these fields besides:                                    *)
(*   pend     the BPending objects that exist, whether or not they are set *)
(*   tm       the timers: state, and the time left until absTime (the      *)
(*            clock itself is not kept; a timer overdue has 0 left)        *)
(*   expired  timers_expired_list                                          *)
(*   fd       the BFileDescriptors: active, wait (waitEvents), and ptr,    *)
(*            whether epoll_returned_ptr points to a result                *)
(*   results  epoll_results from epoll_results_pos on: fd (data.ptr, NULL  *)
(*            if removed) and events                                       *)
(*   lim      the limits: whether it exists, and its count                 *)
(*   exiting                                                               *)
(***************************************************************************)
EXTENDS Interfaces, FiniteSetsExt, SequencesExt

CONSTANTS Limit  \* BCONNECTION_SEND_LIMIT, BCONNECTION_RECV_LIMIT

Null == "NULL"

-----------------------------------------------------------------------------
(* base/BPending.c: the objects.  misc/debugerror.h: an object that has    *)
(* reported an error has to be freed before the next job runs.             *)

BPending_Init(st, job) ==
    [Asserted(st, job \notin st.pend) EXCEPT !.pend = @ \cup {job}]

BPending_Free(st, job) ==
    [BPending_Unset(Asserted(st, job \in st.pend), job) EXCEPT !.pend = @ \ {job}]

Iface_New(st, i, iface) ==
    BPending_Init(BPending_Init([st EXCEPT !.iface[i] = iface], Operation(i)), Done(i))
Iface_Free(st, i) == BPending_Free(BPending_Free(st, Done(i)), Operation(i))

DebugError_AssertNoError(st, err) == Asserted(st, ~BPending_IsSet(st, err))
DEBUGERROR(st, err) == BPending_Set(DebugError_AssertNoError(st, err), err)

-----------------------------------------------------------------------------
(* Timers. *)

NoTimer == [state |-> "INACTIVE", left |-> 0]
Running(st) == {t \in DOMAIN st.tm : st.tm[t].state = "RUNNING"}
FirstTime(st) == Min({st.tm[t].left : t \in Running(st)})

BReactor_RemoveTimer(st, t) ==
    [st EXCEPT !.tm[t] = NoTimer,
               !.expired = SelectSeq(@, LAMBDA u : u # t)]

BReactor_SetTimer(st, t, time) ==
    [BReactor_RemoveTimer(st, t) EXCEPT !.tm[t] = [state |-> "RUNNING", left |-> time]]

(* Timers move to the expired list in the order of their times. *)
Expire(st, timers) ==
    [st EXCEPT !.expired = @ \o SetToSortSeq(timers,
                   LAMBDA t, u : st.tm[t].left < st.tm[u].left),
               !.tm = [t \in DOMAIN @ |->
                   IF t \in timers THEN [@[t] EXCEPT !.state = "EXPIRED"] ELSE @[t]]]

Overdue(st) == {t \in Running(st) : st.tm[t].left = 0}
move_expired_timers(st) == Expire(st, Overdue(st))
move_first_timers(st) ==
    Expire(Asserted(st, Running(st) # {}),
           {t \in Running(st) : st.tm[t].left = FirstTime(st)})

-----------------------------------------------------------------------------
(* File descriptors. *)

NoFd == [active |-> FALSE, wait |-> {}, ptr |-> FALSE]

BReactor_AddFileDescriptor(st, f) ==
    [Asserted(st, ~st.fd[f].active) EXCEPT !.fd[f] = [NoFd EXCEPT !.active = TRUE]]

(* Fault: the result of a descriptor stays when the descriptor goes. *)
BReactor_RemoveFileDescriptor_keeps(st, f) ==
    [Asserted(st, st.fd[f].active) EXCEPT !.fd[f] = NoFd]

BReactor_RemoveFileDescriptor(st, f) ==
    [Asserted(st, st.fd[f].active) EXCEPT !.fd[f] = NoFd,
        !.results = [i \in DOMAIN @ |->
            IF st.fd[f].ptr /\ @[i].fd = f THEN [@[i] EXCEPT !.fd = Null] ELSE @[i]]]

BReactor_SetFileDescriptorEvents(st, f, events) ==
    [Asserted(st, st.fd[f].active /\ events \subseteq {"READ", "WRITE"})
       EXCEPT !.fd[f].wait = events]

set_epoll_fd_pointers(st) ==
    LET returned == {r.fd : r \in Range(st.results)}
    IN [Asserted(st, \A f \in returned : st.fd[f].active /\ ~st.fd[f].ptr)
          EXCEPT !.fd = [f \in DOMAIN @ |-> [@[f] EXCEPT !.ptr = @ \/ f \in returned]]]

(* The events handed to the handler of a descriptor. *)
Reported(wait, events) ==
    {e \in wait : (e = "READ" /\ "IN" \in events) \/ (e = "WRITE" /\ "OUT" \in events)}
    \cup (events \cap {"ERR", "HUP"})

-----------------------------------------------------------------------------
(* Limits: how often a user goes on by itself before it waits for epoll. *)

NoLimit == [live |-> FALSE, count |-> 0]

BReactorLimit_Init(st, l) ==
    [Asserted(st, ~st.lim[l].live) EXCEPT !.lim[l] = [live |-> TRUE, count |-> 0]]
BReactorLimit_Free(st, l) ==
    [Asserted(st, st.lim[l].live) EXCEPT !.lim[l] = NoLimit]

BReactorLimit_Exceeded(st, l) == st.lim[l].count >= Limit
BReactorLimit_Increment(st, l) ==
    [Asserted(st, st.lim[l].live) EXCEPT !.lim[l].count = @ + 1]

-----------------------------------------------------------------------------
(* The loop.  BReactor_Exec looks for a job, then for an expired timer,    *)
(* then for a result of epoll, then waits.                                 *)

BReactor_Quit(st) == [st EXCEPT !.exiting = TRUE]

HasJob(st) == st.jobs # <<>>
HasTimer(st) == ~HasJob(st) /\ st.expired # <<>>
HasResult(st) == ~HasJob(st) /\ st.expired = <<>> /\ st.results # <<>>
HasNothing(st) == ~HasJob(st) /\ st.expired = <<>> /\ st.results = <<>>

TakeTimer(st) == [st EXCEPT !.expired = Tail(@), !.tm[Head(st.expired)] = NoTimer]

TakeResult(st) ==
    LET r == Head(st.results)
        a == [st EXCEPT !.results = Tail(@)]
    IN IF r.fd = Null THEN a
       ELSE [Asserted(a, st.fd[r.fd].active /\ st.fd[r.fd].ptr)
               EXCEPT !.fd[r.fd].ptr = FALSE]

(* wait_for_events: before epoll_wait ... *)
(* Fault: timers that have expired wait until epoll_wait times out. *)
wait_begin_blind(st) ==
    [st EXCEPT !.waiting = TRUE]

wait_begin(st) ==
    IF Overdue(st) # {} THEN move_expired_timers(st)
    ELSE [st EXCEPT !.waiting = TRUE]

(* ... and after it, with results or because the time is over. *)
ResetLimits(st) ==
    [st EXCEPT !.waiting = FALSE,
               !.lim = [l \in DOMAIN @ |-> [@[l] EXCEPT !.count = 0]]]

wait_results(st, results) ==
    ResetLimits(set_epoll_fd_pointers([st EXCEPT !.results = results]))
wait_timeout(st) == ResetLimits(move_first_timers(st))

BReactor_Free(st) ==
    Asserted(st, /\ st.jobs = <<>> /\ st.pend = {}
                 /\ Running(st) = {} /\ st.expired = <<>>
                 /\ \A f \in DOMAIN st.fd : ~st.fd[f].active
                 /\ \A l \in DOMAIN st.lim : ~st.lim[l].live)
=============================================================================
