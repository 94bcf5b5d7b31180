----------------------------- MODULE Interfaces -----------------------------
(***************************************************************************)
(* What the components of tun2socks are joined by: the jobs of a           *)
(* BPendingGroup and the interfaces of flow/.  The user of an interface    *)
(* starts an operation on it, a job runs the provider's handler, the       *)
(* provider reports that it is done, a job runs the user's handler.  Jobs  *)
(* run last in, first out.                                                 *)
(*                                                                         *)
(* A state is a record, handlers are operators from records to records.    *)
(* This module uses its fields                                             *)
(*   jobs    the pending jobs, the next one first                          *)
(*   iface   the state and the arguments of every interface                *)
(*   failed  an ASSERT has failed                                          *)
(***************************************************************************)
EXTENDS Integers, Sequences, Functions

None == -1

Asserted(st, cond) == IF cond THEN st ELSE [st EXCEPT !.failed = TRUE]

\* An ASSERT that fails ends the program.
Then(st, Go(_)) == IF st.failed THEN st ELSE Go(st)

-----------------------------------------------------------------------------
(* base/BPending.c: the pending jobs. *)

BPending_IsSet(st, job) == job \in Range(st.jobs)

(* The list without an element of it. *)
RemovedAt(jobs, i) == SubSeq(jobs, 1, i - 1) \o SubSeq(jobs, i + 1, Len(jobs))

BPending_Unset(st, job) ==
    IF BPending_IsSet(st, job)
    THEN [st EXCEPT !.jobs = RemovedAt(@, CHOOSE i \in DOMAIN @ : @[i] = job)]
    ELSE st

BPending_Set(st, job) ==
    [BPending_Unset(st, job) EXCEPT !.jobs = <<job>> \o @]

-----------------------------------------------------------------------------
(* flow/PacketPassInterface, PacketRecvInterface, StreamPassInterface and  *)
(* StreamRecvInterface: the four share this protocol; they differ in the   *)
(* arguments the two jobs carry.                                           *)

Iface_Init(mtu) == [state |-> "NONE", data |-> None, len |-> 0, mtu |-> mtu]

Operation(i) == <<"operation", i>>
Done(i) == <<"done", i>>

Iface_Start(st, i, data, len) ==
    LET a == Asserted(st, len >= 0 /\ st.iface[i].state = "NONE") IN
    BPending_Set([a EXCEPT !.iface[i].state = "OPERATION_PENDING",
                           !.iface[i].data = data, !.iface[i].len = len],
                 Operation(i))

PacketPassInterface_Sender_Send(st, i, data, len) ==
    Iface_Start(Asserted(st, len <= st.iface[i].mtu), i, data, len)
PacketRecvInterface_Receiver_Recv(st, i, data) ==
    Iface_Start(Asserted(st, data # None), i, data, st.iface[i].mtu)
StreamPassInterface_Sender_Send(st, i, data, len) ==
    Iface_Start(Asserted(st, len > 0), i, data, len)
StreamRecvInterface_Receiver_Recv(st, i, data, len) ==
    Iface_Start(Asserted(st, len > 0), i, data, len)

Iface_Done(st, i, len) ==
    LET a == Asserted(st, st.iface[i].state = "BUSY") IN
    BPending_Set([a EXCEPT !.iface[i].state = "DONE_PENDING",
                           !.iface[i].len = len], Done(i))

PacketPassInterface_Done(st, i) == Iface_Done(st, i, 0)
PacketRecvInterface_Done(st, i, len) ==
    Iface_Done(Asserted(st, len \in 0 .. st.iface[i].mtu), i, len)
StreamPassInterface_Done(st, i, len) ==
    Iface_Done(Asserted(st, len \in 1 .. st.iface[i].len), i, len)
StreamRecvInterface_Done(st, i, len) ==
    Iface_Done(Asserted(st, len \in 1 .. st.iface[i].len), i, len)

(* The two jobs of an interface, before the handler they call. *)
job_operation(st, i) ==
    [Asserted(st, st.iface[i].state = "OPERATION_PENDING")
       EXCEPT !.iface[i].state = "BUSY"]
job_done(st, i) ==
    [Asserted(st, st.iface[i].state = "DONE_PENDING")
       EXCEPT !.iface[i].state = "NONE"]
=============================================================================
