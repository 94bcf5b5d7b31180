-------------------------------- MODULE Flow --------------------------------
(***************************************************************************)
(* The packet flow of tun2socks/flow: packets written by the user of each  *)
(* flow pass                                                               *)
(*                                                                         *)
(*   BufferWriter -> PacketProtoEncoder -> PacketBuffer (ChunkBuffer2)     *)
(*     -> PacketPassFairQueue -> PacketPassInactivityMonitor               *)
(*     -> PacketPassConnector -> PacketStreamSender -> byte stream         *)
(*     -> PacketProtoDecoder -> sink                                       *)
(*                                                                         *)
(* Two neighbours are joined by an interface (module Interfaces).  Jobs    *)
(* run before any event from outside.                                      *)
(*                                                                         *)
(* The state is one record, so that a handler is an operator from records  *)
(* to records and the calls it makes are nested in the order of the code:  *)
(*   jobs    the pending jobs, the next one first                          *)
(*   iface   the state and the arguments of every interface                *)
(*   buf     the ChunkBuffer2 of every flow, with its memory               *)
(*   queue   the fair queue                                                *)
(*   other fields: the remaining components, by their names                *)
(*   failed  an ASSERT has failed                                          *)
(* Packets are passed by address and not copied before the stream, so the  *)
(* memory of a buffer is modelled byte by byte, and a byte is read at the  *)
(* moment it leaves.  A byte is [f, k, v]: a payload byte knows its flow,  *)
(* its packet and its place in the packet; the length of a packet or of a  *)
(* chunk is a byte with that value.                                        *)
(***************************************************************************)
EXTENDS Interfaces, FiniteSets

CONSTANTS Flows,      \* 1..number of flows
          Lengths,    \* payload lengths
          Mtu,        \* the payload MTU
          NumPackets, \* packets a PacketBuffer has to hold
          Block,      \* sizeof(struct ChunkBuffer2_block)
          Header,     \* sizeof(struct packetproto_header)
          Weight,     \* packet_weight of the fair queue
          MaxTime,    \* FAIRQUEUE_MAX_TIME, all ones
          Packets,    \* bound: packets written per flow
          WireBytes   \* bound: bytes in the network

(* PacketPassFairQueue_Init fails unless a packet's time is representable. *)
ASSUME FlowAssumption ==
    /\ IsFiniteSet(Flows) /\ Flows \subseteq Nat \ {0}
    /\ Mtu \in Nat /\ Lengths \subseteq 0 .. Mtu
    /\ NumPackets \in Nat \ {0} /\ Block \in Nat \ {0}
    /\ Header \in Nat \ {0} /\ Weight \in Nat \ {0}
    /\ MaxTime \in Nat /\ Weight + Header + Mtu <= MaxTime
    /\ Packets \in Nat /\ WireBytes \in Nat

VARIABLES s, written, delivered

vars == <<s, written, delivered>>

Max2(a, b) == IF a > b THEN a ELSE b
Min2(a, b) == IF a < b THEN a ELSE b

(* Interfaces: one per flow for the first three, one shared for the rest. *)
Ifaces == ({"writer", "encoder", "flow"} \X Flows)
    \cup ({"monitor", "connector", "sender", "stream", "receiver", "sink"} \X {0})
Shared(name) == <<name, 0>>

mtu(i) == IF i[1] \in {"writer", "sink"} THEN Mtu ELSE Header + Mtu

-----------------------------------------------------------------------------
(* structure/ChunkBuffer2.h: packets in a circular array of blocks, each   *)
(* packet a block with its length and then its data, never split.          *)

bdivide_up(a, b) == (a + b - 1) \div b
PACKETPROTO_ENCLEN(n) == Header + n

ChunkBuffer2_calc_blocks(chunk_len, num) ==
    (1 + bdivide_up(chunk_len, Block)) * (num + 1)

InputMtu  == PACKETPROTO_ENCLEN(Mtu)
Blocks    == ChunkBuffer2_calc_blocks(InputMtu, NumPackets)
MtuBlocks == bdivide_up(InputMtu, Block)

Byte(f, k, v) == [f |-> f, k |-> k, v |-> v]
Chunk(b) == b.mem[b.start * Block].v   \* buffer[start].len

Wrapped(b) == b.used >= b.wrap - b.start
ChunkBuffer2_end(b) == IF Wrapped(b) THEN b.used - (b.wrap - b.start)
                                     ELSE b.start + b.used

Input(b) ==
    LET end  == ChunkBuffer2_end(b)
        free == IF Wrapped(b) THEN b.start - end ELSE Blocks - end
    IN IF Blocks - end - 1 < MtuBlocks \/ free <= 0
       THEN [dest |-> None, avail |-> None]
       ELSE [dest |-> (end + 1) * Block, avail |-> (free - 1) * Block]

Output(b) == IF b.used > 0
             THEN [dest |-> (b.start + 1) * Block, avail |-> Chunk(b)]
             ELSE [dest |-> None, avail |-> None]

update_input(b)  == [b EXCEPT !.in = Input(b)]
update_output(b) == [b EXCEPT !.out = Output(b)]

assert_buffer(b) ==
    /\ b.wrap \in 1 .. Blocks
    /\ b.start \in 0 .. b.wrap - 1
    /\ b.used \in 0 .. b.wrap
    /\ b.wrap = Blocks \/ b.used >= b.wrap - b.start

assert_io(b) ==
    /\ b.in = Input(b)
    /\ b.out = Output(b)
    /\ b.used > 0 =>
         LET blocklen == bdivide_up(Chunk(b), Block)
         IN blocklen <= b.used - 1 /\ blocklen <= b.wrap - b.start - 1

ChunkBuffer2_Init ==
    LET b == [start |-> 0, used |-> 0, wrap |-> Blocks,
              mem |-> [k \in 0 .. Blocks * Block - 1 |-> Byte(0, 0, 0)],
              in |-> [dest |-> None, avail |-> None],
              out |-> [dest |-> None, avail |-> None]]
    IN update_output(update_input(b))

ChunkBuffer2_SubmitPacket(b, len) ==
    LET end      == ChunkBuffer2_end(b)
        blocklen == bdivide_up(len, Block)
        b1 == [b EXCEPT !.mem[end * Block] = Byte(0, 0, len), !.used = @ + 1 + blocklen]
        b2 == IF /\ b1.used <= b1.wrap - b1.start
                 /\ MtuBlocks > Blocks - (end + 1 + blocklen) - 1
              THEN [b1 EXCEPT !.wrap = end + 1 + blocklen] ELSE b1
        b3 == update_input(b2)
    IN IF b3.used = 1 + blocklen THEN update_output(b3) ELSE b3

ChunkBuffer2_ConsumePacket(b) ==
    LET blocklen == bdivide_up(Chunk(b), Block)
        b1 == [b EXCEPT !.start = @ + 1 + blocklen, !.used = @ - 1 - blocklen]
        b2 == IF b1.start = b1.wrap
              THEN [b1 EXCEPT !.start = 0, !.wrap = Blocks] ELSE b1
    IN update_output(IF Wrapped(b) THEN update_input(b2) ELSE b2)

BufferOK(b) == assert_buffer(b) /\ assert_io(b)

-----------------------------------------------------------------------------
(* flow/PacketBuffer.c: between the encoder and the fair queue. *)

PacketBuffer_input_done(st, f, in_len) ==
    LET b  == ChunkBuffer2_SubmitPacket(st.buf[f], in_len)
        s1 == [Asserted(st, /\ in_len \in 0 .. InputMtu
                            /\ in_len <= st.buf[f].in.avail
                            /\ BufferOK(b)) EXCEPT !.buf[f] = b]
        s2 == IF b.in.avail >= InputMtu
              THEN PacketRecvInterface_Receiver_Recv(s1, <<"encoder", f>>, b.in.dest)
              ELSE s1
    IN IF st.buf[f].out.avail < 0
       THEN PacketPassInterface_Sender_Send(s2, <<"flow", f>>, b.out.dest, b.out.avail)
       ELSE s2

(* Fault: the encoder is asked again although its receive is outstanding. *)
PacketBuffer_output_done_recv(st, f) ==
    LET b  == ChunkBuffer2_ConsumePacket(st.buf[f])
        s1 == [st EXCEPT !.buf[f] = b]
        s2 == IF b.in.avail >= InputMtu
              THEN PacketRecvInterface_Receiver_Recv(s1, <<"encoder", f>>, b.in.dest)
              ELSE s1
    IN IF b.out.avail >= 0
       THEN PacketPassInterface_Sender_Send(s2, <<"flow", f>>, b.out.dest, b.out.avail)
       ELSE s2

PacketBuffer_output_done(st, f) ==
    LET b  == ChunkBuffer2_ConsumePacket(st.buf[f])
        s1 == [Asserted(st, st.buf[f].used > 0 /\ BufferOK(b)) EXCEPT !.buf[f] = b]
        s2 == IF st.buf[f].in.avail < InputMtu /\ b.in.avail >= InputMtu
              THEN PacketRecvInterface_Receiver_Recv(s1, <<"encoder", f>>, b.in.dest)
              ELSE s1
    IN IF b.out.avail >= 0
       THEN PacketPassInterface_Sender_Send(s2, <<"flow", f>>, b.out.dest, b.out.avail)
       ELSE s2

-----------------------------------------------------------------------------
(* flow/PacketProtoEncoder.c and flow/BufferWriter.c: the encoder asks the  *)
(* writer to put the payload behind the header it will write.              *)

PacketProtoEncoder_Init == None
BufferWriter_Init == None

PacketProtoEncoder_output_recv(st, f, data) ==
    PacketRecvInterface_Receiver_Recv(
        [Asserted(st, st.encoder[f] = None) EXCEPT !.encoder[f] = data],
        <<"writer", f>>, data + Header)

PacketProtoEncoder_input_done(st, f, in_len) ==
    LET s1 == [Asserted(st, st.encoder[f] # None) EXCEPT
                 !.buf[f].mem[st.encoder[f]] = Byte(f, 0, in_len),
                 !.encoder[f] = None]
    IN PacketRecvInterface_Done(s1, <<"encoder", f>>, PACKETPROTO_ENCLEN(in_len))

BufferWriter_output_recv(st, f, data) ==
    [Asserted(st, st.writer[f] = None) EXCEPT !.writer[f] = data]

(* StartPacket, the user's writing into the buffer, EndPacket. *)
BufferWriter_Packet(st, f, k, len) ==
    LET at == st.writer[f]
        s1 == [st EXCEPT
                 !.buf[f].mem = [a \in DOMAIN @ |->
                     IF a \in at .. at + len - 1 THEN Byte(f, k, a - at) ELSE @[a]],
                 !.writer[f] = None]
    IN PacketRecvInterface_Done(s1, <<"writer", f>>, len)

-----------------------------------------------------------------------------
(* flow/PacketPassFairQueue.c: the queued flow with the smallest time      *)
(* sends next, ties are broken by address; a flow's time grows by the size *)
(* of what it sent.  Times are unsigned 64 bit numbers.                    *)

Wrap(t) == t % (MaxTime + 1)

FairQueue_Init ==
    [queued |-> {}, sending |-> 0, previous |-> 0, time |-> [f \in Flows |-> 0],
     data |-> [f \in Flows |-> [at |-> None, len |-> 0]]]

First(q) == CHOOSE f \in q.queued :
    \A g \in q.queued : q.time[f] < q.time[g] \/ (q.time[f] = q.time[g] /\ f <= g)

get_current_time(q) ==
    IF q.sending # 0 THEN q.time[q.sending]
    ELSE LET times == {q.time[f] : f \in q.queued}
                        \cup (IF q.previous # 0 THEN {q.time[q.previous]} ELSE {})
         IN IF times = {} THEN 0 ELSE CHOOSE t \in times : \A u \in times : t <= u

(* Fault: the time of the flow runs over and the others stay. *)
increment_sent_flow_wraps(q, flow, amount) ==
    [q EXCEPT !.time[flow] = Wrap(@ + amount)]

increment_sent_flow(q, flow, amount) ==
    LET subtract == IF q.queued = {} THEN q.time[flow] ELSE q.time[First(q)]
        times == IF amount > MaxTime - q.time[flow]
                 THEN [f \in Flows |->
                         IF subtract > q.time[f] /\ f # flow THEN 0
                         ELSE Wrap(q.time[f] - subtract)]
                 ELSE q.time
    IN [q EXCEPT !.time = [times EXCEPT ![flow] = Wrap(@ + amount)]]

ScheduleJob == <<"schedule", <<"queue", 0>>>>

schedule(st) ==
    LET f  == First(st.queue)
        s1 == Asserted(st, st.queue.sending = 0 /\ st.queue.previous = 0)
        s2 == [s1 EXCEPT !.queue.queued = @ \ {f}, !.queue.sending = f]
    IN PacketPassInterface_Sender_Send(s2, Shared("monitor"),
           [f |-> f, at |-> st.queue.data[f].at], st.queue.data[f].len)

schedule_job_handler(st) ==
    LET s1 == [Asserted(st, st.queue.sending = 0) EXCEPT !.queue.previous = 0]
    IN IF s1.queue.queued # {} THEN schedule(s1) ELSE s1

FairQueue_input_send(st, f, data, len) ==
    LET q  == st.queue
        q1 == IF f = q.previous THEN [q EXCEPT !.previous = 0]
              ELSE [q EXCEPT !.time[f] = Max2(@, get_current_time(q))]
        s1 == [Asserted(st, f # q.sending /\ f \notin q.queued) EXCEPT
                 !.queue = [q1 EXCEPT !.queued = @ \cup {f},
                                      !.data[f] = [at |-> data, len |-> len]]]
    IN IF q.sending = 0 /\ ~BPending_IsSet(st, ScheduleJob)
       THEN schedule(s1) ELSE s1

FairQueue_output_done(st) ==
    LET f  == st.queue.sending
        q1 == [st.queue EXCEPT !.sending = 0, !.previous = f]
        s1 == [Asserted(st, /\ f # 0 /\ f \notin st.queue.queued
                            /\ Weight + q1.data[f].len <= MaxTime
                            /\ st.queue.previous = 0
                            /\ ~BPending_IsSet(st, ScheduleJob))
                 EXCEPT !.queue = increment_sent_flow(q1, f, Weight + q1.data[f].len)]
    IN PacketPassInterface_Done(BPending_Set(s1, ScheduleJob), <<"flow", f>>)

-----------------------------------------------------------------------------
(* flowextra/PacketPassInactivityMonitor.c: the timer runs only while      *)
(* nothing is being sent.                                                  *)

Monitor_Init == TRUE

Monitor_input_send(st, data, len) ==
    [PacketPassInterface_Sender_Send(st, Shared("connector"), data, len)
       EXCEPT !.timer = FALSE]

Monitor_output_done(st) ==
    PacketPassInterface_Done([st EXCEPT !.timer = TRUE], Shared("monitor"))

-----------------------------------------------------------------------------
(* flow/PacketPassConnector.c: an input whose output is connected later. *)

PacketPassConnector_Init == [output |-> FALSE, len |-> None, data |-> None]

Connector_input_send(st, data, len) ==
    LET s1 == [Asserted(st, st.connector.len = None) EXCEPT
                 !.connector.len = len, !.connector.data = data]
    IN IF st.connector.output
       THEN PacketPassInterface_Sender_Send(s1, Shared("sender"), data, len) ELSE s1

Connector_output_done(st) ==
    PacketPassInterface_Done(
        [Asserted(st, st.connector.len >= 0) EXCEPT !.connector.len = None],
        Shared("connector"))

PacketPassConnector_ConnectOutput(st) ==
    LET s1 == [st EXCEPT !.connector.output = TRUE]
    IN IF st.connector.len >= 0
       THEN PacketPassInterface_Sender_Send(s1, Shared("sender"),
                st.connector.data, st.connector.len)
       ELSE s1

-----------------------------------------------------------------------------
(* flow/PacketStreamSender.c: a packet becomes as many stream operations as *)
(* the stream needs.                                                       *)

PacketStreamSender_Init == [data |-> None, len |-> None, used |-> 0]

(* Fault: what is left of a packet is sent from its beginning. *)
send_data_again(st) ==
    LET p == st.sender IN
    IF p.used < p.len
    THEN StreamPassInterface_Sender_Send(st, Shared("stream"), p.data, p.len - p.used)
    ELSE PacketPassInterface_Done([st EXCEPT !.sender.len = None], Shared("sender"))

send_data(st) ==
    LET p == st.sender IN
    IF p.used < p.len
    THEN StreamPassInterface_Sender_Send(st, Shared("stream"),
             [p.data EXCEPT !.at = @ + p.used], p.len - p.used)
    ELSE PacketPassInterface_Done([st EXCEPT !.sender.len = None], Shared("sender"))

StreamSender_input_send(st, data, len) ==
    send_data([Asserted(st, st.sender.len = None) EXCEPT
                 !.sender = [data |-> data, len |-> len, used |-> 0]])

StreamSender_output_done(st, len) ==
    send_data([Asserted(st, len \in 1 .. st.sender.len - st.sender.used)
                 EXCEPT !.sender.used = @ + len])

-----------------------------------------------------------------------------
(* flow/PacketProtoDecoder.c: cuts the stream into packets again. *)

BufSize == PACKETPROTO_ENCLEN(Mtu)

Decoder_Init == [start |-> 0, used |-> 0, flow |-> 0,
                 buf |-> [a \in 0 .. BufSize - 1 |-> Byte(0, 0, 0)]]

process_data(st) ==
    LET d     == st.decoder
        len   == d.buf[d.start].v
        error == d.used >= Header /\ len > Mtu
        whole == d.used >= Header /\ len <= Mtu /\ d.used - Header >= len
        d1 == IF error THEN [d EXCEPT !.start = 0, !.used = 0]
              ELSE IF d.start + d.used = BufSize
              THEN [d EXCEPT !.start = 0,
                      !.buf = [a \in DOMAIN @ |->
                                 IF a < d.used THEN @[a + d.start] ELSE @[a]]]
              ELSE d
    IN IF whole
       THEN PacketPassInterface_Sender_Send(
              [st EXCEPT !.decoder.start = @ + Header + len,
                         !.decoder.used = @ - Header - len,
                         !.decoder.flow = d.buf[d.start].f],
              Shared("sink"), d.start + Header, len)
       ELSE StreamRecvInterface_Receiver_Recv([st EXCEPT !.decoder = d1],
              Shared("receiver"), d1.start + d1.used, BufSize - (d1.start + d1.used))

Decoder_input_done(st, len) ==
    process_data(
        [Asserted(st, len \in 1 .. BufSize - (st.decoder.start + st.decoder.used))
           EXCEPT !.decoder.used = @ + len])

-----------------------------------------------------------------------------
(* base/BPending.c, BPendingGroup_ExecuteJob: the first job is taken off   *)
(* the list and its handler runs: the provider's of an operation, the      *)
(* user's of a finished one.                                               *)

handler_operation(st, i, data, len) ==
    CASE i[1] = "writer"    -> BufferWriter_output_recv(st, i[2], data)
      [] i[1] = "encoder"   -> PacketProtoEncoder_output_recv(st, i[2], data)
      [] i[1] = "flow"      -> FairQueue_input_send(st, i[2], data, len)
      [] i[1] = "monitor"   -> Monitor_input_send(st, data, len)
      [] i[1] = "connector" -> Connector_input_send(st, data, len)
      [] i[1] = "sender"    -> StreamSender_input_send(st, data, len)
      [] OTHER              -> st  \* stream, receiver, sink: the event comes later

handler_done(st, i, len) ==
    CASE i[1] = "writer"    -> PacketProtoEncoder_input_done(st, i[2], len)
      [] i[1] = "encoder"   -> PacketBuffer_input_done(st, i[2], len)
      [] i[1] = "flow"      -> PacketBuffer_output_done(st, i[2])
      [] i[1] = "monitor"   -> FairQueue_output_done(st)
      [] i[1] = "connector" -> Monitor_output_done(st)
      [] i[1] = "sender"    -> Connector_output_done(st)
      [] i[1] = "stream"    -> StreamSender_output_done(st, len)
      [] i[1] = "receiver"  -> Decoder_input_done(st, len)
      [] i[1] = "sink"      -> process_data(st)

BPendingGroup_ExecuteJob ==
    /\ s.jobs # <<>>
    /\ LET job == Head(s.jobs)
           i   == job[2]
           st  == [s EXCEPT !.jobs = Tail(@)]
       IN s' = CASE job[1] = "operation" ->
                      handler_operation(job_operation(st, i), i, s.iface[i].data, s.iface[i].len)
                 [] job[1] = "done" ->
                      handler_done(job_done(st, i), i, s.iface[i].len)
                 [] job[1] = "schedule" -> schedule_job_handler(st)
    /\ UNCHANGED <<written, delivered>>

-----------------------------------------------------------------------------
(* The world around: events come when no job is pending. *)

(* PacketProtoFlow_Init for every flow, in some order, and the other       *)
(* components; the connector has no output yet.  The PacketBuffers and the *)
(* decoder have scheduled their first receives, the decoder last.          *)
FirstIface(i) ==
    [Iface_Init(mtu(i)) EXCEPT
       !.state = IF i[1] \in {"encoder", "receiver"} THEN "OPERATION_PENDING" ELSE "NONE",
       !.data = CASE i[1] = "encoder" -> ChunkBuffer2_Init.in.dest
                  [] i[1] = "receiver" -> 0
                  [] OTHER -> None,
       !.len = IF i[1] \in {"encoder", "receiver"} THEN mtu(i) ELSE 0]

Init ==
    /\ written = [f \in Flows |-> <<>>]
    /\ delivered = [f \in Flows |-> <<>>]
    /\ \E order \in Bijection(1 .. Cardinality(Flows), Flows) :
         s = [jobs |-> <<Operation(Shared("receiver"))>>
                       \o [k \in DOMAIN order |-> Operation(<<"encoder", order[k]>>)],
              failed |-> FALSE, timer |-> Monitor_Init, wire |-> <<>>,
              iface |-> [i \in Ifaces |-> FirstIface(i)],
              buf |-> [f \in Flows |-> ChunkBuffer2_Init],
              encoder |-> [f \in Flows |-> PacketProtoEncoder_Init],
              writer |-> [f \in Flows |-> BufferWriter_Init],
              queue |-> FairQueue_Init, connector |-> PacketPassConnector_Init,
              sender |-> PacketStreamSender_Init, decoder |-> Decoder_Init]

Idle == s.jobs = <<>>
Busy(name) == s.iface[Shared(name)].state = "BUSY"

Write(f) ==
    /\ Idle /\ s.writer[f] # None /\ Len(written[f]) < Packets
    /\ \E n \in Lengths :
         /\ s' = BufferWriter_Packet(s, f, Len(written[f]) + 1, n)
         /\ written' = [written EXCEPT ![f] = Append(@, n)]
    /\ UNCHANGED delivered

ConnectOutput ==
    /\ Idle /\ ~s.connector.output
    /\ s' = PacketPassConnector_ConnectOutput(s)
    /\ UNCHANGED <<written, delivered>>

(* The inactivity timer expires and is started again. *)
TimerHandler == Idle /\ s.timer /\ UNCHANGED vars

(* The network takes some of the bytes offered. *)
StreamTakes ==
    /\ Idle /\ Busy("stream")
    /\ LET op == s.iface[Shared("stream")] IN
       \E n \in 1 .. Min2(op.len, WireBytes - Len(s.wire)) :
         s' = StreamPassInterface_Done(
                [s EXCEPT !.wire = @ \o
                   [k \in 1 .. n |-> s.buf[op.data.f].mem[op.data.at + k - 1]]],
                Shared("stream"), n)
    /\ UNCHANGED <<written, delivered>>

(* The network hands over some of the bytes it holds. *)
StreamGives ==
    /\ Idle /\ Busy("receiver")
    /\ LET op == s.iface[Shared("receiver")] IN
       \E n \in 1 .. Min2(op.len, Len(s.wire)) :
         s' = StreamRecvInterface_Done(
                [s EXCEPT !.wire = SubSeq(@, n + 1, Len(@)),
                          !.decoder.buf = [a \in DOMAIN @ |->
                              IF a \in op.data .. op.data + n - 1
                              THEN s.wire[a - op.data + 1] ELSE @[a]]],
                Shared("receiver"), n)
    /\ UNCHANGED <<written, delivered>>

(* The sink has read the packet it was given: its length if the bytes are  *)
(* those of one packet in their places, the next of its flow.              *)
Taken(f, op) ==
    IF \A a \in 0 .. op.len - 1 :
         s.decoder.buf[op.data + a] = Byte(f, Len(delivered[f]) + 1, a)
    THEN op.len ELSE None

SinkDone ==
    /\ Idle /\ Busy("sink")
    /\ delivered' = [delivered EXCEPT ![s.decoder.flow] =
                        Append(@, Taken(s.decoder.flow, s.iface[Shared("sink")]))]
    /\ s' = PacketPassInterface_Done(s, Shared("sink"))
    /\ UNCHANGED written

Next == \/ BPendingGroup_ExecuteJob \/ ConnectOutput \/ TimerHandler
        \/ StreamTakes \/ StreamGives \/ SinkDone
        \/ \E f \in Flows : Write(f)

(* The reactor runs pending jobs before it waits (BReactor_Exec); the      *)
(* connection comes up, carries bytes on, and the sink reads what it gets. *)
(* This is weak fairness of the actions above, with an action's guard in   *)
(* the place of ENABLED and the change that tells the action from others.  *)
Fairness ==
    /\ []<>Idle \/ []<><<~Idle /\ s' # s>>_vars
    /\ []<>(~Idle \/ s.connector.output) \/ []<><<s'.connector.output>>_vars
    /\ []<>~(Idle /\ Busy("stream") /\ Len(s.wire) < WireBytes)
       \/ []<><<Len(s'.wire) > Len(s.wire)>>_vars
    /\ []<>~(Idle /\ Busy("receiver") /\ s.wire # <<>>)
       \/ []<><<Len(s'.wire) < Len(s.wire)>>_vars
    /\ []<>~(Idle /\ Busy("sink")) \/ []<><<delivered' # delivered>>_vars

Spec == Init /\ [][Next]_vars /\ Fairness

-----------------------------------------------------------------------------
(* Properties *)

(* No ASSERT of the flow components fails: every interface is used in      *)
(* turn, every buffer is as _ChunkBuffer2_assert_buffer and _assert_io     *)
(* want it, the fair queue never has two packets on the way.               *)
NoAssertFails == ~s.failed

(* Every packet written comes out of the decoder whole, once and in order, *)
(* although it is read in place while newer packets are written beside it. *)
Fifo == INSTANCE PacketQueue WITH Flows <- Flows, Lengths <- Lengths,
                                  written <- written, delivered <- delivered
FlowImplementsQueue == Fifo!QSpec

(* PacketBuffer_Init's num_packets: a flow that accepts no packet holds at *)
(* least that many.                                                        *)
Held(f) == Len(written[f]) - Len(delivered[f])
HoldsNumPackets ==
    \A f \in Flows :
        Idle /\ s.writer[f] = None => Held(f) >= NumPackets

(* The flow that sends is the one that has sent least: no flow that waits  *)
(* has a smaller time, also when it came later.  A flow whose time is from *)
(* before the queue was empty waits until the others have caught up.       *)
FairTurn ==
    s.queue.sending # 0 =>
        \A f \in s.queue.queued : s.queue.time[s.queue.sending] <= s.queue.time[f]

(* A flow pays for what it has sent and for nothing else, also when the    *)
(* times run over FAIRQUEUE_MAX_TIME and increment_sent_flow moves all of  *)
(* them: of two flows that wait or send, neither gets ahead otherwise.     *)
InPlay(q) == q.queued \cup ({q.sending, q.previous} \ {0})
Charged(f) == IF s.queue.sending = f /\ s'.queue.sending # f
              THEN Weight + s.queue.data[f].len ELSE 0
FairCharge ==
    \A f, g \in InPlay(s.queue) \cap InPlay(s'.queue) :
        s'.queue.time[f] - s'.queue.time[g]
            = (s.queue.time[f] + Charged(f)) - (s.queue.time[g] + Charged(g))

(* What a flow of PacketProtoFlow promises its user. *)
FlowsServed == [](HoldsNumPackets /\ FairTurn) /\ [][FairCharge]_vars

=============================================================================
