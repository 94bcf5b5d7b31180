---------------------------- MODULE PacketQueue ----------------------------
(***************************************************************************)
(* What the packet flow of flow/ promises its users: for every flow, the   *)
(* packets written come out once each, in the order they were written, and *)
(* none stays inside for ever.                                             *)
(***************************************************************************)
EXTENDS Integers, Sequences

CONSTANTS Flows,    \* the flows that share the output
          Lengths   \* the payload lengths a packet may have

VARIABLES written,  \* per flow, the lengths of the packets written so far
          delivered \* per flow, the packets taken by the receiver

qvars == <<written, delivered>>

QInit == /\ written = [f \in Flows |-> <<>>]
         /\ delivered = [f \in Flows |-> <<>>]

(* The user writes a packet. *)
QWrite(f) == \E n \in Lengths :
    /\ written' = [written EXCEPT ![f] = Append(@, n)]
    /\ UNCHANGED delivered

(* The receiver is given the oldest packet it has not seen. *)
QDeliver(f) ==
    /\ Len(delivered[f]) < Len(written[f])
    /\ delivered' = [delivered EXCEPT
                       ![f] = Append(@, written[f][Len(@) + 1])]
    /\ UNCHANGED written

QNext == \E f \in Flows : QWrite(f) \/ QDeliver(f)

QSpec == QInit /\ [][QNext]_qvars /\ \A f \in Flows : WF_qvars(QDeliver(f))
=============================================================================
