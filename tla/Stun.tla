-------------------------------- MODULE Stun ---------------------------------
(***************************************************************************)
(* measurement_proxy/ministun.c: the walk over the attributes of a STUN    *)
(* message and the address it extracts. Lengths are in bytes.              *)
(***************************************************************************)
EXTENDS Integers, Sequences

(* An address is <<host, port>>; 0.0.0.0:0 is what bzero leaves. *)
NoAddr == <<"any", 0>>

HeaderSize == 20

AttrSize == 4

stun_get_mapped(attr, answer) ==
    IF attr.attr = "MAPPED_ADDRESS" /\ attr.len = 8 THEN attr.addr ELSE answer

(* One round of the loop over the attributes; left is what is left of the  *)
(* message, and the loop ends when it is used up or at a bad attribute.    *)
WalkAttr(walk, attr) ==
    LET x == attr.len + AttrSize
    IN  IF walk.left < AttrSize \/ x > walk.left
        THEN [walk EXCEPT !.left = 0]
        ELSE [left |-> walk.left - x, answer |-> stun_get_mapped(attr, walk.answer)]

(* The address that stun_request() finds in a packet. It returns 0 also    *)
(* for a runt and for a message without MAPPED_ADDRESS.                    *)
stun_handle_packet(msg) ==
    IF msg.len < HeaderSize THEN NoAddr
    ELSE LET rest == msg.len - HeaderSize
             left == IF msg.msglen > rest THEN rest ELSE msg.msglen
             walk[n \in 0 .. Len(msg.attrs)] ==
                 IF n = 0 THEN [left |-> left, answer |-> NoAddr]
                 ELSE WalkAttr(walk[n - 1], msg.attrs[n])
         IN  walk[Len(msg.attrs)].answer

-----------------------------------------------------------------------------
(* The messages that a server, which is external, sends to address a: a    *)
(* response with other attributes around, one that is cut off within an    *)
(* attribute, and an error response.                                       *)

Attr(attr, len, addr) == [attr |-> attr, len |-> len, addr |-> addr]

Message(attrs, cut) ==
    LET upto[n \in 0 .. Len(attrs)] ==
            IF n = 0 THEN 0 ELSE upto[n - 1] + attrs[n].len + AttrSize
        size == upto[Len(attrs)]
    IN  [len |-> HeaderSize + size - cut, msglen |-> size, attrs |-> attrs]

Messages(a, server) ==
    LET other(t) == Attr(t, 8, server)
        mapped == Attr("MAPPED_ADDRESS", 8, a)
    IN  {Message(<<other("SOURCE_ADDRESS"), mapped, other("CHANGED_ADDRESS")>>, 0),
         Message(<<mapped, other("SOURCE_ADDRESS")>>, 13),
         Message(<<Attr("ERROR_CODE", 4, NoAddr)>>, 0)}

=============================================================================
