------------------------------ MODULE Checksum ------------------------------
(***************************************************************************)
(* Integers in bytes (misc/read_write_int.h, misc/byteorder.h), sizes that *)
(* may overflow (misc/bsize.h, misc/balloc.h) and the Internet checksum    *)
(* over a chain of pbufs (lwip/src/core/inet_chksum.c, version 2 of the    *)
(* algorithm, on a little-endian machine).  A chain is a sequence of       *)
(* [bytes, odd], odd saying whether the payload's address is odd.          *)
(***************************************************************************)
EXTENDS Integers, Sequences, SequencesExt

CONSTANTS SumByte,   \* 256: the values of a byte
          SIZE_MAX   \* the largest size_t

Word == SumByte * SumByte

-----------------------------------------------------------------------------
(* Integers. *)

RECURSIVE badvpn_read_le(_), badvpn_write_le(_, _)
badvpn_read_le(bytes) ==
    IF bytes = <<>> THEN 0 ELSE Head(bytes) + SumByte * badvpn_read_le(Tail(bytes))
badvpn_read_be(bytes) == badvpn_read_le(Reverse(bytes))

\* x in n bytes.
badvpn_write_le(x, n) ==
    IF n = 0 THEN <<>> ELSE <<x % SumByte>> \o badvpn_write_le(x \div SumByte, n - 1)
badvpn_write_be(x, n) == Reverse(badvpn_write_le(x, n))

badvpn_reverse(x, n) == badvpn_read_be(badvpn_write_le(x, n))
hton(x, n) == badvpn_reverse(x, n)
ntoh(x, n) == hton(x, n)

-----------------------------------------------------------------------------
(* Sizes. *)

SizeT(x) == x % (SIZE_MAX + 1)

bsize_fromint(v) == [is_overflow |-> v < 0 \/ v > SIZE_MAX, value |-> SizeT(v)]
bsize_add(s1, s2) ==
    [is_overflow |-> s1.is_overflow \/ s2.is_overflow \/ s2.value > SIZE_MAX - s1.value,
     value |-> SizeT(s1.value + s2.value)]
bsize_max(s1, s2) ==
    [is_overflow |-> s1.is_overflow \/ s2.is_overflow,
     value |-> IF s1.value > s2.value THEN s1.value ELSE s2.value]
bsize_mul(s1, s2) ==
    [is_overflow |-> \/ s1.is_overflow \/ s2.is_overflow
                     \/ s1.value # 0 /\ s2.value > SIZE_MAX \div s1.value,
     value |-> SizeT(s1.value * s2.value)]

\* How many bytes are asked of malloc; NoMemory is the return of NULL.
NoMemory == -1
BAlloc(bytes) == IF bytes = 0 THEN 1 ELSE bytes
BAllocSize(s) == IF s.is_overflow THEN NoMemory ELSE BAlloc(s.value)
BAllocArray(count, bytes) ==
    IF count = 0 \/ bytes = 0 THEN 1
    ELSE IF count > SIZE_MAX \div bytes THEN NoMemory
    ELSE BAlloc(SizeT(count * bytes))

BAllocArray2(count2, count1, bytes) ==
    IF count2 = 0 \/ count1 = 0 \/ bytes = 0 THEN 1
    ELSE IF count1 > SIZE_MAX \div bytes THEN NoMemory
    ELSE IF count2 > SIZE_MAX \div SizeT(count1 * bytes) THEN NoMemory
    ELSE BAlloc(SizeT(count2 * SizeT(count1 * bytes)))

\* The new size, or NoMemory if it does not fit.
BSizeAdd(s, add) == IF add > SIZE_MAX - s THEN NoMemory ELSE s + add
BSizeAlign(s, align) ==
    IF s % align = 0 THEN s
    ELSE IF align - (s % align) > SIZE_MAX - s THEN NoMemory ELSE s + align - (s % align)

-----------------------------------------------------------------------------
(* The checksum. *)

FOLD_U32T(u) == (u \div Word) + (u % Word)
SWAP_BYTES_IN_WORD(w) == (w % SumByte) * SumByte + ((w % Word) \div SumByte)
Complement(u) == Word - 1 - (u % Word)

RECURSIVE SumWords(_)
SumWords(bytes) ==
    IF Len(bytes) < 2 THEN 0
    ELSE badvpn_read_le(SubSeq(bytes, 1, 2)) + SumWords(SubSeq(bytes, 3, Len(bytes)))

lwip_standard_chksum(bytes, odd) ==
    LET first == odd /\ bytes # <<>>
        rest == IF first THEN Tail(bytes) ELSE bytes
        t == (IF first THEN Head(bytes) * SumByte ELSE 0)
                + (IF Len(rest) % 2 = 1 THEN Last(rest) ELSE 0)
        sum == FOLD_U32T(FOLD_U32T(SumWords(rest) + t))
    IN IF odd THEN SWAP_BYTES_IN_WORD(sum) ELSE sum

inet_chksum(bytes, odd) == Complement(lwip_standard_chksum(bytes, odd))

\* The sum of the first chksum_len bytes of a chain: what is added up so far,
\* how many bytes are left, and whether an odd number came before.
SumChain(chain, chksum_len, acc) ==
    FoldLeft(LAMBDA a, b :
                 LET n == IF Len(b.bytes) > a.left THEN a.left ELSE Len(b.bytes)
                     sum == FOLD_U32T(a.acc + lwip_standard_chksum(SubSeq(b.bytes, 1, n), b.odd))
                 IN IF a.left = 0 THEN a
                    ELSE IF Len(b.bytes) % 2 = 1
                    THEN [acc |-> SWAP_BYTES_IN_WORD(sum), left |-> a.left - n,
                          swapped |-> ~a.swapped]
                    ELSE [a EXCEPT !.acc = sum, !.left = @ - n],
             [acc |-> acc, left |-> chksum_len, swapped |-> FALSE], chain)

Unswapped(a) == IF a.swapped THEN SWAP_BYTES_IN_WORD(a.acc) ELSE a.acc

ChainLen(chain) == FoldLeft(LAMBDA n, b : n + Len(b.bytes), 0, chain)

inet_chksum_pbuf(chain) == Complement(Unswapped(SumChain(chain, ChainLen(chain), 0)))

inet_cksum_pseudo_partial_base(chain, proto, proto_len, chksum_len, acc) ==
    Complement(FOLD_U32T(FOLD_U32T(Unswapped(SumChain(chain, chksum_len, acc))
                                   + hton(proto, 2) + hton(proto_len, 2))))

inet_cksum_pseudo_base(chain, proto, proto_len, acc) ==
    inet_cksum_pseudo_partial_base(chain, proto, proto_len, ChainLen(chain), acc)

\* src and dest as the words of an address.
AddressSum(src, dest) ==
    FOLD_U32T(FOLD_U32T(FoldLeft(LAMBDA n, w : n + w, 0, src \o dest)))

inet_chksum_pseudo(chain, proto, proto_len, src, dest) ==
    inet_cksum_pseudo_base(chain, proto, proto_len, AddressSum(src, dest))
inet_chksum_pseudo_partial(chain, proto, proto_len, chksum_len, src, dest) ==
    inet_cksum_pseudo_partial_base(chain, proto, proto_len, chksum_len, AddressSum(src, dest))
ip6_chksum_pseudo(chain, proto, proto_len, src, dest) ==
    inet_cksum_pseudo_base(chain, proto, proto_len, AddressSum(src, dest))
ip6_chksum_pseudo_partial(chain, proto, proto_len, chksum_len, src, dest) ==
    inet_cksum_pseudo_partial_base(chain, proto, proto_len, chksum_len, AddressSum(src, dest))

\* The checksum of an echo request once its type echo has become 0.
AdjustedEchoChecksum(chksum, echo) ==
    (chksum + echo + (IF chksum >= Word - 1 - echo THEN 1 ELSE 0)) % Word

-----------------------------------------------------------------------------
(* What the checksum should be. *)

\* n in ones' complement: the carry comes back in.
OnesOf(n) == IF n = 0 THEN 0 ELSE ((n - 1) % (Word - 1)) + 1

OnesSum(bytes) == OnesOf(SumWords(IF Len(bytes) % 2 = 1 THEN Append(bytes, 0) ELSE bytes))

\* Two zeros: in ones' complement 0 and Word - 1 are the same number.
SameSum(a, b) == a % (Word - 1) = b % (Word - 1)

ChainsOf(bytes) ==
    { <<[bytes |-> SubSeq(bytes, 1, i), odd |-> o[1]],
        [bytes |-> SubSeq(bytes, i + 1, j), odd |-> o[2]],
        [bytes |-> SubSeq(bytes, j + 1, Len(bytes)), odd |-> o[3]]>>
      : <<i, j>> \in {c \in (0..Len(bytes)) \X (0..Len(bytes)) : c[1] <= c[2]},
        o \in [1..3 -> BOOLEAN] }

\* The checksum of a chain is that of its bytes, wherever it is cut and
\* whatever the alignment of its pbufs; with the pseudo header likewise.
ChecksumRight(bytes) ==
    \A chain \in ChainsOf(bytes) :
        /\ SameSum(inet_chksum_pbuf(chain), Complement(OnesSum(bytes)))
        /\ SameSum(inet_chksum_pseudo(chain, 1, Len(bytes), <<3, Word - 1>>, <<Word - 1, 0>>),
                   Complement(OnesOf(OnesSum(bytes) + hton(1, 2) + hton(Len(bytes), 2)
                                     + 3 + Word - 1 + Word - 1)))
        /\ \A n \in 0..Len(bytes) :
             SameSum(inet_chksum_pseudo_partial(chain, 0, 0, n, <<0>>, <<0>>),
                     Complement(OnesSum(SubSeq(bytes, 1, n))))

\* A request whose checksum is right has a reply whose checksum is right,
\* unless the reply is all zeros: its checksum would have to be the other
\* zero, Word - 1.
EchoChecksumRight(bytes, echo) ==
    LET request == [bytes EXCEPT ![1] = echo]
        chksum == inet_chksum([request EXCEPT ![3] = 0, ![4] = 0], FALSE)
        adjusted == badvpn_write_le(AdjustedEchoChecksum(chksum, echo), 2)
        reply == [request EXCEPT ![1] = 0, ![3] = adjusted[1], ![4] = adjusted[2]]
    IN Len(bytes) >= 4 => inet_chksum(reply, FALSE) = 0 \/ Range(reply) = {0}

=============================================================================
