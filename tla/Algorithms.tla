----------------------------- MODULE Algorithms -----------------------------
(***************************************************************************)
(* The functions of tun2socks that compute something, each compared with   *)
(* what it should compute: the trees and lists of Structures under every   *)
(* sequence of operations, and the others (Checksum, Text, Options, Pbuf   *)
(* and the fragmentation of Ip) on one input after the other.  So are the  *)
(* functions of the wrappers that read the input files.                    *)
(***************************************************************************)
EXTENDS Structures, Checksum, Text, Options, InputFiles

CONSTANTS PoolSize, LinkRoom, IpRoom, TransportRoom, Garbage, IP_REASS_MAX_PBUFS, DeviceMtu,
          NetifMtu, NetifIp, NetSize, AnyIp, AllOnes, Multicast, U16, SumSize

VARIABLE input  \* the function that is tried, and its input

Packets == INSTANCE IpInput

Texts(Characters, n) == UNION {[1..m -> Characters] : m \in 0..n}

NoInput == [of |-> "none"]

RequiredOptions == <<"--netif-ipaddr", "10.0.0.2", "--netif-netmask", "255.0.0.0",
                     "--socks-server-addr", "127.0.0.1:1080">>
Login == <<"--username", "user", "--password", "secret">>
Words == {"--help", "--append-source-to-username", "--logger", "syslog", "--loglevel", "error",
          "--channel-loglevel", "BTap", "6", "3x", "", "--netif-ipaddr", "--tundev", "--username",
          "--password", "--password-file"}

Inputs ==
    [of : {"checksum"}, x : Texts(0..SumByte - 1, 4)]
    \cup [of : {"sizes"}, x : (0..SIZE_MAX) \X (0..SIZE_MAX)]
    \cup [of : {"number"}, x : Texts({0, 2, 5, 6, 12}, 4)]
    \cup [of : {"ip6text"}, x : Texts({1, Colon, Dot}, 7)]
    \cup [of : {"ip6"}, x : [1..NBlocks -> {0, 1, 15, 16, UINT16_MAX}]]
    \cup [of : {"ip4"}, x : [1..4 -> {0, 1, 8, 10, UINT8_MAX}]]
    \cup [of : {"packet"}, x : Texts({1, 2}, 5)]
    \cup [of : {"fragments"}, x : 1..5]
    \cup [of : {"argv"}, x : {first \o rest : first \in {<<>>, RequiredOptions, RequiredOptions \o Login},
                                               rest \in Texts(Words, 3)}]
    \cup [of : {"files"}, x : Texts(Texts({"AT", "BE", "CH", NoCode}, 3), 2)]

AInit == Init /\ input = NoInput

Operate == input = NoInput /\ Next /\ UNCHANGED input

Try == /\ input = NoInput /\ tree = CAvl_Init /\ list = LinkedList1_Init /\ kind = "keys"
       /\ input' \in Inputs
       /\ UNCHANGED vars

ANext == Operate \/ Try

ASpec == AInit /\ [][ANext]_<<vars, input>>

-----------------------------------------------------------------------------
(* What the functions on pbufs should do. *)

EmptyHeap == [pb |-> <<>>, mem |-> 99, bad |-> {}, reass |-> <<>>, count |-> 0, ip_id |-> 0,
              mtu |-> NetifMtu, sent |-> <<>>, up |-> <<>>]

\* A packet in pbufs from the pool.
TakenInto(p, data) == [s |-> Packets!pbuf_take(p.s, p.r, data).s, p |-> p.r]
InPool(t, data) == TakenInto(Packets!pbuf_alloc(t, "RAW", Len(data), "POOL"), data)

\* In every pbuf of a packet tot_len is the length from there to the end.
TotalsRight(s) ==
    \A p \in DOMAIN s.pb : s.pb[p].tot = Len(Packets!PacketOf(s.pb, p))

Holds(t, p, data) == Packets!PacketOf(t.pb, p) = data /\ TotalsRight(t)

CoalescedRight(one, data) ==
    /\ Packets!PacketOf(one.s.pb, one.r) = data /\ Packets!pbuf_clen(one.s, one.r) = 1
    /\ DOMAIN Packets!pbuf_free(one.s, one.r).pb = {}

CatRight(more, p, data) == Holds(Packets!pbuf_cat(more.s, p, more.p), p, data \o <<7, 8>>)

\* q: the packet in its pbufs.
FunctionsRight(q, data) ==
    LET n == Len(data)
        rest == Packets!pbuf_dechain(Packets!pbuf_ref(q.s, q.s.pb[q.p].next), q.p)
    IN /\ Holds(q.s, q.p, data)
       /\ CoalescedRight(Packets!pbuf_coalesce(q.s, q.p, "RAW"), data)
       /\ CatRight(TakenInto(Packets!pbuf_alloc(q.s, "RAW", 2, "RAM"), <<7, 8>>), q.p, data)
       /\ n > PoolSize => Holds(rest.s, rest.r, SubSeq(data, PoolSize + 1, n))
       /\ \A i \in 0..n :
            /\ Holds(Packets!pbuf_realloc(q.s, q.p, i), q.p, SubSeq(data, 1, i))
            /\ \A len \in 0..n - i :
                 LET part == SubSeq(data, i + 1, i + len) IN
                 /\ Packets!pbuf_copy_partial(q.s, q.p, len, i) = part
                 /\ i < n => Packets!pbuf_memcmp(q.s, q.p, i, part) = 0
       /\ \A needle \in Texts({1, 2}, 2) \ {<<>>} :
            LET at == Packets!pbuf_strstr(q.s, q.p, needle)
            IN at # Packets!NotFound => SubSeq(data, at + 1, at + Len(needle)) = needle

ContentRight(data) == FunctionsRight(InPool(EmptyHeap, data), data)

Cut(q) == Packets!pbuf_free(Packets!ip_frag(q.s, q.p), q.p)
Received(q) == Packets!ip_input(q.s, q.p)
ReassembledRight(t, packet) == t.up = <<packet>> /\ DOMAIN t.pb = {}

\* The fragment order[k] closes the gap to the last one, and those that came
\* before it begin with the first one but not all of them are there: a hole in
\* front of a fragment that is put between two others is not looked for.
HoleMissedAt(order, k) ==
    LET f == order[k]
        came == {order[j] : j \in 1..k - 1}
        lower == {g \in came : g < f}
    IN /\ f < Len(order) /\ f + 1..Len(order) \subseteq came
       /\ lower = 1..Cardinality(lower) /\ Cardinality(lower) \in 1..f - 2

HoleMissed(order) == \E k \in DOMAIN order : HoleMissedAt(order, k)

FragmentsArrive(cut, packet) ==
    /\ DOMAIN cut.pb = {} /\ cut.bad = {}
    /\ \A order \in SetToSeqs(DOMAIN cut.sent) :
         ReassembledRight(FoldLeft(LAMBDA t, i : Received(InPool(t, cut.sent[i])),
                                   EmptyHeap, order), packet) <=> ~HoleMissed(order)

TcpPacket(n) ==
    <<[v |-> 4, hl |-> 1, len |-> n + 1, src |-> 2, dst |-> NetifIp, id |-> 3,
       off |-> 0, mf |-> FALSE, proto |-> "TCP", sum |-> "good"]>>
      \o [i \in 1..n |-> [d |-> i]]

\* The packet that ip_frag cuts into pieces is what ip_reass makes of them, and
\* no pbuf is left over, in exactly those orders in which no hole is missed.
FragmentsRight(n) == FragmentsArrive(Cut(InPool(EmptyHeap, TcpPacket(n))), TcpPacket(n))

-----------------------------------------------------------------------------
(* Properties *)

(* The AVL trees of CAvl_impl.h stay balanced, with right counts and sums, *)
(* through insertions and removals in any order, no ASSERT fails, and the  *)
(* operations and lookups do what the order of the entries says; and       *)
(* LinkedList1 and SLinkedList read the same forwards and backwards.       *)
StructuresRight == TreeVerified /\ TreeOperations /\ Lookups /\ ListOperations

(* The checksum of inet_chksum.c is the ones' complement sum wherever the  *)
(* packet is cut into pbufs and whatever their alignment; the checksum     *)
(* that icmp_input adjusts fits the reply, and integers are read as they   *)
(* were written.                                                           *)
ChecksumsRight ==
    input.of = "checksum" =>
        /\ ChecksumRight(input.x)
        /\ \A echo \in 1..SumByte - 1 : EchoChecksumRight(input.x, echo)
        /\ badvpn_write_le(badvpn_read_le(input.x), Len(input.x)) = input.x
        /\ badvpn_write_be(badvpn_read_be(input.x), Len(input.x)) = input.x

(* A size that does not fit a size_t is never taken for a smaller one:     *)
(* balloc.h asks malloc for what was meant, or fails.                      *)
SizesRight ==
    input.of = "sizes" =>
        LET a == input.x[1]
            b == input.x[2]
            fit(n, got) == got = IF n > SIZE_MAX THEN NoMemory ELSE BAlloc(n)
        IN /\ fit(a * b, BAllocArray(a, b))
           /\ fit(a + b, BAllocSize(bsize_add(bsize_fromint(a), bsize_fromint(b))))
           /\ fit(a * b, BAllocSize(bsize_mul(bsize_fromint(a), bsize_fromint(b))))
           /\ \A c \in 0..SIZE_MAX : fit(a * b * c, BAllocArray2(a, b, c))
           /\ b > 0 => LET r == BSizeAlign(a, b)
                       IN r = NoMemory \/ (r % b = 0 /\ r >= a /\ r < a + b)

(* Numbers and addresses are read as what they say, or not at all, and     *)
(* what is printed is read back (parse_number.h, ipaddr6.h, BAddr.h,       *)
(* ip4_addr.c).                                                            *)
TextsRight ==
    LET all == {BAddr_MakeNone}
                 \cup {BAddr_MakeIPv4(input.x, p) : p \in {0, 1, 16, 80}}
                 \cup {BAddr_MakeIPv4(<<1, 0, 0, 1>>, 16)}
    IN /\ input.of = "number" => NumbersRight(input.x)
       /\ input.of = "ip6text" => Ipv6TextRight(input.x)
       /\ input.of = "ip6" => Ipv6Right(input.x)
       /\ input.of = "ip4" => Ipv4Right(input.x) /\ \A a \in all : BAddrRight(a, all)

(* The functions of pbuf.c keep the content and the lengths of a packet,   *)
(* and ip_reass undoes ip_frag in every order of the fragments but those   *)
(* in which one is put between two others behind a hole, with all that     *)
(* follow there: then it does not.                                         *)
PacketsRight ==
    /\ input.of = "packet" => ContentRight(input.x)
    /\ input.of = "fragments" => FragmentsRight(input.x)

(* A command line is accepted exactly if every word belongs to an option   *)
(* and what is required is given; of an option that is given twice the     *)
(* last counts, and the level of a channel is its own, else the general    *)
(* one (parse_arguments, tun2socks.c).                                     *)
OptionsRight == input.of = "argv" => CommandLineRight(input.x)

(* The functions that compute numbers and read or write texts.             *)
ValuesRight == ChecksumsRight /\ SizesRight /\ TextsRight /\ OptionsRight

(* No line of the input files of the wrappers is lost or read twice at the *)
(* border of two countries or files, sorted files are grouped by country,  *)
(* and exactly the pairs of countries of one file are marked as finished.  *)
FilesRight == input.of = "files" => ReadRight(input.x)

=============================================================================
