-------------------------------- MODULE Text --------------------------------
(***************************************************************************)
(* Numbers and addresses as text: misc/parse_number.h, misc/ipaddr6.h,     *)
(* system/BAddr.h and lwip/src/core/ipv4/ip4_addr.c.                       *)
(*                                                                         *)
(* A text is a sequence of characters: 0..15 are the digits (those from 10 *)
(* are hexadecimal), the others are named below.  A byte has Byte values   *)
(* and an IPv6 address NBlocks blocks of two bytes.  A function that       *)
(* returns 0 for failure returns Failed here.                              *)
(***************************************************************************)
EXTENDS Integers, Sequences, SequencesExt

CONSTANTS Byte,        \* 256
          NBlocks,     \* 8
          PortDigits   \* 5: what fits in the buffer for the port

Colon == 16
Dot == 17
Slash == 18
Open == 19
Close == 20
Space == 21
Hex == 22     \* the x of 0x
Minus == 23

UINT8_MAX == Byte - 1
UINT16_MAX == Byte * Byte - 1

Failed == [ok |-> FALSE]
Is(v) == [ok |-> TRUE, v |-> v]

-----------------------------------------------------------------------------
(* Numbers; the largest is 255 here. *)

UINTMAX_MAX == 255
parse_number__uintmax_max_str == <<2, 5, 5>>

decode_decimal_digit(c) == IF c < 10 THEN c ELSE -1
decode_hex_digit(c) == IF c < 16 THEN c ELSE -1

\* The value of decimal digits.
Decimal(str) == FoldLeft(LAMBDA n, c : 10 * n + c, 0, str)

parse__no_overflow(str) ==
    IF \E i \in DOMAIN str : str[i] > 9 THEN Failed ELSE Is(Decimal(str))

\* Whether memcmp says greater, for texts of one length.
MemGreater(a, b) ==
    \E i \in DOMAIN a : a[i] > b[i] /\ \A j \in 1..i - 1 : a[j] = b[j]

WithoutZeros(str) ==
    LET n == CHOOSE k \in 0..Len(str) : /\ \A i \in 1..k : str[i] = 0
                                        /\ k < Len(str) => str[k + 1] # 0
    IN SubSeq(str, n + 1, Len(str))

parse_unsigned_integer(str) ==
    LET rest == WithoutZeros(str)
        max == parse_number__uintmax_max_str
    IN IF \/ str = <<>>
          \/ Len(rest) > Len(max)
          \/ Len(rest) = Len(max) /\ MemGreater(rest, max)
       THEN Failed ELSE parse__no_overflow(rest)

\* One more digit of a number that may not grow beyond max.
WithDigit(n, base, max, digit) ==
    IF ~n.ok \/ digit < 0 \/ n.v > max \div base \/ digit > max - n.v * base THEN Failed
    ELSE Is(n.v * base + digit)

parse_unsigned_hex_integer(str) ==
    IF str = <<>> THEN Failed
    ELSE FoldLeft(LAMBDA n, c : WithDigit(n, 16, UINTMAX_MAX, decode_hex_digit(c)), Is(0), str)

parse_signmag_integer(str) ==
    LET sign == str # <<>> /\ str[1] = Minus
        mag == parse_unsigned_integer(IF sign THEN Tail(str) ELSE str)
    IN IF mag.ok THEN Is(<<IF sign THEN -1 ELSE 1, mag.v>>) ELSE Failed

RECURSIVE generate_decimal_repr(_), generate_hex_repr(_)
generate_decimal_repr(x) ==
    IF x < 10 THEN <<x>> ELSE Append(generate_decimal_repr(x \div 10), x % 10)
compute_decimal_repr_size(x) == Len(generate_decimal_repr(x))

\* printf's %x.
generate_hex_repr(x) == IF x < 16 THEN <<x>> ELSE Append(generate_hex_repr(x \div 16), x % 16)

-----------------------------------------------------------------------------
(* lwIP's IPv4 addresses, as sequences of four bytes. *)

ip4_addr_netmask_valid(bits) == \A i, j \in DOMAIN bits : i < j /\ bits[j] = 1 => bits[i] = 1

\* The position after the number at i, and the number, which may wrap.
RECURSIVE AtonDigits(_, _, _, _)
AtonDigits(cp, i, base, val) ==
    LET c == IF i > Len(cp) THEN Space ELSE cp[i]
    IN IF c < 10 \/ (base = 16 /\ c < 16)
       THEN AtonDigits(cp, i + 1, base, (val * base + c) % (Byte * Byte * Byte * Byte))
       ELSE [at |-> i, val |-> val]

RECURSIVE AtonParts(_, _, _), AtonAfter(_, _, _)
AtonParts(cp, i, parts) ==
    LET hex == i + 1 <= Len(cp) /\ cp[i] = 0 /\ cp[i + 1] = Hex
        base == IF hex THEN 16 ELSE IF cp[i] = 0 THEN 8 ELSE 10
    IN IF i > Len(cp) THEN Failed
       ELSE IF cp[i] > 9 THEN Failed
       ELSE AtonAfter(cp, AtonDigits(cp, IF hex THEN i + 2 ELSE i, base, 0), parts)

\* d: the number just read.
AtonAfter(cp, d, parts) ==
    IF d.at > Len(cp) THEN Is(Append(parts, d.val))
    ELSE IF cp[d.at] = Dot
    THEN IF Len(parts) >= 3 THEN Failed ELSE AtonParts(cp, d.at + 1, Append(parts, d.val))
    ELSE IF cp[d.at] = Space THEN Is(Append(parts, d.val)) ELSE Failed

Power(n) == Byte ^ n

\* The parts but the last are a byte each (what is above is shifted out), the
\* last is the rest of the address.
AtonAddress(parts) ==
    LET n == Len(parts.v)
        last == parts.v[n]
    IN IF ~parts.ok THEN Failed
       ELSE IF n > 1 /\ last >= Power(5 - n) THEN Failed
       ELSE Is([i \in 1..4 |-> IF i < n THEN parts.v[i] % Byte
                               ELSE (last \div Power(4 - i)) % Byte])

ipaddr_aton(cp) == AtonAddress(AtonParts(cp, 1, <<>>))

\* Four numbers with dots between them.
Dotted(addr) ==
    FoldLeft(LAMBDA t, b : (IF t = <<>> THEN t ELSE Append(t, Dot)) \o generate_decimal_repr(b),
             <<>>, addr)

ipaddr_ntoa_r(addr, buflen) ==
    IF Len(Dotted(addr)) + 1 > buflen THEN Failed ELSE Is(Dotted(addr))

-----------------------------------------------------------------------------
(* IPv6 addresses, as sequences of blocks. *)

\* The bytes of a dotted ending.
Ipv4Start == [ok |-> TRUE, done |-> <<>>, byte |-> 0, empty |-> TRUE]
Ipv4Char(a, c) ==
    LET byte == WithDigit(Is(a.byte), 10, UINT8_MAX, decode_decimal_digit(c)) IN
    IF c = Dot
    THEN IF a.empty \/ Len(a.done) = 3 THEN [a EXCEPT !.ok = FALSE]
         ELSE [a EXCEPT !.done = Append(@, a.byte), !.byte = 0, !.empty = TRUE]
    ELSE IF (~a.empty /\ a.byte = 0) \/ ~byte.ok THEN [a EXCEPT !.ok = FALSE]
    ELSE [a EXCEPT !.byte = byte.v, !.empty = FALSE]

Ipv4Ending(text) ==
    LET a == FoldLeft(LAMBDA x, c : IF x.ok THEN Ipv4Char(x, c) ELSE x, Ipv4Start, text)
    IN IF ~a.ok \/ Len(a.done) # 3 \/ a.empty THEN Failed ELSE Is(Append(a.done, a.byte))

\* blocks, and where compress_pos is: the zeros go there.
Ipv6Done(blocks, pos) ==
    IF pos = -1 THEN IF Len(blocks) # NBlocks THEN Failed ELSE Is(blocks)
    ELSE Is(SubSeq(blocks, 1, pos) \o [i \in 1..NBlocks - Len(blocks) |-> 0]
                \o SubSeq(blocks, pos + 1, Len(blocks)))

\* Where the reading is: the character i, where its block begins (start), the
\* blocks so far, the value of this block and compress_pos.
Ipv6Colon(name, x) ==
    LET empty == x.i = x.start
        double == x.i < Len(name) /\ name[x.i + 1] = Colon
        next == IF double THEN x.i + 2 ELSE x.i + 1
        ended == IF x.i = 1 THEN x.blocks ELSE Append(x.blocks, x.block)
    IN IF \/ x.i > 1 /\ (empty \/ Len(x.blocks) = NBlocks - 1)
          \/ x.i = 1 /\ ~double
          \/ double /\ x.pos # -1
       THEN Failed
       ELSE Is([i |-> next, start |-> next, blocks |-> ended, block |-> 0,
                pos |-> IF double THEN Len(ended) ELSE x.pos])

Ipv6Digit(x, digit) ==
    IF digit.ok THEN Is([x EXCEPT !.i = @ + 1, !.block = digit.v]) ELSE Failed

Ipv6End(x) ==
    IF x.i # x.start THEN Ipv6Done(Append(x.blocks, x.block), x.pos)
    ELSE IF Len(x.blocks) # x.pos THEN Failed ELSE Ipv6Done(x.blocks, x.pos)

Ipv6Dotted(x, v4) ==
    IF \/ x.i = x.start \/ (x.blocks = <<>> /\ x.pos = -1) \/ ~v4.ok
       \/ NBlocks - Len(x.blocks) < 2
    THEN Failed
    ELSE Ipv6Done(x.blocks \o <<v4.v[1] * Byte + v4.v[2], v4.v[3] * Byte + v4.v[4]>>, x.pos)

RECURSIVE Ipv6From(_, _), Ipv6Next(_, _)
Ipv6Next(name, r) == IF r.ok THEN Ipv6From(name, r.v) ELSE Failed

Ipv6From(name, x) ==
    IF x.i > Len(name) THEN Ipv6End(x)
    ELSE IF name[x.i] = Dot THEN Ipv6Dotted(x, Ipv4Ending(SubSeq(name, x.start, Len(name))))
    ELSE Ipv6Next(name, IF name[x.i] = Colon THEN Ipv6Colon(name, x)
                        ELSE Ipv6Digit(x, WithDigit(Is(x.block), 16, UINT16_MAX,
                                                    decode_hex_digit(name[x.i]))))

ipaddr6_parse_ipv6_addr(name) ==
    Ipv6From(name, [i |-> 1, start |-> 1, blocks |-> <<>>, block |-> 0, pos |-> -1])

ipaddr6_parse_ipv6_prefix(str) ==
    LET d == parse_unsigned_integer(str)
    IN IF ~d.ok THEN Failed ELSE IF d.v > 16 * NBlocks THEN Failed ELSE d

MemRef_FindChar(str, ch) == SelectInSeq(str, LAMBDA c : c = ch)

IfaddrOf(addr, prefix) ==
    IF addr.ok /\ prefix.ok THEN Is([addr |-> addr.v, prefix |-> prefix.v]) ELSE Failed

ipaddr6_parse_ipv6_ifaddr(str) ==
    LET slash == MemRef_FindChar(str, Slash)
    IN IF slash = 0 THEN Failed
       ELSE IfaddrOf(ipaddr6_parse_ipv6_addr(SubSeq(str, 1, slash - 1)),
                     ipaddr6_parse_ipv6_prefix(SubSeq(str, slash + 1, Len(str))))

\* Masks, as sequences of bits.
ipaddr6_ipv6_mask_from_prefix(prefix) ==
    [i \in 1..16 * NBlocks |-> IF i <= prefix THEN 1 ELSE 0]
ipaddr6_ipv6_prefix_from_mask(mask) ==
    LET n == CHOOSE k \in 0..Len(mask) : /\ \A i \in 1..k : mask[i] = 1
                                         /\ k < Len(mask) => mask[k + 1] = 0
    IN IF \E i \in n + 1..Len(mask) : mask[i] = 1 THEN Failed ELSE Is(n)
ipaddr6_ipv6_addrs_in_network(addr1, addr2, netprefix) ==
    \A i \in 1..netprefix : addr1[i] = addr2[i]

\* The first of the longest runs of zero blocks.
ZeroRun(addr) ==
    LET runs == {r \in (1..NBlocks) \X (0..NBlocks) :
                    /\ r[1] + r[2] - 1 <= NBlocks
                    /\ \A i \in r[1]..r[1] + r[2] - 1 : addr[i] = 0}
    IN CHOOSE r \in runs : \A q \in runs : q[2] < r[2] \/ (q[2] = r[2] /\ q[1] >= r[1])

\* Blocks with a colon after each, or before each.
Before(blocks) == FoldLeft(LAMBDA t, b : t \o generate_hex_repr(b) \o <<Colon>>, <<>>, blocks)
After(blocks) == FoldLeft(LAMBDA t, b : t \o <<Colon>> \o generate_hex_repr(b), <<>>, blocks)

ipaddr6_print_addr(addr) ==
    LET z == ZeroRun(addr)
    IN IF z[2] > 1
       THEN Before(SubSeq(addr, 1, z[1] - 1)) \o (IF z[1] = 1 THEN <<Colon>> ELSE <<>>)
                \o After(SubSeq(addr, z[1] + z[2], NBlocks))
                \o (IF z[1] + z[2] = NBlocks + 1 THEN <<Colon>> ELSE <<>>)
       ELSE Tail(After(addr))

ipaddr6_print_ifaddr(a) ==
    ipaddr6_print_addr(a.addr) \o <<Slash>> \o generate_decimal_repr(a.prefix)

-----------------------------------------------------------------------------
(* BAddr: an address [type, ip, port], ip in bytes or blocks and the port  *)
(* in network byte order; BIPAddr is the same without the port.            *)

hton16(x) == (x % Byte) * Byte + (x \div Byte)
ntoh16(x) == hton16(x)

BIPAddr_InitInvalid == [type |-> "NONE"]
BIPAddr_InitIPv4(ip) == [type |-> "IPV4", ip |-> ip]
BIPAddr_InitIPv6(ip) == [type |-> "IPV6", ip |-> ip]
BAddr_MakeNone == [type |-> "NONE"]
BAddr_MakeIPv4(ip, port) == [type |-> "IPV4", ip |-> ip, port |-> port]
BAddr_MakeIPv6(ip, port) == [type |-> "IPV6", ip |-> ip, port |-> port]
BAddr_MakeFromIpaddrAndPort(a, port) ==
    CASE a.type = "NONE" -> BAddr_MakeNone
      [] a.type = "IPV4" -> BAddr_MakeIPv4(a.ip, port)
      [] a.type = "IPV6" -> BAddr_MakeIPv6(a.ip, port)
BAddr_GetIPAddr(a) ==
    CASE a.type = "IPV4" -> BIPAddr_InitIPv4(a.ip)
      [] a.type = "IPV6" -> BIPAddr_InitIPv6(a.ip)
      [] OTHER           -> BIPAddr_InitInvalid
BAddr_GetPort(a) == a.port
BAddr_SetPort(a, port) == [a EXCEPT !.port = port]
BAddr_IsInvalid(a) == a.type = "NONE"

\* getaddrinfo for numeric addresses (external).
getaddrinfo(type, text) ==
    IF type = "IPV4" THEN ipaddr_aton(text) ELSE ipaddr6_parse_ipv6_addr(text)

Resolved(type, ip) == IF ip.ok THEN Is([type |-> type, ip |-> ip.v]) ELSE Failed

BIPAddr_Resolve(str) ==
    LET bracketed == str # <<>> /\ str[1] = Open /\ Last(str) = Close
        type == IF bracketed THEN "IPV6" ELSE "IPV4"
    IN Resolved(type, getaddrinfo(type, IF bracketed THEN SubSeq(str, 2, Len(str) - 1) ELSE str))

BIPAddr_Print(a) ==
    CASE a.type = "IPV4" -> Dotted(a.ip)
      [] a.type = "IPV6" -> Tail(After(a.ip))

BIPAddr_Compare(a, b) == a.type = b.type /\ a.type # "NONE" /\ a.ip = b.ip

BAddr_Print(a) ==
    BIPAddr_Print(BAddr_GetIPAddr(a)) \o <<Colon>> \o generate_decimal_repr(ntoh16(a.port))

\* strtol for at most PortDigits characters (external).
PortOf(str) ==
    IF str = <<>> \/ Len(str) > PortDigits \/ \E i \in DOMAIN str : str[i] > 9 THEN Failed
    ELSE IF Decimal(str) > UINT16_MAX THEN Failed ELSE Is(hton16(Decimal(str)))

WithPort(a, port) ==
    IF a.ok /\ port.ok THEN Is([type |-> a.v.type, ip |-> a.v.ip, port |-> port.v]) ELSE Failed

BAddr_Parse2(str) ==
    LET v6 == str # <<>> /\ str[1] = Open
        type == IF v6 THEN "IPV6" ELSE "IPV4"
        end == MemRef_FindChar(str, IF v6 THEN Close ELSE Colon)
        text == SubSeq(str, IF v6 THEN 2 ELSE 1, end - 1)
    IN IF end = 0 THEN Failed
       ELSE IF v6 /\ (end = Len(str) \/ SubSeq(str, end + 1, end + 1) # <<Colon>>) THEN Failed
       ELSE WithPort(Resolved(type, getaddrinfo(type, text)),
                     PortOf(SubSeq(str, IF v6 THEN end + 2 ELSE end + 1, Len(str))))

BAddr_Compare(a, b) ==
    a.type = b.type /\ a.type # "NONE" /\ a.ip = b.ip /\ a.port = b.port

B_COMPARE(x, y) == IF x < y THEN -1 ELSE IF x > y THEN 1 ELSE 0

\* memcmp, and the order of numbers in network byte order.
CompareSeq(x, y) ==
    LET differ == {i \in DOMAIN x : x[i] # y[i]}
        first == CHOOSE i \in differ : \A j \in differ : i <= j
    IN IF differ = {} THEN 0 ELSE B_COMPARE(x[first], y[first])

BAddr_CompareOrder(a, b) ==
    LET type == [NONE |-> 0, IPV4 |-> 1, IPV6 |-> 2]
        ip == CompareSeq(a.ip, b.ip)
    IN IF a.type # b.type THEN B_COMPARE(type[a.type], type[b.type])
       ELSE IF a.type = "NONE" THEN 0
       ELSE IF ip # 0 THEN ip ELSE B_COMPARE(ntoh16(a.port), ntoh16(b.port))

-----------------------------------------------------------------------------
(* What the functions should do. *)

\* A text is read as the number it says, or not at all.
NumbersRight(str) ==
    LET digits == {i \in DOMAIN str : str[i] > 9} = {}
        n == parse_unsigned_integer(str)
    IN /\ n.ok <=> str # <<>> /\ digits /\ Decimal(str) <= UINTMAX_MAX
       /\ n.ok => /\ n.v = Decimal(str)
                  /\ parse_unsigned_integer(generate_decimal_repr(n.v)) = n
                  /\ parse_unsigned_hex_integer(generate_hex_repr(n.v)) = n
                  /\ parse_signmag_integer(<<Minus>> \o str) = Is(<<-1, n.v>>)

\* The groups of a text between separators.
RECURSIVE GroupsOf(_, _)
GroupsOf(str, sep) ==
    LET i == MemRef_FindChar(str, sep)
    IN IF i = 0 THEN <<str>>
       ELSE <<SubSeq(str, 1, i - 1)>> \o GroupsOf(SubSeq(str, i + 1, Len(str)), sep)

\* What a group stands for: a block, or two if it is dotted.
GroupValue(g, last) ==
    LET hex == FoldLeft(LAMBDA n, c : WithDigit(n, 16, UINT16_MAX, decode_hex_digit(c)),
                        Is(0), g)
        bytes == GroupsOf(g, Dot)
        b == [i \in DOMAIN bytes |-> Decimal(bytes[i])]
    IN IF g # <<>> /\ hex.ok THEN Is(<<hex.v>>)
       ELSE IF /\ last /\ Len(bytes) = 4
               /\ \A i \in 1..4 : b[i] <= UINT8_MAX /\ bytes[i] = generate_decimal_repr(b[i])
       THEN Is(<<b[1] * Byte + b[2], b[3] * Byte + b[4]>>)
       ELSE Failed

Concatenated(values) ==
    IF \E i \in DOMAIN values : ~values[i].ok THEN Failed
    ELSE Is(FoldLeft(LAMBDA t, v : t \o v.v, <<>>, values))

BlocksOf(str, last) ==
    LET groups == GroupsOf(str, Colon)
    IN IF str = <<>> THEN Is(<<>>)
       ELSE Concatenated([i \in DOMAIN groups |-> GroupValue(groups[i], last /\ i = Len(groups))])

\* The addresses an IPv6 text may mean: all blocks, or some on each side of
\* two colons.
WholeAddress(b) == IF b.ok THEN {a \in {b.v} : Len(a) = NBlocks} ELSE {}

\* The blocks on the two sides of the colons.
Joined(l, r) ==
    IF l.ok /\ r.ok /\ Len(l.v) < NBlocks
    THEN {l.v \o [i \in 1..n |-> 0] \o r.v :
            n \in {NBlocks - Len(l.v) - Len(r.v)} \cap 0..NBlocks}
    ELSE {}

Meanings(str) ==
    WholeAddress(BlocksOf(str, TRUE))
      \cup UNION {Joined(BlocksOf(SubSeq(str, 1, k - 1), FALSE),
                         BlocksOf(SubSeq(str, k + 2, Len(str)), TRUE)) :
                  k \in {j \in 1..Len(str) - 1 : str[j] = Colon /\ str[j + 1] = Colon}}

\* An IPv6 text is read as what it means, or not at all.
Ipv6TextRight(str) ==
    LET a == ipaddr6_parse_ipv6_addr(str)
    IN IF a.ok THEN Meanings(str) = {a.v} ELSE Meanings(str) = {}

\* An address that is printed is read as itself.
Ipv6Right(addr) ==
    /\ ipaddr6_parse_ipv6_addr(ipaddr6_print_addr(addr)) = Is(addr)
    /\ \A p \in {0, 1, 15, 16, 16 * NBlocks} :
         /\ ipaddr6_parse_ipv6_ifaddr(ipaddr6_print_ifaddr([addr |-> addr, prefix |-> p]))
                = Is([addr |-> addr, prefix |-> p])
         /\ ipaddr6_ipv6_prefix_from_mask(ipaddr6_ipv6_mask_from_prefix(p)) = Is(p)
Ipv4Right(addr) ==
    \A n \in 0..16 :
        LET text == ipaddr_ntoa_r(addr, n) IN text.ok => ipaddr_aton(text.v) = Is(addr)

\* A BAddr that is printed is read as itself, if it is not IPv6: that is
\* printed without brackets.  The order of BAddrs is total and agrees with
\* BAddr_Compare.
BAddrRight(a, all) ==
    /\ a.type = "IPV4" => /\ BAddr_Parse2(BAddr_Print(a)) = Is(a)
                          /\ BIPAddr_Resolve(BIPAddr_Print(BAddr_GetIPAddr(a)))
                                = Is(BAddr_GetIPAddr(a))
    /\ BAddr_IsInvalid(a) \/ BAddr_MakeFromIpaddrAndPort(BAddr_GetIPAddr(a), BAddr_GetPort(a)) = a
    /\ \A b, c \in all :
         /\ BAddr_CompareOrder(a, b) = -BAddr_CompareOrder(b, a)
         /\ BAddr_CompareOrder(a, b) = 0 <=> a = b
         /\ a.type # "NONE" => (BAddr_Compare(a, b) <=> BAddr_CompareOrder(a, b) = 0)
         /\ (BAddr_CompareOrder(a, b) < 0 /\ BAddr_CompareOrder(b, c) < 0
                => BAddr_CompareOrder(a, c) < 0)
         /\ a.type = b.type /\ a.type # "NONE" /\ a.ip = b.ip =>
               (BAddr_CompareOrder(a, b) < 0 <=> ntoh16(a.port) < ntoh16(b.port))

=============================================================================
