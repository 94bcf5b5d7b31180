-------------------------------- MODULE MCIp --------------------------------
(* The host's datagrams and packets for the runs of IpDevice. *)
EXTENDS IpDevice

CONSTANT Pieces  \* blocks of data of the longer datagrams

\* Addresses: 1 is tun2socks, 2 the host, 6 a host elsewhere.
MCMulticast == {9}

\* A packet whose header has the fields of h and is otherwise that of a TCP
\* segment of the host to tun2socks.
With(h, body) ==
    <<h @@ [v |-> 4, hl |-> 1, len |-> Len(body) + 1, src |-> 2, dst |-> 1, id |-> 0,
            off |-> 0, mf |-> FALSE, proto |-> "TCP", sum |-> "good"]>> \o body

Data(n, first) == [i \in 1..n |-> [d |-> first + i]]

Echo(data) ==
    <<[type |-> "ECHO", sum |-> inet_chksum(<<[type |-> "ECHO", sum |-> 0]>> \o data)]>> \o data

MCDatagrams ==
    { With([id |-> 7, proto |-> "ICMP"], Echo(Data(1, 0))),
      With([id |-> 8, dst |-> 6], Data(Pieces, 2)) }

MCSingles ==
    { With([id |-> 1, proto |-> "ICMP"], Echo(Data(1, 3))),
      With([id |-> 2, proto |-> "ICMP", len |-> 3], Echo(Data(1, 3)) \o Data(1, 8)),
      With([id |-> 3, proto |-> "ICMP", dst |-> 9], Echo(Data(1, 3))),
      With([id |-> 1, proto |-> "ICMP"], <<[type |-> "ECHO", sum |-> 1]>>),
      With([id |-> 4, proto |-> "UDP"], Data(3, 4)),
      With([id |-> 4, proto |-> "UDP", dst |-> 6], Data(1, 4)),
      With([id |-> 5, sum |-> "bad"], Data(1, 4)),
      With([id |-> 5, len |-> 4], Data(1, 4)),
      With([id |-> 5, src |-> AllOnes], Data(1, 4)),
      With([id |-> 5, v |-> 6], Data(1, 4)),
      With([id |-> 6, hl |-> 2, proto |-> "ICMP"], Data(1, 9) \o Echo(Data(1, 3))),
      With([id |-> 9, dst |-> 6, mf |-> TRUE], Data(1, 6)) }

-----------------------------------------------------------------------------
(* IPv6: the interface has the address 1 of the network 1, the hosts are   *)
(* 2 and 3, the routers 4 and 5.                                           *)

MCOwn6 == Addr("global", 1, 1)
Host(n) == Addr("global", 1, n)
Router(n) == Addr("link", 0, n)

From(src, dst, nexth, body) ==
    <<[v |-> 6, plen |-> Len(body), nexth |-> nexth, src |-> src, dst |-> dst]>> \o body

Message(src, dst, header, body) ==
    From(src, dst, "ICMP6", Summed(<<header>> \o body, src, dst))

Echo6Request(dst, data) == Message(Host(2), dst, [type |-> "EREQ", sum |-> 0], data)

MCDatagrams6 ==
    { [id |-> 7, packet |-> Echo6Request(MCOwn6, Data(1, 0))],
      [id |-> 8, packet |-> From(Host(2), MCOwn6, "TCP", Data(Pieces, 2))] }

Fragment(id, off, mf) == [nexth |-> "TCP", off |-> off, mf |-> mf, id |-> id]

OtherSingles6 ==
    { Echo6Request(MCOwn6, Data(2, 3)),
      Echo6Request(AllNodes, Data(1, 3)),
      From(Host(2), MCOwn6, "ICMP6", <<[type |-> "EREQ", sum |-> 1]>>),
      From(Host(2), Host(6), "TCP", Data(1, 4)),
      From(Host(2), Host(6), "FRAGMENT", <<Fragment(9, 0, TRUE)>> \o Data(1, 4)),
      From(Host(2), MCOwn6, "FRAGMENT", <<Fragment(9, 0, FALSE)>> \o Data(1, 4)),
      From(Host(2), MCOwn6, "FRAGMENT", <<Fragment(9, 0, TRUE)>> \o Data(1, 4)),
      From(Host(3), MCOwn6, "FRAGMENT", <<Fragment(9, 1, TRUE)>> \o Data(1, 4)),
      From(Host(2), MCOwn6, "UDP", Data(1, 4)),
      From(Host(2), MCOwn6, "NONE", Data(1, 4)),
      From(IP6_ADDR_ANY, MCOwn6, "TCP", Data(1, 4)),
      From(Host(2), MCOwn6, "DESTOPTS", <<[nexth |-> "ROUTING", hlen |-> 3]>> \o Data(1, 4)),
      LET echo == Echo6Request(MCOwn6, <<>>)
      IN From(Host(2), MCOwn6, "HOPBYHOP", <<[nexth |-> "ICMP6", hlen |-> 0]>> \o Tail(echo)) }

LinkOption == <<[opt |-> "SOURCE_LLADDR"]>>
PrefixOption(n) ==
    <<[opt |-> "PREFIX_INFO", onlink |-> TRUE, prefix |-> Addr("global", n, 0), life |-> 3]>>

NS(src, options) ==
    Message(src, SolicitedNode(MCOwn6), [type |-> "NS", sum |-> 0, target |-> MCOwn6], options)
NA(dst, target) ==
    Message(Host(2), dst, [type |-> "NA", sum |-> 0, target |-> target, override |-> TRUE], LinkOption)
RA(n, options) ==
    Message(Router(n), AllNodes, [type |-> "RA", sum |-> 0, life |-> 9, reachable |-> 5], options)

MCMessages6 ==
    { NS(Host(2), LinkOption), NS(Host(3), LinkOption), NS(Router(4), LinkOption),
      NS(IP6_ADDR_ANY, <<>>), NA(MCOwn6, Host(2)), NA(AllNodes, MCOwn6),
      RA(4, PrefixOption(1) \o LinkOption), RA(5, PrefixOption(1)),
      RA(5, <<[opt |-> "MTU", mtu |-> 1500]>> \o PrefixOption(2)), RA(6, LinkOption),
      Echo6Request(MCOwn6, Data(1, 3)) }

\* The packets that are sent alone, and messages that change no table.
MCSingles6 ==
    OtherSingles6 \cup
    { NS(Host(3), <<>>), NA(MCOwn6, Router(4)),
      Message(Router(4), MCOwn6, [type |-> "RD", sum |-> 0], <<>>),
      Message(Host(2), MCOwn6, [type |-> "PTB", sum |-> 0], <<>>) }

=============================================================================
