------------------------------ MODULE Analysis -------------------------------
(***************************************************************************)
(* analysis/analysis.py: analyze() reads the packets of a trace, stores    *)
(* the answers of DNS responses, collects the triples (protocol, address,  *)
(* port) of all other connections that the filters leave, and then runs a  *)
(* path measurement for every triple, in parallel or one after another,    *)
(* and stores each output in a file.                                       *)
(***************************************************************************)
EXTENDS Integers, Sequences, FiniteSets, SequencesExt

CONSTANTS
    Remote,         \* addresses other than that of the framework device
    Port,           \* remote ports
    IpBlacklist,    \* ip_blacklist, a set of addresses
    PortBlacklist,  \* the ports listed in port_blacklist
    MaxPackets      \* bound: packets of the trace

ASSUME AnalysisAssumption ==
    /\ IpBlacklist \subseteq Remote
    /\ PortBlacklist \subseteq Port
    /\ MaxPackets \in Nat

VARIABLES
    parallel,      \* of analysis.ini: the measurements run at the same time
    inapplication, \* of analysis.ini: with the protocol and the port of the triple
    pc,            \* "sniff", "measure", "collect", "done" or "failed"
    packets,       \* the packets read so far (history)
    dns,           \* the content of the DNS file of each name
    prot_ip_port,  \* the triples found
    k,             \* the next triple to measure or output to collect
    now,           \* the clock, in seconds
    traces,        \* traces[j]: a measurement that was started, and its state
    filenames,     \* the names of their files, in order
    files          \* the files written: name -> the triple that was measured

ini == <<parallel, inapplication>>
vars == <<ini, pc, packets, dns, prot_ip_port, k, now, traces, filenames, files>>

-----------------------------------------------------------------------------
(* Packets.                                                                *)

(* config.get() returns text; scapy returns numbers. The two never compare *)
(* equal.                                                                  *)
Number(p) == [type |-> "int", value |-> p]
Text(p) == [type |-> "str", value |-> p]

port_blacklist == {Text(p) : p \in PortBlacklist}

(* A packet of a connection with a remote address, sent or received.       *)
Connection == [kind : {"UDP", "TCP"}, out : BOOLEAN, ip : Remote, port : Port]

Names == {"chat.example", "push.example"}

(* DNS over UDP: a query, or a response with its answers. *)
Dns == [kind : {"DNS"}, qr : {0, 1}, qname : Names, an : {<<>>, <<"r1">>, <<"r2", "r1">>}]

(* Neither UDP nor TCP; UDP or TCP without an IPv4 header. *)
Other == [kind : {"other", "no_ip"}]

Packet == Connection \cup Dns \cup Other

(* The remote end of a packet is its destination if the framework device   *)
(* sent it and its source otherwise. The UDP branch converts the port for  *)
(* the test and the TCP branch does not.                                   *)
FilteredOut(p) ==
    \/ p.ip \in IpBlacklist
    \/ p.kind = "UDP" /\ Text(p.port) \in port_blacklist
    \/ p.kind = "TCP" /\ Number(p.port) \in port_blacklist

Triple(p) == <<p.kind, p.ip, p.port>>

-----------------------------------------------------------------------------

Init ==
    /\ parallel \in BOOLEAN
    /\ inapplication \in BOOLEAN
    /\ pc = "sniff"
    /\ packets = <<>>
    /\ dns = [n \in Names |-> <<>>]
    /\ prot_ip_port = <<>>
    /\ k = 1
    /\ now = 0
    /\ traces = <<>>
    /\ filenames = <<>>
    /\ files = {}

Read(p) ==
    /\ pc = "sniff"
    /\ Len(packets) < MaxPackets
    /\ packets' = Append(packets, p)

(* The answers of a response are appended to the file of the name. *)
DnsPacket(p) ==
    /\ Read(p)
    /\ dns' = IF p.qr = 1 THEN [dns EXCEPT ![p.qname] = @ \o p.an] ELSE dns
    /\ UNCHANGED <<ini, pc, prot_ip_port, k, now, traces, filenames, files>>

(* Fault: the same triple again. *)
ConnectionPacketAgain(p) ==
    /\ Read(p)
    /\ prot_ip_port' = IF FilteredOut(p) THEN prot_ip_port
                       ELSE Append(prot_ip_port, Triple(p))
    /\ UNCHANGED <<ini, pc, dns, k, now, traces, filenames, files>>

ConnectionPacket(p) ==
    /\ Read(p)
    /\ prot_ip_port' = IF FilteredOut(p) \/ Triple(p) \in ToSet(prot_ip_port)
                       THEN prot_ip_port ELSE Append(prot_ip_port, Triple(p))
    /\ UNCHANGED <<ini, pc, dns, k, now, traces, filenames, files>>

(* p[IP] raises an exception for a packet without an IPv4 header. *)
OtherPacket(p) ==
    /\ Read(p)
    /\ pc' = IF p.kind = "no_ip" THEN "failed" ELSE pc
    /\ UNCHANGED <<ini, dns, prot_ip_port, k, now, traces, filenames, files>>

EndOfTrace ==
    /\ pc = "sniff"
    /\ pc' = "measure"
    /\ UNCHANGED <<ini, packets, dns, prot_ip_port, k, now, traces, filenames, files>>

-----------------------------------------------------------------------------
(* Path measurements.                                                      *)

(* The name of the file of triple t measured at time s. The other parts of *)
(* the name are the same for all files of the call.                        *)
FileName(t, s) ==
    IF inapplication THEN <<t, s>> ELSE <<t[2], s>>

(* Opened for writing: what was there is lost. *)
Write(name, t) == {f \in files : f[1] # name} \cup {<<name, t>>}

(* In parallel: the name is made, then a second passes, then the           *)
(* measurement is started.                                                 *)
StartTrace ==
    /\ pc = "measure" /\ parallel
    /\ k <= Len(prot_ip_port)
    /\ traces' = Append(traces, "running")
    /\ filenames' = Append(filenames, FileName(prot_ip_port[k], now))
    /\ k' = k + 1
    /\ now' = now + 1
    /\ UNCHANGED <<ini, pc, packets, dns, prot_ip_port, files>>

TraceEnds(j) ==
    /\ traces[j] = "running"
    /\ traces' = [traces EXCEPT ![j] = "ended"]
    /\ UNCHANGED <<ini, pc, packets, dns, prot_ip_port, k, now, filenames, files>>

AllStarted ==
    /\ pc = "measure" /\ parallel
    /\ k > Len(prot_ip_port)
    /\ pc' = "collect"
    /\ k' = 1
    /\ UNCHANGED <<ini, packets, dns, prot_ip_port, now, traces, filenames, files>>

(* Fault: the outputs are taken as the measurements end. *)
CollectAnyTrace ==
    /\ pc = "collect"
    /\ k <= Len(traces)
    /\ \E j \in DOMAIN traces :
          /\ traces[j] = "ended"
          /\ files' = Write(Head(filenames), prot_ip_port[j])
          /\ traces' = [traces EXCEPT ![j] = "collected"]
    /\ filenames' = Tail(filenames)
    /\ k' = k + 1
    /\ UNCHANGED <<ini, pc, packets, dns, prot_ip_port, now>>

(* communicate() waits for the k-th measurement; filenames.pop(0). *)
CollectTrace ==
    /\ pc = "collect"
    /\ k <= Len(traces)
    /\ traces[k] = "ended"
    /\ traces' = [traces EXCEPT ![k] = "collected"]
    /\ files' = Write(Head(filenames), prot_ip_port[k])
    /\ filenames' = Tail(filenames)
    /\ k' = k + 1
    /\ UNCHANGED <<ini, pc, packets, dns, prot_ip_port, now>>

AllCollected ==
    /\ pc = "collect"
    /\ k > Len(traces)
    /\ pc' = "done"
    /\ UNCHANGED <<ini, packets, dns, prot_ip_port, k, now, traces, filenames, files>>

(* One after another: check_output() takes any time, also less than a      *)
(* second.                                                                 *)
MeasureOne ==
    /\ pc = "measure" /\ ~parallel
    /\ k <= Len(prot_ip_port)
    /\ files' = Write(FileName(prot_ip_port[k], now), prot_ip_port[k])
    /\ now' \in {now, now + 1}
    /\ k' = k + 1
    /\ UNCHANGED <<ini, pc, packets, dns, prot_ip_port, traces, filenames>>

(* check_output() raises an exception when the command fails. *)
MeasureOneFails ==
    /\ pc = "measure" /\ ~parallel
    /\ k <= Len(prot_ip_port)
    /\ pc' = "failed"
    /\ UNCHANGED <<ini, packets, dns, prot_ip_port, k, now, traces, filenames, files>>

AllMeasured ==
    /\ pc = "measure" /\ ~parallel
    /\ k > Len(prot_ip_port)
    /\ pc' = "done"
    /\ UNCHANGED <<ini, packets, dns, prot_ip_port, k, now, traces, filenames, files>>

Terminated == pc \in {"done", "failed"} /\ UNCHANGED vars

Analyze ==
    \/ \E p \in Dns : DnsPacket(p)
    \/ \E p \in Connection : ConnectionPacket(p)
    \/ \E p \in Other : OtherPacket(p)
    \/ EndOfTrace
    \/ StartTrace \/ AllStarted \/ CollectTrace \/ AllCollected
    \/ MeasureOne \/ MeasureOneFails \/ AllMeasured

TraceEnding == \E j \in DOMAIN traces : TraceEnds(j)

Next == Analyze \/ TraceEnding \/ Terminated

Spec == Init /\ [][Next]_vars

-----------------------------------------------------------------------------

(* The connections that are not to be measured: "it applies a port and IP  *)
(* filter on all triples, e.g. filtering out all network connections to    *)
(* port 123" (src/README.md), "The same for TCP as for UDP".               *)
Unwanted(p) == p.ip \in IpBlacklist \/ p.port \in PortBlacklist

(* What is measured against this: every TCP connection with a remote port  *)
(* of the blacklist.                                                       *)
TcpToUnwantedPort(p) ==
    p.kind = "TCP" /\ p.port \in PortBlacklist /\ p.ip \notin IpBlacklist

(* "Only differing triples are stored": the list has no triple twice, and  *)
(* it has exactly the triples of the connections of the trace that are not *)
(* unwanted, in the order of their first packets, and with them those of   *)
(* TCP to a port of the blacklist, none of which is left out.              *)
TriplesOfTrace ==
    LET left == SelectSeq(packets, LAMBDA p : /\ p \in Connection
                                              /\ ~Unwanted(p) \/ TcpToUnwantedPort(p))
        first == {j \in DOMAIN left : \A h \in 1 .. (j - 1) : Triple(left[h]) # Triple(left[j])}
    IN /\ Len(prot_ip_port) = Cardinality(first)
       /\ \A j \in first :
             prot_ip_port[Cardinality({h \in first : h <= j})] = Triple(left[j])

(* The file of a name has the answers of all responses for it, in order,   *)
(* and nothing else.                                                       *)
DnsAnswersStored ==
    \A n \in Names :
        LET responses == SelectSeq(packets, LAMBDA p : p \in Dns /\ p.qr = 1 /\ p.qname = n)
        IN dns[n] = FlattenSeq([j \in DOMAIN responses |-> responses[j].an])

(* The result of every measurement is in a file of its own at the end.     *)
(* Two triples of one address have the same name but for the time unless   *)
(* in_application is set; the second between two starts keeps them apart,  *)
(* and measurements one after another have nothing that does.              *)
NoResultLost ==
    pc = "done" /\ (parallel \/ inapplication) => Cardinality(files) = Len(prot_ip_port)

(* "stores the output in the according file": a file has the measurement   *)
(* of the triple it is named after, in whatever order they end.            *)
OutputInItsFile ==
    \A f \in files :
        IF inapplication THEN f[1][1] = f[2] ELSE f[1][1] = f[2][2]

(* What is read from the trace, packet by packet, is what is in it. *)
TraceRight == TriplesOfTrace /\ DnsAnswersStored

(* What is measured ends up in the files, each result in its own. *)
ResultsRight == NoResultLost /\ OutputInItsFile

-----------------------------------------------------------------------------
(* The inductive invariant.                                                *)

Triples == {"UDP", "TCP"} \X Remote \X Port
FileNames == (Triples \cup Remote) \X Nat

TypeOK ==
    /\ parallel \in BOOLEAN /\ inapplication \in BOOLEAN
    /\ pc \in {"sniff", "measure", "collect", "done", "failed"}
    /\ packets \in Seq(Packet)
    /\ prot_ip_port \in Seq(Triples)
    /\ k \in Nat \ {0} /\ now \in Nat
    /\ traces \in Seq({"running", "ended", "collected"})
    /\ filenames \in Seq(FileNames)
    /\ \A f \in files : f \in FileNames \X Triples

(* The list has the triples of the trace, each of them once. *)
TriplesInv ==
    /\ \A a, b \in DOMAIN prot_ip_port : prot_ip_port[a] = prot_ip_port[b] => a = b
    /\ \A t \in Triples :
          t \in ToSet(prot_ip_port) <=>
             \E j \in DOMAIN packets : /\ packets[j] \in Connection /\ ~FilteredOut(packets[j])
                                       /\ Triple(packets[j]) = t

(* In parallel, the j-th measurement starts at the time j - 1, and the     *)
(* names wait in the order in which the outputs are collected.             *)
NamesInv ==
    /\ pc = "sniff" => k = 1 /\ now = 0 /\ traces = <<>> /\ filenames = <<>> /\ files = {}
    /\ pc = "measure" /\ parallel =>
          /\ now = k - 1 /\ Len(traces) = k - 1 /\ Len(filenames) = k - 1
          /\ files = {}
          /\ \A j \in DOMAIN filenames : filenames[j] = FileName(prot_ip_port[j], j - 1)
    /\ pc = "collect" =>
          /\ parallel
          /\ Len(traces) = Len(prot_ip_port)
          /\ Len(filenames) = Len(prot_ip_port) - (k - 1)
          /\ \A j \in DOMAIN filenames :
                filenames[j] = FileName(prot_ip_port[j + (k - 1)], (j + (k - 1)) - 1)
    /\ pc \in {"measure", "collect"} => k <= Len(prot_ip_port) + 1

(* Every file is that of one of the measurements so far; in parallel its   *)
(* name has the time of this measurement.                                  *)
FilesInv ==
    /\ IsFiniteSet(files)
    /\ \A f \in files : \E j \in DOMAIN prot_ip_port :
          /\ pc # "failed" /\ pc # "done" => j < k
          /\ f[2] = prot_ip_port[j]
          /\ f[1][1] = IF inapplication THEN prot_ip_port[j] ELSE prot_ip_port[j][2]
          /\ parallel => f[1][2] = j - 1
    /\ pc = "collect" \/ (pc = "measure" /\ ~parallel /\ inapplication)
          => Cardinality(files) = k - 1

AnalysisInv == TypeOK /\ TriplesInv /\ NamesInv /\ FilesInv /\ ResultsRight

=============================================================================
