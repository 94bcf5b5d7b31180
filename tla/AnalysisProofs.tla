---------------------------- MODULE AnalysisProofs ----------------------------
(***************************************************************************)
(* Proofs about module Analysis, for any addresses, ports, blacklists and  *)
(* traces of any length.                                                   *)
(***************************************************************************)
EXTENDS Analysis, FiniteSetTheorems, SequenceTheorems, TLAPS

(* The triple of a packet of a connection. *)
LEMMA TripleType ==
    ASSUME NEW p \in Connection
    PROVE  Triple(p) \in Triples
BY DEF Triple, Triples, Connection

(* The name of a file. *)
LEMMA FileNameType ==
    ASSUME NEW t \in Triples, NEW s \in Nat
    PROVE  /\ FileName(t, s) \in FileNames
           /\ FileName(t, s)[1] = IF inapplication THEN t ELSE t[2]
           /\ FileName(t, s)[2] = s
BY DEF FileName, FileNames, Triples

(* Every step keeps the types. *)
LEMMA TypeNext ==
    ASSUME TypeOK, NamesInv, Next
    PROVE  TypeOK'
<1>1. ASSUME NEW p \in Dns, DnsPacket(p) PROVE TypeOK'
  BY <1>1 DEF TypeOK, DnsPacket, Read, ini, Packet
<1>2. ASSUME NEW p \in Connection, ConnectionPacket(p) PROVE TypeOK'
  BY <1>2, TripleType DEF TypeOK, ConnectionPacket, Read, ini, Packet
<1>3. ASSUME NEW p \in Other, OtherPacket(p) PROVE TypeOK'
  BY <1>3 DEF TypeOK, OtherPacket, Read, ini, Packet
<1>4. CASE EndOfTrace
  BY <1>4 DEF TypeOK, EndOfTrace, ini
<1>5. CASE StartTrace
  <2>1. prot_ip_port[k] \in Triples
    BY <1>5 DEF TypeOK, StartTrace
  <2>2. FileName(prot_ip_port[k], now) \in FileNames
    BY <2>1, FileNameType DEF TypeOK
  <2> QED
    BY <1>5, <2>2 DEF TypeOK, StartTrace, ini
<1>6. CASE AllStarted
  BY <1>6 DEF TypeOK, AllStarted, ini
<1>7. CASE CollectTrace
  <2>1. /\ k <= Len(prot_ip_port) /\ filenames # <<>>
    BY <1>7 DEF TypeOK, NamesInv, CollectTrace
  <2>2. prot_ip_port[k] \in Triples /\ Head(filenames) \in FileNames
        /\ Tail(filenames) \in Seq(FileNames)
    BY <2>1 DEF TypeOK
  <2> QED
    BY <1>7, <2>2 DEF TypeOK, CollectTrace, Write, ini
<1>8. CASE AllCollected
  BY <1>8 DEF TypeOK, AllCollected, ini
<1>9. CASE MeasureOne
  <2>1. prot_ip_port[k] \in Triples
    BY <1>9 DEF TypeOK, MeasureOne
  <2>2. FileName(prot_ip_port[k], now) \in FileNames
    BY <2>1, FileNameType DEF TypeOK
  <2> QED
    BY <1>9, <2>1, <2>2 DEF TypeOK, MeasureOne, Write, ini
<1>10. CASE MeasureOneFails \/ AllMeasured
  BY <1>10 DEF TypeOK, MeasureOneFails, AllMeasured, ini
<1>11. ASSUME NEW j \in DOMAIN traces, TraceEnds(j) PROVE TypeOK'
  BY <1>11 DEF TypeOK, TraceEnds, ini
<1>12. CASE Terminated
  BY <1>12 DEF TypeOK, Terminated, vars, ini
<1> QED
  BY <1>1, <1>2, <1>3, <1>4, <1>5, <1>6, <1>7, <1>8, <1>9, <1>10, <1>11, <1>12
     DEF Next, Analyze, TraceEnding

(* Every step keeps what is known of the names: the list only grows while  *)
(* the trace is read.                                                      *)
LEMMA NamesNext ==
    ASSUME TypeOK, NamesInv, Next
    PROVE  NamesInv'
<1>1. ASSUME NEW p \in Dns, DnsPacket(p) PROVE NamesInv'
  BY <1>1 DEF NamesInv, DnsPacket, Read, ini, FileName
<1>2. ASSUME NEW p \in Connection, ConnectionPacket(p) PROVE NamesInv'
  BY <1>2 DEF NamesInv, ConnectionPacket, Read, ini, FileName
<1>3. ASSUME NEW p \in Other, OtherPacket(p) PROVE NamesInv'
  BY <1>3 DEF NamesInv, OtherPacket, Read, ini, FileName
<1>4. CASE EndOfTrace
  BY <1>4 DEF TypeOK, NamesInv, EndOfTrace, ini
<1>5. CASE StartTrace
  <2>1. prot_ip_port[k] \in Triples
    BY <1>5 DEF TypeOK, StartTrace
  <2>2. FileName(prot_ip_port[k], now) \in FileNames
    BY <2>1, FileNameType DEF TypeOK
  <2>3. /\ Len(filenames') = k /\ Len(traces') = k
        /\ \A j \in 1 .. k :
              filenames'[j] = IF j = k THEN FileName(prot_ip_port[k], now) ELSE filenames[j]
    BY <1>5, <2>2 DEF TypeOK, NamesInv, StartTrace
  <2>4. \A j \in 1 .. k : filenames'[j] = FileName(prot_ip_port[j], j - 1)
    BY <1>5, <2>3 DEF TypeOK, NamesInv, StartTrace
  <2>5. /\ pc' = "measure" /\ k' = k + 1 /\ now' = now + 1 /\ now = k - 1 /\ k \in Nat
        /\ files' = {} /\ prot_ip_port' = prot_ip_port /\ inapplication' = inapplication
        /\ k <= Len(prot_ip_port) /\ Len(prot_ip_port) \in Nat
    BY <1>5 DEF TypeOK, NamesInv, StartTrace, ini
  <2>6. DOMAIN filenames' = 1 .. k
    BY <1>5, <2>2, <2>3 DEF TypeOK, StartTrace
  <2> QED
    BY <2>3, <2>4, <2>5, <2>6 DEF NamesInv, FileName
<1>6. CASE AllStarted
  BY <1>6 DEF TypeOK, NamesInv, AllStarted, ini, FileName
<1>7. CASE CollectTrace
  <2>1. k <= Len(prot_ip_port) /\ filenames # <<>>
    BY <1>7 DEF TypeOK, NamesInv, CollectTrace
  <2>2. /\ Len(filenames') = Len(filenames) - 1
        /\ \A j \in 1 .. Len(filenames) - 1 : filenames'[j] = filenames[j + 1]
    BY <1>7, <2>1 DEF TypeOK, CollectTrace
  <2>3. /\ pc' = "collect" /\ parallel'
        /\ k' = k + 1 /\ k \in Nat /\ prot_ip_port' = prot_ip_port
        /\ inapplication' = inapplication /\ Len(prot_ip_port) \in Nat
        /\ Len(traces') = Len(prot_ip_port)
        /\ Len(filenames) = Len(prot_ip_port) - (k - 1)
    <3>1. /\ pc' = "collect" /\ parallel' = parallel
          /\ k' = k + 1 /\ k \in Nat /\ prot_ip_port' = prot_ip_port
          /\ inapplication' = inapplication /\ Len(prot_ip_port) \in Nat
      BY <1>7 DEF TypeOK, CollectTrace, ini
    <3>2. /\ parallel /\ Len(traces) = Len(prot_ip_port)
          /\ Len(filenames) = Len(prot_ip_port) - (k - 1)
      BY <1>7 DEF NamesInv, CollectTrace
    <3>3. Len(traces') = Len(traces)
      BY <1>7 DEF TypeOK, CollectTrace
    <3> QED
      BY <3>1, <3>2, <3>3, Zenon
  <2>4. \A j \in 1 .. Len(filenames) :
           filenames[j] = FileName(prot_ip_port[j + (k - 1)], (j + (k - 1)) - 1)
    <3>1. DOMAIN filenames = 1 .. Len(filenames)
      BY DEF TypeOK
    <3>2. pc = "collect"
      BY <1>7 DEF CollectTrace
    <3> QED
      BY <3>1, <3>2, Zenon DEF NamesInv
  <2>5. \A j \in 1 .. Len(filenames) - 1 :
           filenames'[j] = FileName(prot_ip_port[j + k], (j + k) - 1)
    <3> SUFFICES ASSUME NEW j \in 1 .. Len(filenames) - 1
                 PROVE  filenames'[j] = FileName(prot_ip_port[j + k], (j + k) - 1)
      OBVIOUS
    <3>1. j + 1 \in 1 .. Len(filenames) /\ (j + 1) + (k - 1) = j + k
      BY <2>3
    <3> QED
      BY <2>2, <2>4, <3>1
  <2>6. DOMAIN filenames' = 1 .. Len(filenames) - 1
    BY <1>7, <2>1, <2>2 DEF TypeOK, CollectTrace
  <2>7. k' - 1 = k
    BY <2>3
  <2> QED
    BY <2>1, <2>2, <2>3, <2>5, <2>6, <2>7 DEF NamesInv, FileName
<1>8. CASE AllCollected
  BY <1>8 DEF NamesInv, AllCollected
<1>9. CASE MeasureOne
  BY <1>9 DEF TypeOK, NamesInv, MeasureOne, ini
<1>10. CASE MeasureOneFails \/ AllMeasured
  BY <1>10 DEF NamesInv, MeasureOneFails, AllMeasured
<1>11. ASSUME NEW j \in DOMAIN traces, TraceEnds(j) PROVE NamesInv'
  <2>1. Len(traces') = Len(traces) /\ traces # <<>>
    BY <1>11 DEF TypeOK, TraceEnds
  <2> QED
    BY <1>11, <2>1 DEF NamesInv, TraceEnds, ini, FileName
<1>12. CASE Terminated
  BY <1>12 DEF NamesInv, Terminated, vars, ini, FileName
<1> QED
  BY <1>1, <1>2, <1>3, <1>4, <1>5, <1>6, <1>7, <1>8, <1>9, <1>10, <1>11, <1>12
     DEF Next, Analyze, TraceEnding

(* Every step keeps what is known of the list of triples.                  *)
LEMMA TriplesNext ==
    ASSUME TypeOK, TriplesInv, Next
    PROVE  TriplesInv'
<1>0. packets \in Seq(Packet) /\ prot_ip_port \in Seq(Triples)
  BY DEF TypeOK
<1>1. ASSUME NEW p \in Packet, Read(p), prot_ip_port' = prot_ip_port,
             p \notin Connection \/ FilteredOut(p) \/ Triple(p) \in ToSet(prot_ip_port)
      PROVE  TriplesInv'
  <2>1. /\ DOMAIN packets = 1 .. Len(packets) /\ Len(packets) \in Nat
        /\ DOMAIN packets' = 1 .. Len(packets) + 1
        /\ \A j \in DOMAIN packets : packets'[j] = packets[j]
        /\ packets'[Len(packets) + 1] = p
    BY <1>0, <1>1 DEF Read
  <2>2. ASSUME NEW t \in Triples
        PROVE  t \in ToSet(prot_ip_port) <=>
                  \E j \in DOMAIN packets' :
                     /\ packets'[j] \in Connection /\ ~FilteredOut(packets'[j])
                     /\ Triple(packets'[j]) = t
    <3> DEFINE Gives(q) == q \in Connection /\ ~FilteredOut(q) /\ Triple(q) = t
    <3>1. t \in ToSet(prot_ip_port) <=> \E j \in DOMAIN packets : Gives(packets[j])
      BY DEF TriplesInv
    <3>2. Gives(p) => t \in ToSet(prot_ip_port)
      BY <1>1
    <3> HIDE DEF Gives
    <3>3. t \in ToSet(prot_ip_port) <=> \E j \in DOMAIN packets' : Gives(packets'[j])
      BY <2>1, <3>1, <3>2
    <3> QED
      BY <3>3 DEF Gives
  <2> QED
    BY <1>1, <2>2 DEF TriplesInv
<1>2. ASSUME NEW p \in Connection, Read(p), ~FilteredOut(p),
             Triple(p) \notin ToSet(prot_ip_port),
             prot_ip_port' = Append(prot_ip_port, Triple(p))
      PROVE  TriplesInv'
  <2>1. /\ DOMAIN packets = 1 .. Len(packets) /\ Len(packets) \in Nat
        /\ DOMAIN packets' = 1 .. Len(packets) + 1
        /\ \A j \in DOMAIN packets : packets'[j] = packets[j]
        /\ packets'[Len(packets) + 1] = p
    BY <1>0, <1>2 DEF Read, Packet
  <2>2. /\ DOMAIN prot_ip_port = 1 .. Len(prot_ip_port) /\ Len(prot_ip_port) \in Nat
        /\ DOMAIN prot_ip_port' = 1 .. Len(prot_ip_port) + 1
        /\ \A j \in DOMAIN prot_ip_port : prot_ip_port'[j] = prot_ip_port[j]
        /\ prot_ip_port'[Len(prot_ip_port) + 1] = Triple(p)
    BY <1>0, <1>2, TripleType
  <2>3. \A j \in DOMAIN prot_ip_port : prot_ip_port[j] # Triple(p)
    BY <1>2 DEF ToSet
  <2>4. \A a, b \in DOMAIN prot_ip_port' : prot_ip_port'[a] = prot_ip_port'[b] => a = b
    BY <2>2, <2>3 DEF TriplesInv
  <2>5. ASSUME NEW t PROVE t \in ToSet(prot_ip_port') <=> t \in ToSet(prot_ip_port) \/ t = Triple(p)
    BY <2>2 DEF ToSet
  <2>6. ASSUME NEW t \in Triples
        PROVE  t \in ToSet(prot_ip_port') <=>
                  \E j \in DOMAIN packets' :
                     /\ packets'[j] \in Connection /\ ~FilteredOut(packets'[j])
                     /\ Triple(packets'[j]) = t
    <3> DEFINE Gives(q) == q \in Connection /\ ~FilteredOut(q) /\ Triple(q) = t
    <3>1. t \in ToSet(prot_ip_port) <=> \E j \in DOMAIN packets : Gives(packets[j])
      BY DEF TriplesInv
    <3>2. Gives(p) <=> t = Triple(p)
      BY <1>2
    <3> HIDE DEF Gives
    <3>3. t \in ToSet(prot_ip_port') <=> \E j \in DOMAIN packets' : Gives(packets'[j])
      BY <2>1, <2>5, <3>1, <3>2
    <3> QED
      BY <3>3 DEF Gives
  <2> QED
    BY <2>4, <2>6 DEF TriplesInv
<1>3. ASSUME UNCHANGED <<packets, prot_ip_port>> PROVE TriplesInv'
  BY <1>3 DEF TriplesInv, ToSet
<1>4. ASSUME NEW p \in Dns, DnsPacket(p) PROVE TriplesInv'
  <2>1. p \notin Connection /\ p \in Packet
    BY DEF Dns, Connection, Packet
  <2> QED
    BY <1>1, <1>4, <2>1 DEF DnsPacket
<1>5. ASSUME NEW p \in Connection, ConnectionPacket(p) PROVE TriplesInv'
  BY <1>1, <1>2, <1>5 DEF ConnectionPacket, Packet
<1>6. ASSUME NEW p \in Other, OtherPacket(p) PROVE TriplesInv'
  <2>1. p \notin Connection /\ p \in Packet
    BY DEF Other, Connection, Packet
  <2> QED
    BY <1>1, <1>6, <2>1 DEF OtherPacket
<1>7. CASE EndOfTrace \/ StartTrace \/ AllStarted \/ CollectTrace \/ AllCollected
  BY <1>3, <1>7 DEF EndOfTrace, StartTrace, AllStarted, CollectTrace, AllCollected
<1>8. CASE MeasureOne \/ MeasureOneFails \/ AllMeasured
  BY <1>3, <1>8 DEF MeasureOne, MeasureOneFails, AllMeasured
<1>9. CASE TraceEnding \/ Terminated
  BY <1>3, <1>9 DEF TraceEnding, TraceEnds, Terminated, vars
<1> QED
  BY <1>4, <1>5, <1>6, <1>7, <1>8, <1>9 DEF Next, Analyze

-----------------------------------------------------------------------------
(* A file whose name no other file has.                                    *)
LEMMA WriteNew ==
    ASSUME NEW name, NEW t, IsFiniteSet(files), \A f \in files : f[1] # name
    PROVE  /\ IsFiniteSet(Write(name, t))
           /\ Write(name, t) = files \cup {<<name, t>>}
           /\ Cardinality(Write(name, t)) = Cardinality(files) + 1
<1>1. Write(name, t) = files \cup {<<name, t>>}
  BY DEF Write
<1>2. <<name, t>> \notin files
  <2> SUFFICES ASSUME <<name, t>> \in files PROVE FALSE
    OBVIOUS
  <2> QED
    OBVIOUS
<1> QED
  BY <1>1, <1>2, FS_AddElement

(* A file that may replace others. *)
LEMMA WriteFinite ==
    ASSUME NEW name, NEW t, IsFiniteSet(files)
    PROVE  IsFiniteSet(Write(name, t))
<1>1. IsFiniteSet({f \in files : f[1] # name})
  BY FS_Subset
<1> QED
  BY <1>1, FS_AddElement DEF Write

(* Every step keeps what is known of the files.                            *)
LEMMA FilesNext ==
    ASSUME TypeOK, TriplesInv, NamesInv, FilesInv, NoResultLost, Next
    PROVE  FilesInv' /\ NoResultLost'
<1>0. /\ prot_ip_port \in Seq(Triples) /\ k \in Nat /\ k > 0 /\ now \in Nat
      /\ DOMAIN prot_ip_port = 1 .. Len(prot_ip_port) /\ Len(prot_ip_port) \in Nat
      /\ \A f \in files : f \in FileNames \X Triples
      /\ IsFiniteSet(files)
  BY DEF TypeOK, FilesInv
<1>1. ASSUME pc = "sniff", files' = files, pc' \in {"sniff", "failed", "measure"}, k' = k
      PROVE  FilesInv' /\ NoResultLost'
  <2>1. files = {} /\ k = 1
    BY <1>1 DEF NamesInv
  <2> QED
    BY <1>1, <2>1, FS_EmptySet DEF FilesInv, NoResultLost
<1>2. CASE StartTrace
  <2>1. files' = {} /\ pc' = "measure" /\ parallel'
    BY <1>2 DEF NamesInv, StartTrace, ini
  <2> QED
    BY <2>1, FS_EmptySet DEF FilesInv, NoResultLost
<1>3. CASE AllStarted
  <2>1. files' = {} /\ pc' = "collect" /\ k' = 1
    BY <1>3 DEF NamesInv, AllStarted, ini
  <2> QED
    BY <2>1, FS_EmptySet DEF FilesInv, NoResultLost
<1>4. CASE CollectTrace
  <2> DEFINE name == FileName(prot_ip_port[k], k - 1)
             t == prot_ip_port[k]
  <2>1. /\ k <= Len(prot_ip_port) /\ parallel /\ pc = "collect" /\ pc' = "collect"
        /\ k' = k + 1 /\ prot_ip_port' = prot_ip_port
        /\ parallel' = parallel /\ inapplication' = inapplication
    BY <1>4 DEF NamesInv, CollectTrace, ini
  <2>2. t \in Triples
    BY <1>0, <2>1
  <2>3. files' = Write(name, t)
    <3>1. Head(filenames) = filenames[1] /\ 1 \in DOMAIN filenames
      BY <1>0, <1>4 DEF TypeOK, NamesInv, CollectTrace
    <3>2. filenames[1] = FileName(prot_ip_port[1 + (k - 1)], (1 + (k - 1)) - 1)
      BY <2>1, <3>1 DEF NamesInv
    <3>3. 1 + (k - 1) = k
      BY <1>0
    <3> QED
      BY <1>4, <3>1, <3>2, <3>3 DEF CollectTrace
  <2>4. name[1] = (IF inapplication THEN t ELSE t[2]) /\ name[2] = k - 1
    BY <1>0, <2>2, FileNameType
  <2>5. \A f \in files : f[1] # name
    <3> SUFFICES ASSUME NEW f \in files PROVE f[1][2] # k - 1
      BY <2>4
    <3>1. PICK j \in DOMAIN prot_ip_port : j < k /\ f[1][2] = j - 1
      BY <2>1 DEF FilesInv
    <3> QED
      BY <1>0, <3>1
  <2> HIDE DEF name
  <2>6. /\ IsFiniteSet(files') /\ files' = files \cup {<<name, t>>}
        /\ Cardinality(files') = Cardinality(files) + 1
    BY <1>0, <2>3, <2>5, WriteNew
  <2>7. Cardinality(files') = k' - 1
    BY <1>0, <2>1, <2>6 DEF FilesInv
  <2>8. ASSUME NEW f \in files'
        PROVE  \E j \in DOMAIN prot_ip_port :
                  /\ j < k'
                  /\ f[2] = prot_ip_port[j]
                  /\ f[1][1] = IF inapplication THEN prot_ip_port[j] ELSE prot_ip_port[j][2]
                  /\ parallel => f[1][2] = j - 1
    <3>1. CASE f \in files
      BY <1>0, <2>1, <3>1 DEF FilesInv
    <3>2. CASE f = <<name, t>>
      <4>1. f[1] = name /\ f[2] = t /\ k \in DOMAIN prot_ip_port /\ k < k'
        BY <1>0, <2>1, <3>2
      <4> QED
        BY <2>4, <4>1
    <3> QED
      BY <2>6, <3>1, <3>2
  <2> QED
    BY <2>1, <2>6, <2>7, <2>8 DEF FilesInv, NoResultLost
<1>5. CASE AllCollected
  <2>1. /\ k = Len(prot_ip_port) + 1 /\ pc = "collect" /\ pc' = "done"
        /\ UNCHANGED <<files, k, prot_ip_port, parallel, inapplication>>
    BY <1>0, <1>5 DEF NamesInv, AllCollected, ini
  <2>2. Cardinality(files) = Len(prot_ip_port)
    BY <1>0, <2>1 DEF FilesInv
  <2> QED
    BY <2>1, <2>2 DEF FilesInv, NoResultLost
<1>6. CASE MeasureOne
  <2> DEFINE name == FileName(prot_ip_port[k], now)
             t == prot_ip_port[k]
  <2>1. /\ k <= Len(prot_ip_port) /\ ~parallel /\ pc = "measure" /\ pc' = "measure"
        /\ k' = k + 1 /\ prot_ip_port' = prot_ip_port
        /\ parallel' = parallel /\ inapplication' = inapplication
        /\ files' = Write(name, t)
    BY <1>6 DEF MeasureOne, ini
  <2>2. t \in Triples
    BY <1>0, <2>1
  <2>3. name[1] = (IF inapplication THEN t ELSE t[2])
    BY <1>0, <2>2, FileNameType
  <2>4. ASSUME inapplication PROVE \A f \in files : f[1] # name
    <3> SUFFICES ASSUME NEW f \in files PROVE f[1][1] # t
      BY <2>3, <2>4
    <3>1. PICK j \in DOMAIN prot_ip_port : j < k /\ f[1][1] = prot_ip_port[j]
      BY <2>1, <2>4 DEF FilesInv
    <3> QED
      BY <1>0, <2>1, <3>1 DEF TriplesInv
  <2> HIDE DEF name
  <2>5. IsFiniteSet(files')
    BY <1>0, <2>1, WriteFinite
  <2>6. inapplication => Cardinality(files') = k' - 1
    BY <1>0, <2>1, <2>4, WriteNew DEF FilesInv
  <2>7. ASSUME NEW f \in files'
        PROVE  \E j \in DOMAIN prot_ip_port :
                  /\ j < k'
                  /\ f[2] = prot_ip_port[j]
                  /\ f[1][1] = IF inapplication THEN prot_ip_port[j] ELSE prot_ip_port[j][2]
                  /\ parallel => f[1][2] = j - 1
    <3>1. CASE f \in files
      BY <1>0, <2>1, <3>1 DEF FilesInv
    <3>2. CASE f = <<name, t>>
      <4>1. f[1] = name /\ f[2] = t /\ k \in DOMAIN prot_ip_port /\ k < k'
        BY <1>0, <2>1, <3>2
      <4> QED
        BY <2>1, <2>3, <4>1
    <3> QED
      BY <2>1, <3>1, <3>2 DEF Write
  <2> QED
    BY <2>1, <2>5, <2>6, <2>7 DEF FilesInv, NoResultLost
<1>7. CASE MeasureOneFails
  <2>1. pc = "measure" /\ pc' = "failed" /\ ~parallel
        /\ UNCHANGED <<files, k, prot_ip_port, parallel, inapplication>>
    BY <1>7 DEF MeasureOneFails, ini
  <2> QED
    BY <2>1 DEF FilesInv, NoResultLost
<1>8. CASE AllMeasured
  <2>1. /\ k = Len(prot_ip_port) + 1 /\ pc = "measure" /\ pc' = "done" /\ ~parallel
        /\ UNCHANGED <<files, k, prot_ip_port, parallel, inapplication>>
    BY <1>0, <1>8 DEF NamesInv, AllMeasured, ini
  <2>2. inapplication => Cardinality(files) = Len(prot_ip_port)
    BY <1>0, <2>1 DEF FilesInv
  <2> QED
    BY <2>1, <2>2 DEF FilesInv, NoResultLost
<1>9. CASE TraceEnding \/ Terminated
  BY <1>9 DEF TraceEnding, TraceEnds, Terminated, vars, ini, FilesInv, NoResultLost
<1>10. CASE EndOfTrace \/ (\E p \in Dns : DnsPacket(p)) \/ (\E p \in Connection : ConnectionPacket(p))
            \/ (\E p \in Other : OtherPacket(p))
  BY <1>1, <1>10 DEF EndOfTrace, DnsPacket, ConnectionPacket, OtherPacket, Read
<1> QED
  BY <1>2, <1>3, <1>4, <1>5, <1>6, <1>7, <1>8, <1>9, <1>10 DEF Next, Analyze

-----------------------------------------------------------------------------
(* The invariant of analyze().                                             *)
THEOREM AnalysisAlways == Spec => [](TypeOK /\ TriplesInv /\ NamesInv /\ FilesInv /\ NoResultLost)
<1>1. Init => TypeOK /\ TriplesInv /\ NamesInv /\ FilesInv /\ NoResultLost
  <2> SUFFICES ASSUME Init PROVE TypeOK /\ TriplesInv /\ NamesInv /\ FilesInv /\ NoResultLost
    OBVIOUS
  <2>1. TypeOK
    BY DEF Init, TypeOK
  <2>2. TriplesInv
    BY DEF Init, TriplesInv, ToSet
  <2>3. NamesInv
    BY DEF Init, NamesInv
  <2>4. FilesInv /\ NoResultLost
    BY FS_EmptySet DEF Init, FilesInv, NoResultLost
  <2> QED
    BY <2>1, <2>2, <2>3, <2>4
<1>2. TypeOK /\ TriplesInv /\ NamesInv /\ FilesInv /\ NoResultLost /\ [Next]_vars
      => (TypeOK /\ TriplesInv /\ NamesInv /\ FilesInv /\ NoResultLost)'
  <2> SUFFICES ASSUME TypeOK, TriplesInv, NamesInv, FilesInv, NoResultLost, [Next]_vars
               PROVE  (TypeOK /\ TriplesInv /\ NamesInv /\ FilesInv /\ NoResultLost)'
    OBVIOUS
  <2>1. CASE Next
    BY <2>1, TypeNext, TriplesNext, NamesNext, FilesNext
  <2>2. CASE UNCHANGED vars
    BY <2>2 DEF vars, ini, TypeOK, TriplesInv, NamesInv, FilesInv, NoResultLost, FileName, ToSet
  <2> QED
    BY <2>1, <2>2
<1> QED
  BY <1>1, <1>2, PTL DEF Spec

(* analysis.py stores the output of every measurement, each in the file    *)
(* that is named after what was measured, in whatever order they end.      *)
THEOREM ResultsStored == Spec => []ResultsRight
<1>1. TypeOK /\ FilesInv /\ NoResultLost => ResultsRight
  BY DEF ResultsRight, FilesInv, OutputInItsFile
<1> QED
  BY <1>1, AnalysisAlways, PTL

(* The list has exactly the triples of the connections that the filters    *)
(* leave, each of them once.                                               *)
THEOREM TriplesFound == Spec => []TriplesInv
  BY AnalysisAlways, PTL
=============================================================================
