---------------------------- MODULE NetworkProofs ----------------------------
(***************************************************************************)
(* Proofs about module Network, for every list of steps and every set of   *)
(* process group ids.                                                      *)
(***************************************************************************)
EXTENDS Network, FiniteSetTheorems, TLAPS

(* There are four powers of ten of at most four digits. *)
LEMMA FourPowers == Cardinality({1, 10, 100, 1000}) = 4
<1>1. IsFiniteSet({1}) /\ Cardinality({1}) = 1
  BY FS_Singleton
<1>2. IsFiniteSet({1, 10}) /\ Cardinality({1, 10}) = 2
  <2>1. {1, 10} = {1} \cup {10} /\ 10 \notin {1}
    OBVIOUS
  <2> QED
    BY <1>1, <2>1, FS_AddElement
<1>3. IsFiniteSet({1, 10, 100}) /\ Cardinality({1, 10, 100}) = 3
  <2>1. {1, 10, 100} = {1, 10} \cup {100} /\ 100 \notin {1, 10}
    OBVIOUS
  <2> QED
    BY <1>2, <2>1, FS_AddElement
<1>4. {1, 10, 100, 1000} = {1, 10, 100} \cup {1000} /\ 1000 \notin {1, 10, 100}
  OBVIOUS
<1> QED
  BY <1>3, <1>4, FS_AddElement

(* A group id of four digits is the field that the script takes. *)
LEMMA FourDigits ==
    ASSUME NEW p \in Int, 1000 <= p, p <= 9999
    PROVE  TunnelPid(p) = p
<1>1. p \in Int /\ 1 <= p /\ 10 <= p /\ 100 <= p /\ 1000 <= p /\ ~(10000 <= p)
  OBVIOUS
<1>2. {t \in {1, 10, 100, 1000, 10000} : t <= p} = {1, 10, 100, 1000}
  <2>1. ASSUME NEW t \in {1, 10, 100, 1000, 10000}, t <= p
        PROVE  t \in {1, 10, 100, 1000}
    BY <1>1, <2>1
  <2>2. ASSUME NEW t \in {1, 10, 100, 1000}
        PROVE  t \in {1, 10, 100, 1000, 10000} /\ t <= p
    BY <1>1, <2>2
  <2> QED
    BY <2>1, <2>2, SMT
<1>3. Digits(p) = 4
  BY <1>2, FourPowers DEF Digits
<1>4. PgidWidth - Digits(p) = 1
  BY <1>3 DEF PgidWidth
<1> DEFINE Blanks == [k \in 1 .. 1 |-> NoGroup]
<1>5. Fields(p) = Blanks \o <<p, NoGroup>>
  BY <1>4 DEF Fields
<1>6. Blanks \in Seq(Nat) /\ Len(Blanks) = 1
  BY DEF NoGroup
<1>7. <<p, NoGroup>> \in Seq(Int)
  BY <1>1 DEF NoGroup
<1>8. (Blanks \o <<p, NoGroup>>)[2] = p
  BY <1>6, <1>7 DEF NoGroup
<1> QED
  BY <1>5, <1>8 DEF TunnelPid

-----------------------------------------------------------------------------
(* The inductive invariant.                                                *)

(* What a command says that is not told to end when network.py has ended. *)
LEMMA Untold ==
    ASSUME CommandsInv, pc = "exited", NEW c \in Command, cmd[c] = "running"
    PROVE  \/ c \in terminated
           \/ /\ status = "1"
              /\ \E k \in DOMAIN running : running[k] = c /\ \E g \in Gone : g < k
           \/ signalled /\ c = i /\ c \notin Range(running)
BY DEF CommandsInv, CommandsStopped, StartedCommandsStopped

(* The steps of network.py before its end that start no command and keep   *)
(* the list.                                                               *)
LEMMA Kept ==
    ASSUME CommandsInv,
           UNCHANGED <<running, cmd, pgid, tear>>,
           Started => Started',
           i' \in {i, i + 1}, pc # "append", pc # "exited",
           pc' \notin {"append", "exited"},
           \A c \in reaped' : cmd[c] = "ended",
           reaped' # {} => pc' \in {"raise", "except"}
    PROVE  CommandsInv'
<1>1. \A c \in Range(running) : c \in Nat /\ c < i
  BY NetworkAssumption DEF CommandsInv, Range, Command, Step
<1>2. i' \in Nat /\ \A c \in Range(running') : c < i'
  BY <1>1 DEF CommandsInv
<1>3. CommandsStopped'
  BY DEF CommandsInv, CommandsStopped, StartedCommandsStopped, TunnelStopped, Found
<1> QED
  BY <1>2, <1>3 DEF CommandsInv, Started

(* The steps with which network.py ends. *)
LEMMA Ends ==
    ASSUME CommandsInv, pc # "exited",
           UNCHANGED <<i, running, cmd, pgid, tear>>,
           pc' = "exited",
           pc = "append" => signalled',
           \A c \in reaped' : cmd[c] = "ended",
           \A c \in Range(running) : cmd[c] = "running" =>
               \/ c \in terminated'
               \/ /\ status' = "1"
                  /\ \E k \in DOMAIN running : running[k] = c /\ \E g \in Gone' : g < k
    PROVE  CommandsInv'
<1>1. ASSUME NEW c \in Command, cmd[c] # "none"
      PROVE  c \in Range(running) \/ (c = i /\ c \notin Range(running) /\ pc = "append")
  <2>1. c \in Range(running) \/ (c = i /\ pc = "append")
    BY <1>1 DEF CommandsInv
  <2>2. c \in Nat /\ (c \in Range(running) => c < i)
    BY NetworkAssumption DEF CommandsInv, Command, Step
  <2> QED
    BY <2>1, <2>2
<1>2. StartedCommandsStopped'
  BY <1>1 DEF StartedCommandsStopped
<1>3. TunnelStopped'
  BY DEF CommandsInv, CommandsStopped, TunnelStopped, Found
<1> QED
  BY <1>1, <1>2, <1>3 DEF CommandsInv, CommandsStopped, Started

(* The steps with which a command ends. *)
LEMMA Ended ==
    ASSUME CommandsInv, NEW c \in Command, cmd[c] = "running",
           cmd' = [cmd EXCEPT ![c] = "ended"],
           UNCHANGED <<pc, i, running, reaped, signalled, status, pgid, terminated>>,
           TunnelStopped', tear' # "none" => Started
    PROVE  CommandsInv'
<1>1. /\ cmd' \in [Command -> {"none", "running", "ended"}]
      /\ \A d \in Command : cmd'[d] = "running" => cmd[d] = "running"
      /\ \A d \in Command : cmd'[d] # "none" => cmd[d] # "none"
      /\ \A d : cmd[d] = "ended" => cmd'[d] = "ended"
  BY DEF CommandsInv
<1>2. Gone' = Gone
  BY DEF Gone
<1>3. StartedCommandsStopped'
  <2> SUFFICES ASSUME pc' = "exited", NEW d \in Command, cmd'[d] = "running"
               PROVE  \/ d \in terminated
                      \/ /\ status = "1"
                         /\ \E k \in DOMAIN running : running[k] = d /\ \E g \in Gone : g < k
                      \/ signalled /\ d = i /\ d \notin Range(running)
    BY <1>2 DEF StartedCommandsStopped
  <2> QED
    BY <1>1, Untold
<1> QED
  BY <1>1, <1>3 DEF CommandsInv, CommandsStopped, Started

(* CommandsInv holds when network.py starts. *)
LEMMA InitInv == Init => CommandsInv
BY DEF Init, CommandsInv, CommandsStopped, StartedCommandsStopped, TunnelStopped,
       Found, Started, Range

(* Every step keeps CommandsInv. *)
LEMMA NextInv == CommandsInv /\ [Next]_vars => CommandsInv'
<1> SUFFICES ASSUME CommandsInv, [Next]_vars
             PROVE  CommandsInv'
  OBVIOUS
<1>0. /\ \A c \in reaped : cmd[c] = "ended"
      /\ reaped # {} => pc \in {"raise", "except", "exited"}
  BY DEF CommandsInv
<1>1. CASE EndingStep
  BY <1>0, <1>1, Kept DEF EndingStep, Started
<1>2. CASE EndingStepFails
  BY <1>0, <1>2, Kept DEF EndingStepFails, Started
<1>3. CASE Popen
  <2>1. PICK q \in Pgids \ Range(pgid) : pgid' = [pgid EXCEPT ![i] = q]
    BY <1>3 DEF Popen
  <2>2. q \in Nat
    BY <2>1, NetworkAssumption
  <2>3. /\ pc = "steps" /\ i \in Command /\ pc' = "append"
        /\ cmd' = [cmd EXCEPT ![i] = "running"]
        /\ UNCHANGED <<i, running, reaped, tear>>
    BY <1>3 DEF Popen
  <2>4. tear = "none" /\ reaped = {}
    BY <2>3 DEF CommandsInv, Started
  <2>5. pgid' \in [Command -> Nat]
    BY <2>1, <2>2 DEF CommandsInv
  <2>6. /\ cmd' \in [Command -> {"none", "running", "ended"}]
        /\ \A c \in Command : cmd'[c] # "none" => c = i \/ cmd[c] # "none"
    BY <2>3 DEF CommandsInv
  <2>7. \A c \in Command : cmd'[c] # "none" => c \in Range(running) \/ c = i
    BY <2>3, <2>6 DEF CommandsInv
  <2> QED
    BY <2>3, <2>4, <2>5, <2>6, <2>7
    DEF CommandsInv, CommandsStopped, StartedCommandsStopped, TunnelStopped
<1>4. CASE AppendRunning
  <2>1. /\ pc = "append" /\ pc' = "steps"
        /\ running' = Append(running, i) /\ i' = i + 1
        /\ UNCHANGED <<cmd, pgid, reaped, tear>>
    BY <1>4 DEF AppendRunning
  <2>2. tear = "none" /\ i \in Command /\ i \in Nat /\ reaped = {}
    BY <2>1 DEF CommandsInv, Started
  <2>3. running' \in Seq(Command)
    BY <2>1, <2>2 DEF CommandsInv
  <2>4. Range(running') = Range(running) \cup {i}
    <3>1. running \in Seq(Command) /\ Len(running) \in Nat
      BY DEF CommandsInv
    <3>2. /\ DOMAIN running' = 1 .. (Len(running) + 1)
          /\ \A k \in 1 .. Len(running) : running'[k] = running[k]
          /\ running'[Len(running) + 1] = i
      BY <2>1, <2>2, <3>1
    <3> QED
      BY <3>1, <3>2 DEF Range
  <2>5. ASSUME NEW c \in Range(running') PROVE c < i'
    <3>1. c = i \/ c \in Range(running)
      BY <2>4, <2>5
    <3>2. \A d \in Range(running) : d \in Nat /\ d < i
      BY NetworkAssumption DEF CommandsInv, Range, Command, Step
    <3> QED
      BY <2>1, <2>2, <3>1, <3>2
  <2>6. \A c \in Command : cmd'[c] # "none" => c \in Range(running')
    BY <2>1, <2>4 DEF CommandsInv
  <2> QED
    BY <2>1, <2>2, <2>3, <2>5, <2>6
    DEF CommandsInv, CommandsStopped, StartedCommandsStopped, TunnelStopped
<1>5. CASE StepsDone
  BY <1>0, <1>5, Kept DEF StepsDone, Started
<1>6. CASE FirstEnded
  BY <1>0, <1>6, Kept DEF FirstEnded, Started
<1>7. CASE FirstRuns
  BY <1>0, <1>7, Kept DEF FirstRuns, Started
<1>8. CASE Communicate
  BY <1>0, <1>8, Kept DEF Communicate, Started
<1>9. CASE Raise
  BY <1>0, <1>9, Kept DEF Raise, Started
<1>10. CASE Except
  <2>1. \A c \in Range(running) : cmd[c] = "running" => c \in terminated'
    BY <1>10 DEF Except
  <2>2. \A c \in reaped' : cmd[c] = "ended"
    BY <1>0, <1>10 DEF Except
  <2> QED
    BY <1>10, <2>1, <2>2, Ends DEF Except
<1>11. CASE CloseAll
  <2>1. \A c \in Range(running) : c \in terminated'
    BY <1>11 DEF CloseAll
  <2> QED
    BY <1>0, <1>11, <2>1, Ends DEF CloseAll
<1>12. CASE CloseRaises
  <2>1. pc \in {"raise", "except"} /\ UNCHANGED <<i, running, reaped, cmd, pgid, tear>>
    BY <1>0, <1>12 DEF CloseRaises, Gone
  <2>2. CASE pc = "except"
    <3>1. ASSUME NEW c \in Range(running), cmd[c] = "running", c \notin terminated'
          PROVE  \E k \in DOMAIN running : running[k] = c /\ \E g \in Gone' : g < k
      <4>1. PICK k \in DOMAIN running : running[k] = c
        BY DEF Range
      <4>2. k \notin BeforeGone
        BY <1>12, <3>1, <4>1 DEF CloseRaises
      <4>3. PICK g \in Gone : ~(k < g)
        BY <4>1, <4>2 DEF BeforeGone
      <4>4. g # k
        BY <1>0, <3>1, <4>1 DEF Gone
      <4>5. k \in Nat /\ g \in Nat
        BY <4>1 DEF Gone, CommandsInv
      <4> QED
        BY <2>1, <4>1, <4>3, <4>4, <4>5 DEF Gone
    <3>2. pc' = "exited" /\ status' = "1"
      BY <1>12, <2>2 DEF CloseRaises
    <3> QED
      BY <1>0, <2>1, <2>2, <3>1, <3>2, Ends
  <2>3. CASE pc = "raise"
    <3>1. pc' = "except"
      BY <1>12, <2>3 DEF CloseRaises
    <3> QED
      BY <1>0, <2>1, <2>3, <3>1, Kept DEF Started
  <2> QED
    BY <2>1, <2>2, <2>3
<1>13. CASE \E c \in Command : CommandEnds(c)
  <2>1. PICK c \in Command : CommandEnds(c)
    BY <1>13
  <2>2. /\ cmd[c] = "running" /\ cmd' = [cmd EXCEPT ![c] = "ended"]
        /\ UNCHANGED <<pc, i, running, reaped, signalled, status, pgid, terminated, tear>>
    BY <2>1 DEF CommandEnds
  <2>3. \A d \in Command : cmd'[d] = cmd[d] \/ cmd'[d] = "ended"
    BY <2>2 DEF CommandsInv
  <2>4. Found' \subseteq Found
    BY <2>3, NetworkAssumption DEF Found
  <2>5. TunnelStopped' /\ (tear' # "none" => Started)
    BY <2>2, <2>4 DEF CommandsInv, CommandsStopped, TunnelStopped
  <2> QED
    BY <2>2, <2>5, Ended
<1>14. CASE NothingToTearDown
  <2>1. TunnelStopped'
    BY <1>14 DEF NothingToTearDown, TunnelStopped, Found
  <2> QED
    BY <1>14, <2>1
    DEF NothingToTearDown, CommandsInv, CommandsStopped, StartedCommandsStopped,
        Started, Gone
<1>15. CASE TearDownKills
  <2>1. PICK c \in Found : cmd' = [cmd EXCEPT ![c] = "ended"]
    BY <1>15 DEF TearDownKills
  <2>2. c \in Command /\ cmd[c] = "running" /\ \A d \in Tunnels : d = c
    BY <2>1, NetworkAssumption DEF Found
  <2>3. cmd'[c] = "ended"
    BY <2>1, <2>2 DEF CommandsInv
  <2>4. TunnelStopped'
    BY <2>2, <2>3 DEF Found, TunnelStopped
  <2>5. Started /\ UNCHANGED <<pc, i, running, reaped, signalled, status, pgid, terminated>>
    BY <1>15 DEF TearDownKills
  <2> QED
    BY <2>1, <2>2, <2>4, <2>5, Ended
<1>16. CASE TearDownFails
  <2>1. PICK c \in Found : TunnelPid(pgid[c]) # pgid[c]
    BY <1>16 DEF TearDownFails
  <2>2. c \in Command /\ \A d \in Tunnels : d = c
    BY <2>1, NetworkAssumption DEF Found
  <2>3. pgid[c] \in Int
    BY <2>2 DEF CommandsInv
  <2>4. ~(1000 <= pgid[c] /\ pgid[c] <= 9999)
    BY <2>1, <2>3, FourDigits
  <2>5. /\ UNCHANGED <<pc, i, running, reaped, signalled, status, cmd, pgid, terminated>>
        /\ Started /\ tear' = "3"
    BY <1>16 DEF TearDownFails
  <2>6. TunnelStopped'
    BY <2>2, <2>4, <2>5 DEF TunnelStopped, Found
  <2> QED
    BY <2>5, <2>6
    DEF CommandsInv, CommandsStopped, StartedCommandsStopped, Started, Gone
<1>17. CASE UNCHANGED vars
  BY <1>17
  DEF vars, CommandsInv, CommandsStopped, StartedCommandsStopped, TunnelStopped,
      Found, Started, Gone
<1> QED
  BY <1>1, <1>2, <1>3, <1>4, <1>5, <1>6, <1>7, <1>8, <1>9, <1>10, <1>11,
     <1>12, <1>13, <1>14, <1>15, <1>16, <1>17 DEF Next, SetUp

-----------------------------------------------------------------------------

(* For every list of steps in network.ini and whatever process group ids   *)
(* the system gives out: when network.py has ended by close() or by its    *)
(* except clause, each command that runs was told to end, but for those    *)
(* behind a command that is gone when close() fails inside of the except   *)
(* clause, and the one whose Popen was not yet followed by the append; and *)
(* the tear down script leaves a tunnel running only when its group id has *)
(* other than four digits, and then reports it.                            *)
THEOREM CommandsAreStopped == Spec => []CommandsStopped
<1>1. CommandsInv => CommandsStopped
  BY DEF CommandsInv
<1> QED
  BY <1>1, InitInv, NextInv, PTL DEF Spec

=============================================================================
