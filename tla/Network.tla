------------------------------ MODULE Network --------------------------------
(***************************************************************************)
(* The network modules of a router.                                        *)
(*                                                                         *)
(* network/network.py starts the commands of network.ini in order, keeps   *)
(* those that do not end in running_commands, then watches them; on SIGHUP *)
(* or SIGINT its handler close() ends them.  A command that does not end   *)
(* runs in a process group of its own.                                     *)
(*                                                                         *)
(* network/network_force_tear_down.py looks for a tunnel that still runs   *)
(* and kills its group.  The group is cut out of a line of ps.             *)
(***************************************************************************)
EXTENDS Integers, Sequences, FiniteSets, Functions

CONSTANTS
    Steps,    \* steps of network.ini
    Ending,   \* the steps with "ends: true"
    Tunnels,  \* the steps whose command is the tunnel, one at most
    Pgids     \* process group ids that the system may give out

Step == 1 .. Steps
Command == Step \ Ending

ASSUME NetworkAssumption ==
    /\ Steps \in Nat
    /\ Ending \subseteq Step
    /\ Tunnels \subseteq Command /\ \A c, d \in Tunnels : c = d
    /\ Pgids \subseteq Nat \ {0} /\ \A p \in Pgids : p < 100000
    /\ Cardinality(Pgids) >= Cardinality(Command)

VARIABLES
    pc,         \* where set_up() is
    i,          \* the step
    running,    \* running_commands
    reaped,     \* commands whose exit status was fetched by poll or communicate
    signalled,  \* the signal of the controller was delivered
    status,     \* exit status of network.py
    cmd,        \* the process groups of the commands
    pgid,       \* their ids
    terminated, \* commands that were sent SIGTERM
    tear        \* the tear down script

vars == <<pc, i, running, reaped, signalled, status, cmd, pgid, terminated, tear>>

Init ==
    /\ pc = "steps"
    /\ i = 1
    /\ running = <<>>
    /\ reaped = {}
    /\ signalled = FALSE
    /\ status = "none"
    /\ cmd = [c \in Command |-> "none"]
    /\ pgid = [c \in Command |-> 0]
    /\ terminated = {}
    /\ tear = "none"

-----------------------------------------------------------------------------
(* set_up().                                                               *)

(* check_call of a command that ends. *)
EndingStep ==
    /\ pc = "steps"
    /\ i \in Ending
    /\ i' = i + 1
    /\ UNCHANGED <<pc, running, reaped, signalled, status, cmd, pgid, terminated, tear>>

EndingStepFails ==
    /\ pc = "steps"
    /\ i \in Ending
    /\ pc' = "except"
    /\ UNCHANGED <<i, running, reaped, signalled, status, cmd, pgid, terminated, tear>>

(* Popen: from here on the command runs ... *)
Popen ==
    /\ pc = "steps"
    /\ i \in Command
    /\ pc' = "append"
    /\ cmd' = [cmd EXCEPT ![i] = "running"]
    /\ \E p \in Pgids \ Range(pgid) : pgid' = [pgid EXCEPT ![i] = p]
    /\ UNCHANGED <<i, running, reaped, signalled, status, terminated, tear>>

(* ... and from here on it is in running_commands. *)
AppendRunning ==
    /\ pc = "append"
    /\ pc' = "steps"
    /\ running' = Append(running, i)
    /\ i' = i + 1
    /\ UNCHANGED <<reaped, signalled, status, cmd, pgid, terminated, tear>>

StepsDone ==
    /\ pc = "steps"
    /\ i > Steps
    /\ pc' = "watch"
    /\ UNCHANGED <<i, running, reaped, signalled, status, cmd, pgid, terminated, tear>>

(* Fault: the round goes on after an end. *)
FirstEndedNoRaise ==
    /\ pc = "watch"
    /\ running # <<>>
    /\ cmd[Head(running)] = "ended"
    /\ reaped' = reaped \cup {Head(running)}
    /\ terminated' = terminated \cup Range(Tail(running))
    /\ UNCHANGED <<pc, i, running, signalled, status, cmd, pgid, tear>>

(* One round over running_commands. communicate() and raise belong to the  *)
(* loop and not to the test, so the round never gets to the second         *)
(* command: it waits for the end of the first one.                         *)
FirstEnded ==
    /\ pc = "watch"
    /\ running # <<>>
    /\ cmd[Head(running)] = "ended"
    /\ pc' = "raise"
    /\ reaped' = reaped \cup {Head(running)}
    /\ terminated' = terminated \cup Range(Tail(running))
    /\ UNCHANGED <<i, running, signalled, status, cmd, pgid, tear>>

FirstRuns ==
    /\ pc = "watch"
    /\ running # <<>>
    /\ cmd[Head(running)] = "running"
    /\ pc' = "communicate"
    /\ UNCHANGED <<i, running, reaped, signalled, status, cmd, pgid, terminated, tear>>

Communicate ==
    /\ pc = "communicate"
    /\ cmd[Head(running)] = "ended"
    /\ pc' = "raise"
    /\ reaped' = reaped \cup {Head(running)}
    /\ UNCHANGED <<i, running, signalled, status, cmd, pgid, terminated, tear>>

Raise ==
    /\ pc = "raise"
    /\ pc' = "except"
    /\ UNCHANGED <<i, running, reaped, signalled, status, cmd, pgid, terminated, tear>>

(* Fault: the commands that still run are left alone. *)
ExceptLeaves ==
    /\ pc = "except"
    /\ pc' = "exited"
    /\ status' = "3"
    /\ UNCHANGED <<i, running, reaped, signalled, cmd, pgid, terminated, tear>>

(* The except clause: SIGTERM to the commands that still run, then exit. *)
Except ==
    /\ pc = "except"
    /\ pc' = "exited"
    /\ status' = "3"
    /\ reaped' = reaped \cup {c \in Range(running) : cmd[c] = "ended"}
    /\ terminated' = terminated \cup {c \in Range(running) : cmd[c] = "running"}
    /\ UNCHANGED <<i, running, signalled, cmd, pgid, tear>>

-----------------------------------------------------------------------------
(* close(): SIGTERM to every group, in the order of the list. killpg fails *)
(* for a group that is gone, which it is once the exit status of its       *)
(* command was fetched; the exception then continues in set_up(), where    *)
(* the except clause catches it unless it is already running.              *)

Gone == {k \in DOMAIN running : running[k] \in reaped}

BeforeGone == {k \in DOMAIN running : \A g \in Gone : k < g}

CloseAll ==
    /\ pc # "exited"
    /\ ~signalled
    /\ Gone = {}
    /\ signalled' = TRUE
    /\ terminated' = terminated \cup Range(running)
    /\ pc' = "exited"
    /\ status' = "0"
    /\ UNCHANGED <<i, running, reaped, cmd, pgid, tear>>

CloseRaises ==
    /\ pc # "exited"
    /\ ~signalled
    /\ Gone # {}
    /\ signalled' = TRUE
    /\ terminated' = terminated \cup {running[k] : k \in BeforeGone}
    /\ IF pc = "except"
       THEN pc' = "exited" /\ status' = "1"
       ELSE pc' = "except" /\ status' = status
    /\ UNCHANGED <<i, running, reaped, cmd, pgid, tear>>

-----------------------------------------------------------------------------
(* The commands end by themselves or because of SIGTERM, which some        *)
(* tunnels do not obey.                                                    *)

CommandEnds(c) ==
    /\ cmd[c] = "running"
    /\ cmd' = [cmd EXCEPT ![c] = "ended"]
    /\ UNCHANGED <<pc, i, running, reaped, signalled, status, pgid, terminated, tear>>

-----------------------------------------------------------------------------
(* network_force_tear_down.py.                                             *)

Digits(n) == Cardinality({t \in {1, 10, 100, 1000, 10000} : t <= n})

PgidWidth == 5

(* The fields of a line of ps x -o "%r %c" split at single blanks: the     *)
(* group id is right-justified, and every blank before it gives an empty   *)
(* field. An empty field and the name of the command are no group id.      *)
NoGroup == 0

Fields(p) == [k \in 1 .. (PgidWidth - Digits(p)) |-> NoGroup] \o <<p, NoGroup>>

(* The script takes field 1, counted from 0. *)
TunnelPid(p) == Fields(p)[2]

(* The tunnel in the output of ps. *)
Found == {c \in Tunnels : cmd[c] = "running"}

(* The controller runs the script after the commands were started. *)
Started == pc \in {"watch", "communicate", "raise", "except", "exited"}

NothingToTearDown ==
    /\ Started /\ tear = "none"
    /\ Found = {}
    /\ tear' = "0"
    /\ UNCHANGED <<pc, i, running, reaped, signalled, status, cmd, pgid, terminated>>

TearDownKills ==
    /\ Started /\ tear = "none"
    /\ \E c \in Found :
          /\ TunnelPid(pgid[c]) = pgid[c]
          /\ cmd' = [cmd EXCEPT ![c] = "ended"]
    /\ tear' = "0"
    /\ UNCHANGED <<pc, i, running, reaped, signalled, status, pgid, terminated>>

TearDownFails ==
    /\ Started /\ tear = "none"
    /\ \E c \in Found : TunnelPid(pgid[c]) # pgid[c]
    /\ tear' = "3"
    /\ UNCHANGED <<pc, i, running, reaped, signalled, status, cmd, pgid, terminated>>

-----------------------------------------------------------------------------

SetUp ==
    \/ EndingStep \/ EndingStepFails
    \/ Popen \/ AppendRunning \/ StepsDone
    \/ FirstEnded \/ FirstRuns \/ Communicate \/ Raise \/ Except

Next ==
    \/ SetUp
    \/ CloseAll \/ CloseRaises
    \/ \E c \in Command : CommandEnds(c)
    \/ NothingToTearDown \/ TearDownKills \/ TearDownFails

Spec == Init /\ [][Next]_vars

(* network.py is a sequential program; its steps that end do end. *)
FairSpec == Spec /\ WF_vars(SetUp)

-----------------------------------------------------------------------------

(* "We use it to finally teminate all executed subprocesses": when         *)
(* network.py has ended, a command that runs was told to end, also when    *)
(* the handler failed on a command that is gone and the except clause came *)
(* after it. Two kinds of commands run on: those behind the one that is    *)
(* gone, when the handler failed inside of the except clause, which the    *)
(* exit status tells, and the one that was just started and not yet kept   *)
(* when the signal came.                                                   *)
StartedCommandsStopped ==
    pc = "exited" =>
        \A c \in Command : cmd[c] = "running" =>
            \/ c \in terminated
            \/ /\ status = "1"
               /\ \E k \in DOMAIN running : running[k] = c /\ \E g \in Gone : g < k
            \/ signalled /\ c = i /\ c \notin Range(running)

(* "We use it to finally teminate all executed subprocesses": no command   *)
(* runs on untold when network.py has ended.                               *)
AllCommandsStopped ==
    pc = "exited" =>
        \A c \in Command : cmd[c] = "running" => c \in terminated

(* "checks regulary if it is still running": the end of the first command  *)
(* is noticed.                                                             *)
FirstEndNoticed ==
    (running # <<>> /\ cmd[Head(running)] = "ended") ~> pc = "exited"

(* "if so the module forces them to stop": the only tunnel that the script *)
(* leaves running has a process group id with other than four digits, and  *)
(* then the exit status says so to the controller.                         *)
TunnelStopped ==
    tear # "none" => \A c \in Found : ~(1000 <= pgid[c] /\ pgid[c] <= 9999) /\ tear = "3"

(* What network.py and the tear down script have to stop is stopped, or    *)
(* its exit status says so.                                                *)
CommandsStopped == StartedCommandsStopped /\ TunnelStopped

(* The inductive invariant behind CommandsStopped: the commands that were  *)
(* started are those in running_commands, but for the one of the current   *)
(* step before the append or when the signal came there; only commands     *)
(* that ended are fetched, and none before all were started; and the tear  *)
(* down script runs when no further command can be started.                *)
CommandsInv ==
    /\ running \in Seq(Command)
    /\ cmd \in [Command -> {"none", "running", "ended"}]
    /\ pgid \in [Command -> Nat]
    /\ i \in Nat /\ (pc = "append" => i \in Command)
    /\ \A c \in Range(running) : c < i
    /\ \A c \in Command : cmd[c] # "none" =>
          c \in Range(running) \/ (c = i /\ (pc = "append" \/ (pc = "exited" /\ signalled)))
    /\ \A c \in reaped : cmd[c] = "ended"
    /\ reaped # {} => pc \in {"raise", "except", "exited"}
    /\ tear # "none" => Started
    /\ CommandsStopped

=============================================================================
