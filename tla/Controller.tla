----------------------------- MODULE Controller ------------------------------
(***************************************************************************)
(* controller/controller.py: experiment() drives one measurement of a pair *)
(* of proxy nodes.  It runs on router 1 and controls router 2, the worker, *)
(* over one SSH connection.  Successive calls by the wrapper are numbered  *)
(* e = 1, 2, ..., because what one call leaves running meets the next.     *)
(*                                                                         *)
(* Beside the controller the module has the processes it starts: on each   *)
(* router network.py and the tunnel below it, tcpdump and the analysis;    *)
(* and, on the worker only, commands that the controller does not wait     *)
(* for, the tear down above all.  Any of them may end at any time.         *)
(* Commands run with check_call are part of the step that calls them.      *)
(***************************************************************************)
EXTENDS Integers, FiniteSets

CONSTANTS
    NumApps,        \* applications of config['general']['applications']
    MaxExperiments  \* bound: calls of experiment()

ASSUME ControllerAssumption ==
    NumApps \in Nat \ {0} /\ MaxExperiments \in Nat \ {0}

Router == {1, 2}
Exp == 1 .. MaxExperiments

VARIABLES
    pc,        \* where experiment() is
    e,         \* the number of the call
    app,       \* applications that are finished
    conn,      \* the SSH connection to the worker is up
    intended,  \* the exception to raise after force_stop, or "ok"
    outcome,   \* how the last call ended
    net,       \* net[x][r]: network.py of call x on router r
    tun,       \* tun[x][r]: the tunnel it started
    meas,      \* meas[r]: tcpdump of the current application
    ana,       \* ana[r]: analysis.py of the current application
    tear2,     \* tear2[x]: the tear down script of call x on the worker
    \* History.
    lost       \* applications during which network.py ended on a router

control == <<pc, e, app, conn, intended, outcome>>
vars == <<control, net, tun, meas, ana, tear2, lost>>

NetState == {"none", "starting", "up", "signalled", "exited"}

Outcomes == {"ok", "host1", "host2", "small", "fatal", "other"}

\* The outcomes after which the wrapper goes on.
GoesOn == {"ok", "host1", "host2", "small"}

\* Where experiment() is in the body of the loop over the applications.
Measuring == {"measurement_setup", "measurement", "app_execution",
              "analysis", "analysis_1", "analysis_2"}

-----------------------------------------------------------------------------
(* Signals.                                                                *)

(* SIGINT or SIGHUP to a process: network.py calls its handler and tcpdump *)
(* closes its file, both some time later.                                  *)
SigNet(n) == IF n \in {"starting", "up"} THEN "signalled" ELSE n
SigMeas(m) == IF m = "running" THEN "stopping" ELSE m

(* clean_up(): interrupts the processes of router 1 and closes the         *)
(* channels of router 2 (the processes there get SIGHUP) that still run.   *)
clean_up(nets, measurements) ==
    /\ net' = [net EXCEPT ![e] =
                  [r \in Router |-> IF r \in nets THEN SigNet(@[r]) ELSE @[r]]]
    /\ meas' = [r \in Router |->
                  IF r \in measurements THEN SigMeas(meas[r]) ELSE meas[r]]

(* The connection ends, because it is lost or because experiment() returns *)
(* and its SSH client with it: the terminals on the worker hang up.        *)
HangUp ==
    /\ net' = [net EXCEPT ![e][2] = SigNet(@)]
    /\ meas' = [meas EXCEPT ![2] = SigMeas(@)]
    /\ ana' = [ana EXCEPT ![2] = IF @ = "running" THEN "failed" ELSE @]

-----------------------------------------------------------------------------

Init ==
    /\ pc = "connect"
    /\ e = 1
    /\ app = 0
    /\ conn = FALSE
    /\ intended = "ok"
    /\ outcome = "none"
    /\ net = [x \in Exp |-> [r \in Router |-> "none"]]
    /\ tun = [x \in Exp |-> [r \in Router |-> "none"]]
    /\ meas = [r \in Router |-> "none"]
    /\ ana = [r \in Router |-> "none"]
    /\ tear2 = [x \in Exp |-> "none"]
    /\ lost = {}

Goto(from, to) == pc = from /\ pc' = to

(* The call ends with outcome o. *)
End(o) ==
    /\ pc' = "ended"
    /\ outcome' = o
    /\ conn' = FALSE
    /\ HangUp
    /\ UNCHANGED <<e, app, intended>>

(* clean_up(...) and then force_stop(...), to raise exception o after it. *)
Abort(o, nets, measurements) ==
    /\ pc' = "force_stop_1"
    /\ intended' = o
    /\ clean_up(nets, measurements)
    /\ UNCHANGED <<e, app, conn, outcome, tun, ana, tear2, lost>>

(* An exception of the SSH library that experiment() does not catch. *)
Uncaught ==
    /\ ~conn
    /\ End("other")
    /\ UNCHANGED <<tun, tear2, lost>>

-----------------------------------------------------------------------------
(* Set up.                                                                 *)

Connect ==
    /\ Goto("connect", "network_setup_1")
    /\ conn' = TRUE
    /\ UNCHANGED <<e, app, intended, outcome, net, tun, meas, ana, tear2, lost>>

ConnectFails ==
    /\ pc = "connect"
    /\ End("other")
    /\ UNCHANGED <<tun, tear2, lost>>

NetworkSetup1 ==
    /\ Goto("network_setup_1", "network_setup_2")
    /\ net' = [net EXCEPT ![e][1] = "starting"]
    /\ UNCHANGED <<e, app, conn, intended, outcome, tun, meas, ana, tear2, lost>>

NetworkSetup2 ==
    /\ Goto("network_setup_2", "location_setup")
    /\ conn
    /\ net' = [net EXCEPT ![e][2] = "starting"]
    /\ UNCHANGED <<e, app, conn, intended, outcome, tun, meas, ana, tear2, lost>>

NetworkSetup2Fails == pc = "network_setup_2" /\ Uncaught

LocationSetup ==
    /\ Goto("location_setup", "network_check_1")
    /\ UNCHANGED <<e, app, conn, intended, outcome, net, tun, meas, ana, tear2, lost>>

(* FatalException without clean_up and force_stop. *)
LocationSetupFails ==
    /\ pc = "location_setup"
    /\ End("fatal")
    /\ UNCHANGED <<tun, tear2, lost>>

(* The 100 seconds before the checks are enough for both network.py to     *)
(* have started their tunnel or to have failed.                            *)
SetupTimePassed == \A r \in Router : net[e][r] # "starting"

(* The check resolves a name through the tunnel of the router. It cannot   *)
(* succeed without one.                                                    *)
AnyTunnel(r) == \E x \in Exp : tun[x][r] = "up"

NetworkCheck1 ==
    /\ Goto("network_check_1", "network_check_2")
    /\ SetupTimePassed
    /\ AnyTunnel(1)
    /\ UNCHANGED <<e, app, conn, intended, outcome, net, tun, meas, ana, tear2, lost>>

(* Fault: the tear down of router 1 is left out. *)
NetworkCheck1FailsKeepsTunnel ==
    /\ pc = "network_check_1"
    /\ SetupTimePassed
    /\ pc' = "force_stop_2"
    /\ intended' = "host1"
    /\ clean_up({2}, {})
    /\ UNCHANGED <<e, app, conn, outcome, tun, ana, tear2, lost>>

(* setup_network_1 is not in the lists: it ends with its tunnel. *)
NetworkCheck1Fails ==
    /\ pc = "network_check_1"
    /\ SetupTimePassed
    /\ Abort("host1", {2}, {})

NetworkCheck2 ==
    /\ Goto("network_check_2", "applications")
    /\ conn
    /\ AnyTunnel(2)
    /\ UNCHANGED <<e, app, conn, intended, outcome, net, tun, meas, ana, tear2, lost>>

(* recv_exit_status() is -1 when the connection is lost meanwhile. *)
NetworkCheck2Fails ==
    /\ pc = "network_check_2"
    /\ conn
    /\ Abort("host2", {1}, {})

NetworkCheck2Raises == pc = "network_check_2" /\ Uncaught

-----------------------------------------------------------------------------
(* The loop over the applications.                                         *)

(* exit_status_ready() also holds on a closed channel. *)
Net2Ready == net[e][2] = "exited" \/ ~conn
Meas2Ready == meas[2] = "exited" \/ ~conn

Tunnel1Lost ==
    /\ pc = "applications"
    /\ app < NumApps
    /\ net[e][1] = "exited"
    /\ Abort("host1", {2}, {})

Tunnel2Lost ==
    /\ pc = "applications"
    /\ app < NumApps
    /\ net[e][1] # "exited"
    /\ Net2Ready
    /\ Abort("host2", {1}, {})

(* Fault: the tunnels are not polled for the next application. *)
TunnelsNotPolled ==
    /\ Goto("applications", "measurement_setup")
    /\ app < NumApps
    /\ UNCHANGED <<e, app, conn, intended, outcome, net, tun, meas, ana, tear2, lost>>

TunnelsWork ==
    /\ Goto("applications", "measurement_setup")
    /\ app < NumApps
    /\ net[e][1] # "exited"
    /\ ~Net2Ready
    /\ UNCHANGED <<e, app, conn, intended, outcome, net, tun, meas, ana, tear2, lost>>

MeasurementSetup ==
    /\ Goto("measurement_setup", "measurement")
    /\ conn
    /\ meas' = [r \in Router |-> "running"]
    /\ UNCHANGED <<e, app, conn, intended, outcome, net, tun, ana, tear2, lost>>

(* tcpdump was started on router 1 only. *)
MeasurementSetupRaises ==
    /\ pc = "measurement_setup"
    /\ ~conn
    /\ pc' = "ended"
    /\ outcome' = "other"
    /\ meas' = [meas EXCEPT ![1] = "running"]
    /\ UNCHANGED <<e, app, conn, intended, net, tun, ana, tear2, lost>>

Measurement1Failed ==
    /\ pc = "measurement"
    /\ meas[1] = "exited"
    /\ Abort("host1", {1, 2}, {2})

Measurement2Failed ==
    /\ pc = "measurement"
    /\ meas[1] # "exited"
    /\ Meas2Ready
    /\ Abort("small", {1, 2}, {1})

MeasurementRuns ==
    /\ Goto("measurement", "app_execution")
    /\ meas[1] # "exited"
    /\ ~Meas2Ready
    /\ UNCHANGED <<e, app, conn, intended, outcome, net, tun, meas, ana, tear2, lost>>

AppExecution ==
    /\ Goto("app_execution", "analysis")
    /\ UNCHANGED <<e, app, conn, intended, outcome, net, tun, meas, ana, tear2, lost>>

(* The phones are cleaned up; when this fails too the exception is fatal. *)
AppExecutionFails ==
    /\ pc = "app_execution"
    /\ \E o \in {"small", "fatal"} : Abort(o, {1, 2}, {1, 2})

(* tcpdump is stopped and the analysis started on both routers. killpg and *)
(* close do not wait for tcpdump to end.                                   *)
StartAnalysis ==
    /\ Goto("analysis", "analysis_1")
    /\ conn
    /\ clean_up({}, Router)
    /\ ana' = [r \in Router |-> "running"]
    /\ UNCHANGED <<e, app, conn, intended, outcome, tun, tear2, lost>>

StartAnalysisRaises ==
    /\ pc = "analysis"
    /\ ~conn
    /\ pc' = "ended"
    /\ outcome' = "other"
    /\ clean_up({}, Router)
    /\ ana' = [ana EXCEPT ![1] = "running"]
    /\ UNCHANGED <<e, app, conn, intended, tun, tear2, lost>>

Analysis1Ended ==
    /\ Goto("analysis_1", "analysis_2")
    /\ ana[1] = "ok"
    /\ UNCHANGED <<e, app, conn, intended, outcome, net, tun, meas, ana, tear2, lost>>

Analysis1Failed ==
    /\ pc = "analysis_1"
    /\ ana[1] = "failed"
    /\ Abort("small", {1, 2}, {})

Analysis2Ended ==
    /\ Goto("analysis_2", "applications")
    /\ ana[2] = "ok"
    /\ app' = app + 1
    /\ UNCHANGED <<e, conn, intended, outcome, net, tun, meas, ana, tear2, lost>>

(* Also when the connection is lost before the exit status arrives. *)
Analysis2Failed ==
    /\ pc = "analysis_2"
    /\ ana[2] = "failed" \/ ~conn
    /\ Abort("small", {1, 2}, {})

-----------------------------------------------------------------------------
(* Backup and tear down.                                                   *)

Save1 ==
    /\ Goto("applications", "save_2")
    /\ app = NumApps
    /\ UNCHANGED <<e, app, conn, intended, outcome, net, tun, meas, ana, tear2, lost>>

Save1Fails ==
    /\ pc = "applications"
    /\ app = NumApps
    /\ Abort("small", {1, 2}, {})

(* exec_command() starts the command and does not wait for it; then        *)
(* clean_up and force_stop end the experiment.                             *)
Save2 ==
    /\ pc = "save_2"
    /\ conn
    /\ pc' = "force_stop_1"
    /\ intended' = "ok"
    /\ clean_up({1, 2}, {})
    /\ UNCHANGED <<e, app, conn, outcome, tun, ana, tear2, lost>>

Save2Fails ==
    /\ pc = "save_2"
    /\ ~conn
    /\ Abort("small", {1, 2}, {})

(* The tunnel that the tear down script finds: ps lists it by process id,  *)
(* the oldest first.                                                       *)
Oldest(r) ==
    {x \in Exp : tun[x][r] = "up" /\ \A y \in Exp : tun[y][r] = "up" => x <= y}

(* network_force_tear_down.py on router r. It finds no tunnel, or kills    *)
(* the process group of one (exit status 0), or fails to (exit status 3):  *)
(* the tunnel ended between ps and kill, or the group could not be read    *)
(* off the output of ps and the tunnel lives on.                           *)
TearDown(r, ok) ==
    \/ /\ ok
       /\ Oldest(r) = {}
       /\ tun' = tun
    \/ /\ ok
       /\ \E x \in Oldest(r) : tun' = [tun EXCEPT ![x][r] = "dead"]
    \/ /\ ~ok
       /\ \E x \in Oldest(r) : \/ tun' = tun
                               \/ tun' = [tun EXCEPT ![x][r] = "dead"]

(* Fault: a tear down that fails is taken for one that succeeded. *)
ForceStop1Ignored ==
    /\ Goto("force_stop_1", "force_stop_2")
    /\ \E ok \in BOOLEAN : TearDown(1, ok)
    /\ UNCHANGED <<e, app, conn, intended, outcome, net, meas, ana, tear2, lost>>

(* force_stop(): the script is run on router 1 ... *)
ForceStop1 ==
    /\ Goto("force_stop_1", "force_stop_2")
    /\ TearDown(1, TRUE)
    /\ UNCHANGED <<e, app, conn, intended, outcome, net, meas, ana, tear2, lost>>

ForceStop1Fails ==
    /\ pc = "force_stop_1"
    /\ TearDown(1, FALSE)
    /\ End("fatal")
    /\ UNCHANGED <<tear2, lost>>

(* ... and started on the worker. Then the exception is raised. *)
ForceStop2 ==
    /\ pc = "force_stop_2"
    /\ conn
    /\ tear2' = [tear2 EXCEPT ![e] = "pending"]
    /\ End(intended)
    /\ UNCHANGED <<tun, lost>>

ForceStop2Fails ==
    /\ pc = "force_stop_2"
    /\ ~conn
    /\ End("fatal")
    /\ UNCHANGED <<tun, tear2, lost>>

(* The wrapper calls experiment() again unless the exception ends it. *)
NextExperiment ==
    /\ pc = "ended"
    /\ outcome \in GoesOn
    /\ e < MaxExperiments
    /\ e' = e + 1
    /\ pc' = "connect"
    /\ app' = 0
    /\ intended' = "ok"
    /\ outcome' = "none"
    /\ meas' = [r \in Router |-> "none"]
    /\ ana' = [r \in Router |-> "none"]
    /\ lost' = {}
    /\ UNCHANGED <<conn, net, tun, tear2>>

-----------------------------------------------------------------------------
(* The other processes.                                                    *)

NetStartsTunnel(x, r) ==
    /\ net[x][r] = "starting"
    /\ net' = [net EXCEPT ![x][r] = "up"]
    /\ tun' = [tun EXCEPT ![x][r] = "up"]
    /\ UNCHANGED <<control, meas, ana, tear2, lost>>

TunnelDies(x, r) ==
    /\ tun[x][r] = "up"
    /\ tun' = [tun EXCEPT ![x][r] = "dead"]
    /\ UNCHANGED <<control, net, meas, ana, tear2, lost>>

(* network.py ends: a step of it failed, its tunnel ended, or the signal   *)
(* handler ran (it sends SIGTERM to the tunnel, which may then end).       *)
NetExits(x, r) ==
    /\ \/ net[x][r] \in {"starting", "signalled"}
       \/ net[x][r] = "up" /\ tun[x][r] = "dead"
    /\ net' = [net EXCEPT ![x][r] = "exited"]
    /\ lost' = IF x = e /\ pc \in Measuring THEN lost \cup {app} ELSE lost
    /\ UNCHANGED <<control, tun, meas, ana, tear2>>

(* Nobody looks at a tcpdump again that was told to stop. *)
MeasEnds(r) ==
    /\ meas[r] = "running"
    /\ meas' = [meas EXCEPT ![r] = "exited"]
    /\ UNCHANGED <<control, net, tun, ana, tear2, lost>>

AnaEnds(r) ==
    /\ ana[r] = "running"
    /\ \E s \in {"ok", "failed"} : ana' = [ana EXCEPT ![r] = s]
    /\ UNCHANGED <<control, net, tun, meas, tear2, lost>>

Tear2Runs(x) ==
    /\ tear2[x] = "pending"
    /\ \E ok \in BOOLEAN : TearDown(2, ok)
    /\ tear2' = [tear2 EXCEPT ![x] = "done"]
    /\ UNCHANGED <<control, net, meas, ana, lost>>

ConnectionLost ==
    /\ conn
    /\ conn' = FALSE
    /\ HangUp
    /\ UNCHANGED <<pc, e, app, intended, outcome, tun, tear2, lost>>

-----------------------------------------------------------------------------

SetUp ==
    \/ Connect \/ ConnectFails
    \/ NetworkSetup1 \/ NetworkSetup2 \/ NetworkSetup2Fails
    \/ LocationSetup \/ LocationSetupFails
    \/ NetworkCheck1 \/ NetworkCheck1Fails
    \/ NetworkCheck2 \/ NetworkCheck2Fails \/ NetworkCheck2Raises

Applications ==
    \/ Tunnel1Lost \/ Tunnel2Lost
    \/ TunnelsWork
    \/ MeasurementSetup \/ MeasurementSetupRaises
    \/ Measurement1Failed \/ Measurement2Failed \/ MeasurementRuns
    \/ AppExecution \/ AppExecutionFails
    \/ StartAnalysis \/ StartAnalysisRaises
    \/ Analysis1Ended \/ Analysis1Failed
    \/ Analysis2Ended \/ Analysis2Failed

Finish ==
    \/ Save1 \/ Save1Fails
    \/ Save2 \/ Save2Fails
    \/ ForceStop1 \/ ForceStop1Fails
    \/ ForceStop2 \/ ForceStop2Fails

Controls == SetUp \/ Applications \/ Finish \/ NextExperiment

Processes ==
    \/ \E x \in Exp, r \in Router :
          NetStartsTunnel(x, r) \/ TunnelDies(x, r) \/ NetExits(x, r)
    \/ \E r \in Router : MeasEnds(r) \/ AnaEnds(r)
    \/ \E x \in Exp : Tear2Runs(x)
    \/ ConnectionLost

Next == Controls \/ Processes

Spec == Init /\ [][Next]_vars

(* The controller is a sequential program and every command it waits for   *)
(* ends; network.py starts its tunnel and reacts to signals and to the end *)
(* of the tunnel; an analysis ends. Fairness of these steps taken together *)
(* is enough: each of them can be taken only finitely often in a call.     *)
Progress ==
    \/ Controls
    \/ \E x \in Exp, r \in Router : NetExits(x, r)
    \/ \E r \in Router : AnaEnds(r)

FairSpec == Spec /\ WF_vars(Progress)

-----------------------------------------------------------------------------
(* Properties.                                                             *)

(* Old tunnels "massively interfere with a new tunnel setup": when a call  *)
(* starts network.py on router 1, no tunnel of an earlier call runs there, *)
(* whichever way the earlier calls ended.                                  *)
NoOldTunnelOnRouter1 ==
    pc \in {"network_setup_1", "network_setup_2"} =>
        \A x \in Exp : x < e => tun[x][1] # "up"

(* The same on the worker. *)
NoOldTunnelOnRouter2 ==
    pc = "network_setup_2" => \A x \in Exp : x < e => tun[x][2] # "up"

(* "Check if the tunnels are still working": a call that reports success   *)
(* had network.py of both routers running through every application but    *)
(* the last.  network.py ends some time after its tunnel does; a tunnel    *)
(* that ends is noticed at the poll after network.py has ended.            *)
ExitNoticed ==
    outcome = "ok" => lost \subseteq {NumApps - 1}

(* A host is blamed, and its hostname dropped, for a failure on its own    *)
(* router: once an application is finished, network.py has ended there or, *)
(* on router 1, tcpdump.  The poll of router 2 cannot tell that network.py *)
(* has ended from a lost connection, but a lost connection is not blamed   *)
(* on host 2.                                                              *)
HostBlamed ==
    app > 0 =>
        /\ outcome = "host1" => net[e][1] = "exited" \/ meas[1] = "exited"
        /\ outcome = "host2" => net[e][2] = "exited"

(* Every call ends, whatever processes die while it runs. *)
CallEnds == []<>(pc = "ended")

(* After every call that does not end the wrapper, network.py of router 1  *)
(* ends too, although some paths do not signal it.                         *)
Net1Ends ==
    <>[](\A x \in 1 .. e :
            x < e \/ outcome \in GoesOn => net[x][1] = "exited")

(* What the outcome of a call says is true: after a success network.py     *)
(* ended in the last application or later, and a failure is blamed on the  *)
(* host it happened on.                                                    *)
OutcomesTrue == ExitNoticed /\ HostBlamed

(* Every call ends, and network.py of router 1 with it. *)
AllEnds == CallEnds /\ Net1Ends

-----------------------------------------------------------------------------
(* The inductive invariant.                                                *)

TypeOK ==
    /\ pc \in Measuring \cup {"connect", "network_setup_1", "network_setup_2",
               "location_setup", "network_check_1", "network_check_2",
               "applications", "save_2", "force_stop_1", "force_stop_2", "ended"}
    /\ e \in Exp
    /\ app \in 0 .. NumApps /\ (pc \in Measuring => app < NumApps)
    /\ conn \in BOOLEAN
    /\ intended \in Outcomes
    /\ outcome \in Outcomes \cup {"none"} /\ (outcome # "none" => pc = "ended")
    /\ net \in [Exp -> [Router -> NetState]]
    /\ tun \in [Exp -> [Router -> {"none", "up", "dead"}]]
    /\ meas \in [Router -> {"none", "running", "stopping", "exited"}]
    /\ ana \in [Router -> {"none", "running", "ok", "failed"}]
    /\ tear2 \in [Exp -> {"none", "pending", "done"}]

\* network.py of this call will not start a tunnel any more.
Started ==
    \/ pc \in Measuring \cup {"network_check_2", "applications", "save_2", "force_stop_1",
                             "force_stop_2"}
    \/ outcome \in GoesOn

\* The tear down of this call has been run on router 1.
Torn == pc = "force_stop_2" \/ outcome \in GoesOn

(* On router 1 no call before this one has a tunnel or will start one, and *)
(* no later call has begun.                                                *)
Router1Inv == \A x \in Exp :
    /\ (x > e \/ (x = e /\ pc \in {"connect", "network_setup_1"}))
          => net[x][1] = "none" /\ tun[x][1] = "none"
    /\ (x < e \/ (x = e /\ Started)) => net[x][1] # "starting"
    /\ (x < e \/ (x = e /\ Torn)) => tun[x][1] # "up"

(* What is known of the applications during which network.py ended.        *)
LossInv ==
    /\ lost # {} => \E r \in Router : net[e][r] = "exited"
    /\ pc \in {"connect", "network_setup_1", "network_setup_2", "location_setup",
               "network_check_1", "network_check_2"} => lost = {}
    /\ pc \in Measuring => lost \subseteq {app}
    /\ pc = "applications" => lost \subseteq {app - 1}
    /\ pc = "save_2" => lost \subseteq {NumApps - 1}
    /\ pc \in {"force_stop_1", "force_stop_2"} /\ intended = "ok" => lost \subseteq {NumApps - 1}

(* What is known of the reason for the exception to be raised.             *)
BlameInv ==
    /\ pc \in {"connect", "network_setup_1", "network_setup_2", "location_setup",
               "network_check_1", "network_check_2"} => app = 0
    /\ pc \in {"force_stop_1", "force_stop_2"} /\ app > 0 =>
         /\ intended = "host1" => net[e][1] = "exited" \/ meas[1] = "exited"
         /\ intended = "host2" => net[e][2] = "exited" \/ ~conn

ControllerInv == TypeOK /\ Router1Inv /\ LossInv /\ BlameInv /\ OutcomesTrue

=============================================================================
