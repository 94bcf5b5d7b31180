--------------------------- MODULE ControllerProofs ---------------------------
(***************************************************************************)
(* Proofs about module Controller, for any number of applications and of   *)
(* calls of experiment().                                                  *)
(***************************************************************************)
EXTENDS Controller, TLAPS

(* What clean_up() and the end of the connection do to network.py: those   *)
(* that run may be signalled, all others stay as they are.  The same for   *)
(* tcpdump.                                                                *)
Signalled ==
    /\ \A x \in Exp, r \in Router : net'[x][r] = net[x][r] \/ net'[x][r] = SigNet(net[x][r])
    /\ \A r \in Router : meas'[r] = meas[r] \/ meas'[r] = SigMeas(meas[r])

(* clean_up(). *)
LEMMA CleanUp ==
    ASSUME TypeOK, NEW nets, NEW measurements, clean_up(nets, measurements)
    PROVE  /\ net' \in [Exp -> [Router -> NetState]] /\ Signalled
           /\ meas' \in [Router -> {"none", "running", "stopping", "exited"}]
BY DEF TypeOK, clean_up, Signalled, SigNet, SigMeas, NetState

(* The end of the SSH connection. *)
LEMMA HangsUp ==
    ASSUME TypeOK, HangUp
    PROVE  /\ net' \in [Exp -> [Router -> NetState]] /\ Signalled
           /\ meas' \in [Router -> {"none", "running", "stopping", "exited"}]
           /\ ana' \in [Router -> {"none", "running", "ok", "failed"}]
BY DEF TypeOK, HangUp, Signalled, SigNet, SigMeas, NetState, Router

(* The tear down script kills a tunnel or leaves all as they are.           *)
LEMMA TearsDown ==
    ASSUME TypeOK, NEW q \in Router, NEW ok \in BOOLEAN, TearDown(q, ok)
    PROVE  /\ tun' \in [Exp -> [Router -> {"none", "up", "dead"}]]
           /\ \A x \in Exp, r \in Router : \/ tun'[x][r] = tun[x][r]
                                           \/ tun[x][r] = "up" /\ tun'[x][r] = "dead"
<1>1. tun \in [Exp -> [Router -> {"none", "up", "dead"}]]
  BY DEF TypeOK
<1>2. CASE tun' = tun
  BY <1>1, <1>2
<1>3. ASSUME NEW y \in Exp, tun[y][q] = "up", tun' = [tun EXCEPT ![y][q] = "dead"]
      PROVE  /\ tun' \in [Exp -> [Router -> {"none", "up", "dead"}]]
             /\ \A x \in Exp, r \in Router : \/ tun'[x][r] = tun[x][r]
                                             \/ tun[x][r] = "up" /\ tun'[x][r] = "dead"
  BY <1>1, <1>3
<1> QED
  BY <1>2, <1>3 DEF TearDown, Oldest

(* Every step keeps the types. *)
LEMMA TypeNext ==
    ASSUME TypeOK, Next
    PROVE  TypeOK'
<1>0. NumApps \in Nat /\ NumApps > 0 /\ MaxExperiments \in Nat
  BY ControllerAssumption
<1>1. CASE Connect
  BY <1>0, <1>1
     DEF Connect, Goto, TypeOK, Measuring, Outcomes
<1>2. CASE ConnectFails
  BY <1>0, <1>2, HangsUp
     DEF ConnectFails, End, TypeOK, Measuring, Outcomes
<1>3. CASE NetworkSetup1
  BY <1>0, <1>3
     DEF NetworkSetup1, Goto, TypeOK, Measuring, Outcomes, NetState, Router
<1>4. CASE NetworkSetup2
  BY <1>0, <1>4
     DEF NetworkSetup2, Goto, TypeOK, Measuring, Outcomes, NetState, Router
<1>5. CASE NetworkSetup2Fails
  BY <1>0, <1>5, HangsUp
     DEF NetworkSetup2Fails, Uncaught, End, TypeOK, Measuring, Outcomes
<1>6. CASE LocationSetup
  BY <1>0, <1>6
     DEF LocationSetup, Goto, TypeOK, Measuring, Outcomes
<1>7. CASE LocationSetupFails
  BY <1>0, <1>7, HangsUp
     DEF LocationSetupFails, End, TypeOK, Measuring, Outcomes
<1>8. CASE NetworkCheck1
  BY <1>0, <1>8
     DEF NetworkCheck1, Goto, TypeOK, Measuring, Outcomes
<1>9. CASE NetworkCheck1Fails
  BY <1>0, <1>9, CleanUp
     DEF NetworkCheck1Fails, Abort, TypeOK, Measuring, Outcomes
<1>10. CASE NetworkCheck2
  BY <1>0, <1>10
     DEF NetworkCheck2, Goto, TypeOK, Measuring, Outcomes
<1>11. CASE NetworkCheck2Fails
  BY <1>0, <1>11, CleanUp
     DEF NetworkCheck2Fails, Abort, TypeOK, Measuring, Outcomes
<1>12. CASE NetworkCheck2Raises
  BY <1>0, <1>12, HangsUp
     DEF NetworkCheck2Raises, Uncaught, End, TypeOK, Measuring, Outcomes
<1>13. CASE Tunnel1Lost
  BY <1>0, <1>13, CleanUp
     DEF Tunnel1Lost, Abort, TypeOK, Measuring, Outcomes
<1>14. CASE Tunnel2Lost
  BY <1>0, <1>14, CleanUp
     DEF Tunnel2Lost, Abort, TypeOK, Measuring, Outcomes
<1>15. CASE TunnelsWork
  BY <1>0, <1>15
     DEF TunnelsWork, Goto, TypeOK, Measuring, Outcomes
<1>16. CASE MeasurementSetup
  BY <1>0, <1>16
     DEF MeasurementSetup, Goto, TypeOK, Measuring, Outcomes
<1>17. CASE MeasurementSetupRaises
  BY <1>0, <1>17
     DEF MeasurementSetupRaises, TypeOK, Measuring, Outcomes, Router
<1>18. CASE Measurement1Failed
  BY <1>0, <1>18, CleanUp
     DEF Measurement1Failed, Abort, TypeOK, Measuring, Outcomes
<1>19. CASE Measurement2Failed
  BY <1>0, <1>19, CleanUp
     DEF Measurement2Failed, Abort, TypeOK, Measuring, Outcomes
<1>20. CASE MeasurementRuns
  BY <1>0, <1>20
     DEF MeasurementRuns, Goto, TypeOK, Measuring, Outcomes
<1>21. CASE AppExecution
  BY <1>0, <1>21
     DEF AppExecution, Goto, TypeOK, Measuring, Outcomes
<1>22. CASE AppExecutionFails
  BY <1>0, <1>22, CleanUp
     DEF AppExecutionFails, Abort, TypeOK, Measuring, Outcomes
<1>23. CASE StartAnalysis
  BY <1>0, <1>23, CleanUp
     DEF StartAnalysis, Goto, TypeOK, Measuring, Outcomes
<1>24. CASE StartAnalysisRaises
  BY <1>0, <1>24, CleanUp
     DEF StartAnalysisRaises, TypeOK, Measuring, Outcomes, Router
<1>25. CASE Analysis1Ended
  BY <1>0, <1>25
     DEF Analysis1Ended, Goto, TypeOK, Measuring, Outcomes
<1>26. CASE Analysis1Failed
  BY <1>0, <1>26, CleanUp
     DEF Analysis1Failed, Abort, TypeOK, Measuring, Outcomes
<1>27. CASE Analysis2Ended
  BY <1>0, <1>27
     DEF Analysis2Ended, Goto, TypeOK, Measuring, Outcomes
<1>28. CASE Analysis2Failed
  BY <1>0, <1>28, CleanUp
     DEF Analysis2Failed, Abort, TypeOK, Measuring, Outcomes
<1>29. CASE Save1
  BY <1>0, <1>29
     DEF Save1, Goto, TypeOK, Measuring, Outcomes
<1>30. CASE Save1Fails
  BY <1>0, <1>30, CleanUp
     DEF Save1Fails, Abort, TypeOK, Measuring, Outcomes
<1>31. CASE Save2
  BY <1>0, <1>31, CleanUp
     DEF Save2, TypeOK, Measuring, Outcomes
<1>32. CASE Save2Fails
  BY <1>0, <1>32, CleanUp
     DEF Save2Fails, Abort, TypeOK, Measuring, Outcomes
<1>33. CASE ForceStop1
  BY <1>0, <1>33, TearsDown
     DEF ForceStop1, Goto, TypeOK, Measuring, Outcomes, Router
<1>34. CASE ForceStop1Fails
  BY <1>0, <1>34, HangsUp, TearsDown
     DEF ForceStop1Fails, End, TypeOK, Measuring, Outcomes, Router
<1>35. CASE ForceStop2
  BY <1>0, <1>35, HangsUp
     DEF ForceStop2, End, TypeOK, Measuring, Outcomes
<1>36. CASE ForceStop2Fails
  BY <1>0, <1>36, HangsUp
     DEF ForceStop2Fails, End, TypeOK, Measuring, Outcomes
<1>37. CASE NextExperiment
  BY <1>0, <1>37
     DEF NextExperiment, TypeOK, Measuring, Outcomes, Exp, GoesOn
<1>38. ASSUME NEW x \in Exp, NEW r \in Router, NetStartsTunnel(x, r) PROVE TypeOK'
  BY <1>0, <1>38
     DEF NetStartsTunnel, TypeOK, Measuring, Outcomes, NetState, control
<1>39. ASSUME NEW x \in Exp, NEW r \in Router, TunnelDies(x, r) PROVE TypeOK'
  BY <1>0, <1>39
     DEF TunnelDies, TypeOK, Measuring, Outcomes, control
<1>40. ASSUME NEW x \in Exp, NEW r \in Router, NetExits(x, r) PROVE TypeOK'
  BY <1>0, <1>40
     DEF NetExits, TypeOK, Measuring, Outcomes, NetState, control
<1>41. ASSUME NEW r \in Router, MeasEnds(r) PROVE TypeOK'
  BY <1>0, <1>41
     DEF MeasEnds, TypeOK, Measuring, Outcomes, control
<1>42. ASSUME NEW r \in Router, AnaEnds(r) PROVE TypeOK'
  BY <1>0, <1>42
     DEF AnaEnds, TypeOK, Measuring, Outcomes, control
<1>43. ASSUME NEW x \in Exp, Tear2Runs(x) PROVE TypeOK'
  BY <1>0, <1>43, TearsDown
     DEF Tear2Runs, TypeOK, Measuring, Outcomes, control, Router
<1>44. ASSUME ConnectionLost PROVE TypeOK'
  BY <1>0, <1>44, HangsUp
     DEF ConnectionLost, TypeOK, Measuring, Outcomes
<1> QED
  BY <1>1, <1>2, <1>3, <1>4, <1>5, <1>6, <1>7, <1>8, <1>9, <1>10, <1>11, <1>12, <1>13, <1>14,
     <1>15, <1>16, <1>17, <1>18, <1>19, <1>20, <1>21, <1>22, <1>23, <1>24, <1>25, <1>26, <1>27,
     <1>28, <1>29, <1>30, <1>31, <1>32, <1>33, <1>34, <1>35, <1>36, <1>37, <1>38, <1>39, <1>40,
     <1>41, <1>42, <1>43, <1>44
     DEF Next, Controls, SetUp, Applications, Finish, Processes

(* Every step keeps what is known of network.py and the tunnels on router 1. *)
LEMMA Router1Next ==
    ASSUME TypeOK, Router1Inv, Next
    PROVE  Router1Inv'
<1>0. /\ e \in Exp /\ Exp \subseteq Nat /\ 1 \in Router /\ 2 \in Router
      /\ net \in [Exp -> [Router -> NetState]]
      /\ tun \in [Exp -> [Router -> {"none", "up", "dead"}]]
      /\ outcome # "none" => pc = "ended"
      /\ tear2 \in [Exp -> {"none", "pending", "done"}]
      /\ app \in Nat /\ TypeOK
  BY ControllerAssumption DEF TypeOK, Exp, Router
<1>1. CASE Connect
  BY <1>0, <1>1
     DEF Connect, Goto, Router1Inv, Started, Torn, Measuring, GoesOn, Signalled, SigNet
<1>2. CASE ConnectFails
  BY <1>0, <1>2, HangsUp
     DEF ConnectFails, End, Router1Inv, Started, Torn, Measuring, GoesOn, Signalled, SigNet
<1>3. CASE NetworkSetup1
  BY <1>0, <1>3
     DEF NetworkSetup1, Goto, Router1Inv, Started, Torn, Measuring, GoesOn, Signalled, SigNet
<1>4. CASE NetworkSetup2
  BY <1>0, <1>4
     DEF NetworkSetup2, Goto, Router1Inv, Started, Torn, Measuring, GoesOn, Signalled, SigNet
<1>5. CASE NetworkSetup2Fails
  BY <1>0, <1>5, HangsUp
     DEF NetworkSetup2Fails, Uncaught, End, Router1Inv, Started, Torn, Measuring, GoesOn,
         Signalled, SigNet
<1>6. CASE LocationSetup
  BY <1>0, <1>6
     DEF LocationSetup, Goto, Router1Inv, Started, Torn, Measuring, GoesOn, Signalled, SigNet
<1>7. CASE LocationSetupFails
  BY <1>0, <1>7, HangsUp
     DEF LocationSetupFails, End, Router1Inv, Started, Torn, Measuring, GoesOn, Signalled,
         SigNet
<1>8. CASE NetworkCheck1
  BY <1>0, <1>8
     DEF NetworkCheck1, Goto, Router1Inv, Started, Torn, Measuring, GoesOn, Signalled, SigNet,
         SetupTimePassed
<1>9. CASE NetworkCheck1Fails
  BY <1>0, <1>9, CleanUp
     DEF NetworkCheck1Fails, Abort, Router1Inv, Started, Torn, Measuring, GoesOn, Signalled,
         SigNet, SetupTimePassed
<1>10. CASE NetworkCheck2
  BY <1>0, <1>10
     DEF NetworkCheck2, Goto, Router1Inv, Started, Torn, Measuring, GoesOn, Signalled, SigNet
<1>11. CASE NetworkCheck2Fails
  BY <1>0, <1>11, CleanUp
     DEF NetworkCheck2Fails, Abort, Router1Inv, Started, Torn, Measuring, GoesOn, Signalled,
         SigNet
<1>12. CASE NetworkCheck2Raises
  BY <1>0, <1>12, HangsUp
     DEF NetworkCheck2Raises, Uncaught, End, Router1Inv, Started, Torn, Measuring, GoesOn,
         Signalled, SigNet
<1>13. CASE Tunnel1Lost
  BY <1>0, <1>13, CleanUp
     DEF Tunnel1Lost, Abort, Router1Inv, Started, Torn, Measuring, GoesOn, Signalled, SigNet
<1>14. CASE Tunnel2Lost
  BY <1>0, <1>14, CleanUp
     DEF Tunnel2Lost, Abort, Router1Inv, Started, Torn, Measuring, GoesOn, Signalled, SigNet
<1>15. CASE TunnelsWork
  BY <1>0, <1>15
     DEF TunnelsWork, Goto, Router1Inv, Started, Torn, Measuring, GoesOn, Signalled, SigNet
<1>16. CASE MeasurementSetup
  BY <1>0, <1>16
     DEF MeasurementSetup, Goto, Router1Inv, Started, Torn, Measuring, GoesOn, Signalled, SigNet
<1>17. CASE MeasurementSetupRaises
  BY <1>0, <1>17
     DEF MeasurementSetupRaises, Router1Inv, Started, Torn, Measuring, GoesOn, Signalled, SigNet
<1>18. CASE Measurement1Failed
  BY <1>0, <1>18, CleanUp
     DEF Measurement1Failed, Abort, Router1Inv, Started, Torn, Measuring, GoesOn, Signalled,
         SigNet
<1>19. CASE Measurement2Failed
  BY <1>0, <1>19, CleanUp
     DEF Measurement2Failed, Abort, Router1Inv, Started, Torn, Measuring, GoesOn, Signalled,
         SigNet
<1>20. CASE MeasurementRuns
  BY <1>0, <1>20
     DEF MeasurementRuns, Goto, Router1Inv, Started, Torn, Measuring, GoesOn, Signalled, SigNet
<1>21. CASE AppExecution
  BY <1>0, <1>21
     DEF AppExecution, Goto, Router1Inv, Started, Torn, Measuring, GoesOn, Signalled, SigNet
<1>22. CASE AppExecutionFails
  BY <1>0, <1>22, CleanUp
     DEF AppExecutionFails, Abort, Router1Inv, Started, Torn, Measuring, GoesOn, Signalled,
         SigNet
<1>23. CASE StartAnalysis
  BY <1>0, <1>23, CleanUp
     DEF StartAnalysis, Goto, Router1Inv, Started, Torn, Measuring, GoesOn, Signalled, SigNet
<1>24. CASE StartAnalysisRaises
  BY <1>0, <1>24, CleanUp
     DEF StartAnalysisRaises, Router1Inv, Started, Torn, Measuring, GoesOn, Signalled, SigNet
<1>25. CASE Analysis1Ended
  BY <1>0, <1>25
     DEF Analysis1Ended, Goto, Router1Inv, Started, Torn, Measuring, GoesOn, Signalled, SigNet
<1>26. CASE Analysis1Failed
  BY <1>0, <1>26, CleanUp
     DEF Analysis1Failed, Abort, Router1Inv, Started, Torn, Measuring, GoesOn, Signalled, SigNet
<1>27. CASE Analysis2Ended
  BY <1>0, <1>27
     DEF Analysis2Ended, Goto, Router1Inv, Started, Torn, Measuring, GoesOn, Signalled, SigNet
<1>28. CASE Analysis2Failed
  BY <1>0, <1>28, CleanUp
     DEF Analysis2Failed, Abort, Router1Inv, Started, Torn, Measuring, GoesOn, Signalled, SigNet
<1>29. CASE Save1
  BY <1>0, <1>29
     DEF Save1, Goto, Router1Inv, Started, Torn, Measuring, GoesOn, Signalled, SigNet
<1>30. CASE Save1Fails
  BY <1>0, <1>30, CleanUp
     DEF Save1Fails, Abort, Router1Inv, Started, Torn, Measuring, GoesOn, Signalled, SigNet
<1>31. CASE Save2
  BY <1>0, <1>31, CleanUp
     DEF Save2, Router1Inv, Started, Torn, Measuring, GoesOn, Signalled, SigNet
<1>32. CASE Save2Fails
  BY <1>0, <1>32, CleanUp
     DEF Save2Fails, Abort, Router1Inv, Started, Torn, Measuring, GoesOn, Signalled, SigNet
<1>33. CASE ForceStop1
  BY <1>0, <1>33, TearsDown
     DEF ForceStop1, Goto, Router1Inv, Started, Torn, Measuring, GoesOn, Signalled, SigNet,
         TearDown, Oldest
<1>34. CASE ForceStop1Fails
  <2>1. \A x \in Exp : \/ tun'[x][1] = tun[x][1]
                       \/ tun[x][1] = "up" /\ tun'[x][1] = "dead"
    BY <1>0, <1>34, TearsDown DEF ForceStop1Fails
  <2>2. Signalled /\ pc' = "ended" /\ e' = e /\ outcome' = "fatal"
    BY <1>0, <1>34, HangsUp DEF ForceStop1Fails, End
  <2> QED
    BY <1>0, <1>34, <2>1, <2>2
       DEF ForceStop1Fails, Router1Inv, Started, Torn, Measuring, GoesOn, Signalled, SigNet
<1>35. CASE ForceStop2
  BY <1>0, <1>35, HangsUp
     DEF ForceStop2, End, Router1Inv, Started, Torn, Measuring, GoesOn, Signalled, SigNet
<1>36. CASE ForceStop2Fails
  BY <1>0, <1>36, HangsUp
     DEF ForceStop2Fails, End, Router1Inv, Started, Torn, Measuring, GoesOn, Signalled, SigNet
<1>37. CASE NextExperiment
  BY <1>0, <1>37
     DEF NextExperiment, Router1Inv, Started, Torn, Measuring, GoesOn, Signalled, SigNet
<1>38. ASSUME NEW x \in Exp, NEW r \in Router, NetStartsTunnel(x, r) PROVE Router1Inv'
  BY <1>0, <1>38
     DEF NetStartsTunnel, Router1Inv, Started, Torn, Measuring, GoesOn, Signalled, SigNet,
         control
<1>39. ASSUME NEW x \in Exp, NEW r \in Router, TunnelDies(x, r) PROVE Router1Inv'
  BY <1>0, <1>39
     DEF TunnelDies, Router1Inv, Started, Torn, Measuring, GoesOn, Signalled, SigNet, control
<1>40. ASSUME NEW x \in Exp, NEW r \in Router, NetExits(x, r) PROVE Router1Inv'
  BY <1>0, <1>40
     DEF NetExits, Router1Inv, Started, Torn, Measuring, GoesOn, Signalled, SigNet, control
<1>41. ASSUME NEW r \in Router, MeasEnds(r) PROVE Router1Inv'
  BY <1>0, <1>41
     DEF MeasEnds, Router1Inv, Started, Torn, Measuring, GoesOn, Signalled, SigNet, control
<1>42. ASSUME NEW r \in Router, AnaEnds(r) PROVE Router1Inv'
  BY <1>0, <1>42
     DEF AnaEnds, Router1Inv, Started, Torn, Measuring, GoesOn, Signalled, SigNet, control
<1>43. ASSUME NEW x \in Exp, Tear2Runs(x) PROVE Router1Inv'
  <2>1. \A y \in Exp : \/ tun'[y][1] = tun[y][1]
                       \/ tun[y][1] = "up" /\ tun'[y][1] = "dead"
    BY <1>0, <1>43, TearsDown DEF Tear2Runs
  <2>2. UNCHANGED <<pc, e, outcome, net>>
    BY <1>43 DEF Tear2Runs, control
  <2> QED
    BY <1>0, <2>1, <2>2 DEF Router1Inv, Started, Torn
<1>44. ASSUME ConnectionLost PROVE Router1Inv'
  BY <1>0, <1>44, HangsUp
     DEF ConnectionLost, Router1Inv, Started, Torn, Measuring, GoesOn, Signalled, SigNet
<1> QED
  BY <1>1, <1>2, <1>3, <1>4, <1>5, <1>6, <1>7, <1>8, <1>9, <1>10, <1>11, <1>12, <1>13, <1>14,
     <1>15, <1>16, <1>17, <1>18, <1>19, <1>20, <1>21, <1>22, <1>23, <1>24, <1>25, <1>26, <1>27,
     <1>28, <1>29, <1>30, <1>31, <1>32, <1>33, <1>34, <1>35, <1>36, <1>37, <1>38, <1>39, <1>40,
     <1>41, <1>42, <1>43, <1>44
     DEF Next, Controls, SetUp, Applications, Finish, Processes

(* Every step keeps what is known of lost tunnels and of the outcomes. *)
LEMMA LossNext ==
    ASSUME TypeOK, LossInv, BlameInv, OutcomesTrue, Next
    PROVE  LossInv' /\ BlameInv' /\ OutcomesTrue'
<1>0. /\ e \in Exp /\ Exp \subseteq Nat /\ 1 \in Router /\ 2 \in Router
      /\ net \in [Exp -> [Router -> NetState]]
      /\ tun \in [Exp -> [Router -> {"none", "up", "dead"}]]
      /\ outcome # "none" => pc = "ended"
      /\ tear2 \in [Exp -> {"none", "pending", "done"}]
      /\ meas \in [Router -> {"none", "running", "stopping", "exited"}]
      /\ app \in Nat /\ TypeOK
  BY ControllerAssumption DEF TypeOK, Exp, Router
<1>1. CASE Connect
  BY <1>0, <1>1
     DEF Connect, Goto, LossInv, BlameInv, OutcomesTrue, ExitNoticed, HostBlamed, Measuring,
         GoesOn, Signalled, SigNet, SigMeas
<1>2. CASE ConnectFails
  BY <1>0, <1>2, HangsUp
     DEF ConnectFails, End, LossInv, BlameInv, OutcomesTrue, ExitNoticed, HostBlamed, Measuring,
         GoesOn, Signalled, SigNet, SigMeas
<1>3. CASE NetworkSetup1
  BY <1>0, <1>3
     DEF NetworkSetup1, Goto, LossInv, BlameInv, OutcomesTrue, ExitNoticed, HostBlamed,
         Measuring, GoesOn, Signalled, SigNet, SigMeas
<1>4. CASE NetworkSetup2
  BY <1>0, <1>4
     DEF NetworkSetup2, Goto, LossInv, BlameInv, OutcomesTrue, ExitNoticed, HostBlamed,
         Measuring, GoesOn, Signalled, SigNet, SigMeas
<1>5. CASE NetworkSetup2Fails
  BY <1>0, <1>5, HangsUp
     DEF NetworkSetup2Fails, Uncaught, End, LossInv, BlameInv, OutcomesTrue, ExitNoticed,
         HostBlamed, Measuring, GoesOn, Signalled, SigNet, SigMeas
<1>6. CASE LocationSetup
  BY <1>0, <1>6
     DEF LocationSetup, Goto, LossInv, BlameInv, OutcomesTrue, ExitNoticed, HostBlamed,
         Measuring, GoesOn, Signalled, SigNet, SigMeas
<1>7. CASE LocationSetupFails
  BY <1>0, <1>7, HangsUp
     DEF LocationSetupFails, End, LossInv, BlameInv, OutcomesTrue, ExitNoticed, HostBlamed,
         Measuring, GoesOn, Signalled, SigNet, SigMeas
<1>8. CASE NetworkCheck1
  BY <1>0, <1>8
     DEF NetworkCheck1, Goto, LossInv, BlameInv, OutcomesTrue, ExitNoticed, HostBlamed,
         Measuring, GoesOn, Signalled, SigNet, SigMeas
<1>9. CASE NetworkCheck1Fails
  BY <1>0, <1>9, CleanUp
     DEF NetworkCheck1Fails, Abort, LossInv, BlameInv, OutcomesTrue, ExitNoticed, HostBlamed,
         Measuring, GoesOn, Signalled, SigNet, SigMeas
<1>10. CASE NetworkCheck2
  BY <1>0, <1>10
     DEF NetworkCheck2, Goto, LossInv, BlameInv, OutcomesTrue, ExitNoticed, HostBlamed,
         Measuring, GoesOn, Signalled, SigNet, SigMeas
<1>11. CASE NetworkCheck2Fails
  BY <1>0, <1>11, CleanUp
     DEF NetworkCheck2Fails, Abort, LossInv, BlameInv, OutcomesTrue, ExitNoticed, HostBlamed,
         Measuring, GoesOn, Signalled, SigNet, SigMeas
<1>12. CASE NetworkCheck2Raises
  BY <1>0, <1>12, HangsUp
     DEF NetworkCheck2Raises, Uncaught, End, LossInv, BlameInv, OutcomesTrue, ExitNoticed,
         HostBlamed, Measuring, GoesOn, Signalled, SigNet, SigMeas
<1>13. CASE Tunnel1Lost
  BY <1>0, <1>13, CleanUp
     DEF Tunnel1Lost, Abort, LossInv, BlameInv, OutcomesTrue, ExitNoticed, HostBlamed, Measuring,
         GoesOn, Signalled, SigNet, SigMeas
<1>14. CASE Tunnel2Lost
  BY <1>0, <1>14, CleanUp
     DEF Tunnel2Lost, Net2Ready, Abort, LossInv, BlameInv, OutcomesTrue, ExitNoticed, HostBlamed, Measuring,
         GoesOn, Signalled, SigNet, SigMeas
<1>15. CASE TunnelsWork
  BY <1>0, <1>15
     DEF TunnelsWork, Goto, LossInv, BlameInv, OutcomesTrue, ExitNoticed, HostBlamed, Measuring,
         GoesOn, Signalled, SigNet, SigMeas, Net2Ready, Router
<1>16. CASE MeasurementSetup
  BY <1>0, <1>16
     DEF MeasurementSetup, Goto, LossInv, BlameInv, OutcomesTrue, ExitNoticed, HostBlamed,
         Measuring, GoesOn, Signalled, SigNet, SigMeas
<1>17. CASE MeasurementSetupRaises
  BY <1>0, <1>17
     DEF MeasurementSetupRaises, LossInv, BlameInv, OutcomesTrue, ExitNoticed, HostBlamed,
         Measuring, GoesOn, Signalled, SigNet, SigMeas
<1>18. CASE Measurement1Failed
  BY <1>0, <1>18, CleanUp
     DEF Measurement1Failed, Abort, LossInv, BlameInv, OutcomesTrue, ExitNoticed, HostBlamed,
         Measuring, GoesOn, Signalled, SigNet, SigMeas
<1>19. CASE Measurement2Failed
  BY <1>0, <1>19, CleanUp
     DEF Measurement2Failed, Abort, LossInv, BlameInv, OutcomesTrue, ExitNoticed, HostBlamed,
         Measuring, GoesOn, Signalled, SigNet, SigMeas
<1>20. CASE MeasurementRuns
  BY <1>0, <1>20
     DEF MeasurementRuns, Goto, LossInv, BlameInv, OutcomesTrue, ExitNoticed, HostBlamed,
         Measuring, GoesOn, Signalled, SigNet, SigMeas
<1>21. CASE AppExecution
  BY <1>0, <1>21
     DEF AppExecution, Goto, LossInv, BlameInv, OutcomesTrue, ExitNoticed, HostBlamed, Measuring,
         GoesOn, Signalled, SigNet, SigMeas
<1>22. CASE AppExecutionFails
  BY <1>0, <1>22, CleanUp
     DEF AppExecutionFails, Abort, LossInv, BlameInv, OutcomesTrue, ExitNoticed, HostBlamed,
         Measuring, GoesOn, Signalled, SigNet, SigMeas
<1>23. CASE StartAnalysis
  BY <1>0, <1>23, CleanUp
     DEF StartAnalysis, Goto, LossInv, BlameInv, OutcomesTrue, ExitNoticed, HostBlamed,
         Measuring, GoesOn, Signalled, SigNet, SigMeas
<1>24. CASE StartAnalysisRaises
  BY <1>0, <1>24, CleanUp
     DEF StartAnalysisRaises, LossInv, BlameInv, OutcomesTrue, ExitNoticed, HostBlamed,
         Measuring, GoesOn, Signalled, SigNet, SigMeas
<1>25. CASE Analysis1Ended
  BY <1>0, <1>25
     DEF Analysis1Ended, Goto, LossInv, BlameInv, OutcomesTrue, ExitNoticed, HostBlamed,
         Measuring, GoesOn, Signalled, SigNet, SigMeas
<1>26. CASE Analysis1Failed
  BY <1>0, <1>26, CleanUp
     DEF Analysis1Failed, Abort, LossInv, BlameInv, OutcomesTrue, ExitNoticed, HostBlamed,
         Measuring, GoesOn, Signalled, SigNet, SigMeas
<1>27. CASE Analysis2Ended
  BY <1>0, <1>27
     DEF Analysis2Ended, Goto, LossInv, BlameInv, OutcomesTrue, ExitNoticed, HostBlamed,
         Measuring, GoesOn, Signalled, SigNet, SigMeas
<1>28. CASE Analysis2Failed
  BY <1>0, <1>28, CleanUp
     DEF Analysis2Failed, Abort, LossInv, BlameInv, OutcomesTrue, ExitNoticed, HostBlamed,
         Measuring, GoesOn, Signalled, SigNet, SigMeas
<1>29. CASE Save1
  BY <1>0, <1>29
     DEF Save1, Goto, LossInv, BlameInv, OutcomesTrue, ExitNoticed, HostBlamed, Measuring,
         GoesOn, Signalled, SigNet, SigMeas
<1>30. CASE Save1Fails
  BY <1>0, <1>30, CleanUp
     DEF Save1Fails, Abort, LossInv, BlameInv, OutcomesTrue, ExitNoticed, HostBlamed, Measuring,
         GoesOn, Signalled, SigNet, SigMeas
<1>31. CASE Save2
  BY <1>0, <1>31, CleanUp
     DEF Save2, LossInv, BlameInv, OutcomesTrue, ExitNoticed, HostBlamed, Measuring, GoesOn,
         Signalled, SigNet, SigMeas
<1>32. CASE Save2Fails
  BY <1>0, <1>32, CleanUp
     DEF Save2Fails, Abort, LossInv, BlameInv, OutcomesTrue, ExitNoticed, HostBlamed, Measuring,
         GoesOn, Signalled, SigNet, SigMeas
<1>33. CASE ForceStop1
  BY <1>0, <1>33, TearsDown
     DEF ForceStop1, Goto, LossInv, BlameInv, OutcomesTrue, ExitNoticed, HostBlamed, Measuring,
         GoesOn, Signalled, SigNet, SigMeas
<1>34. CASE ForceStop1Fails
  BY <1>0, <1>34, HangsUp, TearsDown
     DEF ForceStop1Fails, End, LossInv, BlameInv, OutcomesTrue, ExitNoticed, HostBlamed,
         Measuring, GoesOn, Signalled, SigNet, SigMeas
<1>35. CASE ForceStop2
  BY <1>0, <1>35, HangsUp
     DEF ForceStop2, End, LossInv, BlameInv, OutcomesTrue, ExitNoticed, HostBlamed, Measuring,
         GoesOn, Signalled, SigNet, SigMeas
<1>36. CASE ForceStop2Fails
  BY <1>0, <1>36, HangsUp
     DEF ForceStop2Fails, End, LossInv, BlameInv, OutcomesTrue, ExitNoticed, HostBlamed,
         Measuring, GoesOn, Signalled, SigNet, SigMeas
<1>37. CASE NextExperiment
  BY <1>0, <1>37
     DEF NextExperiment, LossInv, BlameInv, OutcomesTrue, ExitNoticed, HostBlamed, Measuring,
         GoesOn, Signalled, SigNet, SigMeas
<1>38. ASSUME NEW x \in Exp, NEW r \in Router, NetStartsTunnel(x, r) PROVE LossInv' /\ BlameInv' /\ OutcomesTrue'
  BY <1>0, <1>38
     DEF NetStartsTunnel, LossInv, BlameInv, OutcomesTrue, ExitNoticed, HostBlamed, Measuring,
         GoesOn, Signalled, SigNet, SigMeas, control
<1>39. ASSUME NEW x \in Exp, NEW r \in Router, TunnelDies(x, r) PROVE LossInv' /\ BlameInv' /\ OutcomesTrue'
  BY <1>0, <1>39
     DEF TunnelDies, LossInv, BlameInv, OutcomesTrue, ExitNoticed, HostBlamed, Measuring, GoesOn,
         Signalled, SigNet, SigMeas, control
<1>40. ASSUME NEW x \in Exp, NEW r \in Router, NetExits(x, r) PROVE LossInv' /\ BlameInv' /\ OutcomesTrue'
  BY <1>0, <1>40
     DEF NetExits, LossInv, BlameInv, OutcomesTrue, ExitNoticed, HostBlamed, Measuring, GoesOn,
         Signalled, SigNet, SigMeas, control
<1>41. ASSUME NEW r \in Router, MeasEnds(r) PROVE LossInv' /\ BlameInv' /\ OutcomesTrue'
  BY <1>0, <1>41
     DEF MeasEnds, LossInv, BlameInv, OutcomesTrue, ExitNoticed, HostBlamed, Measuring, GoesOn,
         Signalled, SigNet, SigMeas, control
<1>42. ASSUME NEW r \in Router, AnaEnds(r) PROVE LossInv' /\ BlameInv' /\ OutcomesTrue'
  BY <1>0, <1>42
     DEF AnaEnds, LossInv, BlameInv, OutcomesTrue, ExitNoticed, HostBlamed, Measuring, GoesOn,
         Signalled, SigNet, SigMeas, control
<1>43. ASSUME NEW x \in Exp, Tear2Runs(x) PROVE LossInv' /\ BlameInv' /\ OutcomesTrue'
  BY <1>0, <1>43, TearsDown
     DEF Tear2Runs, LossInv, BlameInv, OutcomesTrue, ExitNoticed, HostBlamed, Measuring, GoesOn,
         Signalled, SigNet, SigMeas, control
<1>44. ASSUME ConnectionLost PROVE LossInv' /\ BlameInv' /\ OutcomesTrue'
  BY <1>0, <1>44, HangsUp
     DEF ConnectionLost, LossInv, BlameInv, OutcomesTrue, ExitNoticed, HostBlamed, Measuring,
         GoesOn, Signalled, SigNet, SigMeas
<1> QED
  BY <1>1, <1>2, <1>3, <1>4, <1>5, <1>6, <1>7, <1>8, <1>9, <1>10, <1>11, <1>12, <1>13, <1>14,
     <1>15, <1>16, <1>17, <1>18, <1>19, <1>20, <1>21, <1>22, <1>23, <1>24, <1>25, <1>26, <1>27,
     <1>28, <1>29, <1>30, <1>31, <1>32, <1>33, <1>34, <1>35, <1>36, <1>37, <1>38, <1>39, <1>40,
     <1>41, <1>42, <1>43, <1>44
     DEF Next, Controls, SetUp, Applications, Finish, Processes

(* The invariant of experiment() and the processes it starts. *)
THEOREM ControllerAlways == Spec => []ControllerInv
<1>1. Init => ControllerInv
  <2> SUFFICES ASSUME Init PROVE ControllerInv
    OBVIOUS
  <2>1. MaxExperiments \in Nat /\ 1 <= MaxExperiments /\ NumApps \in Nat
    BY ControllerAssumption
  <2>2. TypeOK
    <3>1. e \in Exp /\ app \in 0 .. NumApps /\ pc = "connect" /\ pc \notin Measuring
      BY <2>1 DEF Init, Exp, Measuring
    <3>2. /\ net \in [Exp -> [Router -> NetState]]
          /\ tun \in [Exp -> [Router -> {"none", "up", "dead"}]]
          /\ meas \in [Router -> {"none", "running", "stopping", "exited"}]
          /\ ana \in [Router -> {"none", "running", "ok", "failed"}]
          /\ tear2 \in [Exp -> {"none", "pending", "done"}]
      BY DEF Init, NetState
    <3>3. conn \in BOOLEAN /\ intended \in Outcomes /\ outcome = "none"
      BY DEF Init, Outcomes
    <3> QED
      BY <3>1, <3>2, <3>3 DEF TypeOK
  <2>3. Router1Inv
    BY <2>1 DEF Init, Router1Inv, Started, Torn, Measuring, GoesOn, Exp, Router
  <2>4. LossInv /\ BlameInv /\ OutcomesTrue
    BY DEF Init, LossInv, BlameInv, OutcomesTrue, ExitNoticed, HostBlamed, Measuring, GoesOn
  <2> QED
    BY <2>2, <2>3, <2>4 DEF ControllerInv
<1>2. ControllerInv /\ [Next]_vars => ControllerInv'
  <2> SUFFICES ASSUME ControllerInv, [Next]_vars PROVE ControllerInv'
    OBVIOUS
  <2>1. CASE Next
    BY <2>1, TypeNext, Router1Next, LossNext DEF ControllerInv
  <2>2. CASE UNCHANGED vars
    <3>1. TypeOK'
      BY <2>2 DEF ControllerInv, TypeOK, vars, control
    <3>2. Router1Inv'
      BY <2>2 DEF ControllerInv, Router1Inv, Started, Torn, vars, control
    <3>3. LossInv' /\ BlameInv' /\ OutcomesTrue'
      BY <2>2 DEF ControllerInv, LossInv, BlameInv, OutcomesTrue, ExitNoticed, HostBlamed,
                  vars, control
    <3> QED
      BY <3>1, <3>2, <3>3 DEF ControllerInv
  <2> QED
    BY <2>1, <2>2
<1> QED
  BY <1>1, <1>2, PTL DEF Spec

(* What experiment() reports is true: a call that succeeds had network.py  *)
(* of both routers running through all applications but the last, and once *)
(* an application is finished the host blamed for a failure is the one     *)
(* whose network.py, or on router 1 whose tcpdump, has ended.              *)
THEOREM OutcomesAreTrue == Spec => []OutcomesTrue
<1>1. ControllerInv => OutcomesTrue
  BY DEF ControllerInv
<1> QED
  BY <1>1, ControllerAlways, PTL

(* When a call starts network.py on router 1, no tunnel of an earlier call *)
(* runs there: force_stop() of every call that lets the wrapper go on was  *)
(* run when its network.py could start no tunnel any more.                 *)
THEOREM Router1IsFree == Spec => []NoOldTunnelOnRouter1
<1>1. ControllerInv => NoOldTunnelOnRouter1
  BY DEF ControllerInv, Router1Inv, NoOldTunnelOnRouter1
<1> QED
  BY <1>1, ControllerAlways, PTL
=============================================================================
