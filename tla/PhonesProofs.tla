---------------------------- MODULE PhonesProofs -----------------------------
(***************************************************************************)
(* Proofs about module Phones, for any number of phones, applications,     *)
(* messages and experiments, and any of the phones with iptables and with  *)
(* XPrivacy.                                                               *)
(***************************************************************************)
EXTENDS Phones, FiniteSetTheorems, SequenceTheorems, TLAPS

(* The script of app_execution.py, position by position. *)
LEMMA AppExecutionAt ==
    /\ Len(AppExecution) = NumMessages + 10
    /\ AppExecution[1] = "start_screencast"
    /\ AppExecution[2] = "activate_screen"
    /\ AppExecution[3] = "firewall_open_uid"
    /\ AppExecution[4] = "start_wifi"
    /\ AppExecution[5] = "start_application"
    /\ \A k \in 1 .. NumMessages : AppExecution[k + 5] = "send_message"
    /\ AppExecution[NumMessages + 6] = "close_application"
    /\ AppExecution[NumMessages + 7] = "firewall_close_uid"
    /\ AppExecution[NumMessages + 8] = "stop_wifi"
    /\ AppExecution[NumMessages + 9] = "sleep"
    /\ AppExecution[NumMessages + 10] = "stop_screencast"
<1> DEFINE a == <<"start_screencast", "activate_screen", "firewall_open_uid",
                  "start_wifi", "start_application">>
           b == [k \in 1 .. NumMessages |-> "send_message"]
           c == <<"close_application", "firewall_close_uid", "stop_wifi",
                  "sleep", "stop_screencast">>
           S == {"start_screencast", "activate_screen", "firewall_open_uid", "start_wifi",
                 "start_application", "send_message", "close_application",
                 "firewall_close_uid", "stop_wifi", "sleep", "stop_screencast"}
<1>1. NumMessages \in Nat
  BY PhonesAssumption
<1>2. a \in Seq(S) /\ Len(a) = 5 /\ c \in Seq(S) /\ Len(c) = 5
  OBVIOUS
<1>3. b \in Seq(S) /\ Len(b) = NumMessages /\ \A k \in 1 .. NumMessages : b[k] = "send_message"
  BY <1>1
<1>4. AppExecution = (a \o b) \o c
  BY ConcatAssociative, <1>2, <1>3 DEF AppExecution
<1>5. /\ a[1] = "start_screencast" /\ a[2] = "activate_screen" /\ a[3] = "firewall_open_uid"
      /\ a[4] = "start_wifi" /\ a[5] = "start_application"
      /\ c[1] = "close_application" /\ c[2] = "firewall_close_uid" /\ c[3] = "stop_wifi"
      /\ c[4] = "sleep" /\ c[5] = "stop_screencast"
  OBVIOUS
<1> DEFINE d == a \o b
<1> HIDE DEF a, b, c, S, d
<1>6. /\ d \in Seq(S) /\ Len(d) = Len(a) + Len(b)
      /\ \A i \in 1 .. Len(a) + Len(b) : d[i] = IF i <= Len(a) THEN a[i] ELSE b[i - Len(a)]
  BY <1>2, <1>3, ConcatProperties, Zenon DEF d
<1>7. \A i \in 1 .. NumMessages + 5 : d[i] = IF i <= 5 THEN a[i] ELSE "send_message"
  <2>1. ASSUME NEW i \in 1 .. NumMessages + 5
        PROVE  d[i] = IF i <= 5 THEN a[i] ELSE b[i - 5]
    BY <1>1, <1>2, <1>3, <1>6, <2>1
  <2>2. ASSUME NEW i \in 1 .. NumMessages + 5, ~(i <= 5)
        PROVE  b[i - 5] = "send_message"
    BY <1>1, <1>3, <2>2
  <2> QED
    BY <1>1, <2>1, <2>2
<1>8. /\ AppExecution = d \o c
      /\ Len(AppExecution) = Len(d) + Len(c)
      /\ \A i \in 1 .. Len(d) + Len(c) :
            AppExecution[i] = IF i <= Len(d) THEN d[i] ELSE c[i - Len(d)]
  <2>1. AppExecution = d \o c
    BY <1>4 DEF d
  <2>2. /\ Len(d \o c) = Len(d) + Len(c)
        /\ \A i \in 1 .. Len(d) + Len(c) :
              (d \o c)[i] = IF i <= Len(d) THEN d[i] ELSE c[i - Len(d)]
    <3>1. d \in Seq(S) /\ c \in Seq(S)
      BY <1>2, <1>6
    <3> QED
      BY <3>1, ConcatProperties, Zenon
  <2> QED
    BY <2>1, <2>2
<1>9. /\ Len(AppExecution) = NumMessages + 10
      /\ \A i \in 1 .. NumMessages + 10 :
            AppExecution[i] = IF i <= NumMessages + 5 THEN d[i] ELSE c[i - (NumMessages + 5)]
  BY <1>1, <1>2, <1>3, <1>6, <1>8
<1>10. ASSUME NEW k \in 1 .. NumMessages PROVE AppExecution[k + 5] = "send_message"
  BY <1>1, <1>7, <1>9, <1>10
<1>11. /\ AppExecution[1] = a[1] /\ AppExecution[2] = a[2] /\ AppExecution[3] = a[3]
       /\ AppExecution[4] = a[4] /\ AppExecution[5] = a[5]
  BY <1>1, <1>7, <1>9
<1>12. /\ AppExecution[NumMessages + 6] = c[1] /\ AppExecution[NumMessages + 7] = c[2]
       /\ AppExecution[NumMessages + 8] = c[3] /\ AppExecution[NumMessages + 9] = c[4]
       /\ AppExecution[NumMessages + 10] = c[5]
  BY <1>1, <1>9
<1> QED
  BY <1>5, <1>9, <1>10, <1>11, <1>12

(* The lengths of the scripts. *)
LEMMA Lengths ==
    /\ Len(Script["iptables_setup"]) = 1 /\ Len(Script["xprivacy_setup"]) = 5
    /\ Len(Script["app_execution"]) = NumMessages + 10
    /\ Len(Script["empty_execution"]) = 6
    /\ Len(Script["clean_up"]) = 3 /\ Len(Script["iptables_end"]) = 1
BY AppExecutionAt DEF Script, IptablesSetup, XprivacySetup, EmptyExecution, CleanUp, IptablesEnd

(* The last position of the script that runs. *)
LEMMA LastIs ==
    /\ script \in {"iptables_setup", "iptables_end"} => Last = 1
    /\ script = "xprivacy_setup" => Last = 5
    /\ script = "app_execution" => Last = NumMessages + 10
    /\ script = "empty_execution" => Last = 6
    /\ script = "clean_up" => Last = 3
BY Lengths DEF Last

(* Where in the scripts a method stands. *)
LEMMA Positions ==
    ASSUME ControlOK, at > 0
    PROVE  /\ Runs("start_screencast") => script \in Tapping /\ at = 1
           /\ Runs("activate_screen") => script \in Tapping /\ at = 2
           /\ Runs("sleep") => \/ script \in Tapping /\ at = Last - 1
                               \/ script = "clean_up" /\ at = 3
           /\ Runs("stop_screencast") => script \in Tapping /\ at = Last
           /\ Runs("xprivacy_set_fake_location") => script = "xprivacy_setup" /\ at = 3
           /\ Runs("firewall_set_up") => script = "iptables_setup"
           /\ Runs("firewall_stop_complete") => script = "iptables_end"
           /\ Runs("firewall_open_uid") => script = "app_execution" /\ at = 3
           /\ Runs("firewall_close_uid") => script = "app_execution" /\ at = NumMessages + 7
           /\ Runs("start_wifi") => \/ script = "app_execution" /\ at = 4
                                    \/ script = "empty_execution" /\ at = 3
           /\ Runs("stop_wifi") => \/ script = "app_execution" /\ at = NumMessages + 8
                                   \/ script = "empty_execution" /\ at = 4
                                   \/ script = "clean_up" /\ at = 1
           /\ Runs("start_application") => script = "app_execution" /\ at = 5
           /\ Runs("close_application") => script = "app_execution" /\ at = NumMessages + 6
           /\ Runs("close_applications") => script = "clean_up" /\ at = 2
           /\ Runs("send_message") => Within(6, NumMessages + 5)
<1>1. NumMessages \in Nat
  BY PhonesAssumption
<1>2. CASE script = "app_execution"
  <2>1. at \in Nat /\ 1 <= at /\ at <= NumMessages + 10
    BY <1>1, <1>2, LastIs DEF ControlOK
  <2>2. Script[script] = AppExecution /\ Last = NumMessages + 10
    BY <1>2, AppExecutionAt DEF Script, Last
  <2>3. CASE at <= 5
    <3>1. at = 1 \/ at = 2 \/ at = 3 \/ at = 4 \/ at = 5
      BY <2>1, <2>3
    <3> QED
      BY <1>1, <1>2, <2>2, <3>1, AppExecutionAt DEF Runs, Tapping, Within
  <2>4. CASE 5 < at /\ at <= NumMessages + 5
    <3>1. at - 5 \in 1 .. NumMessages /\ at = (at - 5) + 5
      BY <1>1, <2>1, <2>4
    <3>2. Script[script][at] = "send_message"
      BY <2>2, <3>1, AppExecutionAt
    <3> QED
      BY <1>2, <2>1, <2>4, <3>2 DEF Runs, Within
  <2>5. CASE NumMessages + 5 < at
    <3>1. \/ at = NumMessages + 6 \/ at = NumMessages + 7 \/ at = NumMessages + 8
          \/ at = NumMessages + 9 \/ at = NumMessages + 10
      BY <1>1, <2>1, <2>5
    <3> QED
      BY <1>1, <1>2, <2>2, <3>1, AppExecutionAt DEF Runs, Tapping, Within
  <2> QED
    BY <1>1, <2>1, <2>3, <2>4, <2>5
<1>3. CASE script # "app_execution"
  <2>1. script \in {"iptables_setup", "xprivacy_setup", "empty_execution", "clean_up", "iptables_end"}
    BY <1>3 DEF ControlOK
  <2>2. at \in 1 .. Last
    BY LastIs, <1>1, <2>1 DEF ControlOK
  <2>3. CASE script = "iptables_setup"
    BY <2>2, <2>3, LastIs DEF Script, IptablesSetup, Runs
  <2>4. CASE script = "iptables_end"
    BY <2>2, <2>4, LastIs DEF Script, IptablesEnd, Runs
  <2>5. CASE script = "clean_up"
    BY <2>2, <2>5, LastIs DEF Script, CleanUp, Runs
  <2>6. CASE script = "xprivacy_setup"
    BY <2>2, <2>6, LastIs DEF Script, XprivacySetup, Runs, Tapping
  <2>7. CASE script = "empty_execution"
    BY <2>2, <2>7, LastIs DEF Script, EmptyExecution, Runs, Tapping
  <2> QED
    BY <2>1, <2>3, <2>4, <2>5, <2>6, <2>7
<1> QED
  BY <1>2, <1>3

(* The methods at the positions that matter. *)
LEMMA At ==
    ASSUME ControlOK
    PROVE  /\ script \in Tapping /\ at = 2 => Runs("activate_screen")
           /\ script \in Tapping /\ at = Last - 1 => Runs("sleep")
           /\ script = "xprivacy_setup" /\ at = 3 => Runs("xprivacy_set_fake_location")
           /\ script = "app_execution" =>
                /\ at = 3 => Runs("firewall_open_uid")
                /\ at = 4 => Runs("start_wifi")
                /\ at = 5 => Runs("start_application")
                /\ at = NumMessages + 6 => Runs("close_application")
                /\ at = NumMessages + 7 => Runs("firewall_close_uid")
                /\ at = NumMessages + 8 => Runs("stop_wifi")
           /\ script = "empty_execution" =>
                (at = 3 => Runs("start_wifi")) /\ (at = 4 => Runs("stop_wifi"))
           /\ script = "clean_up" =>
                /\ at = 1 => Runs("stop_wifi")
                /\ at = 2 => Runs("close_applications")
                /\ at = 3 => Runs("sleep")
<1>1. NumMessages \in Nat
  BY PhonesAssumption
<1>2. CASE script = "app_execution"
  BY <1>1, <1>2, AppExecutionAt, LastIs DEF Script, Runs
<1>3. CASE script = "xprivacy_setup"
  BY <1>3, LastIs DEF Script, XprivacySetup, Runs
<1>4. CASE script = "empty_execution"
  BY <1>4, LastIs DEF Script, EmptyExecution, Runs
<1>5. CASE script = "clean_up"
  BY <1>5, LastIs DEF Script, CleanUp, Runs, Tapping
<1>6. CASE script \in {"iptables_setup", "iptables_end"}
  BY <1>6 DEF Tapping
<1> QED
  BY <1>2, <1>3, <1>4, <1>5, <1>6 DEF ControlOK

(* Which methods change which part of the phones. *)
LEMMA Frames ==
    ASSUME Method
    PROVE  /\ screen' = screen \/ activate_screen \/ sleep
           /\ wifi' = wifi \/ enable_wifi \/ retry_wifi \/ stop_wifi
           /\ online' = online \/ enable_wifi \/ retry_wifi
           /\ open' = open \/ start_application \/ close_application \/ close_applications
           /\ pass' = pass \/ firewall_stop_complete \/ firewall_open_uid \/ firewall_close_uid
           /\ location' = location \/ xprivacy_set_fake_location
BY Zenon DEF Method, phones, start_screencast, stop_screencast, activate_screen, sleep,
   xprivacy_set_fake_location, firewall_set_up, firewall_stop_complete, firewall_open_uid,
   firewall_close_uid, enable_wifi, wifi_works, retry_wifi, give_up_wifi, stop_wifi,
   start_application, close_application, close_applications, send_message

(* A method raises an exception, returns, or is start_wifi() and goes on. *)
Raised == at' = 0 /\ failed' = TRUE /\ tries' = 0
Returned == /\ at' = IF at < Last THEN at + 1 ELSE 0
            /\ failed' = FALSE /\ tries' = 0
Goes == at' = at /\ failed' = FALSE /\ Runs("start_wifi") /\ tries' \in {1, 2, 3}

(* Every method does one of the three, and changes no other control state. *)
LEMMA MethodControl ==
    ASSUME ControlOK, Method
    PROVE  /\ at > 0 /\ failed = FALSE
           /\ UNCHANGED <<execution, script, app, count, failures>>
           /\ Raised \/ Returned \/ Goes
<1>1. at > 0 /\ failed = FALSE
  <2>1. at > 0
    BY DEF Method, Runs, start_screencast, stop_screencast, activate_screen, sleep,
       xprivacy_set_fake_location, firewall_set_up, firewall_stop_complete, firewall_open_uid,
       firewall_close_uid, enable_wifi, wifi_works, retry_wifi, give_up_wifi, stop_wifi,
       start_application, close_application, close_applications, send_message
  <2> QED
    BY <2>1 DEF ControlOK
<1>2. UNCHANGED <<execution, script, app, count, failures>>
  BY DEF Method, Reach, Return, Raise, control, phones,
     start_screencast, stop_screencast, activate_screen, sleep,
     xprivacy_set_fake_location, firewall_set_up, firewall_stop_complete, firewall_open_uid,
     firewall_close_uid, enable_wifi, wifi_works, retry_wifi, give_up_wifi, stop_wifi,
     start_application, close_application, close_applications, send_message
<1>3. CASE enable_wifi
  BY <1>1, <1>2, <1>3 DEF enable_wifi, Raise, control, ControlOK, Raised, Goes
<1>4. CASE wifi_works
  BY <1>1, <1>2, <1>4 DEF wifi_works, Return, Returned, Last
<1>5. CASE retry_wifi
  BY <1>1, <1>2, <1>5 DEF retry_wifi, Raise, control, ControlOK, Raised, Goes
<1>6. CASE give_up_wifi
  BY <1>1, <1>2, <1>6 DEF give_up_wifi, Raise, Raised
<1>7. CASE ~(enable_wifi \/ wifi_works \/ retry_wifi \/ give_up_wifi)
  <2>1. tries' = tries /\ ~Runs("start_wifi")
    BY <1>7 DEF Method, Runs, start_screencast, stop_screencast, activate_screen, sleep,
       xprivacy_set_fake_location, firewall_set_up, firewall_stop_complete, firewall_open_uid,
       firewall_close_uid, stop_wifi,
       start_application, close_application, close_applications, send_message
  <2>2. tries' = 0
    BY <2>1 DEF ControlOK
  <2>3. Raise \/ Return
    BY <1>7 DEF Method, Reach, start_screencast, stop_screencast, activate_screen, sleep,
       xprivacy_set_fake_location, firewall_set_up, firewall_stop_complete, firewall_open_uid,
       firewall_close_uid, stop_wifi,
       start_application, close_application, close_applications, send_message
  <2> QED
    BY <1>1, <1>2, <2>2, <2>3 DEF Raise, Return, Raised, Returned, Last
<1> QED
  BY <1>3, <1>4, <1>5, <1>6, <1>7

(* A method keeps the types of the control state. *)
LEMMA ControlMethod ==
    ASSUME ControlOK, Method
    PROVE  ControlOK'
<1>1. NumMessages \in Nat
  BY PhonesAssumption
<1>2. Last \in Nat
  BY <1>1, LastIs DEF ControlOK
<1>3. /\ execution' \in {"app_execution", "empty_execution"}
      /\ script' \in {"iptables_setup", "xprivacy_setup", "clean_up", "iptables_end", execution'}
      /\ app' \in 0 .. Len(Apps) /\ (script' = execution' => app' > 0)
      /\ count' \in Nat /\ failures' \in Nat
  BY MethodControl DEF ControlOK
<1>4. at' \in 0 .. Last'
  <2>1. Last' = Last /\ (Raised \/ Returned \/ Goes)
    BY MethodControl DEF Last
  <2>2. at \in 0 .. Last
    BY DEF ControlOK
  <2> QED
    BY <1>2, <2>1, <2>2 DEF Raised, Returned, Goes
<1>5. failed' \in BOOLEAN /\ (at' > 0 => ~failed')
  <2>1. CASE Raised
    <3>1. ~(at' > 0)
      BY <2>1 DEF Raised
    <3> QED
      BY <2>1, <3>1, Zenon DEF Raised
  <2>2. CASE Returned \/ Goes
    BY <2>2, Zenon DEF Returned, Goes
  <2> QED
    BY <2>1, <2>2, MethodControl
<1>6. tries' \in {0, 1, 2, 3} /\ (tries' > 0 => Runs("start_wifi")')
  <2>1. script' = script /\ (Raised \/ Returned \/ Goes)
    BY MethodControl
  <2>2. CASE Raised \/ Returned
    BY <2>2 DEF Raised, Returned
  <2>3. CASE Goes
    BY <2>1, <2>3 DEF Goes, Runs
  <2> QED
    BY <2>1, <2>2, <2>3
<1> QED
  BY <1>3, <1>4, <1>5, <1>6, Zenon DEF ControlOK
(* Where a method finds the script, in numbers. *)
LEMMA Where ==
    ASSUME ControlOK, Method
    PROVE  /\ NumMessages \in Nat /\ at \in Nat /\ 0 < at /\ at <= Last
           /\ \/ script \in {"iptables_setup", "iptables_end"} /\ Last = 1
              \/ script = "xprivacy_setup" /\ Last = 5
              \/ script = "app_execution" /\ Last = NumMessages + 10
              \/ script = "empty_execution" /\ Last = 6
              \/ script = "clean_up" /\ Last = 3
           /\ script' = script /\ Last' = Last
<1>1. NumMessages \in Nat /\ at > 0 /\ script' = script /\ Last' = Last
  BY MethodControl, PhonesAssumption DEF Last
<1> QED
  BY <1>1, LastIs DEF ControlOK

(* A script that failed leaves the phones as they are. *)
LEMMA NotResting ==
    ASSUME Raised
    PROVE  ~Resting' /\ at' = 0 /\ tries' = 0
<1>1. at' = 0 /\ ~(at' > 0)
  BY DEF Raised
<1> QED
  BY <1>1, Zenon DEF Resting, Raised

(* A method that returns has reached all devices. *)
LEMMA Reached ==
    ASSUME NEW k \in 0 .. NumDevices, Reach(k), failed' = FALSE
    PROVE  \A d \in Device : d <= k
<1>1. k = NumDevices
  BY DEF Reach, Raise
<1> QED
  BY <1>1, PhonesAssumption DEF Device

(* An execution has an application. *)
LEMMA Current ==
    ASSUME ControlOK, script = "app_execution"
    PROVE  app \in DOMAIN Apps /\ Apps[app] \in App
<1>1. execution = "app_execution"
  BY DEF ControlOK
<1>2. app \in 1 .. Len(Apps)
  BY <1>1, PhonesAssumption DEF ControlOK
<1>3. app \in DOMAIN Apps
  BY <1>2, PhonesAssumption
<1> QED
  BY <1>3 DEF App

(* What runs is the method of the script. *)
LEMMA Acts ==
    ASSUME Method
    PROVE  /\ Runs("activate_screen") => activate_screen
           /\ Runs("sleep") => sleep
           /\ Runs("xprivacy_set_fake_location") => xprivacy_set_fake_location
           /\ Runs("firewall_open_uid") => firewall_open_uid
           /\ Runs("firewall_close_uid") => firewall_close_uid
           /\ Runs("start_wifi") => enable_wifi \/ wifi_works \/ retry_wifi \/ give_up_wifi
           /\ Runs("stop_wifi") => stop_wifi
           /\ Runs("start_application") => start_application
           /\ Runs("close_application") => close_application
           /\ Runs("close_applications") => close_applications
BY DEF Method, Runs, start_screencast, stop_screencast, activate_screen, sleep,
   xprivacy_set_fake_location, firewall_set_up, firewall_stop_complete, firewall_open_uid,
   firewall_close_uid, enable_wifi, wifi_works, retry_wifi, give_up_wifi, stop_wifi,
   start_application, close_application, close_applications, send_message

-----------------------------------------------------------------------------
(* A method keeps what the invariant says of the screens ...               *)
LEMMA ScreenMethod ==
    ASSUME TypeOK, ScreenInv, Method
    PROVE  screen' \in [Device -> BOOLEAN] /\ ScreenInv'
<1>0. ControlOK /\ screen \in [Device -> BOOLEAN]
  BY DEF TypeOK
<1>1. /\ NumMessages \in Nat /\ at \in Nat /\ 0 < at /\ at <= Last /\ Last \in Nat
      /\ script' = script /\ Last' = Last /\ (script \in Tapping => Last >= 5)
  <2>1. Last \in Nat /\ (script \in Tapping => Last >= 5)
    BY <1>0, Where DEF Tapping
  <2> QED
    BY <1>0, <2>1, Where
<1>2. screen' \in [Device -> BOOLEAN]
  <2>1. CASE screen' = screen
    BY <1>0, <2>1
  <2>2. CASE activate_screen
    BY <1>0, <2>2 DEF activate_screen, Upto
  <2>3. CASE sleep
    BY <1>0, <2>3 DEF sleep, Upto
  <2> QED
    BY <2>1, <2>2, <2>3, Frames
<1> SUFFICES ScreenInv'
  BY <1>2
<1>3. CASE Raised
  BY <1>1, <1>3, NotResting DEF ScreenInv
<1>4. CASE Goes
  <2>1. ~Runs("activate_screen") /\ ~Runs("sleep")
    BY <1>4 DEF Goes, Runs
  <2>2. screen' = screen
    BY <2>1, Frames DEF activate_screen, sleep
  <2> QED
    BY <1>0, <1>1, <1>4, <2>2 DEF ScreenInv, Resting, Goes
<1>5. CASE Returned
  <2>0. at' = (IF at < Last THEN at + 1 ELSE 0) /\ failed' = FALSE
    BY <1>5 DEF Returned
  <2>1. CASE activate_screen
    <3>1. script \in Tapping /\ at = 2
      BY <1>0, <1>1, <2>1, Positions DEF activate_screen
    <3>2. \A d \in Device : screen[d] = FALSE
      BY <1>0, <3>1 DEF ScreenInv
    <3>3. \A d \in Device : screen'[d] = TRUE
      <4>1. PICK k \in 0 .. NumDevices :
               screen' = Upto(screen, k, Device, LAMBDA d : ~screen[d]) /\ Reach(k)
        BY <2>1 DEF activate_screen
      <4>2. screen' = [d \in Device |-> ~screen[d]]
        BY <2>0, <4>1, Reached DEF Upto
      <4> QED
        BY <3>2, <4>2, Zenon
    <3> QED
      BY <1>1, <2>0, <3>1, <3>3 DEF ScreenInv, Resting, Tapping
  <2>2. CASE sleep
    <3>1. \A d \in Device : screen'[d] = FALSE
      BY <1>0, <2>0, <2>2, PhonesAssumption DEF sleep, Reach, Raise, Upto, Device
    <3>2. \/ script \in Tapping /\ at = Last - 1
          \/ script = "clean_up" /\ at = 3
      BY <1>0, <1>1, <2>2, Positions DEF sleep
    <3>3. ~(script \in Tapping /\ 2 < at' /\ at' < Last)
      BY <1>1, <2>0, <3>2 DEF Tapping
    <3> QED
      BY <1>1, <3>1, <3>3 DEF ScreenInv
  <2>3. CASE ~activate_screen /\ ~sleep
    <3>1. screen' = screen
      BY <2>3, Frames
    <3>2. ~Runs("activate_screen") /\ ~Runs("sleep")
      BY <2>3, Acts
    <3>3. script \in Tapping => at # 2 /\ at # Last - 1
      BY <1>0, <3>2, At
    <3>4. script = "clean_up" => at # 3
      BY <1>0, <3>2, At
    <3>5. script \in Tapping \/ Resting \/ (script = "clean_up" /\ Last = 3)
      BY <1>0, <1>1, Where DEF Tapping, Resting
    <3>6. CASE script \in Tapping
      BY <1>0, <1>1, <2>0, <3>1, <3>3, <3>6 DEF ScreenInv, Resting, Tapping
    <3>7. CASE script = "clean_up" /\ Last = 3
      BY <1>1, <2>0, <3>4, <3>7 DEF ScreenInv, Resting, Tapping
    <3>8. CASE Resting /\ script \notin Tapping
      BY <1>0, <1>1, <3>1, <3>8 DEF ScreenInv
    <3> QED
      BY <3>5, <3>6, <3>7, <3>8
  <2> QED
    BY <2>1, <2>2, <2>3
<1> QED
  BY <1>0, <1>3, <1>4, <1>5, MethodControl

(* ... of the wifi ... *)
LEMMA WifiMethod ==
    ASSUME TypeOK, WifiInv, Method
    PROVE  wifi' \in [Device -> BOOLEAN] /\ WifiInv'
<1>0. ControlOK /\ wifi \in [Device -> BOOLEAN]
  BY DEF TypeOK
<1>1. NumMessages \in Nat /\ at \in Nat /\ 0 < at /\ at <= Last /\ script' = script
  BY <1>0, Where
<1>2. wifi' \in [Device -> BOOLEAN]
  <2>1. CASE wifi' = wifi
    BY <1>0, <2>1
  <2>2. CASE enable_wifi
    BY <1>0, <2>2 DEF enable_wifi, Upto
  <2>3. CASE retry_wifi
    BY <1>0, <2>3 DEF retry_wifi
  <2>4. CASE stop_wifi
    BY <1>0, <2>4 DEF stop_wifi, Upto
  <2> QED
    BY <2>1, <2>2, <2>3, <2>4, Frames
<1> SUFFICES WifiInv'
  BY <1>2
<1>3. CASE Raised
  BY <1>1, <1>3, NotResting DEF WifiInv, Within
<1>4. CASE Goes
  <2>0. at' = at /\ failed' = FALSE
    BY <1>4 DEF Goes
  <2>1. \/ script = "app_execution" /\ at = 4
        \/ script = "empty_execution" /\ at = 3
    BY <1>0, <1>1, <1>4, Positions DEF Goes
  <2>2. \A d \in Device : wifi'[d]
    <3>1. CASE enable_wifi
      <4>1. PICK k \in 0 .. NumDevices :
               /\ wifi' = Upto(wifi, k, Device, LAMBDA d : TRUE)
               /\ k = NumDevices
        BY <1>4, <3>1 DEF enable_wifi, Raise, Goes
      <4> QED
        BY <4>1, PhonesAssumption DEF Upto, Device
    <3>2. CASE retry_wifi
      <4>1. wifi' = wifi /\ tries > 0
        BY <1>4, <3>2 DEF retry_wifi, Raise, Goes
      <4> QED
        BY <4>1 DEF WifiInv
    <3>3. CASE wifi_works \/ give_up_wifi
      BY <1>4, <3>3 DEF wifi_works, give_up_wifi, Goes
    <3> QED
      BY <1>4, <3>1, <3>2, <3>3, Acts DEF Goes
  <2>3. ~Resting'
    BY <1>1, <2>0, <2>1 DEF Resting
  <2> QED
    BY <1>1, <2>0, <2>1, <2>2, <2>3 DEF WifiInv, Within
<1>5. CASE Returned
  <2>0. at' = (IF at < Last THEN at + 1 ELSE 0) /\ failed' = FALSE /\ tries' = 0
    BY <1>5 DEF Returned
  <2>1. CASE stop_wifi
    <3>1. \A d \in Device : wifi'[d] = FALSE
      BY <2>0, <2>1, Reached DEF stop_wifi, Upto
    <3>2. \/ script = "app_execution" /\ at = NumMessages + 8
          \/ script = "empty_execution" /\ at = 4
          \/ script = "clean_up" /\ at = 1
      BY <1>0, <1>1, <2>1, Positions DEF stop_wifi
    <3>3. ~Within(5, NumMessages + 8)'
      BY <1>0, <1>1, <2>0, <3>2, Where DEF Within
    <3> QED
      BY <2>0, <3>1, <3>3 DEF WifiInv
  <2>2. CASE wifi_works
    <3>1. \/ script = "app_execution" /\ at = 4
          \/ script = "empty_execution" /\ at = 3
      BY <1>0, <1>1, <2>2, Positions DEF wifi_works
    <3>2. wifi' = wifi /\ online' = online /\ \A d \in Device : wifi[d] /\ online[d]
      BY <2>2 DEF wifi_works, phones, WifiInv
    <3>3. at' = at + 1
      BY <1>0, <1>1, <2>0, <3>1, Where
    <3>4. ~Resting'
      BY <1>1, <3>1, <3>3 DEF Resting
    <3> QED
      BY <1>1, <2>0, <3>1, <3>2, <3>3, <3>4 DEF WifiInv, Within
  <2>3. CASE ~stop_wifi /\ ~wifi_works
    <3>1. ~enable_wifi /\ ~retry_wifi /\ ~give_up_wifi
      BY <1>1, <2>0 DEF enable_wifi, retry_wifi, give_up_wifi, control, Raise
    <3>2. wifi' = wifi /\ online' = online
      BY <2>3, <3>1, Frames
    <3>3. ~Runs("start_wifi") /\ ~Runs("stop_wifi")
      BY <2>3, <3>1, Acts
    <3>4. /\ script = "app_execution" => at # 4 /\ at # NumMessages + 8
          /\ script = "empty_execution" => at # 3 /\ at # 4
          /\ script = "clean_up" => at # 1
      BY <1>0, <3>3, At
    <3>5. CASE script = "app_execution"
      BY <1>0, <1>1, <2>0, <3>2, <3>4, <3>5, LastIs DEF WifiInv, Resting, Within
    <3>6. CASE script = "empty_execution"
      BY <1>0, <1>1, <2>0, <3>2, <3>4, <3>6, LastIs DEF WifiInv, Resting, Within
    <3>7. CASE script = "clean_up"
      BY <1>0, <1>1, <2>0, <3>2, <3>4, <3>7, LastIs DEF WifiInv, Resting, Within
    <3>8. CASE script \in {"iptables_setup", "iptables_end", "xprivacy_setup"}
      BY <1>0, <1>1, <2>0, <3>2, <3>8 DEF WifiInv, Resting, Within
    <3> QED
      BY <1>0, <3>5, <3>6, <3>7, <3>8, Where
  <2> QED
    BY <2>1, <2>2, <2>3
<1> QED
  BY <1>0, <1>3, <1>4, <1>5, MethodControl

(* ... of the applications that run ... *)
LEMMA OpenMethod ==
    ASSUME TypeOK, OpenInv, Method
    PROVE  open' \in [Device -> SUBSET App] /\ OpenInv'
<1>0. ControlOK /\ open \in [Device -> SUBSET App]
  BY DEF TypeOK
<1>1. NumMessages \in Nat /\ at \in Nat /\ 0 < at /\ at <= Last /\ script' = script /\ app' = app
  BY <1>0, Where, MethodControl
<1>2. open' \in [Device -> SUBSET App]
  <2>1. CASE open' = open
    BY <1>0, <2>1
  <2>2. CASE start_application
    <3>1. Apps[app] \in App
      BY <1>0, <1>1, <2>2, Positions, Current DEF start_application
    <3> QED
      BY <1>0, <2>2, <3>1 DEF start_application, Upto
  <2>3. CASE close_application
    BY <1>0, <2>3 DEF close_application, Upto
  <2>4. CASE close_applications
    BY <1>0, <2>4 DEF close_applications
  <2> QED
    BY <2>1, <2>2, <2>3, <2>4, Frames
<1> SUFFICES OpenInv'
  BY <1>2
<1>3. CASE Raised
  BY <1>1, <1>3, NotResting DEF OpenInv, Within
<1>4. CASE Goes
  <2>1. ~Runs("start_application") /\ ~Runs("close_application") /\ ~Runs("close_applications")
    BY <1>4 DEF Goes, Runs
  <2>2. open' = open
    BY <2>1, Frames DEF start_application, close_application, close_applications
  <2>3. at' = at /\ (Resting' <=> Resting)
    BY <1>1, <1>4 DEF Goes, Resting
  <2> QED
    BY <1>1, <2>2, <2>3 DEF OpenInv, Within
<1>5. CASE Returned
  <2>0. at' = (IF at < Last THEN at + 1 ELSE 0) /\ failed' = FALSE
    BY <1>5 DEF Returned
  <2>1. CASE start_application
    <3>1. script = "app_execution" /\ at = 5
      BY <1>0, <1>1, <2>1, Positions DEF start_application
    <3>2. \A d \in Device : open'[d] = {Apps[app]}
      <4>0. PICK k \in 0 .. NumDevices :
               /\ open' = Upto(open, k, Device, LAMBDA d : open[d] \cup {Apps[app]})
               /\ Reach(k)
        BY <2>1 DEF start_application
      <4>1. open' = [d \in Device |-> open[d] \cup {Apps[app]}]
        BY <2>0, <4>0, Reached DEF Upto
      <4>2. \A d \in Device : open[d] = {}
        <5>1. Within(1, 5)
          BY <3>1 DEF Within
        <5> QED
          BY <5>1, Zenon DEF OpenInv
      <4> QED
        BY <4>1, <4>2
    <3>3. at' = 6
      BY <1>1, <2>0, <3>1, LastIs
    <3> QED
      BY <1>1, <3>1, <3>2, <3>3 DEF OpenInv, Within, Resting
  <2>2. CASE close_application
    <3>1. script = "app_execution" /\ at = NumMessages + 6
      BY <1>0, <1>1, <2>2, Positions DEF close_application
    <3>2. \A d \in Device : open'[d] = {}
      <4>1. open' = [d \in Device |-> open[d] \ {Apps[app]}]
        BY <2>0, <2>2, Reached DEF close_application, Upto
      <4>2. \A d \in Device : open[d] = {Apps[app]}
        BY <1>1, <3>1 DEF OpenInv, Within
      <4> QED
        BY <4>1, <4>2
    <3>3. at' = NumMessages + 7
      BY <1>1, <2>0, <3>1, LastIs
    <3> QED
      BY <1>1, <3>1, <3>2, <3>3 DEF OpenInv, Within
  <2>3. CASE close_applications
    <3>1. script = "clean_up"
      BY <1>0, <1>1, <2>3, Positions DEF close_applications
    <3>2. \A d \in Device : open'[d] = {}
      BY <2>0, <2>3 DEF close_applications, Raise
    <3> QED
      BY <1>1, <3>1, <3>2 DEF OpenInv, Within
  <2>4. CASE ~start_application /\ ~close_application /\ ~close_applications
    <3>1. open' = open
      BY <2>4, Frames
    <3>2. /\ script = "app_execution" => at # 5 /\ at # NumMessages + 6
          /\ script = "clean_up" => at # 2
      BY <1>0, <2>4, At, Acts
    <3>3. CASE script = "app_execution"
      BY <1>0, <1>1, <2>0, <3>1, <3>2, <3>3, LastIs DEF OpenInv, Resting, Within
    <3>4. CASE script = "clean_up"
      BY <1>0, <1>1, <2>0, <3>1, <3>2, <3>4, LastIs DEF OpenInv, Resting, Within
    <3>5. CASE script \in {"iptables_setup", "iptables_end", "xprivacy_setup", "empty_execution"}
      BY <1>0, <1>1, <2>0, <3>1, <3>5 DEF OpenInv, Resting, Within
    <3> QED
      BY <1>0, <3>3, <3>4, <3>5, Where
  <2> QED
    BY <2>1, <2>2, <2>3, <2>4
<1> QED
  BY <1>0, <1>3, <1>4, <1>5, MethodControl

(* ... of the rules of the firewall ... *)
LEMMA PassMethod ==
    ASSUME TypeOK, PassInv, Method
    PROVE  pass' \in [Device -> [App -> Nat]] /\ PassInv'
<1>0. ControlOK /\ pass \in [Device -> [App -> Nat]]
  BY DEF TypeOK
<1>1. /\ NumMessages \in Nat /\ at \in Nat /\ 0 < at /\ at <= Last
      /\ script' = script /\ app' = app /\ failures' = failures
      /\ failures \in Nat /\ failed = FALSE
  BY <1>0, Where, MethodControl DEF ControlOK
<1>2. \A d \in Device, a \in App : pass[d][a] \in Nat
  BY <1>0
\* Without a rule of the current execution.
<1> DEFINE Few(table) == \A d \in Device, a \in App : table[d][a] <= failures
<1>3. CASE firewall_stop_complete
  <2>1. script = "iptables_end"
    BY <1>0, <1>1, <1>3, Positions DEF firewall_stop_complete
  <2>2. pass' \in [Device -> [App -> Nat]]
    BY <1>0, <1>3 DEF firewall_stop_complete, Upto
  <2>3. Few(pass)
    BY <1>1, <1>2, <2>1 DEF PassInv
  <2>4. Few(pass')
    <3>1. PICK k \in 0 .. NumDevices :
             pass' = Upto(pass, k, WithIptables, LAMBDA d : [a \in App |-> 0])
      BY <1>3 DEF firewall_stop_complete
    <3>2. ASSUME NEW d \in Device, NEW a \in App
          PROVE  pass'[d][a] = 0 \/ pass'[d][a] = pass[d][a]
      BY <3>1 DEF Upto
    <3> QED
      BY <1>1, <1>2, <2>3, <3>2
  <2> QED
    BY <1>1, <2>1, <2>2, <2>4 DEF PassInv, Within
<1>4. CASE firewall_open_uid
  <2>1. script = "app_execution" /\ at = 3
    BY <1>0, <1>1, <1>4, Positions DEF firewall_open_uid
  <2>2. Apps[app] \in App
    BY <1>0, <2>1, Current
  <2>3. PICK k \in 0 .. NumDevices :
           /\ pass' = Upto(pass, k, WithIptables, LAMBDA d : [pass[d] EXCEPT ![Apps[app]] = @ + 1])
           /\ Reach(k)
    BY <1>4 DEF firewall_open_uid
  <2>4. pass' \in [Device -> [App -> Nat]]
    BY <1>0, <2>2, <2>3 DEF Upto
  <2>5. Few(pass)
    BY <1>1, <1>2, <2>1 DEF PassInv, Within
  <2>6. ASSUME NEW d \in Device, NEW a \in App
        PROVE  \/ pass'[d][a] = pass[d][a]
               \/ pass'[d][a] = pass[d][a] + 1 /\ a = Apps[app] /\ d \in WithIptables
    BY <1>0, <2>3, <2>6 DEF Upto
  <2>7. ASSUME NEW d \in Device, d \in WithIptables, d <= k
        PROVE  pass'[d][Apps[app]] > 0
    BY <1>0, <2>2, <2>3, <2>7 DEF Upto
  <2>8. CASE Raised
    BY <1>1, <1>2, <2>1, <2>4, <2>5, <2>6, <2>8 DEF PassInv, Within, Raised
  <2>9. CASE Returned
    <3>1. at' = 4 /\ failed' = FALSE
      BY <1>1, <2>1, <2>9, LastIs DEF Returned
    <3>2. \A d \in Device : d <= k
      BY <2>3, <3>1, Reached
    <3> QED
      BY <1>1, <1>2, <2>1, <2>4, <2>5, <2>6, <2>7, <3>1, <3>2 DEF PassInv, Within
  <2>10. CASE Goes
    BY <1>4, <2>10 DEF Goes, firewall_open_uid, Runs
  <2> QED
    BY <1>0, <2>8, <2>9, <2>10, MethodControl
<1>5. CASE firewall_close_uid
  <2>1. script = "app_execution" /\ at = NumMessages + 7
    BY <1>0, <1>1, <1>5, Positions DEF firewall_close_uid
  <2>2. Apps[app] \in App
    BY <1>0, <2>1, Current
  <2>3. PICK k \in 0 .. NumDevices :
           /\ pass' = Upto(pass, k, WithIptables,
                           LAMBDA d : [pass[d] EXCEPT ![Apps[app]] = IF @ > 0 THEN @ - 1 ELSE 0])
           /\ Reach(k)
    BY <1>5 DEF firewall_close_uid
  <2>4. pass' \in [Device -> [App -> Nat]]
    BY <1>0, <2>2, <2>3 DEF Upto
  <2>5. ASSUME NEW d \in Device, NEW a \in App
        PROVE  pass'[d][a] = pass[d][a] \/ pass'[d][a] = pass[d][a] - 1 \/ pass'[d][a] = 0
    BY <1>0, <2>3, <2>5 DEF Upto
  <2>6. ASSUME NEW d \in Device, d \in WithIptables, d <= k
        PROVE  pass'[d][Apps[app]] = pass[d][Apps[app]] - 1
    <3>1. pass[d][Apps[app]] > 0
      BY <1>1, <2>1, <2>6 DEF PassInv, Within
    <3> QED
      BY <1>0, <2>2, <2>3, <2>6, <3>1 DEF Upto
  <2>7. ASSUME NEW d \in Device, NEW a \in App
        PROVE  \/ pass[d][a] <= failures
               \/ d \in WithIptables /\ pass[d][a] = failures + 1 /\ a = Apps[app]
    BY <1>1, <2>1, <2>7 DEF PassInv
  <2>8. CASE Raised
    <3>1. ASSUME NEW d \in Device, NEW a \in App
          PROVE  pass'[d][a] <= failures \/ (d \in WithIptables /\ pass'[d][a] = failures + 1)
      BY <1>1, <1>2, <2>5, <2>7, <3>1
    <3> QED
      BY <1>1, <2>1, <2>4, <3>1, <2>8 DEF PassInv, Within, Raised
  <2>9. CASE Returned
    <3>1. at' = NumMessages + 8 /\ failed' = FALSE
      BY <1>1, <2>1, <2>9, LastIs DEF Returned
    <3>2. \A d \in Device : d <= k
      BY <2>3, <3>1, Reached
    <3>3. ASSUME NEW d \in Device, NEW a \in App
          PROVE  pass'[d][a] <= failures
      BY <1>1, <1>2, <2>5, <2>6, <2>7, <3>2, <3>3
    <3> QED
      BY <1>1, <2>1, <2>4, <3>1, <3>3 DEF PassInv, Within
  <2>10. CASE Goes
    BY <1>5, <2>10 DEF Goes, firewall_close_uid, Runs
  <2> QED
    BY <1>0, <2>8, <2>9, <2>10, MethodControl
<1>6. CASE ~firewall_stop_complete /\ ~firewall_open_uid /\ ~firewall_close_uid
  <2>1. pass' = pass
    BY <1>6, Frames
  <2>2. script = "app_execution" => at # 3 /\ at # NumMessages + 7
    BY <1>0, <1>6, At, Acts
  <2>3. CASE Raised
    BY <1>0, <1>1, <1>2, <2>1, <2>3 DEF PassInv, Within, Raised
  <2>4. CASE Returned
    BY <1>0, <1>1, <1>2, <2>1, <2>2, <2>4, LastIs DEF PassInv, Within, Returned
  <2>5. CASE Goes
    BY <1>0, <1>1, <1>2, <2>1, <2>5 DEF PassInv, Within, Goes
  <2> QED
    BY <1>0, <2>3, <2>4, <2>5, MethodControl
<1> QED
  BY <1>3, <1>4, <1>5, <1>6

(* ... and of the locations. *)
LEMMA LocationMethod ==
    ASSUME ControlOK, LocationInv, Method
    PROVE  LocationInv'
<1>1. /\ at \in Nat /\ 0 < at /\ at <= Last /\ failed = FALSE
      /\ script' = script /\ execution' = execution /\ count' = count
      /\ execution # "xprivacy_setup"
  BY Where, MethodControl DEF ControlOK
<1>2. CASE xprivacy_set_fake_location
  <2>1. script = "xprivacy_setup" /\ at = 3
    BY <1>1, <1>2, Positions DEF xprivacy_set_fake_location
  <2>2. CASE Raised
    <3>1. ~(at' > 3) /\ script' # execution'
      BY <1>1, <2>1, <2>2 DEF Raised
    <3> QED
      BY <2>2, <3>1, Zenon DEF LocationInv, Raised
  <2>3. CASE Returned
    <3>1. PICK k \in 0 .. NumDevices :
             /\ location' = Upto(location, k, WithXPrivacy, LAMBDA d : <<count, Coordinates(d)>>)
             /\ Reach(k)
      BY <1>2 DEF xprivacy_set_fake_location
    <3>2. \A d \in Device : d <= k
      BY <2>3, <3>1, Reached DEF Returned
    <3>3. \A d \in WithXPrivacy : location'[d] = <<count, Coordinates(d)>>
      BY <3>1, <3>2, PhonesAssumption DEF Upto
    <3> QED
      BY <1>1, <3>3 DEF LocationInv
  <2>4. CASE Goes
    BY <1>2, <2>4 DEF Goes, xprivacy_set_fake_location, Runs
  <2> QED
    BY <2>2, <2>3, <2>4, MethodControl
<1>3. CASE ~xprivacy_set_fake_location
  <2>1. location' = location
    BY <1>3, Frames
  <2>2. script = "xprivacy_setup" => at # 3 /\ Last = 5
    BY <1>3, At, Acts, LastIs
  <2>3. script = "xprivacy_setup" /\ (at' > 3 \/ (at' = 0 /\ ~failed')) => at > 3
    <3>1. CASE Raised
      BY <3>1 DEF Raised
    <3>2. CASE Returned
      BY <1>1, <2>2, <3>2 DEF Returned
    <3>3. CASE Goes
      BY <1>1, <3>3 DEF Goes
    <3> QED
      BY <3>1, <3>2, <3>3, MethodControl
  <2> QED
    BY <1>1, <2>1, <2>3 DEF LocationInv
<1> QED
  BY <1>2, <1>3

(* So a method keeps the invariant. *)
LEMMA MethodInv ==
    ASSUME PhonesInv, Method
    PROVE  PhonesInv'
<1>1. ControlOK'
  BY ControlMethod DEF PhonesInv, TypeOK
<1>2. screen' \in [Device -> BOOLEAN] /\ ScreenInv'
  BY ScreenMethod DEF PhonesInv
<1>3. wifi' \in [Device -> BOOLEAN] /\ WifiInv'
  BY WifiMethod DEF PhonesInv
<1>4. open' \in [Device -> SUBSET App] /\ OpenInv'
  BY OpenMethod DEF PhonesInv
<1>5. pass' \in [Device -> [App -> Nat]] /\ PassInv'
  BY PassMethod DEF PhonesInv
<1>6. LocationInv'
  BY LocationMethod DEF PhonesInv, TypeOK
<1> QED
  BY <1>1, <1>2, <1>3, <1>4, <1>5, <1>6 DEF PhonesInv, TypeOK

-----------------------------------------------------------------------------
(* So do the steps between the scripts: the phones stay as they are and    *)
(* the next script finds them as it needs them.                            *)

(* Start of xprivacy_setup.py, of an execution, clean_up.py or iptables_end.py. *)
LEMMA StartInv ==
    ASSUME PhonesInv,
           BeginExperiment \/ NextApplication \/ CleanUpPhones \/ EndMeasurement
    PROVE  PhonesInv'
<1>0. /\ NumMessages \in Nat /\ Len(Apps) \in Nat
      /\ TypeOK /\ ControlOK /\ ScreenInv /\ WifiInv /\ OpenInv /\ PassInv /\ LocationInv
  BY PhonesAssumption DEF PhonesInv, TypeOK
<1>1. /\ at = 0 /\ at' = 1 /\ failed' = FALSE /\ execution' = execution
      /\ UNCHANGED <<tries, wifi, online, screen, open, pass, location>>
  BY DEF BeginExperiment, NextApplication, CleanUpPhones, EndMeasurement, Start, Idle
<1>2. tries = 0
  BY <1>0, <1>1 DEF ControlOK, Runs
<1>3. /\ \/ script' \in {"xprivacy_setup", "iptables_end"} /\ app' = 0
         \/ script' = execution /\ app' \in 1 .. Len(Apps)
         \/ script' = "clean_up" /\ app' = app
      /\ count' \in Nat /\ failures' \in Nat
  BY <1>0 DEF BeginExperiment, NextApplication, CleanUpPhones, EndMeasurement, Start, ControlOK
<1>4. 1 <= Last'
  <2>1. script' \in {"xprivacy_setup", "iptables_end", "clean_up", "app_execution", "empty_execution"}
    BY <1>0, <1>3 DEF ControlOK
  <2>2. Last' \in {1, 3, 5, 6, NumMessages + 10}
    BY <2>1, Lengths DEF Last
  <2>3. NumMessages \in Nat
    BY <1>0
  <2> QED
    BY <2>2, <2>3
<1>5. ControlOK'
  <2>1. /\ execution' \in {"app_execution", "empty_execution"}
        /\ script' \in {"iptables_setup", "xprivacy_setup", "clean_up", "iptables_end", execution'}
        /\ app' \in 0 .. Len(Apps) /\ (script' = execution' => app' > 0)
    BY <1>0, <1>1, <1>3 DEF ControlOK
  <2>2. Last' \in Nat
    BY <1>0, <2>1, Lengths DEF Last
  <2>3. at' \in 0 .. Last'
    BY <1>1, <1>4, <2>2
  <2>4. failed' \in BOOLEAN /\ (at' > 0 => ~failed')
    BY <1>1, Zenon
  <2>5. tries' \in {0, 1, 2, 3} /\ (tries' > 0 => Runs("start_wifi")')
    BY <1>1, <1>2
  <2> QED
    BY <1>3, <2>1, <2>3, <2>4, <2>5, Zenon DEF ControlOK
<1>6. TypeOK'
  BY <1>0, <1>1, <1>5 DEF TypeOK
<1>7. CASE CleanUpPhones
  <2>1. script' = "clean_up" /\ failures' = failures + 1 /\ script = execution
    BY <1>7 DEF CleanUpPhones, Start
  <2>2. \A d \in Device, a \in App : pass[d][a] <= failures + 1
    BY <1>0 DEF PassInv, TypeOK, ControlOK
  <2>3. PassInv'
    BY <1>0, <1>1, <2>1, <2>2 DEF PassInv, Within
  <2>4. ScreenInv' /\ OpenInv' /\ WifiInv'
    BY <1>0, <1>1, <1>2, <2>1 DEF ScreenInv, OpenInv, WifiInv, Resting, Tapping, Within
  <2>5. LocationInv'
    BY <1>0, <1>1, <2>1 DEF LocationInv, ControlOK
  <2> QED
    BY <1>6, <2>3, <2>4, <2>5 DEF PhonesInv
<1>8. CASE ~CleanUpPhones
  <2>1. failed = FALSE /\ failures' = failures
    BY <1>0, <1>8 DEF BeginExperiment, NextApplication, EndMeasurement, ControlOK
  <2>2. Resting
    BY <1>1, <2>1 DEF Resting
  <2>3. \A d \in Device : screen[d] = FALSE /\ wifi[d] = FALSE /\ open[d] = {}
    BY <1>0, <2>2 DEF ScreenInv, WifiInv, OpenInv, TypeOK
  <2>4. ScreenInv' /\ WifiInv' /\ OpenInv'
    BY <1>0, <1>1, <1>2, <2>3 DEF ScreenInv, WifiInv, OpenInv, Within
  <2>5. PassInv'
    <3>1. \A d \in Device, a \in App : pass[d][a] <= failures
      BY <1>0, <1>1, <2>1 DEF PassInv, Within
    <3> QED
      BY <1>1, <2>1, <3>1 DEF PassInv, Within
  <2>6. LocationInv'
    <3>1. CASE NextApplication
      BY <1>0, <1>1, <2>1, <3>1 DEF NextApplication, Start, LocationInv, ControlOK
    <3>2. CASE BeginExperiment \/ EndMeasurement
      BY <1>0, <1>1, <3>2 DEF BeginExperiment, EndMeasurement, Start, LocationInv, ControlOK
    <3> QED
      BY <1>8, <3>1, <3>2
  <2> QED
    BY <1>6, <2>4, <2>5, <2>6 DEF PhonesInv
<1> QED
  BY <1>7, <1>8

(* Steps that change nothing the invariant is about. *)
LEMMA StillInv ==
    ASSUME PhonesInv, UNCHANGED <<execution, script, at, app, failed, count, tries, wifi, online,
                                  screen, open, pass, location, failures>>
    PROVE  PhonesInv'
BY DEF PhonesInv, TypeOK, ControlOK, Last, Runs, ScreenInv, WifiInv, OpenInv, PassInv, LocationInv,
   Resting, Within

(* What holds of the phones at every position of every script.             *)
THEOREM PhonesAlways == Spec => []PhonesInv
<1>1. Init => PhonesInv
  <2> SUFFICES ASSUME Init PROVE PhonesInv
    OBVIOUS
  <2>1. NumMessages \in Nat /\ Len(Apps) \in Nat
    BY PhonesAssumption
  <2>2. ControlOK
    <3>1. at \in 0 .. Last /\ app \in 0 .. Len(Apps) /\ tries \in {0, 1, 2, 3} /\ ~(tries > 0)
      BY <2>1, LastIs DEF Init
    <3>2. /\ execution \in {"app_execution", "empty_execution"}
          /\ script \in {"iptables_setup", "xprivacy_setup", "clean_up", "iptables_end", execution}
          /\ script # execution /\ count \in Nat /\ failures \in Nat
      BY DEF Init
    <3>3. failed \in BOOLEAN /\ ~failed
      BY Zenon DEF Init
    <3> QED
      BY <3>1, <3>2, <3>3, Zenon DEF ControlOK
  <2>3. TypeOK
    BY <2>2 DEF Init, TypeOK
  <2>4. ScreenInv /\ WifiInv /\ OpenInv
    BY <2>1 DEF Init, ScreenInv, WifiInv, OpenInv, Within, Tapping
  <2>5. PassInv /\ LocationInv
    BY <2>1 DEF Init, PassInv, LocationInv, Within
  <2> QED
    BY <2>3, <2>4, <2>5 DEF PhonesInv
<1>2. PhonesInv /\ [Next]_vars => PhonesInv'
  <2> SUFFICES ASSUME PhonesInv, [Next]_vars PROVE PhonesInv'
    OBVIOUS
  <2>1. CASE Method
    BY <2>1, MethodInv
  <2>2. CASE BeginExperiment \/ NextApplication \/ CleanUpPhones \/ EndMeasurement
    BY <2>2, StartInv
  <2>3. CASE (\E d \in Device : RecordingEnds(d)) \/ WrapperEnds \/ Terminated \/ UNCHANGED vars
    BY <2>3, StillInv DEF RecordingEnds, WrapperEnds, Terminated, vars, control, phones
  <2> QED
    BY <2>1, <2>2, <2>3 DEF Next
<1> QED
  BY <1>1, <1>2, PTL DEF Spec

(* adb.py: the power button toggles the screen; nevertheless all screens   *)
(* are on whenever the phones are tapped, whatever failed before.          *)
THEOREM PhonesTappedAwake == Spec => []ScreensOnInUse
<1>1. PhonesInv => ScreensOnInUse
  <2> SUFFICES ASSUME PhonesInv,
                      Runs("send_message") \/ Runs("start_application")
                      \/ Runs("xprivacy_set_fake_location")
               PROVE  \A d \in Device : screen[d]
    BY DEF ScreensOnInUse
  <2>1. ControlOK /\ ScreenInv /\ at > 0 /\ NumMessages \in Nat
    BY PhonesAssumption DEF PhonesInv, TypeOK, Runs
  <2>2. script \in Tapping /\ 2 < at /\ at < Last
    BY <2>1, Positions, LastIs DEF Within, Tapping, ControlOK
  <2> QED
    BY <2>1, <2>2 DEF ScreenInv
<1> QED
  BY <1>1, PhonesAlways, PTL

(* Whenever a script has succeeded the phones are asleep, offline and      *)
(* without applications, and no rules of the firewall have piled up.       *)
THEOREM PhonesLeftClean == Spec => []LeftClean
<1>1. PhonesInv => LeftClean
  <2> SUFFICES ASSUME PhonesInv, at = 0, ~failed, NEW d \in Device
               PROVE  /\ ~wifi[d] /\ ~screen[d] /\ open[d] = {}
                      /\ \A a \in App : pass[d][a] <= failures
    BY DEF LeftClean
  <2>1. Resting
    BY DEF Resting
  <2>2. ~wifi[d] /\ ~screen[d] /\ open[d] = {}
    BY <2>1 DEF PhonesInv, WifiInv, ScreenInv, OpenInv
  <2>3. \A a \in App : pass[d][a] <= failures
    BY DEF PhonesInv, PassInv, Within
  <2> QED
    BY <2>2, <2>3
<1> QED
  BY <1>1, PhonesAlways, PTL

(* adb.py hands the coordinates of the two countries out to the phones     *)
(* with XPrivacy in order; these have to be the first ones of the list.    *)
XPrivacyFirst == \A d \in WithXPrivacy : 1 .. d \subseteq WithXPrivacy

(* A message is sent only with wifi, network and an open firewall, with    *)
(* the measured application as the only one, and from the location of the  *)
(* phone's own endpoint in this experiment.                                *)
THEOREM MessagesSentReady == ASSUME XPrivacyFirst PROVE Spec => []ReadyToSend
<1>1. ASSUME NEW d \in WithXPrivacy PROVE Coordinates(d) = d
  <2>1. d \in Nat /\ d >= 1 /\ WithXPrivacy \subseteq Device /\ NumDevices \in Nat
    BY PhonesAssumption DEF Device
  <2>2. {x \in WithXPrivacy : x <= d} = 1 .. d
    <3>1. ASSUME NEW x \in WithXPrivacy, x <= d PROVE x \in 1 .. d
      BY <2>1, <3>1 DEF Device
    <3>2. ASSUME NEW x \in 1 .. d PROVE x \in WithXPrivacy /\ x <= d
      BY <2>1, <3>2 DEF XPrivacyFirst
    <3> QED
      BY <3>1, <3>2
  <2>3. Cardinality(1 .. d) = d
    BY <2>1, FS_Interval
  <2> QED
    BY <2>2, <2>3 DEF Coordinates
<1>2. PhonesInv => ReadyToSend
  <2> SUFFICES ASSUME PhonesInv, Runs("send_message"), NEW d \in Device
               PROVE  /\ wifi[d] /\ online[d]
                      /\ d \in WithIptables => pass[d][Apps[app]] > 0
                      /\ open[d] = {Apps[app]}
                      /\ d \in WithXPrivacy => location[d] = <<count, d>>
    BY DEF ReadyToSend
  <2>1. ControlOK /\ at > 0 /\ NumMessages \in Nat
    BY PhonesAssumption DEF PhonesInv, TypeOK, Runs
  <2>2. Within(6, NumMessages + 5) /\ at \in Nat
    BY <2>1, Positions DEF ControlOK
  <2>3. wifi[d] /\ online[d]
    BY <2>1, <2>2 DEF PhonesInv, WifiInv, Within
  <2>4. d \in WithIptables => pass[d][Apps[app]] > 0
    BY <2>1, <2>2 DEF PhonesInv, PassInv, Within
  <2>5. open[d] = {Apps[app]}
    BY <2>1, <2>2 DEF PhonesInv, OpenInv, Within
  <2>6. d \in WithXPrivacy => location[d] = <<count, d>>
    BY <1>1, <2>1, <2>2 DEF PhonesInv, LocationInv, Within, ControlOK
  <2> QED
    BY <2>3, <2>4, <2>5, <2>6
<1> QED
  BY <1>2, PhonesAlways, PTL

=============================================================================
