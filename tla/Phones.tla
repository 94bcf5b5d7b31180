------------------------------- MODULE Phones --------------------------------
(***************************************************************************)
(* mobilephonecontroller/: the scripts that drive the phones over adb, and *)
(* the order in which wrapper and controller call them: iptables_setup.py  *)
(* at the start, per experiment xprivacy_setup.py and one application      *)
(* execution for each application, clean_up.py after a failed execution,   *)
(* iptables_end.py at the end.                                             *)
(*                                                                         *)
(* A script is a sequence of methods of class adb.  A method runs one adb  *)
(* command for each device in turn; the first command that fails ends the  *)
(* script, with the devices before it changed and those after it not.      *)
(***************************************************************************)
EXTENDS Integers, Sequences, FiniteSets

CONSTANTS
    NumDevices,      \* devices of adb.ini, in the order of the list
    Apps,            \* applications, a sequence
    WithIptables,    \* devices with "iptables: true"
    WithXPrivacy,    \* devices with "xprivacy: true"
    WhiteList,       \* white_list of section iptables
    NumMessages,     \* messages of one execution, 4 in app_execution.py
    MaxExperiments   \* bound: experiments

Device == 1 .. NumDevices
App == {Apps[k] : k \in DOMAIN Apps}

ASSUME PhonesAssumption ==
    /\ NumDevices \in Nat \ {0}
    /\ Apps \in Seq(App) /\ Len(Apps) > 0
    /\ WithIptables \subseteq Device
    /\ WithXPrivacy \subseteq Device
    /\ WhiteList \in BOOLEAN
    /\ NumMessages \in Nat
    /\ MaxExperiments \in Nat

VARIABLES
    execution, \* the script configured as app_execution in controller.ini
    script,    \* the script that runs or, with at = 0, that ran last
    at,        \* the position in it
    app,       \* the position of the current application in Apps
    failed,    \* the last script ended with an exit status other than 0
    count,     \* experiments started
    over,      \* the wrapper has ended
    tries,     \* tries of start_wifi()
    switch,    \* the device whose turn it is to send
    \* The phones.
    wifi,      \* wifi[d]: enabled
    online,    \* online[d]: the last ping of d did not find the network unreachable
    screen,    \* screen[d]: on
    recording, \* recording[d]: screenrecord processes on d
    open,      \* open[d]: applications that run on d
    blocked,   \* blocked[d]: the rule that rejects the range of user ids is set
    pass,      \* pass[d][a]: RETURN rules for a in the chain of d
    location,  \* location[d]: the experiment and the country, 1 or 2, of its coordinates
    \* History.
    failures   \* failed executions

phones == <<wifi, online, screen, recording, open, blocked, pass, location, failures>>
control == <<execution, script, at, app, failed, count, over>>
vars == <<control, tries, switch, phones>>

IptablesSetup == <<"firewall_set_up">>

XprivacySetup ==
    <<"start_screencast", "activate_screen", "xprivacy_set_fake_location",
      "sleep", "stop_screencast">>

(* wait_in_messenger() and the other pauses are left out. *)
AppExecution ==
    <<"start_screencast", "activate_screen", "firewall_open_uid",
      "start_wifi", "start_application">>
    \o [k \in 1 .. NumMessages |-> "send_message"]
    \o <<"close_application", "firewall_close_uid", "stop_wifi",
         "sleep", "stop_screencast">>

EmptyExecution ==
    <<"start_screencast", "activate_screen", "start_wifi",
      "stop_wifi", "sleep", "stop_screencast">>

CleanUp == <<"stop_wifi", "close_applications", "sleep">>

IptablesEnd == <<"firewall_stop_complete">>

Script ==
    [iptables_setup  |-> IptablesSetup,
     xprivacy_setup  |-> XprivacySetup,
     app_execution   |-> AppExecution,
     empty_execution |-> EmptyExecution,
     clean_up        |-> CleanUp,
     iptables_end    |-> IptablesEnd]

Init ==
    /\ execution \in {"app_execution", "empty_execution"}
    /\ script = "iptables_setup"
    /\ at = 1
    /\ app = 0
    /\ failed = FALSE
    /\ count = 0
    /\ over = FALSE
    /\ tries = 0
    /\ switch = 1
    /\ wifi = [d \in Device |-> FALSE]
    /\ online = [d \in Device |-> FALSE]
    /\ screen = [d \in Device |-> FALSE]
    /\ recording = [d \in Device |-> 0]
    /\ open = [d \in Device |-> {}]
    /\ blocked = [d \in Device |-> FALSE]
    /\ pass = [d \in Device |-> [a \in App |-> 0]]
    /\ location = [d \in Device |-> <<0, 0>>]
    /\ failures = 0

-----------------------------------------------------------------------------
(* The next method is m, and it returns, or it raises an exception.        *)

Runs(m) == at > 0 /\ Script[script][at] = m

Return ==
    /\ at' = IF at < Len(Script[script]) THEN at + 1 ELSE 0
    /\ UNCHANGED <<execution, script, app, failed, count, over>>

Raise ==
    /\ at' = 0
    /\ failed' = TRUE
    /\ UNCHANGED <<execution, script, app, count, over>>

(* The devices 1 .. k were reached. With k = NumDevices the method returns *)
(* (a later command of it may also fail).                                  *)
Reach(k) == Raise \/ (k = NumDevices /\ Return)

(* The new value of a table of the phones when the first k of the devices  *)
(* ds take the value new(d).                                               *)
Upto(table, k, ds, new(_)) ==
    [d \in Device |-> IF d <= k /\ d \in ds THEN new(d) ELSE table[d]]

-----------------------------------------------------------------------------
(* The methods of class adb.                                               *)

start_screencast ==
    /\ Runs("start_screencast")
    /\ recording' = [d \in Device |-> recording[d] + 1]
    /\ Return
    /\ UNCHANGED <<tries, switch, wifi, online, screen, open, blocked, pass, location, failures>>

(* SIGINT to screenrecord and a pull of the video. *)
stop_screencast ==
    /\ Runs("stop_screencast")
    /\ \E k \in 0 .. NumDevices :
          /\ recording' = Upto(recording, k, Device,
                               LAMBDA d : IF recording[d] > 0 THEN recording[d] - 1 ELSE 0)
          /\ Reach(k)
    /\ UNCHANGED <<tries, switch, wifi, online, screen, open, blocked, pass, location, failures>>

(* Key event 26 is the power button: it toggles the screen. *)
activate_screen ==
    /\ Runs("activate_screen")
    /\ \E k \in 0 .. NumDevices :
          /\ screen' = Upto(screen, k, Device, LAMBDA d : ~screen[d])
          /\ Reach(k)
    /\ UNCHANGED <<tries, switch, wifi, online, recording, open, blocked, pass, location, failures>>

(* Fault: the power button instead of key event 223. *)
sleep_toggles ==
    /\ Runs("sleep")
    /\ \E k \in 0 .. NumDevices :
          /\ screen' = Upto(screen, k, Device, LAMBDA d : ~screen[d])
          /\ Reach(k)
    /\ UNCHANGED <<tries, switch, wifi, online, recording, open, blocked, pass, location, failures>>

(* Key event 223 puts the device to sleep. *)
sleep ==
    /\ Runs("sleep")
    /\ \E k \in 0 .. NumDevices :
          /\ screen' = Upto(screen, k, Device, LAMBDA d : FALSE)
          /\ Reach(k)
    /\ UNCHANGED <<tries, switch, wifi, online, recording, open, blocked, pass, location, failures>>

(* The coordinates of the two countries are handed out, in order, to the   *)
(* devices that support XPrivacy.                                          *)
Coordinates(d) == Cardinality({x \in WithXPrivacy : x <= d})

xprivacy_set_fake_location ==
    /\ Runs("xprivacy_set_fake_location")
    /\ \E k \in 0 .. NumDevices :
          /\ location' = Upto(location, k, WithXPrivacy, LAMBDA d : <<count, Coordinates(d)>>)
          /\ Reach(k)
    /\ UNCHANGED <<tries, switch, wifi, online, screen, recording, open, blocked, pass, failures>>

(* With a white list the range of user ids is rejected; without one single *)
(* ids are, none of them that of an application.                           *)
firewall_set_up ==
    /\ Runs("firewall_set_up")
    /\ \E k \in 0 .. NumDevices :
          /\ blocked' = Upto(blocked, k, WithIptables, LAMBDA d : WhiteList)
          /\ Reach(k)
    /\ UNCHANGED <<tries, switch, wifi, online, screen, recording, open, pass, location, failures>>

firewall_stop_complete ==
    /\ Runs("firewall_stop_complete")
    /\ \E k \in 0 .. NumDevices :
          /\ blocked' = Upto(blocked, k, WithIptables, LAMBDA d : FALSE)
          /\ pass' = Upto(pass, k, WithIptables, LAMBDA d : [a \in App |-> 0])
          /\ Reach(k)
    /\ UNCHANGED <<tries, switch, wifi, online, screen, recording, open, location, failures>>

(* iptables -I: one more rule. *)
firewall_open_uid ==
    /\ Runs("firewall_open_uid")
    /\ \E k \in 0 .. NumDevices :
          /\ pass' = Upto(pass, k, WithIptables,
                          LAMBDA d : [pass[d] EXCEPT ![Apps[app]] = @ + 1])
          /\ Reach(k)
    /\ UNCHANGED <<tries, switch, wifi, online, screen, recording, open, blocked, location, failures>>

(* Fault: the rule of the first application is deleted. *)
firewall_close_first ==
    /\ Runs("firewall_close_uid")
    /\ \E k \in 0 .. NumDevices :
          /\ pass' = Upto(pass, k, WithIptables,
                          LAMBDA d : [pass[d] EXCEPT ![Apps[1]] = IF @ > 0 THEN @ - 1 ELSE 0])
          /\ Reach(k)
    /\ UNCHANGED <<tries, switch, wifi, online, screen, recording, open, blocked, location, failures>>

(* iptables -D: one rule less. *)
firewall_close_uid ==
    /\ Runs("firewall_close_uid")
    /\ \E k \in 0 .. NumDevices :
          /\ pass' = Upto(pass, k, WithIptables,
                          LAMBDA d : [pass[d] EXCEPT ![Apps[app]] = IF @ > 0 THEN @ - 1 ELSE 0])
          /\ Reach(k)
    /\ UNCHANGED <<tries, switch, wifi, online, screen, recording, open, blocked, location, failures>>

(* start_wifi(): enable on all devices, then ping from all devices. When a *)
(* network is unreachable, the wifi is switched off and on, twice at most; *)
(* then the script exits.                                                  *)
enable_wifi ==
    /\ Runs("start_wifi")
    /\ tries = 0
    /\ \E k \in 0 .. NumDevices :
          /\ wifi' = Upto(wifi, k, Device, LAMBDA d : TRUE)
          /\ \/ Raise /\ UNCHANGED <<tries, online>>
             \/ /\ k = NumDevices
                /\ tries' = 1
                /\ online' \in [Device -> BOOLEAN]
                /\ UNCHANGED control
    /\ UNCHANGED <<switch, screen, recording, open, blocked, pass, location, failures>>

(* Fault: one reachable network is enough. *)
wifi_works_on_one ==
    /\ Runs("start_wifi")
    /\ tries > 0
    /\ \E d \in Device : online[d]
    /\ tries' = 0
    /\ Return
    /\ UNCHANGED <<switch, phones>>

wifi_works ==
    /\ Runs("start_wifi")
    /\ tries > 0
    /\ \A d \in Device : online[d]
    /\ tries' = 0
    /\ Return
    /\ UNCHANGED <<switch, phones>>

(* Disabling or enabling may fail; after the latter a device has no wifi. *)
retry_wifi ==
    /\ Runs("start_wifi")
    /\ tries \in 1 .. 2
    /\ \E d \in Device : ~online[d]
    /\ \/ /\ online' \in [Device -> BOOLEAN]
          /\ tries' = tries + 1
          /\ UNCHANGED <<control, wifi>>
       \/ \E k \in Device : /\ wifi' \in {wifi, [wifi EXCEPT ![k] = FALSE]}
                            /\ tries' = 0
                            /\ Raise
                            /\ UNCHANGED online
    /\ UNCHANGED <<switch, screen, recording, open, blocked, pass, location, failures>>

(* The exit ends the process; the next script starts a new one. *)
give_up_wifi ==
    /\ Runs("start_wifi")
    /\ tries = 3
    /\ \E d \in Device : ~online[d]
    /\ tries' = 0
    /\ Raise
    /\ UNCHANGED <<switch, phones>>

stop_wifi ==
    /\ Runs("stop_wifi")
    /\ \E k \in 0 .. NumDevices :
          /\ wifi' = Upto(wifi, k, Device, LAMBDA d : FALSE)
          /\ Reach(k)
    /\ UNCHANGED <<tries, switch, online, screen, recording, open, blocked, pass, location, failures>>

(* Started on all devices; then two taps on each. *)
start_application ==
    /\ Runs("start_application")
    /\ \E k \in 0 .. NumDevices :
          /\ open' = Upto(open, k, Device, LAMBDA d : open[d] \cup {Apps[app]})
          /\ Reach(k)
    /\ UNCHANGED <<tries, switch, wifi, online, screen, recording, blocked, pass, location, failures>>

close_application ==
    /\ Runs("close_application")
    /\ \E k \in 0 .. NumDevices :
          /\ open' = Upto(open, k, Device, LAMBDA d : open[d] \ {Apps[app]})
          /\ Reach(k)
    /\ UNCHANGED <<tries, switch, wifi, online, screen, recording, blocked, pass, location, failures>>

(* The loop of clean_up.py: every application in turn on every device. *)
close_applications ==
    /\ Runs("close_applications")
    /\ \/ /\ open' = [d \in Device |-> {}]
          /\ Return
       \/ \E n \in DOMAIN Apps, k \in 0 .. NumDevices :
             /\ open' = [d \in Device |->
                            open[d] \ {Apps[m] : m \in 1 .. (IF d <= k THEN n ELSE n - 1)}]
             /\ Raise
    /\ UNCHANGED <<tries, switch, wifi, online, screen, recording, blocked, pass, location, failures>>

(* Text and tap on the device whose turn it is. *)
send_message ==
    /\ Runs("send_message")
    /\ \/ /\ switch' = (switch % NumDevices) + 1
          /\ Return
       \/ /\ Raise
          /\ UNCHANGED switch
    /\ UNCHANGED <<tries, wifi, online, screen, recording, open, blocked, pass, location, failures>>

(* screenrecord stops by itself after three minutes. *)
RecordingEnds(d) ==
    /\ recording[d] > 0
    /\ recording' = [recording EXCEPT ![d] = @ - 1]
    /\ UNCHANGED <<control, tries, switch, wifi, online, screen, open, blocked, pass, location, failures>>

Method ==
    \/ start_screencast \/ stop_screencast
    \/ activate_screen \/ sleep
    \/ xprivacy_set_fake_location
    \/ firewall_set_up \/ firewall_stop_complete
    \/ firewall_open_uid \/ firewall_close_uid
    \/ enable_wifi \/ wifi_works \/ retry_wifi \/ give_up_wifi \/ stop_wifi
    \/ start_application \/ close_application \/ close_applications
    \/ send_message

-----------------------------------------------------------------------------
(* Which script comes next, from controller.py and wrapper.py. An          *)
(* experiment may also end after any script for a reason other than the    *)
(* phones; then the next one begins.                                       *)

Idle == at = 0 /\ ~over

(* A new process: the class attribute switch has its first value. *)
Start(s, a) ==
    /\ script' = s
    /\ at' = 1
    /\ app' = a
    /\ failed' = FALSE
    /\ switch' = 1
    /\ UNCHANGED <<execution, over, tries, wifi, online, screen, recording, open, blocked, pass, location>>

BeginExperiment ==
    /\ Idle /\ ~failed
    /\ script # "iptables_end"
    /\ count < MaxExperiments
    /\ Start("xprivacy_setup", 0)
    /\ count' = count + 1
    /\ UNCHANGED failures

NextApplication ==
    /\ Idle /\ ~failed
    /\ script \in {"xprivacy_setup", execution}
    /\ app < Len(Apps)
    /\ Start(execution, app + 1)
    /\ UNCHANGED <<count, failures>>

CleanUpPhones ==
    /\ Idle /\ failed
    /\ script = execution
    /\ Start("clean_up", app)
    /\ failures' = failures + 1
    /\ UNCHANGED count

EndMeasurement ==
    /\ Idle /\ ~failed
    /\ script # "iptables_end"
    /\ Start("iptables_end", 0)
    /\ UNCHANGED <<count, failures>>

(* After any other failure, and after iptables_end.py, the wrapper ends. *)
WrapperEnds ==
    /\ Idle
    /\ (failed /\ script # execution) \/ script = "iptables_end"
    /\ over' = TRUE
    /\ UNCHANGED <<execution, script, at, app, failed, count, tries, switch, phones>>

Terminated == over /\ UNCHANGED vars

Next ==
    \/ Method
    \/ \E d \in Device : RecordingEnds(d)
    \/ BeginExperiment \/ NextApplication \/ CleanUpPhones \/ EndMeasurement
    \/ WrapperEnds \/ Terminated

Spec == Init /\ [][Next]_vars

(* Every adb command returns. *)
FairSpec == Spec /\ WF_vars(Method)

-----------------------------------------------------------------------------
(* Properties.                                                             *)

(* The power button is a toggle, so activate_screen() relies on every      *)
(* script before it, failed ones included, having left the screens off:    *)
(* all screens are on whenever the phones are tapped.                      *)
ScreensOnInUse ==
    Runs("send_message") \/ Runs("start_application") \/ Runs("xprivacy_set_fake_location")
        => \A d \in Device : screen[d]

(* When a message is sent every phone has wifi, reached the network in     *)
(* the last round of pings and may send through its firewall, the measured *)
(* application is the only one that runs, and the location is that of the  *)
(* phone's tunnel endpoint in this experiment (step 3 of the README), also *)
(* after executions that failed half way.                                  *)
ReadyToSend ==
    Runs("send_message") => \A d \in Device :
        /\ wifi[d] /\ online[d]
        /\ d \in WithIptables => pass[d][Apps[app]] > 0
        /\ open[d] = {Apps[app]}
        /\ d \in WithXPrivacy => location[d] = <<count, d>>

(* Whenever a script has succeeded, clean_up.py included, all phones are   *)
(* asleep, without wifi and without a running application, and the rules   *)
(* that open the firewall have not piled up: beyond the current execution  *)
(* every phone has at most one for each execution that failed.             *)
LeftClean ==
    at = 0 /\ ~failed => \A d \in Device :
        /\ ~wifi[d] /\ ~screen[d] /\ open[d] = {}
        /\ \A a \in App : pass[d][a] <= failures

-----------------------------------------------------------------------------
(* The inductive invariant: what holds of the phones at every position of  *)
(* every script.                                                           *)

\* The scripts that tap on the screen; all begin and end in the same way.
Tapping == {"xprivacy_setup", "app_execution", "empty_execution"}
\* Between the scripts, and in those that only set the firewall.
Resting == (at = 0 /\ ~failed) \/ (at > 0 /\ script \in {"iptables_setup", "iptables_end"})
\* The methods of app_execution.py from position i to position j.
Within(i, j) == script = "app_execution" /\ i <= at /\ at <= j
\* The last position of the script.
Last == Len(Script[script])

ControlOK ==
    /\ execution \in {"app_execution", "empty_execution"}
    /\ script \in {"iptables_setup", "xprivacy_setup", "clean_up", "iptables_end", execution}
    /\ at \in 0 .. Last
    /\ app \in 0 .. Len(Apps) /\ (script = execution => app > 0)
    /\ failed \in BOOLEAN /\ (at > 0 => ~failed)
    /\ count \in Nat /\ failures \in Nat
    /\ tries \in {0, 1, 2, 3} /\ (tries > 0 => Runs("start_wifi"))

TypeOK ==
    /\ ControlOK
    /\ wifi \in [Device -> BOOLEAN] /\ screen \in [Device -> BOOLEAN]
    /\ open \in [Device -> SUBSET App]
    /\ pass \in [Device -> [App -> Nat]]

ScreenInv == \A d \in Device :
    /\ Resting \/ (script \in Tapping /\ at \in {1, 2, Last}) => ~screen[d]
    /\ script \in Tapping /\ 2 < at /\ at < Last => screen[d]

WifiInv == \A d \in Device :
    /\ (\/ Resting
        \/ at > 0 /\ script = "xprivacy_setup"
        \/ script = "clean_up" /\ at > 1
        \/ script = "app_execution" /\ (at \in {1, 2, 3} \/ at > NumMessages + 8)
        \/ script = "empty_execution" /\ (at \in {1, 2} \/ at > 4))
       => ~wifi[d]
    /\ tries > 0 \/ Within(5, NumMessages + 8) => wifi[d]
    /\ Within(5, NumMessages + 8) => online[d]

OpenInv == \A d \in Device :
    /\ (\/ Resting
        \/ at > 0 /\ script \in {"xprivacy_setup", "empty_execution"}
        \/ script = "clean_up" /\ at = 3
        \/ Within(1, 5) \/ Within(NumMessages + 7, NumMessages + 10))
       => open[d] = {}
    /\ Within(6, NumMessages + 6) => open[d] = {Apps[app]}

PassInv == \A d \in Device :
    /\ d \in WithIptables /\ Within(4, NumMessages + 7) => pass[d][Apps[app]] > 0
    /\ \A a \in App :
          \/ pass[d][a] <= failures
          \/ /\ d \in WithIptables /\ pass[d][a] = failures + 1 /\ script = "app_execution"
             /\ failed \/ (Within(4, NumMessages + 7) /\ a = Apps[app])

LocationInv == \A d \in WithXPrivacy :
    script = execution \/ (script = "xprivacy_setup" /\ (at > 3 \/ (at = 0 /\ ~failed)))
        => location[d] = <<count, Coordinates(d)>>

PhonesInv == TypeOK /\ ScreenInv /\ WifiInv /\ OpenInv /\ PassInv /\ LocationInv

=============================================================================
