------------------------------ MODULE System --------------------------------
(* The fsm process and the applications it steers: the Experiment of         *)
(* ExperimentFsm, its commands on their way to the applications, what these  *)
(* do with them, and their statuses on the way back.  The control bus is     *)
(* online; how it fails is in ExperimentFsm and Shutdown, how an application *)
(* sends and receives in AppMain, how DAQontrol gets to its target in        *)
(* DaqControl.                                                               *)
EXTENDS Naturals, Sequences

CONSTANTS Faults,       \* what may happen, of "command", "status", "restart", "controllers"
          MaxFaults,    \* bound: faults
          MaxCommands,  \* bound: commands of the operators
          MaxAir        \* bound: statuses of an application on their way

VARIABLES exp, app, last,  \* as in ExperimentFsm
          inbox,     \* commands on their way to each application
          linked,    \* applications that receive the control bus
          outbox,    \* statuses on their way from each application
          mode,      \* getRun and its state, current_state_, and mode_
          target,    \* target_state_ of DAQontrol
          resetting, \* handleConfigCommand waits for the old controllers' reset
          empty,     \* every controller of DAQontrol has been dropped
          commands, faults

fsmVars == <<exp, app, last>>
control == <<target, resetting, empty>>
vars == <<exp, app, last, inbox, linked, outbox, mode, control, commands, faults>>

Fsm == INSTANCE ExperimentFsm WITH Client <- {}, NoClient <- 0, bus <- "Online", want <- <<>>,
                                   reply <- <<>>, serving <- 0, at <- 0, able <- FALSE
Application == Fsm!Application

Init == /\ exp = "Init" /\ last = "none" /\ app = [a \in Application |-> "Offline"]
        /\ inbox = [a \in Application |-> <<>>] /\ linked = Application
        /\ outbox = [a \in Application |-> <<>>] /\ mode = [a \in Application |-> "Ready"]
        /\ target = "Ready" /\ resetting = FALSE /\ empty = FALSE /\ commands = 0 /\ faults = 0

Fault(f) == f \in Faults /\ faults < MaxFaults /\ faults' = faults + 1

(* --- the fsm process --------------------------------------------------------- *)
Applications == UNCHANGED <<linked, mode, control>>
\* A command the Experiment takes is published to whoever is connected.
Operate(k) ==
  /\ commands < MaxCommands /\ commands' = commands + 1
  /\ Fsm!Target(exp, k) # exp /\ exp' = Fsm!Settle(Fsm!Target(exp, k), "Online", app) /\ last' = k
  /\ inbox' = [a \in Application |-> IF a \in linked THEN Append(inbox[a], k) ELSE inbox[a]]
  /\ UNCHANGED <<app, outbox, faults>> /\ Applications

AppBecomes(a, s) == /\ app' = [app EXCEPT ![a] = s] /\ exp' = Fsm!Settle(exp, "Online", app') /\ UNCHANGED last
Dial(a) == app[a] = "Offline" /\ AppBecomes(a, "Unknown") /\ UNCHANGED <<inbox, outbox, commands, faults>> /\ Applications

Hear(a) == /\ app[a] # "Offline" /\ outbox[a] # <<>> /\ outbox' = [outbox EXCEPT ![a] = Tail(@)]
           /\ IF Fsm!Hears(a, app[a], Head(outbox[a])) THEN AppBecomes(a, Head(outbox[a]))
                                                       ELSE UNCHANGED fsmVars
           /\ UNCHANGED <<inbox, commands, faults>> /\ Applications

\* Two seconds without a status, or the connection is gone: both are failures of the bus.
Lose(a) == /\ Fault("status") /\ app[a] # "Offline" /\ AppBecomes(a, "Offline") /\ outbox' = [outbox EXCEPT ![a] = <<>>]
           /\ UNCHANGED <<inbox, commands>> /\ Applications

(* --- the applications ----------------------------------------------------------- *)
Away == UNCHANGED <<fsmVars, commands>>
\* What a command does to the mode.
After(a, m, k) == CASE a = "Daqonite" /\ k = "StartRun" -> "Running"
                    [] a = "Daqonite" /\ k = "StopRun" -> "Ready"
                    [] a = "Daqsitter" /\ k = "StartData" -> "Started"
                    [] a = "Daqsitter" /\ k = "StopData" -> "Ready"
                    [] OTHER -> m
TargetAfter(k) == CASE k = "StartData" /\ mode["Daqontrol"] # "Started" -> "Started"
                    [] k = "StopData" /\ mode["Daqontrol"] # "Configured" -> "Configured"
                    [] OTHER -> target
Handle(a) ==
  /\ inbox[a] # <<>> /\ Head(inbox[a]) # "Exit" /\ (a = "Daqontrol" => ~resetting)
  /\ LET k == Head(inbox[a]) IN
     /\ mode' = [mode EXCEPT ![a] = After(a, @, k)]
     /\ IF a = "Daqontrol" THEN target' = TargetAfter(k) /\ resetting' = (k = "Config") ELSE UNCHANGED <<target, resetting>>
  /\ inbox' = [inbox EXCEPT ![a] = Tail(@)] /\ UNCHANGED <<linked, outbox, empty, faults>> /\ Away

\* Ten seconds later DAQontrol has new controllers, and when they have been told, a target.
Build == /\ resetting /\ resetting' = FALSE /\ empty' = FALSE /\ target' = "Configured"
         /\ mode' = [mode EXCEPT !["Daqontrol"] = "Ready"]
         /\ UNCHANGED <<inbox, linked, outbox, faults>> /\ Away
\* The controllers that are left have all got to the target.
StateUpdate == /\ mode["Daqontrol"] # target /\ ~empty /\ ~resetting
               /\ mode' = [mode EXCEPT !["Daqontrol"] = target]
               /\ UNCHANGED <<inbox, linked, outbox, control, faults>> /\ Away
DropAll == /\ Fault("controllers") /\ empty' = TRUE
           /\ UNCHANGED <<inbox, linked, outbox, mode, target, resetting>> /\ Away

\* Announcing the target.
ReportTarget(a) == /\ app[a] # "Offline" /\ Len(outbox[a]) < MaxAir
                   /\ outbox' = [outbox EXCEPT ![a] = Append(@, IF a = "Daqontrol" THEN target ELSE mode[a])]
                   /\ UNCHANGED <<inbox, linked, mode, control, faults>> /\ Away
\* Every 200 ms; what is sent while the observer is not connected is lost.
Report(a) == /\ app[a] # "Offline" /\ Len(outbox[a]) < MaxAir /\ outbox' = [outbox EXCEPT ![a] = Append(@, mode[a])]
             /\ UNCHANGED <<inbox, linked, mode, control, faults>> /\ Away

\* CommandReceiver's connection is gone, with what was on it, and comes back after five seconds.
Unlink(a) == /\ Fault("command") /\ a \in linked /\ linked' = linked \ {a}
             /\ inbox' = [inbox EXCEPT ![a] = <<>>] /\ UNCHANGED <<outbox, mode, control>> /\ Away
Relink(a) == /\ a \notin linked /\ linked' = linked \cup {a}
             /\ UNCHANGED <<inbox, outbox, mode, control, faults>> /\ Away

\* The process ends and is started again, within the two seconds of its observer.
Restart(a) == /\ Fault("restart") /\ mode' = [mode EXCEPT ![a] = "Ready"]
              /\ inbox' = [inbox EXCEPT ![a] = <<>>] /\ linked' = linked \ {a}
              /\ IF a = "Daqontrol" THEN target' = "Ready" /\ resetting' = FALSE /\ empty' = FALSE
                                    ELSE UNCHANGED control
              /\ UNCHANGED outbox /\ Away

Next == \/ \E k \in Fsm!Command : Operate(k)
        \/ \E a \in Application : Dial(a) \/ Hear(a) \/ Lose(a) \/ Handle(a) \/ Report(a) \/ Unlink(a) \/ Relink(a)
                                  \/ Restart(a)
        \/ Build \/ StateUpdate \/ DropAll
Spec == Init /\ [][Next]_vars
\* Threads and sockets go on, and every application reports and is heard.
Goes == Build \/ StateUpdate \/ \E a \in Application : Dial(a) \/ Handle(a) \/ Relink(a)
FairSpec == Spec /\ WF_vars(Goes) /\ \A a \in Application : WF_vars(Hear(a) \/ Report(a))

(* --- properties --------------------------------------------------------------------- *)
\* Everything has its type.
TypeOK == /\ mode \in [Application -> {"Ready", "Configured", "Started", "Running"}] /\ linked \subseteq Application
          /\ \A a \in Application : mode[a] \in Fsm!Announced(a) /\ Len(outbox[a]) <= MaxAir
          /\ target \in {"Ready", "Configured", "Started"} /\ resetting \in BOOLEAN /\ empty \in BOOLEAN

Gone(a) == app[a] \in {"Offline", "Unknown"}
\* states.cc: what the Experiment says is so, while it sees the applications, whatever commands and statuses are lost: a run is
\* taken by DAQonite, and data by DAQontrol and DAQsitter.
ReportedIsTrue ==
  /\ exp = "Running" => mode["Daqonite"] = "Running"
  /\ exp = "Started" => mode["Daqonite"] = "Ready"
  /\ exp \in {"Started", "Running"} => mode["Daqontrol"] = "Started" /\ mode["Daqsitter"] = "Started"

\* No application does what it has not been told, or goes on after the Experiment came to rest.
NeverAhead ==
  /\ mode["Daqonite"] = "Running" => last \in {"StartRun", "StopRun", "Exit"} \/ inbox["Daqonite"] # <<>>
  /\ mode["Daqsitter"] = "Started" => last # "Config"

(* --- the inductive invariant ----------------------------------------------------------- *)
\* a is in mode s, and whatever it has said since it was last found is s.
Unseen == {"Offline", "Unknown"}
Says(a, s) == mode[a] = s /\ app[a] \in Unseen \cup {s} /\ \A i \in DOMAIN outbox[a] : outbox[a][i] = s
\* None of K is on its way to a; or only k is, and none after it.
NoneOf(a, K) == \A i \in DOMAIN inbox[a] : inbox[a][i] \notin K
OnlyLast(a, K, k) == \A i \in DOMAIN inbox[a] : inbox[a][i] \in K =>
                       inbox[a][i] = k /\ \A j \in DOMAIN inbox[a] : i < j => inbox[a][j] \notin K
\* a goes from one of From to s, and what it says of it stays in order.
Turns(a, From, s) ==
  /\ mode[a] \in From \cup {s} /\ app[a] \in Unseen \cup From \cup {s}
  /\ \A i \in DOMAIN outbox[a] : outbox[a][i] \in From \cup {s}
  /\ \A i \in DOMAIN outbox[a] : outbox[a][i] = s =>
       mode[a] = s /\ \A j \in DOMAIN outbox[a] : i < j => outbox[a][j] = s
  /\ app[a] = s => mode[a] = s /\ \A i \in DOMAIN outbox[a] : outbox[a][i] = s

\* An application that is told by K to go from one mode to another, and does so at once.
Rests(a, s, K) == Says(a, s) /\ NoneOf(a, K)
Follows(a, s, t, K, k) == \/ Says(a, s) /\ OnlyLast(a, K, k)
                          \/ Turns(a, {s}, t) /\ mode[a] = t /\ NoneOf(a, K)
RunCommands == {"StartRun", "StopRun"}
DaqoniteAgrees(e) ==
  CASE e \in {"Error", "Exit"} -> TRUE
    [] e = "StartingRun" -> Follows("Daqonite", "Ready", "Running", RunCommands, "StartRun")
    [] e = "Running"     -> Rests("Daqonite", "Running", RunCommands)
    [] e = "StoppingRun" -> Follows("Daqonite", "Running", "Ready", RunCommands, "StopRun")
    [] OTHER             -> Rests("Daqonite", "Ready", RunCommands)
DataCommands == {"StartData", "StopData"}
TakingData == {"Started", "StartingRun", "Running", "StoppingRun"}
DaqsitterAgrees(e) ==
  CASE e \in {"Error", "Exit"} -> TRUE
    [] e = "StartingData" -> Follows("Daqsitter", "Ready", "Started", DataCommands, "StartData")
    [] e \in TakingData   -> Rests("Daqsitter", "Started", DataCommands)
    [] e = "StoppingData" -> Follows("Daqsitter", "Started", "Ready", DataCommands, "StopData")
    [] OTHER              -> Rests("Daqsitter", "Ready", DataCommands)

\* DAQontrol gets to its target later; as long as it takes no data, configurations may be waiting.
ControlCommands == {"Config", "StartData", "StopData"}
Low == {"Ready", "Configured"}
StaysLow == /\ target \in Low /\ mode["Daqontrol"] \in Low /\ app["Daqontrol"] \in Unseen \cup Low
            /\ \A i \in DOMAIN outbox["Daqontrol"] : outbox["Daqontrol"][i] \in Low
StartsLast == \A i \in DOMAIN inbox["Daqontrol"] : inbox["Daqontrol"][i] \in DataCommands =>
                /\ inbox["Daqontrol"][i] = "StartData"
                /\ \A j \in DOMAIN inbox["Daqontrol"] : i < j => inbox["Daqontrol"][j] \notin ControlCommands
TakesData == target = "Started" /\ ~resetting /\ Says("Daqontrol", "Started")
GoesTo(From, s) == /\ target = s /\ ~resetting /\ Turns("Daqontrol", From, s)
                   /\ NoneOf("Daqontrol", ControlCommands)
DaqontrolAgrees(e) ==
  CASE e \in {"Error", "Exit"} -> TRUE
    [] e = "StartingData" -> (StaysLow /\ StartsLast) \/ GoesTo(Low, "Started")
    [] e \in TakingData   -> TakesData /\ NoneOf("Daqontrol", ControlCommands)
    [] e = "StoppingData" -> \/ TakesData /\ OnlyLast("Daqontrol", ControlCommands, "StopData")
                             \/ GoesTo({"Started"}, "Configured")
    [] OTHER              -> StaysLow /\ NoneOf("Daqontrol", DataCommands)

\* What the applications are told, do and say agrees with the state e of the Experiment.
Agrees(e) == DaqoniteAgrees(e) /\ DaqsitterAgrees(e) /\ DaqontrolAgrees(e)
\* The command published last tells of modes that nobody can be in, in whatever state.
LastAgrees ==
  /\ last \notin {"StartRun", "StopRun", "Exit"} => mode["Daqonite"] = "Ready" /\ NoneOf("Daqonite", {"StartRun"})
  /\ last \in {"none", "Config"} => mode["Daqsitter"] = "Ready" /\ NoneOf("Daqsitter", {"StartData"})
IInv == /\ exp \in Fsm!Experiment /\ resetting \in BOOLEAN /\ target \in {"Ready", "Configured", "Started"}
        /\ app \in [Application -> Unseen \cup {"Initialising", "Ready", "Configured", "Started", "Running"}]
        /\ mode \in [Application -> {"Ready", "Configured", "Started", "Running"}]
        /\ inbox \in [Application -> Seq(Fsm!Command)]
        /\ outbox \in [Application -> Seq({"Ready", "Configured", "Started", "Running"})]
        /\ Agrees(exp) /\ LastAgrees

\* Without faults every transition comes to its end.
InTransition == exp \in Fsm!Transitional
Ends == InTransition ~> ~InTransition

\* states.cc:137: when the Experiment is Configured, DAQontrol has been configured.
ConfiguredIsNew == exp = "Configured" => mode["Daqontrol"] = "Configured" /\ ~resetting /\ inbox["Daqontrol"] = <<>>
=============================================================================
