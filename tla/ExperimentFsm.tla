--------------------------- MODULE ExperimentFsm ---------------------------
(***************************************************************************)
(* The `fsm` process: the state machines of the experiment, of its control *)
(* bus and of the three applications it supervises, the observers that     *)
(* feed them, the operator's uplink and the operator's clients (ops_cmd).  *)
(*                                                                         *)
(* Every event is dispatched under Global's recursive mutex, so one event  *)
(* with all the StateUpdate events its entry actions raise is one step.    *)
(* What is not under the mutex is the uplink's acknowledgement: it         *)
(* compares the Experiment's state with several states, one read after the *)
(* other, while events of other threads are dispatched.                    *)
(***************************************************************************)
EXTENDS Naturals, Sequences

CONSTANTS Client,      \* the ops_cmd processes
          NoClient     \* the uplink serves nobody

ASSUME ClientAssumption == NoClient \notin Client

VARIABLES exp,       \* state of Experiment::FSM
          bus,       \* state of ControlBus::FSM
          app,       \* app[a]: state of the state machine of application a
          last,      \* the control message published last
          want,      \* want[c]: the command client c waits to have answered
          reply,     \* reply[c]: the answer client c has got
          serving,   \* the client whose message the uplink is handling
          at,        \* the uplink's comparison under way: its place in
                     \* AckStates, 0 when there is none
          able       \* the Experiment takes the command being handled in the
                     \* state it was received in (history)

fsmVars == <<exp, bus, app, last>>
opsVars == <<want, reply, serving, at, able>>
vars == <<exp, bus, app, last, want, reply, serving, at, able>>
----------------------------------------------------------------------------
Application == {"Daqonite", "Daqontrol", "Daqsitter"}

Command == {"Config", "StartData", "StopData", "StartRun", "StopRun", "Exit"}

Transitional == {"Configuring", "StartingData", "StoppingData",
                 "StartingRun", "StoppingRun"}

Experiment == Transitional \cup
                {"Init", "Ready", "Configured", "Started", "Running",
                 "Error", "Exit"}

\* The states an application announces on its status bus.
Announced(a) ==
  CASE a = "Daqonite"  -> {"Ready", "Running"}
    [] a = "Daqontrol" -> {"Initialising", "Ready", "Configured", "Started"}
    [] a = "Daqsitter" -> {"Ready", "Started"}

\* The state machine of a in state s reacts to the announcement of state m.
Hears(a, s, m) ==
  \/ s = "Unknown"
  \/ a # "Daqontrol" /\ s # "Offline"
  \/ a = "Daqontrol" /\ <<s, m>> \in {<<"Initialising", "Ready">>,
                                      <<"Ready", "Configured">>,
                                      <<"Configured", "Started">>,
                                      <<"Started", "Configured">>}

AppsAre(p, n, t, s) ==
  p["Daqonite"] = n /\ p["Daqontrol"] = t /\ p["Daqsitter"] = s

NoAppIs(p, n, t, s) ==
  p["Daqonite"] # n /\ p["Daqontrol"] # t /\ p["Daqsitter"] # s

\* Mutant: the bus is forgotten.
SupervisedWithoutBus(b, p) ==
  /\ p["Daqonite"] \in {"Ready", "Running"}
  /\ p["Daqontrol"] \in {"Ready", "Configured", "Started"}
  /\ p["Daqsitter"] \in {"Ready", "Started"}

\* What every transitional state asks of the bus and of the applications.
Supervised(b, p) ==
  /\ b = "Online"
  /\ p["Daqonite"] \in {"Ready", "Running"}
  /\ p["Daqontrol"] \in {"Ready", "Configured", "Started"}
  /\ p["Daqsitter"] \in {"Ready", "Started"}

\* The transitional state e has got what it waits for.
GoalReached(e, p) ==
  \/ e \in {"Configuring", "StoppingData"} /\ AppsAre(p, "Ready", "Configured", "Ready")
  \/ e \in {"StartingData", "StoppingRun"} /\ AppsAre(p, "Ready", "Started", "Started")
  \/ e = "StartingRun" /\ AppsAre(p, "Running", "Started", "Started")

Goal(e) ==
  CASE e \in {"Configuring", "StoppingData"} -> "Configured"
    [] e \in {"StartingData", "StoppingRun"} -> "Started"
    [] e = "StartingRun" -> "Running"

\* A stable state gives up only when no application is where it should be.
Abandoned(e, p) ==
  \/ e = "Configured" /\ NoAppIs(p, "Ready", "Configured", "Ready")
  \/ e = "Started" /\ NoAppIs(p, "Ready", "Started", "Started")
  \/ e = "Running" /\ NoAppIs(p, "Running", "Started", "Started")

\* The reaction of Experiment state e to one StateUpdate event.
React(e, b, p) ==
  CASE e = "Init" /\ b = "Online" /\ AppsAre(p, "Ready", "Ready", "Ready") -> "Ready"
    [] e \in Transitional /\ ~Supervised(b, p) -> "Error"
    [] e \in Transitional /\ Supervised(b, p) /\ GoalReached(e, p) -> Goal(e)
    [] Abandoned(e, p) -> "Error"
    [] OTHER -> e

\* Every state entered raises a StateUpdate of its own, so reactions chain
\* until one changes nothing; two are always enough.
Settle(e, b, p) == React(React(e, b, p), b, p)

\* Mutant: Config is taken in Error too, StopData in Running too.
TargetTooLenient(e, c) ==
  CASE c = "Config" /\ e \in {"Ready", "Configured", "Error"} -> "Configuring"
    [] c = "StartData" /\ e = "Configured" -> "StartingData"
    [] c = "StopData" /\ e \in {"Started", "Running"} -> "StoppingData"
    [] c = "StartRun" /\ e = "Started" -> "StartingRun"
    [] c = "StopRun" /\ e = "Running" -> "StoppingRun"
    [] c = "Exit" /\ e \in {"Init", "Ready", "Configured", "Error"} -> "Exit"
    [] OTHER -> e

\* The state that command c sends Experiment state e to; e if it is ignored.
Target(e, c) ==
  CASE c = "Config" /\ e \in {"Ready", "Configured"} -> "Configuring"
    [] c = "StartData" /\ e = "Configured" -> "StartingData"
    [] c = "StopData" /\ e = "Started" -> "StoppingData"
    [] c = "StartRun" /\ e = "Started" -> "StartingRun"
    [] c = "StopRun" /\ e = "Running" -> "StoppingRun"
    [] c = "Exit" /\ e \in {"Init", "Ready", "Configured", "Error"} -> "Exit"
    [] OTHER -> e

\* Mutant: StartData is looked for in the wrong order, Exit acknowledged in
\* Started too.
AckStatesCareless(c) ==
  CASE c = "Config" -> <<"Configuring", "Configured">>
    [] c = "StartData" -> <<"Started", "StartingData">>
    [] c = "StopData" -> <<"StoppingData", "Configured">>
    [] c = "StartRun" -> <<"StartingRun", "Running">>
    [] c = "StopRun" -> <<"StoppingRun", "Started">>
    [] c = "Exit" -> <<"Init", "Ready", "Configured", "Started", "Error">>

\* The states the uplink compares the Experiment with to acknowledge c, in
\* the order of the comparisons.
AckStates(c) ==
  CASE c = "Config" -> <<"Configuring", "Configured">>
    [] c = "StartData" -> <<"StartingData", "Started">>
    [] c = "StopData" -> <<"StoppingData", "Configured">>
    [] c = "StartRun" -> <<"StartingRun", "Running">>
    [] c = "StopRun" -> <<"StoppingRun", "Started">>
    [] c = "Exit" -> <<"Init", "Ready", "Configured", "Error">>
----------------------------------------------------------------------------
Init == /\ exp = "Init"
        /\ bus = "Offline"
        /\ app = [a \in Application |-> "Offline"]
        /\ last = "none"
        /\ want = [c \in Client |-> "none"]
        /\ reply = [c \in Client |-> "none"]
        /\ serving = NoClient
        /\ at = 0
        /\ able = FALSE

\* The bus master listens on the control bus, or its socket fails.
BusChanges(from, to) ==
  /\ bus = from
  /\ bus' = to
  /\ exp' = Settle(exp, bus', app)
  /\ UNCHANGED <<app, last, want, reply, serving, at, able>>

BusConnected == BusChanges("Offline", "Online")

BusDisconnected == BusChanges("Online", "Offline")

\* Mutant: no StateUpdate is sent.
AppBecomesSilently(a, s) ==
  /\ app' = [app EXCEPT ![a] = s]
  /\ UNCHANGED <<exp, bus, last, want, reply, serving, at, able>>

AppBecomes(a, s) ==
  /\ app' = [app EXCEPT ![a] = s]
  /\ exp' = Settle(exp, bus, app')
  /\ UNCHANGED <<bus, last, want, reply, serving, at, able>>

\* The observer of a dials its status bus.
Dial(a) == /\ app[a] = "Offline"
           /\ AppBecomes(a, "Unknown")

\* Nothing heard for two seconds, or the connection is lost.
Lose(a) == /\ app[a] # "Offline"
           /\ AppBecomes(a, "Offline")

Hear(a, m) == /\ app[a] # "Offline"
              /\ Hears(a, app[a], m)
              /\ AppBecomes(a, m)

\* SIGINT: the Experiment goes to Exit from every state, Exit included.
Kill == /\ exp' = "Exit"
        /\ last' = "Exit"
        /\ UNCHANGED <<bus, app, want, reply, serving, at, able>>

\* An ops_cmd process sends its command and blocks.
Request(c, k) ==
  /\ want[c] = "none"
  /\ want' = [want EXCEPT ![c] = k]
  /\ reply' = [reply EXCEPT ![c] = "none"]
  /\ UNCHANGED <<exp, bus, app, last, serving, at, able>>

\* Mutant: the state's name is published.
DispatchStateName(k) ==
  IF Target(exp, k) = exp
  THEN UNCHANGED <<exp, last>>
  ELSE exp' = Settle(Target(exp, k), bus, app) /\ last' = Target(exp, k)

\* Mutant: nothing is published when the entry update leads to Error.
DispatchUnlessFailed(k) ==
  IF Target(exp, k) = exp
  THEN UNCHANGED <<exp, last>>
  ELSE /\ exp' = Settle(Target(exp, k), bus, app)
       /\ last' = IF exp' = "Error" THEN last ELSE k

\* Dispatch command k.  Every state entered on a command publishes the
\* message of the same name: before the transition (Config, StartRun) or
\* after the StateUpdate that may already have moved it on (the others).
Dispatch(k) ==
  IF Target(exp, k) = exp
  THEN UNCHANGED <<exp, last>>
  ELSE exp' = Settle(Target(exp, k), bus, app) /\ last' = k

\* The uplink takes a message; every command but Exit is dispatched first
\* and acknowledged after.
Receive(c) ==
  /\ serving = NoClient
  /\ want[c] # "none"
  /\ serving' = c
  /\ at' = 1
  /\ able' = (Target(exp, want[c]) # exp)
  /\ IF want[c] = "Exit" THEN UNCHANGED <<exp, last>> ELSE Dispatch(want[c])
  /\ UNCHANGED <<bus, app, want, reply>>

Answer(c, r) ==
  /\ reply' = [reply EXCEPT ![c] = r]
  /\ at' = 0
  /\ IF want[c] = "Exit"
     THEN UNCHANGED <<want, serving>>
     ELSE want' = [want EXCEPT ![c] = "none"] /\ serving' = NoClient

\* One is_in_state() of the uplink, outside the dispatch mutex.
Compare(c) ==
  /\ serving = c
  /\ at > 0
  /\ LET states == AckStates(want[c])
     IN \/ exp = states[at] /\ Answer(c, "ack")
        \/ exp # states[at] /\ at = Len(states) /\ Answer(c, "nak")
        \/ /\ exp # states[at] /\ at < Len(states)
           /\ at' = at + 1
           /\ UNCHANGED <<want, reply, serving>>
  /\ UNCHANGED <<exp, bus, app, last, able>>

\* Mutant: Exit is answered and forgotten.
DispatchExitForgotten(c) ==
  /\ serving = c
  /\ at = 0
  /\ want' = [want EXCEPT ![c] = "none"]
  /\ serving' = NoClient
  /\ UNCHANGED <<exp, bus, app, last, reply, at, able>>

\* Mutant: the uplink does not return to its socket.
DispatchExitAndStay(c) ==
  /\ serving = c
  /\ at = 0
  /\ Dispatch("Exit")
  /\ UNCHANGED <<bus, app, want, reply, serving, at, able>>

\* Exit is dispatched after it was answered, whatever the answer was.
DispatchExit(c) ==
  /\ serving = c
  /\ at = 0
  /\ Dispatch("Exit")
  /\ want' = [want EXCEPT ![c] = "none"]
  /\ serving' = NoClient
  /\ UNCHANGED <<bus, app, reply, at, able>>

Uplink(c) == Receive(c) \/ Compare(c) \/ DispatchExit(c)

Next == \/ BusConnected \/ BusDisconnected \/ Kill
        \/ \E a \in Application : \/ Dial(a) \/ Lose(a)
                                  \/ \E m \in Announced(a) : Hear(a, m)
        \/ \E c \in Client : \/ Uplink(c)
                             \/ \E k \in Command : Request(c, k)

Spec == Init /\ [][Next]_vars

\* The uplink is one thread that never waits for another: once it has a
\* message it goes on.
FairSpec == /\ Spec
            /\ \A c \in Client : WF_vars(Compare(c)) /\ WF_vars(DispatchExit(c))
----------------------------------------------------------------------------
\* Each state machine is in one of its states, the uplink serves a client
\* that waits, and compares only while it serves.
TypeOK ==
  /\ exp \in Experiment
  /\ bus \in {"Offline", "Online"}
  /\ app \in [Application -> {"Offline", "Unknown", "Initialising", "Ready",
                              "Configured", "Started", "Running"}]
  /\ \A a \in Application : app[a] \in Announced(a) \cup {"Offline", "Unknown"}
  /\ last \in Command \cup {"none"}
  /\ want \in [Client -> Command \cup {"none"}]
  /\ reply \in [Client -> {"none", "ack", "nak"}]
  /\ serving \in Client \cup {NoClient}
  /\ at \in Nat
  /\ able \in BOOLEAN

\* The message published last tells the state of the experiment, so that an
\* application which has followed the messages is never behind it: only a
\* failure (Error) hides which command came last.
StateFollowsMessage ==
  /\ exp \in {"Init", "Ready"} => last = "none"
  /\ exp = "Configuring" => last = "Config"
  /\ exp = "Configured" => last \in {"Config", "StopData"}
  /\ exp = "StartingData" => last = "StartData"
  /\ exp = "Started" => last \in {"StartData", "StopRun"}
  /\ exp = "StoppingData" => last = "StopData"
  /\ exp \in {"StartingRun", "Running"} => last = "StartRun"
  /\ exp = "StoppingRun" => last = "StopRun"
  /\ exp = "Error" => last \notin {"none", "Exit"}
  /\ exp = "Exit" <=> last = "Exit"

\* The Experiment is never left in a transition that one of the applications
\* or the bus can no longer carry out.
TransitionSupervised ==
  exp \in Transitional => /\ bus = "Online"
                          /\ \A a \in Application : app[a] \notin {"Offline", "Unknown"}

\* No update is missed: the Experiment never lingers in a transition whose
\* goal the applications have reached, nor in Init when all are ready.
NoUpdateMissed ==
  /\ exp \in Transitional => ~GoalReached(exp, app)
  /\ exp = "Init" => ~(bus = "Online" /\ AppsAre(app, "Ready", "Ready", "Ready"))

\* An Exit that was acknowledged and is not yet dispatched cannot be refused
\* any more, whatever the other threads do in between.
AckedExitStands ==
  \A c \in Client :
     serving = c /\ want[c] = "Exit" /\ reply[c] = "ack"
        => Target(exp, "Exit") = "Exit"

\* A client is told NAK for a command the Experiment takes only if the
\* experiment has failed or was killed meanwhile: moving on to the goal of
\* the command between two reads of its state is never mistaken for refusal.
NakMeansFailure ==
  [][\A c \in Client :
        serving = c /\ able /\ reply[c] # "nak" /\ reply'[c] = "nak"
           => exp \in {"Error", "Exit"}]_vars

\* After a failure nothing but Exit is ever published to the applications.
\* (The message of the command that failed may be: StartData is published
\* after the update that led to Error.)
FailureIsSilent ==
  [][exp = "Error" => exp' \in {"Error", "Exit"} /\ last' \in {last, "Exit"}]_vars

\* The control bus follows the nesting of ControlProtocol.
Protocol == INSTANCE ControlProtocol
  WITH configured <- last \notin {"none", "Exit"},
       data <- last \in {"StartData", "StartRun", "StopRun"},
       run <- last = "StartRun",
       over <- last = "Exit"

\* Every sequence of control messages published is one of ControlProtocol.
PublishesInOrder == Protocol!Spec

\* An acknowledged Exit ends the experiment.
AckedExitHappens ==
  \A c \in Client :
     (serving = c /\ want[c] = "Exit" /\ reply[c] = "ack") ~> exp = "Exit"

\* Whoever the uplink serves is answered and the uplink is free again.
UplinkServes == \A c \in Client : (serving = c) ~> (serving = NoClient)
============================================================================
