--------------------------- MODULE ClbController ----------------------------
(* DAQontrol's controller of one CLB and the CLB itself (external, as the   *)
(* code uses it).  An operation is a list of steps the controller's thread  *)
(* works through; each step is a command to the CLB that succeeds or fails. *)
(* How one command is sent and retried is in MsgProcessor: here a command   *)
(* that fails may still have been executed, and one that succeeds was.      *)
EXTENDS Naturals, Sequences, FiniteSets

CONSTANTS Channel,
          MaxPosts,     \* bound: operations posted by DAQControl
          MaxFailures,  \* bound: commands that go wrong
          MaxRestarts   \* bound: power cycles of the CLB

Events == {"INIT", "CONFIGURE", "START", "PAUSE", "STOP", "QUIT", "RESET"}
CLBState == {"IDLE", "STAND_BY", "READY", "PAUSED", "RUNNING"}

\* CLBEvent::SetStates; CONTINUE is never sent.
Source(e) == CASE e = "INIT" -> "IDLE"
               [] e \in {"CONFIGURE", "RESET"} -> "STAND_BY"
               [] e \in {"START", "QUIT"} -> "READY"
               [] e = "PAUSE" -> "RUNNING"
               [] e = "STOP" -> "PAUSED"
Target(e) == CASE e \in {"INIT", "STOP", "QUIT"} -> "STAND_BY"
               [] e = "CONFIGURE" -> "READY"
               [] e = "START" -> "RUNNING"
               [] e = "PAUSE" -> "PAUSED"
               [] e = "RESET" -> "IDLE"

VARIABLES config,   \* ControllerConfig: enabled channels, HV, flasher, whether eid is the CLB's
          wrongId,  \* channels whose PMT has another eid than the configuration says
          state,    \* Controller::state_
          working,  \* Controller::working_
          clbState, \* CLBController::clb_state_, as last read
          op,       \* the operation the thread is in
          todo,     \* the steps it still has to do
          clb,      \* the CLB: its state and its variables
          posts, failures, restarts

controllerVars == <<config, state, working, clbState, op, todo>>
vars == <<controllerVars, wrongId, clb, posts, failures, restarts>>

\* What a restarted CLB holds (external): nothing that DAQontrol has set.
PowerOn == [state |-> "IDLE", init |-> FALSE, hvOff |-> TRUE, enabled |-> {},
            hv |-> FALSE, th |-> FALSE, nano |-> FALSE]

Init == /\ config \in [enabled : SUBSET Channel, hv : BOOLEAN, nano : BOOLEAN, eid : BOOLEAN]
        /\ wrongId \in SUBSET Channel
        /\ state = "Ready" /\ working = FALSE /\ clbState = "UNDEFINED"
        /\ op = "none" /\ todo = <<>>
        /\ clb = PowerOn /\ posts = 0 /\ failures = 0 /\ restarts = 0

\* Everything has its type.
TypeOK ==
  /\ config \in [enabled : SUBSET Channel, hv : BOOLEAN, nano : BOOLEAN, eid : BOOLEAN]
  /\ wrongId \in SUBSET Channel
  /\ state \in {"Ready", "Configured", "Started"} /\ working \in BOOLEAN
  /\ clbState \in CLBState \cup {"UNDEFINED"}
  /\ op \in {"none", "reset", "configure", "startData", "stopData"}
  /\ todo = <<>> <=> op = "none"
  /\ clb \in [state : CLBState, init : BOOLEAN, hvOff : BOOLEAN, enabled : SUBSET Channel,
              hv : BOOLEAN, th : BOOLEAN, nano : BOOLEAN]

(* --- the operations ---------------------------------------------------- *)
Plan(o) ==
  CASE o = "reset" -> <<"resetState">>
    [] o = "configure" ->
         <<"testConnection", "resetState", "setInitValues", "INIT", "getState", "checkIDs",
           "disableHV", "setEnabledPMTs", "checkEnabledPMTs", "setHV", "checkHV",
           "setThresholds", "checkThresholds", "setFlasher", "checkFlasher",
           "CONFIGURE", "getState">>
    [] o = "startData" -> <<"START", "getState">>
    [] o = "stopData" -> <<"PAUSE", "getState", "STOP", "getState", "CONFIGURE", "getState">>

\* Resetting a PAUSED CLB as if it were in STAND_BY.
ResetPlanShort(s) ==
  CASE s = "IDLE" -> <<>>
    [] s \in {"STAND_BY", "PAUSED"} -> <<"RESET", "getState">>
    [] s = "READY" -> <<"QUIT", "getState", "RESET", "getState">>
    [] s = "RUNNING" -> <<"PAUSE", "getState", "STOP", "getState", "RESET", "getState">>

\* The way to IDLE from the state just read.
ResetPlan(s) ==
  CASE s = "IDLE" -> <<>>
    [] s = "STAND_BY" -> <<"RESET", "getState">>
    [] s = "READY" -> <<"QUIT", "getState", "RESET", "getState">>
    [] s = "PAUSED" -> <<"STOP", "getState", "RESET", "getState">>
    [] s = "RUNNING" -> <<"PAUSE", "getState", "STOP", "getState", "RESET", "getState">>

\* DAQControl posts an operation; the thread takes them one after the other.
Post(o) ==
  /\ op = "none" /\ posts < MaxPosts
  /\ op' = o /\ todo' = Plan(o) /\ working' = TRUE /\ posts' = posts + 1
  /\ UNCHANGED <<config, wrongId, state, clbState, clb, failures, restarts>>

\* What a successful operation leaves in state_; reset leaves it alone.
Reached == CASE op = "reset" -> state
             [] op \in {"configure", "stopData"} -> "Configured"
             [] op = "startData" -> "Started"

\* Ending an operation without leaving it.
GoOnForever(rest) == todo' = rest /\ UNCHANGED <<op, state, working>>

\* The operation goes on with the steps rest, or has succeeded.
GoOn(rest) ==
  /\ todo' = rest
  /\ IF rest # <<>> THEN UNCHANGED <<op, state, working>>
     ELSE /\ op' = "none" /\ state' = Reached
          /\ working' = (op = "reset")

\* A step returned false: the operation ends where it is.  reset() does not look.
GiveUp == /\ op' = "none" /\ todo' = <<>> /\ working' = (op = "reset")
          /\ UNCHANGED state

(* --- the CLB ----------------------------------------------------------- *)
\* The mask of disabled systems is cleared: HV is on from here to disableHV.
SetInitValues == [clb EXCEPT !.init = TRUE, !.hvOff = FALSE, !.nano = FALSE]
DisableHV == [clb EXCEPT !.hvOff = @ \/ ~config.hv]
SetEnabledPMTs == [clb EXCEPT !.enabled = config.enabled]
SetHV == [clb EXCEPT !.hv = TRUE]
SetThresholds == [clb EXCEPT !.th = TRUE]
SetFlasher == [clb EXCEPT !.nano = config.nano]

\* What executing the command of a step makes of the CLB.
Executed(step) ==
  CASE step \in Events -> IF clb.state = Source(step) THEN [clb EXCEPT !.state = Target(step)] ELSE clb
    [] step = "setInitValues" -> SetInitValues
    [] step = "disableHV" -> DisableHV
    [] step = "setEnabledPMTs" -> SetEnabledPMTs
    [] step = "setHV" -> SetHV
    [] step = "setThresholds" -> SetThresholds
    [] step = "setFlasher" -> SetFlasher
    [] OTHER -> clb

\* A power cycle behind the controller's back (external).
Restart ==
  /\ restarts < MaxRestarts /\ clb # PowerOn
  /\ clb' = PowerOn /\ restarts' = restarts + 1
  /\ UNCHANGED <<controllerVars, wrongId, posts, failures>>

(* --- the steps --------------------------------------------------------- *)
NoBound == UNCHANGED <<wrongId, posts, restarts>>

Spurious == failures < MaxFailures /\ failures' = failures + 1

\* getState, alone or at the start of resetState.
GetState ==
  /\ Head(todo) = "getState" /\ clbState' = clb.state /\ GoOn(Tail(todo))
  /\ UNCHANGED <<config, clb, failures>>

ResetState ==
  /\ Head(todo) = "resetState" /\ clbState' = clb.state
  /\ GoOn(ResetPlan(clb.state) \o Tail(todo))
  /\ UNCHANGED <<config, clb, failures>>

\* setState: only from the event's source state, as last read; a CLB that is in another
\* state answers with an error and the command fails.
CanSet(e) == clbState = Source(e) /\ clb.state = Source(e)
SetState ==
  /\ Head(todo) \in Events /\ CanSet(Head(todo))
  /\ clb' = Executed(Head(todo)) /\ GoOn(Tail(todo))
  /\ UNCHANGED <<config, clbState, failures>>

\* Reporting a mismatch without disabling the channel.
CheckIDsOnlyReports ==
  /\ Head(todo) = "checkIDs" /\ GoOn(Tail(todo)) /\ UNCHANGED <<config, clbState, clb, failures>>

\* Channels with another PMT than configured are taken out of the configuration.
CheckIDs ==
  /\ Head(todo) = "checkIDs"
  /\ config' = [config EXCEPT !.enabled = @ \ wrongId] /\ GoOn(Tail(todo))
  /\ UNCHANGED <<clbState, clb, failures>>

\* Setting variables; a CLB may acknowledge without effect, which is why some are read back.
Write ==
  /\ Head(todo) \in {"setInitValues", "disableHV", "setEnabledPMTs", "setHV", "setThresholds",
                     "setFlasher"}
  /\ \/ clb' = Executed(Head(todo)) /\ UNCHANGED failures
     \/ Spurious /\ UNCHANGED clb
  /\ GoOn(Tail(todo))
  /\ UNCHANGED <<config, clbState>>

\* Reading back: the values of the enabled channels must be the configured ones.
TestConnection == config.eid
CheckEnabledPMTs == clb.enabled = config.enabled
\* Looking at no channel.
CheckHVNot == TRUE
CheckHV == clb.hv \/ config.enabled = {}
CheckThresholds == clb.th \/ config.enabled = {}
CheckFlasherVoltage == config.nano => clb.nano

Matches(step) ==
  CASE step = "testConnection" -> TestConnection
    [] step = "checkEnabledPMTs" -> CheckEnabledPMTs
    [] step = "checkHV" -> CheckHV
    [] step = "checkThresholds" -> CheckThresholds
    [] step = "checkFlasher" -> CheckFlasherVoltage
    [] OTHER -> TRUE

Check ==
  /\ Head(todo) \in {"testConnection", "checkEnabledPMTs", "checkHV", "checkThresholds",
                     "checkFlasher"}
  /\ Matches(Head(todo)) /\ GoOn(Tail(todo))
  /\ UNCHANGED <<config, clbState, clb, failures>>

\* Any command may go unanswered, executed or not.
Unanswered == Spurious /\ clb' \in {clb, Executed(Head(todo))}

\* The event is not sent, or rejected by the CLB; a check found another value.
Refused == /\ \/ Head(todo) \in Events /\ ~CanSet(Head(todo))
              \/ ~Matches(Head(todo))
           /\ UNCHANGED <<clb, failures>>

Fail == GiveUp /\ (Unanswered \/ Refused) /\ UNCHANGED <<config, clbState>>

Step == /\ todo # <<>>
        /\ GetState \/ ResetState \/ SetState \/ CheckIDs \/ Write \/ Check \/ Fail
        /\ NoBound

Next == \/ \E o \in {"reset", "configure", "startData", "stopData"} : Post(o)
        \/ Step
        \/ Restart

Spec == Init /\ [][Next]_vars
FairSpec == Spec /\ WF_vars(Step)

(* --- properties -------------------------------------------------------- *)
\* A channel whose PMT is not the configured one is never enabled on the CLB, whatever
\* fails and in whatever order configurations, starts and power cycles come.
WrongPmtStaysOff == clb.enabled \cap wrongId = {}

\* A CLB that is READY or further has the eid, channels, voltages, thresholds and flasher
\* of the configuration: an ineffective write, a failed step, a lost answer or a power cycle
\* on the way leaves it short of READY.
ReadyIsSet ==
  clb.state \in {"READY", "RUNNING", "PAUSED"} =>
    /\ clb.enabled = config.enabled
    /\ config.enabled # {} => clb.hv /\ clb.th
    /\ config.nano => clb.nano
    /\ config.eid

\* configure recovers from whatever earlier operations left behind: once nothing goes
\* wrong any more it makes the CLB READY.
Unhindered == failures = MaxFailures /\ restarts = MaxRestarts /\ todo = Plan("configure") /\ config.eid
Recovered == op = "none" /\ state = "Configured" /\ clb.state = "READY"
ConfigureRecovers == Unhindered ~> Recovered

\* startData and stopData update the state accordingly: a controller that reports
\* Started has last read RUNNING from its CLB.
StateAccordingly == op = "none" /\ state = "Started" => clbState = "RUNNING"

\* working_ says whether the controller is currently doing work.
WorkingNow == working => op # "none"

\* configure sets the initialisation variables: a READY CLB has them.
InitialisationSet == clb.state = "READY" => clb.init

\* Between operations HV is enabled only when the configuration says so.
HvOnlyIfEnabled == op = "none" /\ ~clb.hvOff => config.hv

=============================================================================
