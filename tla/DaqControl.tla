----------------------------- MODULE DaqControl -----------------------------
(* DAQControl of the DAQontrol process: the command thread, which builds and *)
(* commands the controllers, the thread of stateUpdate, which compares their *)
(* states with the target and drops those that stay behind, and the thread   *)
(* of each controller.  What a CLB's operation does is in ClbController;     *)
(* here it ends in its state or fails.  A second passes only when nothing    *)
(* quick is left to do (SecondPasses).                                       *)
EXTENDS Naturals, Sequences, FiniteSets

CONSTANTS Configs,      \* configurations: sequences of [type, enabled], all of one length
          MaxCommands,  \* bound: commands received
          MaxConfigs,   \* bound: Config commands among them
          MaxFailures   \* bound: operations of CLBs that fail

VARIABLES current,    \* current_state_
          target,     \* target_state_
          buf, count, \* controllers_: the vector's memory and its size
          cmd,        \* the command thread: its step and the controller it is at
          upd,        \* the stateUpdate thread: step, position, end, state, states
          asked,      \* whether upd.state was read from the controller
          overtaken,  \* whether the controllers were deleted since the update began
          commands, configs, failures

vars == <<current, target, buf, count, cmd, upd, asked, overtaken, commands, configs, failures>>
counters == <<commands, configs, failures>>

Status == {"Ready", "Configured", "Started"}
Slots == UNION {DOMAIN c : c \in Configs}

Idle == [at |-> "idle", op |-> "none", i |-> 0]
Init == /\ current = "Ready" /\ target = "Ready" /\ buf = <<>> /\ count = 0
        /\ cmd = Idle
        /\ upd = [at |-> "begin", i |-> 1, end |-> 0, state |-> "Ready", states |-> {}]
        /\ asked = FALSE /\ overtaken = FALSE /\ commands = 0 /\ configs = 0 /\ failures = 0

\* A new controller; alive tells whether it has been deleted.
Controller(c) == [type |-> c.type, enabled |-> c.enabled, dropped |-> FALSE,
                  working |-> FALSE, state |-> "Ready", queue |-> <<>>, op |-> "none",
                  alive |-> TRUE, started |-> FALSE]
Takes(c) == ~c.dropped /\ c.enabled

Operations == {"reset", "configure", "startData", "stopData"}
ControllerType == [type : {"CLB", "BBB"}, enabled : BOOLEAN, dropped : BOOLEAN, working : BOOLEAN,
                   state : Status, queue : Seq(Operations), op : Operations \cup {"none"},
                   alive : BOOLEAN, started : BOOLEAN]
\* Two threads and the controllers' own keep to the values the code has for them.
TypeOK ==
  /\ {current, target} \subseteq Status
  /\ count \in 0 .. Len(buf)
  /\ \A i \in DOMAIN buf : buf[i] \in ControllerType
  /\ cmd \in [at : {"idle", "post", "sleep10", "delete", "sleep2", "configure", "target",
                     "exited"},
              op : Operations \cup {"none"},
              i : 0 .. Cardinality(Slots) + 1]
  /\ cmd.at = "sleep2" => buf[cmd.i].enabled
  /\ upd \in [at : {"begin", "look", "poll", "judge", "equal", "ended"}, i : Nat, end : Nat,
              state : Status, states : SUBSET Status]

(* --- the command thread ------------------------------------------------- *)
CommandOnly == /\ UNCHANGED <<upd, asked, failures>>
               /\ overtaken' = (overtaken \/ (count # 0 /\ count' = 0))
Receive == cmd = Idle /\ commands < MaxCommands /\ commands' = commands + 1

Goto(at, op, i) == [at |-> at, op |-> op, i |-> i]

\* io_service::post to one controller after the other.
Post ==
  /\ cmd.at = "post" /\ cmd.i <= count
  /\ buf' = IF Takes(buf[cmd.i])
            THEN [buf EXCEPT ![cmd.i].queue = Append(@, cmd.op),
                             ![cmd.i].started = @ \/ cmd.op = "startData"]
            ELSE buf
  /\ cmd' = [cmd EXCEPT !.i = @ + 1]
  /\ UNCHANGED <<current, target, count, commands, configs>>

\* The fsm (external) configures only when data is stopped.
FsmConfigures == target # "Started"
Config ==
  /\ Receive /\ FsmConfigures /\ configs < MaxConfigs /\ configs' = configs + 1
  /\ cmd' = IF count # 0 THEN Goto("post", "reset", 1) ELSE Goto("delete", "none", 0)
  /\ UNCHANGED <<current, target, buf, count>>

WaitForReset ==
  /\ cmd.at = "post" /\ cmd.i > count /\ cmd.op = "reset" /\ cmd' = Goto("sleep10", "none", 0)
  /\ UNCHANGED <<current, target, buf, count, commands, configs>>

Sleep10 ==
  /\ cmd.at = "sleep10" /\ cmd' = [cmd EXCEPT !.at = "delete"]
  /\ UNCHANGED <<current, target, buf, count, commands, configs>>

\* The old controllers are deleted; a moment later the new ones take their places.
Delete ==
  /\ cmd.at = "delete" /\ count # 0
  /\ buf' = [i \in DOMAIN buf |-> [buf[i] EXCEPT !.alive = FALSE]] /\ count' = 0
  /\ UNCHANGED <<current, target, cmd, commands, configs>>

\* The next controller, enabled or not.
NextOfAll(b, i) == i
\* The first controller from i on that is enabled: the next to be configured.
NextEnabled(b, i) == LET e == {k \in DOMAIN b : k >= i /\ b[k].enabled} IN
                     IF e = {} THEN Len(b) + 1 ELSE CHOOSE k \in e : \A l \in e : k <= l
ToConfigure(b, i) == LET k == NextEnabled(b, i) IN
                     Goto(IF k \in DOMAIN b THEN "sleep2" ELSE "target", "configure", k)

Build ==
  /\ cmd.at = "delete" /\ count = 0 /\ current' = "Ready"
  /\ \E c \in Configs : /\ buf' = [i \in DOMAIN c |-> Controller(c[i])]
                        /\ count' = Len(c) /\ cmd' = ToConfigure(buf', 1)
  /\ UNCHANGED <<target, commands, configs>>

Sleep2 ==
  /\ cmd.at = "sleep2" /\ cmd' = [cmd EXCEPT !.at = "configure"]
  /\ UNCHANGED <<current, target, buf, count, commands, configs>>

\* Whether or not the controller has been dropped meanwhile.
PostConfigure ==
  /\ cmd.at = "configure"
  /\ buf' = [buf EXCEPT ![cmd.i].queue = Append(@, "configure")]
  /\ cmd' = ToConfigure(buf, cmd.i + 1)
  /\ UNCHANGED <<current, target, count, commands, configs>>

\* The target is set when the last command has been posted.
SetTarget ==
  /\ \/ cmd.at = "target"
     \/ cmd.at = "post" /\ cmd.i > count /\ cmd.op # "reset"
  /\ target' = (IF cmd.op = "startData" THEN "Started" ELSE "Configured") /\ cmd' = Idle
  /\ UNCHANGED <<current, buf, count, commands, configs>>

\* The fsm (external) starts data only on a DAQontrol it sees Configured, which may be what was so
\* before a second configuration (System); it stops data only after a configuration.
FsmStarts == current = "Configured" \/ configs > 1
FsmStops == configs > 0

\* Setting the target first and posting next.
StartDataEarly ==
  /\ Receive /\ FsmStarts /\ current # "Started" /\ cmd' = Goto("post", "startData", 1)
  /\ target' = "Started" /\ UNCHANGED <<current, buf, count, configs>>
StartData ==
  /\ Receive /\ FsmStarts /\ current # "Started" /\ cmd' = Goto("post", "startData", 1)
  /\ UNCHANGED <<current, target, buf, count, configs>>

StopData ==
  /\ Receive /\ FsmStops /\ current # "Configured" /\ cmd' = Goto("post", "stopData", 1)
  /\ UNCHANGED <<current, target, buf, count, configs>>

Exit ==
  /\ Receive /\ cmd' = [Idle EXCEPT !.at = "exited"]
  /\ UNCHANGED <<current, target, buf, count, configs>>

Command == /\ \/ Config \/ Post \/ WaitForReset \/ Sleep10 \/ Delete \/ Build \/ Sleep2 \/ PostConfigure
              \/ SetTarget \/ StartData \/ StopData \/ Exit
           /\ CommandOnly
CommandGoesOn == cmd.at \notin {"idle", "exited"} /\ Command

(* --- the controllers' threads ------------------------------------------- *)
ControllerOnly(c, i) ==
  buf' = [buf EXCEPT ![i] = c] /\ UNCHANGED <<current, target, count, cmd, upd, asked, overtaken, commands, configs>>

\* The next operation; BBBController::reset does nothing.
Begin(i) ==
  /\ buf[i].op = "none" /\ buf[i].queue # <<>> /\ buf[i].alive /\ UNCHANGED failures
  /\ LET o == Head(buf[i].queue)  q == Tail(buf[i].queue) IN
     IF o = "reset" /\ buf[i].type = "BBB"
     THEN ControllerOnly([buf[i] EXCEPT !.queue = q], i)
     ELSE ControllerOnly([buf[i] EXCEPT !.queue = q, !.op = o, !.working = TRUE], i)

After(c) == CASE c.op = "startData" -> "Started"
              [] c.op \in {"configure", "stopData"} -> "Configured"
              [] OTHER -> c.state

\* Success sets the state first and the flag next; CLBController::reset leaves the flag set.
Reach(i) ==
  /\ buf[i].op # "none" /\ buf[i].state # After(buf[i])
  /\ ControllerOnly([buf[i] EXCEPT !.state = After(buf[i])], i) /\ UNCHANGED failures
End(i) ==
  /\ buf[i].op # "none" /\ buf[i].state = After(buf[i])
  /\ ControllerOnly([buf[i] EXCEPT !.op = "none", !.working = (buf[i].op = "reset")], i)
  /\ UNCHANGED failures
\* Only a CLB's operation can fail: the BBB's ignores every error.
Fail(i) ==
  /\ buf[i].op \in {"configure", "startData", "stopData"} /\ buf[i].type = "CLB"
  /\ buf[i].state # After(buf[i])
  /\ failures < MaxFailures /\ failures' = failures + 1
  /\ ControllerOnly([buf[i] EXCEPT !.op = "none", !.working = FALSE], i)

Works(i) == Begin(i) \/ Reach(i) \/ End(i) \/ Fail(i)
Thread == \E i \in DOMAIN buf : Works(i)

(* --- stateUpdate -------------------------------------------------------- *)
UpdateOnly == UNCHANGED <<target, count, cmd, counters>>

UpdateBegin ==
  /\ upd.at = "begin"
  /\ upd' = [upd EXCEPT !.at = "look", !.i = 1, !.end = count, !.states = {}]
  /\ overtaken' = FALSE /\ UNCHANGED <<current, buf, asked>>

\* The iterator goes over the vector's memory, whatever the command thread does to it.
Passed == [upd EXCEPT !.at = "look", !.i = @ + 1]
Look ==
  /\ upd.at = "look" /\ upd.i <= upd.end /\ upd.i \in DOMAIN buf
  /\ IF Takes(buf[upd.i])
     THEN \* state is not initialised: it may already be the target
          \E s \in Status :
            upd' = IF s = target THEN [Passed EXCEPT !.states = @ \cup {s}]
                   ELSE [upd EXCEPT !.at = "poll", !.state = s]
     ELSE upd' = Passed
  /\ asked' = FALSE /\ UNCHANGED <<current, buf, overtaken>>

\* A read during the wait that finds the target, or the last one after a second.
SecondPasses == /\ cmd.at \in {"idle", "sleep10", "sleep2", "exited"}
                /\ \A i \in DOMAIN buf : buf[i].queue # <<>> /\ buf[i].alive => buf[i].op # "none"
Poll ==
  /\ upd.at = "poll" /\ asked' = TRUE
  /\ LET s == buf[upd.i].state IN
     \/ s = target /\ upd' = [Passed EXCEPT !.states = @ \cup {s}]
     \/ s # target /\ SecondPasses /\ upd' = [upd EXCEPT !.at = "judge", !.state = s]
  /\ UNCHANGED <<current, buf, overtaken>>

\* Leaving a controller that is behind and not working where it is.
JudgeKeeps ==
  /\ upd.at = "judge" /\ upd' = [Passed EXCEPT !.states = @ \cup {upd.state}]
  /\ UNCHANGED <<current, buf, asked, overtaken>>
Judge ==
  /\ upd.at = "judge"
  /\ IF upd.state # target /\ ~buf[upd.i].working
     THEN buf' = [buf EXCEPT ![upd.i].dropped = TRUE] /\ upd' = Passed
     ELSE upd' = [Passed EXCEPT !.states = @ \cup {upd.state}] /\ UNCHANGED buf
  /\ UNCHANGED <<current, asked, overtaken>>

\* All states are the same: it is the mode.  The update posts itself again.
Equal ==
  /\ upd.at = "look" /\ upd.i > upd.end
  /\ current' = IF Cardinality(upd.states) = 1 THEN CHOOSE s \in upd.states : TRUE ELSE current
  /\ upd' = [upd EXCEPT !.at = IF cmd.at = "exited" THEN "ended" ELSE "begin", !.states = {}]
  /\ UNCHANGED <<buf, asked, overtaken>>

StateUpdate == (UpdateBegin \/ Look \/ Poll \/ Judge \/ Equal) /\ UpdateOnly

Next == Command \/ Thread \/ StateUpdate

Spec == Init /\ [][Next]_vars
FairSpec == /\ Spec /\ WF_vars(StateUpdate) /\ WF_vars(CommandGoesOn)
            /\ \A i \in Slots : WF_vars(i \in DOMAIN buf /\ Works(i))

(* --- properties --------------------------------------------------------- *)
\* The mode becomes Started only when every controller that still counts has been told to
\* start: no failure, drop or half-done command, and no configuration before this one, shows data
\* taking before it was asked for.  An update that is overtaken by a new configuration looks at
\* controllers that have been deleted (see PostedToAll).
Told == \A i \in DOMAIN buf : Takes(buf[i]) => buf[i].started
Announced == current' # current /\ current' = "Started"
PostedBefore == Announced /\ ~overtaken => Told
StartedWasPosted == [][PostedBefore]_vars

\* The mode follows the target in the end, whatever fails: what stays behind is dropped, and
\* the others agree (or nobody is left).
Settled == (current = target \/ upd.at = "ended" \/ \A i \in DOMAIN buf : ~Takes(buf[i]))
Settles == <>[]Settled

\* daq_control.cc:131: what counts as the current controller state was read from it.
CountsWhatItRead == [][upd.states' # {} /\ upd.states' # upd.states => asked']_vars

\* daq_control.cc:31: the reset is complete when the controllers are deleted.
ResetCompletes == [][count # 0 /\ count' = 0 => \A i \in DOMAIN buf : buf[i].op # "reset"]_vars

\* daq_control.cc:22: "we need to reset first": of the old controllers nothing is left in the new mode.
PostedToAll == [][Announced => Told]_vars

\* controller.h:84: a controller whose state is behind is dropped for not doing its work; one
\* that has reached the target is not.
DropsOnlyWhoIsBehind ==
  [][\A i \in DOMAIN buf : i \in DOMAIN buf' /\ ~buf[i].dropped /\ buf'[i].dropped
       => buf[i].state # target]_vars

\* daq_control.cc:50: the controllers are configured: a configuration in which nothing fails
\* ends in Configured.
ConfigureSucceeds ==
  cmd.at = "target" /\ configs = MaxConfigs /\ commands = MaxCommands ~> current = "Configured"

(* --- the invariant from which PostedBefore is proved --------------------- *)
\* The vector holds all that is in its memory, but while it is built anew.
Vector == count = Len(buf) \/ (count = 0 /\ cmd.at = "delete")

\* While controllers are reset, replaced and configured, Started is not the target.
Reconfiguring == cmd.op \in {"reset", "configure"} \/ cmd.at \in {"sleep10", "delete"}
Targeted == /\ target = "Started" => Told /\ ~Reconfiguring
            /\ cmd.at \in {"sleep2", "configure", "target"} => cmd.op = "configure"

\* The command thread has told those it has passed; who has started, does so or is to do so was told.
PostTold == cmd.at = "post" /\ cmd.op = "startData" =>
              \A i \in DOMAIN buf : i < cmd.i /\ Takes(buf[i]) => buf[i].started
DoneTold == \A i \in DOMAIN buf :
  (\/ buf[i].state = "Started" \/ buf[i].op = "startData"
   \/ \E k \in DOMAIN buf[i].queue : buf[i].queue[k] = "startData") => buf[i].started

\* An update that has found nothing but Started has passed nobody who counts and was not told.
Scanning == upd.at \in {"look", "poll", "judge"}
ScanTold == Scanning /\ ~overtaken =>
  /\ upd.end \in {0, count} /\ (upd.end = 0 => upd.states = {})
  /\ upd.at # "look" => upd.i \in 1 .. upd.end
  /\ upd.at = "judge" /\ upd.state = "Started" => buf[upd.i].started
  /\ upd.states \subseteq {"Started"} =>
       \A k \in 1 .. upd.end : k < upd.i /\ Takes(buf[k]) => buf[k].started
UpdType == /\ upd = [at |-> upd.at, i |-> upd.i, end |-> upd.end, state |-> upd.state,
                      states |-> upd.states]
           /\ upd.i \in Nat \ {0} /\ upd.end \in Nat /\ IsFiniteSet(upd.states)
CmdType == /\ cmd = [at |-> cmd.at, op |-> cmd.op, i |-> cmd.i]
           /\ cmd.op \in Operations \cup {"none"}
           /\ (cmd.at = "post" => cmd.i \in Nat \ {0} /\ cmd.op # "none")

IInv == /\ buf \in Seq(ControllerType) /\ count \in Nat /\ CmdType /\ UpdType
        /\ Vector /\ Targeted /\ PostTold /\ DoneTold /\ ScanTold

=============================================================================
