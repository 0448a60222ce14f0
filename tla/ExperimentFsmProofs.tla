------------------------ MODULE ExperimentFsmProofs ------------------------
(***************************************************************************)
(* Proofs about ExperimentFsm, for every set of clients.                   *)
(***************************************************************************)
EXTENDS ExperimentFsm, TLAPS

AppState == {"Offline", "Unknown", "Initialising", "Ready", "Configured",
             "Started", "Running"}

\* The states Experiment state e can be found in after an update.
After(e) ==
  CASE e = "Init" -> {"Init", "Ready"}
    [] e \in {"Configuring", "StoppingData"} -> {e, "Configured", "Error"}
    [] e \in {"StartingData", "StoppingRun"} -> {e, "Started", "Error"}
    [] e = "StartingRun" -> {e, "Running", "Error"}
    [] e \in {"Configured", "Started", "Running"} -> {e, "Error"}
    [] OTHER -> {e}

\* A reaction leads only where the code has a transit<>, and leaves the
\* Experiment in a transition only if that is supervised and not finished.
LEMMA ReactLemma ==
  ASSUME NEW e \in Experiment, NEW b, NEW p
  PROVE  /\ React(e, b, p) \in After(e) \cap Experiment
         /\ React(e, b, p) \in Transitional
              => Supervised(b, p) /\ ~GoalReached(React(e, b, p), p)
         /\ React(e, b, p) = "Init"
              => ~(b = "Online" /\ AppsAre(p, "Ready", "Ready", "Ready"))
<1> DEFINE r == React(e, b, p)
<1>1. CASE e = "Init"
  BY <1>1 DEF React, After, Experiment, Transitional, Abandoned
<1>2. CASE e \in Transitional
  <2>1. CASE ~Supervised(b, p)
    BY <1>2, <2>1 DEF React, After, Experiment, Transitional, Abandoned
  <2>2. CASE Supervised(b, p) /\ GoalReached(e, p)
    BY <1>2, <2>2 DEF React, After, Experiment, Transitional, Goal, GoalReached
  <2>3. CASE Supervised(b, p) /\ ~GoalReached(e, p)
    BY <1>2, <2>3 DEF React, After, Experiment, Transitional, Abandoned
  <2> QED BY <2>1, <2>2, <2>3
<1>3. CASE e \in {"Configured", "Started", "Running"}
  BY <1>3 DEF React, After, Experiment, Transitional, Abandoned
<1>4. CASE e \in {"Ready", "Error", "Exit"}
  BY <1>4 DEF React, After, Experiment, Transitional, Abandoned
<1> QED BY <1>1, <1>2, <1>3, <1>4 DEF Experiment

\* The same of the chain of reactions that an event ends with.
LEMMA SettleLemma ==
  ASSUME NEW e \in Experiment, NEW b, NEW p
  PROVE  /\ Settle(e, b, p) \in After(e) \cap Experiment
         /\ Settle(e, b, p) \in Transitional
              => Supervised(b, p) /\ ~GoalReached(Settle(e, b, p), p)
         /\ Settle(e, b, p) = "Init"
              => ~(b = "Online" /\ AppsAre(p, "Ready", "Ready", "Ready"))
<1> DEFINE r == React(e, b, p)
<1>1. r \in After(e) \cap Experiment
  BY ReactLemma
<1>2. \A x \in After(e) \cap Experiment : After(x) \subseteq After(e)
  BY DEF After, Experiment, Transitional
<1>3. /\ React(r, b, p) \in After(r) \cap Experiment
      /\ React(r, b, p) \in Transitional
           => Supervised(b, p) /\ ~GoalReached(React(r, b, p), p)
      /\ React(r, b, p) = "Init"
           => ~(b = "Online" /\ AppsAre(p, "Ready", "Ready", "Ready"))
  <2> HIDE DEF r
  <2> QED BY <1>1, ReactLemma
<1> QED BY <1>1, <1>2, <1>3 DEF Settle
----------------------------------------------------------------------------
(* Type correctness, and the published message as a witness of the state. *)

\* A command leads from a state to a state.
LEMMA TargetLemma ==
  ASSUME NEW e \in Experiment, NEW k \in Command
  PROVE  Target(e, k) \in Experiment
BY DEF Target, Experiment, Transitional, Command

\* What an application announces is a state its state machine has.
LEMMA AnnouncedLemma ==
  ASSUME NEW a \in Application
  PROVE  Announced(a) \subseteq AppState
BY DEF Announced, Application, AppState

\* The state machines, the uplink and the clients stay within their types.
THEOREM TypeCorrect == Spec => []TypeOK
<1>1. Init => TypeOK
  <2> SUFFICES ASSUME Init PROVE TypeOK
    OBVIOUS
  <2>1. \A a \in Application : app[a] = "Offline"
    BY DEF Init
  <2>2. app \in [Application -> AppState]
    BY DEF Init, AppState
  <2> QED BY <2>1, <2>2 DEF Init, TypeOK, AppState, Experiment
<1>2. TypeOK /\ [Next]_vars => TypeOK'
  <2> SUFFICES ASSUME TypeOK, [Next]_vars PROVE TypeOK'
    OBVIOUS
  <2> USE DEF TypeOK
  <2>1. \A b, p : Settle(exp, b, p) \in Experiment
    BY SettleLemma
  <2>2. \A k \in Command : \A b, p : Settle(Target(exp, k), b, p) \in Experiment
    BY SettleLemma, TargetLemma
  <2>3. CASE BusConnected
    BY <2>1, <2>3 DEF BusConnected, BusChanges
  <2>4. CASE BusDisconnected
    BY <2>1, <2>4 DEF BusDisconnected, BusChanges
  <2>5. CASE Kill
    BY <2>5 DEF Kill, Experiment, Command
  <2>6. ASSUME NEW a \in Application, NEW s \in AppState, AppBecomes(a, s),
               s \in Announced(a) \cup {"Offline", "Unknown"}
        PROVE  TypeOK'
    BY <2>1, <2>6 DEF AppBecomes, AppState
  <2>7. ASSUME NEW a \in Application, Dial(a) \/ Lose(a) PROVE TypeOK'
    BY <2>6, <2>7 DEF Dial, Lose, AppState
  <2>8. ASSUME NEW a \in Application, NEW m \in Announced(a), Hear(a, m)
        PROVE  TypeOK'
    BY <2>6, <2>8, AnnouncedLemma DEF Hear
  <2>9. ASSUME NEW c \in Client, NEW k \in Command, Request(c, k)
        PROVE  TypeOK'
    BY <2>9 DEF Request
  <2>10. ASSUME NEW k \in Command, Dispatch(k)
         PROVE  exp' \in Experiment /\ last' \in Command \cup {"none"}
    BY <2>2, <2>10 DEF Dispatch
  <2>11. ASSUME NEW c \in Client, Receive(c) PROVE TypeOK'
    <3>1. want[c] \in Command
      BY <2>11 DEF Receive
    <3>2. exp' \in Experiment /\ last' \in Command \cup {"none"}
      BY <2>11, <3>1, <2>10 DEF Receive
    <3> QED BY <2>11, <3>2 DEF Receive
  <2>12. ASSUME NEW c \in Client, Compare(c) PROVE TypeOK'
    <3>1. ASSUME NEW r \in {"ack", "nak"}, Answer(c, r)
          PROVE  TypeOK'
      <4>1. UNCHANGED <<exp, bus, app, last, able>>
        BY <2>12 DEF Compare
      <4> QED BY <3>1, <4>1 DEF Answer
    <3>2. CASE at' = at + 1 /\ UNCHANGED <<want, reply, serving>>
      BY <2>12, <3>2 DEF Compare
    <3> QED BY <2>12, <3>1, <3>2 DEF Compare
  <2>13. ASSUME NEW c \in Client, DispatchExit(c) PROVE TypeOK'
    <3>1. exp' \in Experiment /\ last' \in Command \cup {"none"}
      BY <2>13, <2>10 DEF DispatchExit, Command
    <3> QED BY <2>13, <3>1 DEF DispatchExit
  <2>14. CASE UNCHANGED vars
    BY <2>14 DEF vars
  <2> QED BY <2>3, <2>4, <2>5, <2>7, <2>8, <2>9, <2>11, <2>12, <2>13, <2>14
          DEF Next, Uplink
<1> QED BY <1>1, <1>2, PTL DEF Spec
----------------------------------------------------------------------------
(* The published message tells the state; the experiment is supervised.     *)

\* A command that is dispatched, with the update its entry raises, publishes
\* the message that tells the new state and ends in no stale transition.
LEMMA DispatchLemma ==
  ASSUME TypeOK, StateFollowsMessage, TransitionSupervised, NoUpdateMissed,
         NEW k \in Command, Dispatch(k), UNCHANGED <<bus, app>>
  PROVE  StateFollowsMessage' /\ TransitionSupervised' /\ NoUpdateMissed'
<1>1. CASE Target(exp, k) = exp
  BY <1>1 DEF Dispatch, StateFollowsMessage, TransitionSupervised,
              NoUpdateMissed, GoalReached, AppsAre
<1>2. CASE Target(exp, k) # exp
  <2> DEFINE t == Target(exp, k)
  <2>1. exp' = Settle(t, bus, app) /\ last' = k
    BY <1>2 DEF Dispatch
  <2>2. t \in Experiment
    BY TargetLemma DEF TypeOK
  <2>3. /\ exp' \in After(t)
        /\ exp' \in Transitional => Supervised(bus, app) /\ ~GoalReached(exp', app)
        /\ exp' # "Init"
    <3>1. t # "Init"
      BY <1>2 DEF Target, TypeOK, Experiment, Transitional
    <3>2. "Init" \notin After(t)
      BY <2>2, <3>1 DEF After, Experiment, Transitional
    <3> HIDE DEF t
    <3> QED BY <2>1, <2>2, <3>2, SettleLemma
  <2>4. \/ k = "Config" /\ t = "Configuring"
        \/ k = "StartData" /\ t = "StartingData"
        \/ k = "StopData" /\ t = "StoppingData"
        \/ k = "StartRun" /\ t = "StartingRun"
        \/ k = "StopRun" /\ t = "StoppingRun"
        \/ k = "Exit" /\ t = "Exit"
    BY <1>2 DEF Target, Command
  <2>5. StateFollowsMessage'
    BY <2>1, <2>3, <2>4 DEF StateFollowsMessage, After, Transitional
  <2>6. TransitionSupervised'
    BY <2>3 DEF TransitionSupervised, Supervised, Application
  <2>7. NoUpdateMissed'
    BY <2>3 DEF NoUpdateMissed, GoalReached, AppsAre
  <2> QED BY <2>5, <2>6, <2>7
<1> QED BY <1>1, <1>2

\* A StateUpdate moves the Experiment only to states that the message
\* published last still tells, and leaves it in no stale transition.
LEMMA UpdateLemma ==
  ASSUME TypeOK, StateFollowsMessage, exp' = Settle(exp, bus', app'),
         UNCHANGED last
  PROVE  StateFollowsMessage' /\ TransitionSupervised' /\ NoUpdateMissed'
<1>1. /\ exp' \in After(exp)
      /\ exp' \in Transitional => Supervised(bus', app') /\ ~GoalReached(exp', app')
      /\ exp' = "Init"
           => ~(bus' = "Online" /\ AppsAre(app', "Ready", "Ready", "Ready"))
  BY SettleLemma DEF TypeOK
<1>2. exp \in Experiment
  BY DEF TypeOK
<1>3. StateFollowsMessage'
  BY <1>1, <1>2 DEF StateFollowsMessage, After, Experiment, Transitional
<1>4. TransitionSupervised'
  BY <1>1 DEF TransitionSupervised, Supervised, Application
<1>5. NoUpdateMissed'
  BY <1>1 DEF NoUpdateMissed, GoalReached, AppsAre
<1> QED BY <1>3, <1>4, <1>5

\* Every step of the process keeps the three state invariants.
LEMMA StateStep ==
  ASSUME TypeOK, StateFollowsMessage, TransitionSupervised, NoUpdateMissed,
         [Next]_vars
  PROVE  StateFollowsMessage' /\ TransitionSupervised' /\ NoUpdateMissed'
<1>1. CASE BusConnected \/ BusDisconnected
  BY <1>1, UpdateLemma DEF BusConnected, BusDisconnected, BusChanges
<1>2. ASSUME NEW a \in Application, NEW s, AppBecomes(a, s)
      PROVE  StateFollowsMessage' /\ TransitionSupervised' /\ NoUpdateMissed'
  <2>1. exp' = Settle(exp, bus', app') /\ UNCHANGED last
    BY <1>2 DEF AppBecomes
  <2> QED BY <2>1, UpdateLemma
<1>3. ASSUME NEW a \in Application, Dial(a) \/ Lose(a)
      PROVE  StateFollowsMessage' /\ TransitionSupervised' /\ NoUpdateMissed'
  BY <1>2, <1>3 DEF Dial, Lose
<1>4. ASSUME NEW a \in Application, NEW m \in Announced(a), Hear(a, m)
      PROVE  StateFollowsMessage' /\ TransitionSupervised' /\ NoUpdateMissed'
  BY <1>2, <1>4 DEF Hear
<1>5. CASE Kill
  BY <1>5 DEF Kill, StateFollowsMessage, TransitionSupervised, NoUpdateMissed,
              Transitional, GoalReached
<1>6. CASE UNCHANGED fsmVars
  BY <1>6 DEF fsmVars, StateFollowsMessage, TransitionSupervised,
              NoUpdateMissed, GoalReached, AppsAre
<1>7. ASSUME NEW c \in Client, Receive(c)
      PROVE  StateFollowsMessage' /\ TransitionSupervised' /\ NoUpdateMissed'
  <2>1. CASE want[c] = "Exit"
    BY <1>6, <1>7, <2>1 DEF Receive, fsmVars
  <2>2. CASE want[c] # "Exit"
    <3>1. want[c] \in Command /\ Dispatch(want[c]) /\ UNCHANGED <<bus, app>>
      BY <1>7, <2>2 DEF Receive, TypeOK
    <3> QED BY <3>1, DispatchLemma
  <2> QED BY <2>1, <2>2
<1>8. ASSUME NEW c \in Client, DispatchExit(c)
      PROVE  StateFollowsMessage' /\ TransitionSupervised' /\ NoUpdateMissed'
  <2>1. "Exit" \in Command
    BY DEF Command
  <2> QED BY <1>8, <2>1, DispatchLemma DEF DispatchExit
<1>9. ASSUME NEW c \in Client, Compare(c) \/ (\E k \in Command : Request(c, k))
      PROVE  StateFollowsMessage' /\ TransitionSupervised' /\ NoUpdateMissed'
  BY <1>6, <1>9 DEF Compare, Request, fsmVars
<1>10. CASE UNCHANGED vars
  BY <1>6, <1>10 DEF vars, fsmVars
<1> QED BY <1>1, <1>3, <1>4, <1>5, <1>7, <1>8, <1>9, <1>10 DEF Next, Uplink

\* The three state invariants hold when the process starts.
LEMMA StateInit ==
  Init => StateFollowsMessage /\ TransitionSupervised /\ NoUpdateMissed
BY DEF Init, StateFollowsMessage, TransitionSupervised, NoUpdateMissed,
       Transitional, GoalReached

\* The three state invariants hold together.
LEMMA StateInvariants ==
  Spec => [](StateFollowsMessage /\ TransitionSupervised /\ NoUpdateMissed)
<1>1. TypeOK /\ (StateFollowsMessage /\ TransitionSupervised /\ NoUpdateMissed)
        /\ [Next]_vars
        => (StateFollowsMessage /\ TransitionSupervised /\ NoUpdateMissed)'
  BY StateStep
<1> QED BY <1>1, StateInit, TypeCorrect, PTL DEF Spec

\* The message published last tells the state of the experiment.
THEOREM FollowsMessage == Spec => []StateFollowsMessage
BY StateInvariants, PTL

\* No transition is left without the bus or one of the applications.
THEOREM SupervisedTransitions == Spec => []TransitionSupervised
BY StateInvariants, PTL

\* No StateUpdate is missed: no transition lingers when its goal is reached.
THEOREM UpdatesAreSeen == Spec => []NoUpdateMissed
BY StateInvariants, PTL
----------------------------------------------------------------------------
(* The control bus implements ControlProtocol.                              *)

\* A dispatched command is a step of the control protocol or publishes nothing.
LEMMA ProtocolDispatch ==
  ASSUME TypeOK, StateFollowsMessage, NEW k \in Command, Dispatch(k)
  PROVE  Protocol!Next \/ UNCHANGED Protocol!vars
<1> USE DEF Protocol!vars
<1>1. CASE Target(exp, k) = exp
  BY <1>1 DEF Dispatch
<1>2. CASE Target(exp, k) # exp
  <2>1. last' = k
    BY <1>2 DEF Dispatch
  <2>2. CASE k = "Config"
    <3>1. exp \in {"Ready", "Configured"}
      BY <1>2, <2>2 DEF Target
    <3>2. Protocol!Config
      BY <2>1, <2>2, <3>1 DEF StateFollowsMessage, Protocol!Config
    <3> QED BY <3>2 DEF Protocol!Next
  <2>3. CASE k = "StartData"
    <3>1. exp = "Configured"
      BY <1>2, <2>3 DEF Target
    <3>2. Protocol!StartData
      BY <2>1, <2>3, <3>1 DEF StateFollowsMessage, Protocol!StartData
    <3> QED BY <3>2 DEF Protocol!Next
  <2>4. CASE k = "StopData"
    <3>1. exp = "Started"
      BY <1>2, <2>4 DEF Target
    <3>2. Protocol!StopData
      BY <2>1, <2>4, <3>1 DEF StateFollowsMessage, Protocol!StopData
    <3> QED BY <3>2 DEF Protocol!Next
  <2>5. CASE k = "StartRun"
    <3>1. exp = "Started"
      BY <1>2, <2>5 DEF Target
    <3>2. Protocol!StartRun
      BY <2>1, <2>5, <3>1 DEF StateFollowsMessage, Protocol!StartRun
    <3> QED BY <3>2 DEF Protocol!Next
  <2>6. CASE k = "StopRun"
    <3>1. exp = "Running"
      BY <1>2, <2>6 DEF Target
    <3>2. Protocol!StopRun
      BY <2>1, <2>6, <3>1 DEF StateFollowsMessage, Protocol!StopRun
    <3> QED BY <3>2 DEF Protocol!Next
  <2>7. CASE k = "Exit"
    <3>1. Protocol!Exit
      BY <2>1, <2>7 DEF Protocol!Exit
    <3> QED BY <3>1 DEF Protocol!Next
  <2> QED BY <2>2, <2>3, <2>4, <2>5, <2>6, <2>7 DEF Command
<1> QED BY <1>1, <1>2

\* Every step is a step of the control protocol or publishes nothing.
LEMMA ProtocolStep ==
  ASSUME TypeOK, StateFollowsMessage, [Next]_vars
  PROVE  [Protocol!Next]_(Protocol!vars)
<1>1. CASE UNCHANGED last
  BY <1>1 DEF Protocol!vars
<1>2. CASE Kill
  <2>1. Protocol!Exit
    BY <1>2 DEF Kill, Protocol!Exit
  <2> QED BY <2>1 DEF Protocol!Next
<1>3. ASSUME NEW c \in Client, Receive(c)
      PROVE  [Protocol!Next]_(Protocol!vars)
  <2>1. CASE want[c] = "Exit"
    BY <1>1, <1>3, <2>1 DEF Receive
  <2>2. CASE want[c] # "Exit"
    <3>1. want[c] \in Command /\ Dispatch(want[c])
      BY <1>3, <2>2 DEF Receive, TypeOK
    <3> QED BY <3>1, ProtocolDispatch
  <2> QED BY <2>1, <2>2
<1>4. ASSUME NEW c \in Client, DispatchExit(c)
      PROVE  [Protocol!Next]_(Protocol!vars)
  <2>1. "Exit" \in Command
    BY DEF Command
  <2> QED BY <1>4, <2>1, ProtocolDispatch DEF DispatchExit
<1>5. ASSUME NEW a \in Application,
             Dial(a) \/ Lose(a) \/ (\E m \in Announced(a) : Hear(a, m))
      PROVE  UNCHANGED last
  BY <1>5 DEF Dial, Lose, Hear, AppBecomes
<1>6. ASSUME NEW c \in Client, Compare(c) \/ (\E k \in Command : Request(c, k))
      PROVE  UNCHANGED last
  BY <1>6 DEF Compare, Request
<1>7. CASE BusConnected \/ BusDisconnected \/ UNCHANGED vars
  BY <1>1, <1>7 DEF BusConnected, BusDisconnected, BusChanges, vars
<1> QED BY <1>1, <1>2, <1>3, <1>4, <1>5, <1>6, <1>7 DEF Next, Uplink

\* Every sequence of control messages the process publishes is one that
\* ControlProtocol allows.
THEOREM ImplementsProtocol == Spec => PublishesInOrder
<1>1. Init => Protocol!Init
  BY DEF Init, Protocol!Init
<1>2. TypeOK /\ StateFollowsMessage /\ [Next]_vars => [Protocol!Next]_(Protocol!vars)
  BY ProtocolStep
<1> QED BY <1>1, <1>2, TypeCorrect, FollowsMessage, PTL
        DEF Spec, PublishesInOrder, Protocol!Spec

\* After a failure nothing but Exit is published: Error ignores updates and
\* every command but Exit.
THEOREM ErrorPublishesNothing == Spec => FailureIsSilent
<1>1. ASSUME TypeOK, [Next]_vars, exp = "Error"
      PROVE  exp' \in {"Error", "Exit"} /\ last' \in {last, "Exit"}
  <2>1. ASSUME exp' = Settle(exp, bus', app'), UNCHANGED last
        PROVE  exp' \in {"Error", "Exit"} /\ last' \in {last, "Exit"}
    BY <1>1, <2>1, SettleLemma DEF After, TypeOK
  <2>2. ASSUME NEW k \in Command, Dispatch(k), UNCHANGED <<bus, app>>
        PROVE  exp' \in {"Error", "Exit"} /\ last' \in {last, "Exit"}
    <3>1. CASE k = "Exit"
      <4>1. Settle("Exit", bus, app) \in After("Exit")
        BY SettleLemma DEF Experiment
      <4> QED BY <1>1, <2>2, <3>1, <4>1 DEF Dispatch, Target, After
    <3>2. CASE k # "Exit"
      BY <1>1, <2>2, <3>2 DEF Dispatch, Target, Command
    <3> QED BY <3>1, <3>2
  <2>3. CASE BusConnected \/ BusDisconnected
    BY <2>1, <2>3 DEF BusConnected, BusDisconnected, BusChanges
  <2>4. ASSUME NEW a \in Application,
               Dial(a) \/ Lose(a) \/ (\E m \in Announced(a) : Hear(a, m))
        PROVE  exp' = Settle(exp, bus', app') /\ UNCHANGED last
    BY <2>4 DEF Dial, Lose, Hear, AppBecomes
  <2>5. ASSUME NEW c \in Client, Receive(c)
        PROVE  exp' \in {"Error", "Exit"} /\ last' \in {last, "Exit"}
    <3>1. want[c] \in Command
      BY <1>1, <2>5 DEF Receive, TypeOK
    <3>2. CASE want[c] = "Exit"
      BY <1>1, <2>5, <3>2 DEF Receive
    <3>3. CASE want[c] # "Exit"
      BY <2>2, <2>5, <3>1, <3>3 DEF Receive
    <3> QED BY <3>2, <3>3
  <2>6. ASSUME NEW c \in Client, DispatchExit(c)
        PROVE  exp' \in {"Error", "Exit"} /\ last' \in {last, "Exit"}
    BY <2>2, <2>6 DEF DispatchExit, Command
  <2>7. ASSUME NEW c \in Client, Compare(c) \/ (\E k \in Command : Request(c, k))
        PROVE  exp' \in {"Error", "Exit"} /\ last' \in {last, "Exit"}
    BY <1>1, <2>7 DEF Compare, Request
  <2>8. CASE Kill \/ UNCHANGED vars
    BY <1>1, <2>8 DEF Kill, vars
  <2> QED BY <1>1, <2>1, <2>3, <2>4, <2>5, <2>6, <2>7, <2>8 DEF Next, Uplink
<1>2. TypeOK /\ [Next]_vars
        => [exp = "Error" => exp' \in {"Error", "Exit"} /\ last' \in {last, "Exit"}]_vars
  BY <1>1
<1> QED BY <1>2, TypeCorrect, PTL DEF Spec, FailureIsSilent
----------------------------------------------------------------------------
(* The uplink's answers.                                                    *)

\* The states that are still to be compared with hold state e.
Found(e, k, i) == \E j \in i .. Len(AckStates(k)) : e = AckStates(k)[j]

\* While the uplink compares a command the Experiment takes, the states left
\* to compare with still hold the present one, unless the experiment failed.
UplinkInv ==
  \A c \in Client :
    /\ want[c] # "none" => reply[c] = "none" \/ (serving = c /\ at = 0)
    /\ serving = c =>
         /\ want[c] \in Command
         /\ at = 0 => want[c] = "Exit"
         /\ at > 0 => /\ at <= Len(AckStates(want[c]))
                      /\ able => \/ Found(exp, want[c], at)
                                 \/ exp \in {"Error", "Exit"}
         /\ at = 0 /\ reply[c] = "ack" => Target(exp, "Exit") = "Exit"

\* The comparisons run in the order in which the Experiment moves on by
\* itself: what is still to be found stays to be found, or it has failed.
LEMMA FoundLemma ==
  ASSUME NEW k \in Command, NEW i \in Nat \ {0}, NEW e, Found(e, k, i),
         NEW d \in After(e)
  PROVE  Found(d, k, i) \/ d \in {"Error", "Exit"}
<1> USE DEF Found, After
<1>1. CASE k = "Config"
  <2>1. AckStates(k) = <<"Configuring", "Configured">>
    BY <1>1 DEF AckStates
  <2> QED BY <2>1
<1>2. CASE k = "StartData"
  <2>1. AckStates(k) = <<"StartingData", "Started">>
    BY <1>2 DEF AckStates
  <2> QED BY <2>1
<1>3. CASE k = "StopData"
  <2>1. AckStates(k) = <<"StoppingData", "Configured">>
    BY <1>3 DEF AckStates
  <2> QED BY <2>1
<1>4. CASE k = "StartRun"
  <2>1. AckStates(k) = <<"StartingRun", "Running">>
    BY <1>4 DEF AckStates
  <2> QED BY <2>1
<1>5. CASE k = "StopRun"
  <2>1. AckStates(k) = <<"StoppingRun", "Started">>
    BY <1>5 DEF AckStates
  <2> QED BY <2>1
<1>6. CASE k = "Exit"
  <2>1. AckStates(k) = <<"Init", "Ready", "Configured", "Error">>
    BY <1>6 DEF AckStates
  <2> QED BY <2>1
<1> QED BY <1>1, <1>2, <1>3, <1>4, <1>5, <1>6 DEF Command

\* A command that the Experiment takes leads to one of the states it is
\* compared with, or, for Exit, comes in one of them.
LEMMA TakenLemma ==
  ASSUME NEW e \in Experiment, NEW k \in Command, Target(e, k) # e
  PROVE  IF k = "Exit" THEN Found(e, k, 1) ELSE Found(Target(e, k), k, 1)
BY DEF Target, Found, AckStates, Command

\* Every command is compared with at least one state.
LEMMA AckLengthLemma ==
  ASSUME NEW k \in Command
  PROVE  Len(AckStates(k)) \in Nat \ {0}
BY DEF AckStates, Command

\* A step of the state machines keeps what the uplink relies on.
LEMMA UplinkKept ==
  ASSUME TypeOK, UplinkInv, exp' \in After(exp), UNCHANGED opsVars
  PROVE  UplinkInv'
<1> SUFFICES ASSUME NEW c \in Client,
                    serving = c, want[c] \in Command,
                    at \in Nat
             PROVE  /\ at > 0 /\ able =>
                         Found(exp', want[c], at) \/ exp' \in {"Error", "Exit"}
                    /\ at = 0 /\ reply[c] = "ack" => Target(exp', "Exit") = "Exit"
  BY DEF UplinkInv, TypeOK, opsVars
<1>1. exp \in Experiment
  BY DEF TypeOK
<1>2. ASSUME at > 0, able
      PROVE  Found(exp', want[c], at) \/ exp' \in {"Error", "Exit"}
  <2>1. Found(exp, want[c], at) \/ exp \in {"Error", "Exit"}
    BY <1>2 DEF UplinkInv
  <2>2. CASE Found(exp, want[c], at)
    BY <1>2, <2>2, FoundLemma
  <2>3. CASE exp \in {"Error", "Exit"}
    BY <2>3 DEF After
  <2> QED BY <2>1, <2>2, <2>3
<1>3. ASSUME at = 0, reply[c] = "ack"
      PROVE  Target(exp', "Exit") = "Exit"
  <2>1. Target(exp, "Exit") = "Exit"
    BY <1>3 DEF UplinkInv
  <2>2. exp \in {"Init", "Ready", "Configured", "Error", "Exit"}
    BY <2>1, <1>1 DEF Target, Experiment, Transitional
  <2> QED BY <2>2 DEF After, Target
<1> QED BY <1>2, <1>3

\* An interrupt keeps what the uplink relies on.
LEMMA KillKeepsUplink ==
  ASSUME TypeOK, UplinkInv, exp' = "Exit", UNCHANGED opsVars
  PROVE  UplinkInv'
BY DEF UplinkInv, opsVars, Target

\* So does taking a message: the comparisons start before the state has
\* moved past the first of them.
LEMMA ReceiveKeepsUplink ==
  ASSUME TypeOK, UplinkInv, NEW c \in Client, Receive(c)
  PROVE  UplinkInv'
<1> DEFINE k == want[c]
<1>1. k \in Command /\ serving' = c /\ at' = 1 /\ UNCHANGED <<want, reply>>
  BY DEF Receive, TypeOK
<1>2. Len(AckStates(k)) \in Nat \ {0}
  BY <1>1, AckLengthLemma
<1>3. reply[c] = "none"
  BY ClientAssumption DEF Receive, UplinkInv
<1>4. ASSUME able' PROVE Found(exp', k, 1) \/ exp' \in {"Error", "Exit"}
  <2>1. Target(exp, k) # exp
    BY <1>4 DEF Receive
  <2>2. exp \in Experiment
    BY DEF TypeOK
  <2>3. CASE k = "Exit"
    <3>1. Found(exp, k, 1)
      BY <1>1, <2>1, <2>2, <2>3, TakenLemma
    <3>2. exp' = exp
      BY <2>3 DEF Receive
    <3> QED BY <3>1, <3>2
  <2>4. CASE k # "Exit"
    <3>1. Found(Target(exp, k), k, 1)
      BY <1>1, <2>1, <2>2, <2>4, TakenLemma
    <3>2. exp' = Settle(Target(exp, k), bus, app)
      BY <2>1, <2>4 DEF Receive, Dispatch
    <3>3. exp' \in After(Target(exp, k))
      BY <1>1, <2>2, <3>2, TargetLemma, SettleLemma
    <3> QED BY <1>1, <3>1, <3>3, FoundLemma
  <2> QED BY <2>3, <2>4
<1>5. \A d \in Client \ {c} : want[d] # "none" => reply[d] = "none"
  BY ClientAssumption DEF Receive, UplinkInv
<1> QED BY <1>1, <1>2, <1>3, <1>4, <1>5 DEF UplinkInv

\* So does one comparison, answered or not.
LEMMA CompareKeepsUplink ==
  ASSUME TypeOK, UplinkInv, NEW c \in Client, Compare(c)
  PROVE  UplinkInv'
<1> DEFINE k == want[c]
<1> DEFINE states == AckStates(k)
<1>1. /\ serving = c /\ k \in Command /\ at \in Nat \ {0} /\ at <= Len(states)
      /\ reply[c] = "none" /\ exp \in Experiment
      /\ UNCHANGED <<exp, able>>
  <2>1. serving = c /\ at \in Nat \ {0} /\ exp \in Experiment
    BY DEF Compare, TypeOK
  <2>2. k \in Command /\ at <= Len(states)
    BY <2>1 DEF UplinkInv
  <2>3. reply[c] = "none"
    BY <2>1, <2>2 DEF UplinkInv, Command
  <2>4. UNCHANGED <<exp, able>>
    BY DEF Compare
  <2> QED BY <2>1, <2>2, <2>3, <2>4
<1>2. \A d \in Client \ {c} : want[d] # "none" => reply[d] = "none"
  BY <1>1 DEF UplinkInv
<1>3. Len(states) \in Nat \ {0}
  BY <1>1, AckLengthLemma
<1>4. CASE exp = states[at] /\ Answer(c, "ack")
  <2>1. CASE k = "Exit"
    <3>1. states = <<"Init", "Ready", "Configured", "Error">>
      BY <2>1 DEF AckStates
    <3>2. exp \in {"Init", "Ready", "Configured", "Error"}
      BY <1>1, <1>4, <3>1
    <3>3. Target(exp', "Exit") = "Exit"
      BY <1>1, <3>2 DEF Target
    <3> QED BY <1>1, <1>2, <1>4, <2>1, <3>3 DEF UplinkInv, Answer
  <2>2. CASE k # "Exit"
    BY <1>1, <1>2, <1>4, <2>2, ClientAssumption DEF UplinkInv, Answer, TypeOK
  <2> QED BY <2>1, <2>2
<1>5. CASE exp # states[at] /\ at = Len(states) /\ Answer(c, "nak")
  <2>1. CASE k = "Exit"
    BY <1>1, <1>2, <1>5, <2>1 DEF UplinkInv, Answer, TypeOK
  <2>2. CASE k # "Exit"
    BY <1>1, <1>2, <1>5, <2>2, ClientAssumption DEF UplinkInv, Answer, TypeOK
  <2> QED BY <2>1, <2>2
<1>6. CASE /\ exp # states[at] /\ at < Len(states)
           /\ at' = at + 1 /\ UNCHANGED <<want, reply, serving>>
  <2>1. able => Found(exp, k, at) \/ exp \in {"Error", "Exit"}
    BY <1>1 DEF UplinkInv
  <2>2. Found(exp, k, at) => Found(exp, k, at + 1)
    BY <1>1, <1>3, <1>6 DEF Found
  <2>3. at + 1 <= Len(states)
    BY <1>1, <1>3, <1>6
  <2> HIDE DEF states
  <2> QED BY <1>1, <1>2, <1>6, <2>1, <2>2, <2>3 DEF UplinkInv, states
<1> QED BY <1>4, <1>5, <1>6 DEF Compare

\* So does the dispatch of an answered Exit, which frees the uplink.
LEMMA DispatchExitKeepsUplink ==
  ASSUME TypeOK, UplinkInv, NEW c \in Client, DispatchExit(c)
  PROVE  UplinkInv'
BY ClientAssumption DEF DispatchExit, UplinkInv, TypeOK

\* So does a client that sends a command: it is not the one being served.
LEMMA RequestKeepsUplink ==
  ASSUME TypeOK, UplinkInv, NEW c \in Client, NEW k \in Command, Request(c, k)
  PROVE  UplinkInv'
<1>1. serving # c
  BY DEF Request, UplinkInv, Command
<1> QED BY <1>1 DEF Request, UplinkInv, TypeOK

\* Every step keeps what the uplink relies on.
LEMMA UplinkStep == TypeOK /\ UplinkInv /\ [Next]_vars => UplinkInv'
<1> SUFFICES ASSUME TypeOK, UplinkInv, [Next]_vars PROVE UplinkInv'
  OBVIOUS
<1>1. ASSUME exp' = Settle(exp, bus', app'), UNCHANGED opsVars PROVE UplinkInv'
  <2>1. exp' \in After(exp)
    BY <1>1, SettleLemma DEF TypeOK
  <2> QED BY <1>1, <2>1, UplinkKept
<1>2. CASE BusConnected \/ BusDisconnected
  BY <1>1, <1>2 DEF BusConnected, BusDisconnected, BusChanges, opsVars
<1>3. ASSUME NEW a \in Application,
             Dial(a) \/ Lose(a) \/ (\E m \in Announced(a) : Hear(a, m))
      PROVE  UplinkInv'
  BY <1>1, <1>3 DEF Dial, Lose, Hear, AppBecomes, opsVars
<1>4. CASE Kill
  BY <1>4, KillKeepsUplink DEF Kill, opsVars
<1>5. ASSUME NEW c \in Client, Uplink(c) PROVE UplinkInv'
  BY <1>5, ReceiveKeepsUplink, CompareKeepsUplink, DispatchExitKeepsUplink DEF Uplink
<1>6. ASSUME NEW c \in Client, NEW k \in Command, Request(c, k) PROVE UplinkInv'
  BY <1>6, RequestKeepsUplink
<1>7. CASE UNCHANGED vars
  BY <1>7 DEF vars, UplinkInv
<1> QED BY <1>2, <1>3, <1>4, <1>5, <1>6, <1>7 DEF Next

\* What the uplink relies on between two reads holds in every state.
LEMMA UplinkInvariant == Spec => []UplinkInv
<1>1. Init => UplinkInv
  BY ClientAssumption DEF Init, UplinkInv
<1> QED BY <1>1, UplinkStep, TypeCorrect, PTL DEF Spec

\* An acknowledged Exit cannot be refused any more, for any number of clients.
THEOREM AckedExitIsKept == Spec => []AckedExitStands
<1>1. UplinkInv => AckedExitStands
  BY DEF UplinkInv, AckedExitStands
<1> QED BY <1>1, UplinkInvariant, PTL

\* A command the Experiment takes is refused only after a failure, for any
\* number of clients.
THEOREM NakIsFailure == Spec => NakMeansFailure
<1>1. ASSUME TypeOK, UplinkInv, [Next]_vars, NEW c \in Client,
             serving = c, able, reply[c] # "nak", reply'[c] = "nak"
      PROVE  exp \in {"Error", "Exit"}
  <2>1. ASSUME NEW d \in Client, Compare(d) PROVE exp \in {"Error", "Exit"}
    <3>1. d = c /\ want[c] \in Command
      BY <1>1, <2>1 DEF Compare, UplinkInv
    <3>2. /\ exp # AckStates(want[c])[at]
          /\ at = Len(AckStates(want[c])) /\ at \in Nat \ {0}
      BY <1>1, <2>1, <3>1 DEF Compare, Answer, TypeOK
    <3>3. ~Found(exp, want[c], at)
      BY <3>2 DEF Found
    <3> QED BY <1>1, <3>2, <3>3 DEF UplinkInv
  <2>2. ASSUME UNCHANGED reply PROVE FALSE
    BY <1>1, <2>2
  <2>3. ASSUME NEW d \in Client, NEW k \in Command, Request(d, k) PROVE FALSE
    BY <1>1, <2>3 DEF Request, TypeOK
  <2>4. ASSUME NEW a \in Application,
               Dial(a) \/ Lose(a) \/ (\E m \in Announced(a) : Hear(a, m))
        PROVE  UNCHANGED reply
    BY <2>4 DEF Dial, Lose, Hear, AppBecomes
  <2>5. CASE BusConnected \/ BusDisconnected \/ Kill \/ UNCHANGED vars
    BY <2>2, <2>5 DEF BusConnected, BusDisconnected, BusChanges, Kill, vars
  <2>6. ASSUME NEW d \in Client, Receive(d) \/ DispatchExit(d) PROVE UNCHANGED reply
    BY <2>6 DEF Receive, DispatchExit
  <2> QED BY <1>1, <2>1, <2>2, <2>3, <2>4, <2>5, <2>6 DEF Next, Uplink
<1>2. TypeOK /\ UplinkInv /\ [Next]_vars
        => [\A c \in Client :
              serving = c /\ able /\ reply[c] # "nak" /\ reply'[c] = "nak"
                 => exp \in {"Error", "Exit"}]_vars
  BY <1>1
<1> QED BY <1>2, UplinkInvariant, TypeCorrect, PTL DEF Spec, NakMeansFailure
============================================================================
