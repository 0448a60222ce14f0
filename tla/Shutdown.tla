------------------------------ MODULE Shutdown ------------------------------
(* How the fsm process ends: the thread of the control bus with its queue,  *)
(* the threads that dispatch events, the main thread that waits for the     *)
(* end and joins them, and the SIGINT handler, which runs on whichever      *)
(* thread it interrupts.  The dispatch mutex is recursive, the mutex of the *)
(* queue is not.  What an event does to the experiment is in ExperimentFsm; *)
(* here it is only whether it has ended.                                   *)
EXTENDS Naturals, Sequences

CONSTANTS Dispatcher,   \* observer and uplink threads
          None,
          MaxCommands,  \* bound: commands the operators give
          MaxFailures,  \* bound: exceptions of the bus
          MaxSignals    \* bound: interrupts of the user

VARIABLES running,      \* Global::running_
          mainAt,
          busRunning,   \* AsyncComponent::running_ of the bus
          busAt,
          queue,        \* Publisher::publish_queue_
          queueOwner,   \* holder of mtx_publish_queue_
          sent,         \* what nng has taken, in order
          published,    \* what was ever queued, in order
          ended,        \* the Experiment is in Exit
          at,           \* step of each dispatching thread
          told,         \* running_ of the dispatching threads is cleared
          dispatcher,   \* holder of mtx_dispatch_
          signalOn, signalAt, heldBefore, \* the handler and who held mtx_dispatch_
          commands, failures, signals

queueVars == <<queue, queueOwner, sent, published>>
signalVars == <<signalOn, signalAt, heldBefore, signals>>
vars == <<running, mainAt, busRunning, busAt, queueVars, ended, at, told,
          dispatcher, signalVars, commands, failures>>

Thread == Dispatcher \cup {"main", "bus"}
Message == {"Command", "Exit"}
Free(t) == signalOn # t     \* t is not interrupted

Init == /\ running = TRUE /\ mainAt = "test"
        /\ busRunning = TRUE /\ busAt = "open"
        /\ queue = <<>> /\ queueOwner = None /\ sent = <<>> /\ published = <<>>
        /\ ended = FALSE
        /\ at = [d \in Dispatcher |-> "idle"] /\ told = FALSE
        /\ dispatcher = None
        /\ signalOn = None /\ signalAt = "idle" /\ heldBefore = None
        /\ commands = 0 /\ failures = 0 /\ signals = 0

\* Everything has its type.
TypeOK ==
  /\ running \in BOOLEAN /\ busRunning \in BOOLEAN /\ ended \in BOOLEAN /\ told \in BOOLEAN
  /\ mainAt \in {"test", "block", "wait", "stop", "notify", "join", "done"}
  /\ busAt \in {"open", "connect", "loop", "lock", "send", "block", "wait", "awake",
                "lost", "done"}
  /\ queue \in Seq(Message) /\ sent \in Seq(Message) /\ published \in Seq(Message)
  /\ queueOwner \in Thread \cup {None} /\ dispatcher \in Thread \cup {None}
  /\ at \in [Dispatcher -> {"idle", "update", "command", "exit", "pushCommand", "pushExit",
                            "terminate", "notify", "done"}]
  /\ signalOn \in Thread \cup {None} /\ heldBefore \in Thread \cup {None}
  /\ signalAt \in {"idle", "dispatch", "exit", "push", "terminate", "notify"}

(* --- the control bus: Publisher::run --------------------------------- *)
WakeBus == busAt' = IF busAt = "wait" THEN "awake" ELSE busAt
WakeMain == mainAt' = IF mainAt = "wait" THEN "test" ELSE mainAt

BusOnly == UNCHANGED <<running, mainAt, busRunning, published, ended, at, told, signalVars,
                       commands>>

BusOpen ==
  /\ busAt = "open"
  /\ busAt' = IF busRunning THEN "connect" ELSE "done"
  /\ UNCHANGED <<queue, queueOwner, sent, dispatcher, failures>>

\* connected() and disconnected() dispatch an event and return.
BusReports ==
  /\ busAt \in {"connect", "lost"} /\ dispatcher = None
  /\ busAt' = IF busAt = "connect" THEN "loop" ELSE "open"
  /\ UNCHANGED <<queue, queueOwner, sent, dispatcher, failures>>

BusTest ==
  /\ busAt = "loop"
  /\ busAt' = IF busRunning THEN "lock" ELSE "open"
  /\ UNCHANGED <<queue, queueOwner, sent, dispatcher, failures>>

BusLock ==
  /\ busAt = "lock" /\ queueOwner = None
  /\ busAt' = "send" /\ queueOwner' = "bus"
  /\ UNCHANGED <<queue, sent, dispatcher, failures>>

\* Popping the message before sending it.
BusPopsFirst ==
  /\ busAt = "send" /\ queue # <<>>
  /\ queue' = Tail(queue)
  /\ \/ sent' = Append(sent, Head(queue)) /\ UNCHANGED <<busAt, queueOwner, failures>>
     \/ /\ failures < MaxFailures /\ failures' = failures + 1
        /\ busAt' = "lost" /\ queueOwner' = None /\ UNCHANGED sent
  /\ UNCHANGED dispatcher

BusSend ==
  /\ busAt = "send" /\ queue # <<>>
  /\ sent' = Append(sent, Head(queue)) /\ queue' = Tail(queue)
  /\ UNCHANGED <<busAt, queueOwner, dispatcher, failures>>

\* Leaving the loop with the mutex locked.
BusSentLocked ==
  /\ busAt = "send" /\ queue = <<>>
  /\ busAt' = IF busRunning THEN "block" ELSE "open"
  /\ UNCHANGED <<queueOwner, queue, sent, dispatcher, failures>>

\* The queue is empty: leave the loop, or find the predicate of wait false.
BusSent ==
  /\ busAt = "send" /\ queue = <<>>
  /\ IF busRunning THEN busAt' = "block" /\ UNCHANGED queueOwner
                   ELSE busAt' = "open" /\ queueOwner' = None
  /\ UNCHANGED <<queue, sent, dispatcher, failures>>

\* Only now is the thread asleep: it misses what was notified before.
BusBlock ==
  /\ busAt = "block"
  /\ busAt' = "wait" /\ queueOwner' = None
  /\ UNCHANGED <<queue, sent, dispatcher, failures>>

\* Waiting again after the termination was noticed.
BusAwakeSleepy ==
  /\ busAt = "awake" /\ queueOwner = None
  /\ IF queue = <<>> THEN busAt' = "block" /\ queueOwner' = "bus"
                     ELSE busAt' = "loop" /\ UNCHANGED queueOwner
  /\ UNCHANGED <<queue, sent, dispatcher, failures>>

BusAwake ==
  /\ busAt = "awake" /\ queueOwner = None
  /\ IF busRunning /\ queue = <<>> THEN busAt' = "block" /\ queueOwner' = "bus"
                                   ELSE busAt' = "loop" /\ UNCHANGED queueOwner
  /\ UNCHANGED <<queue, sent, dispatcher, failures>>

\* nng throws from listen or from send, before the message is popped.
BusFails ==
  /\ busAt \in {"connect", "send"} /\ failures < MaxFailures
  /\ busAt = "send" => queue # <<>>
  /\ busAt' = "lost" /\ failures' = failures + 1
  /\ queueOwner' = IF busAt = "send" THEN None ELSE queueOwner
  /\ UNCHANGED <<queue, sent, dispatcher>>

Bus == /\ Free("bus")
       /\ \/ BusOpen \/ BusReports \/ BusTest \/ BusLock \/ BusSend \/ BusSent \/ BusBlock
          \/ BusAwake \/ BusFails
       /\ BusOnly

(* --- events: Global::sendEvent, Publisher::publish, Exit::entry ------- *)
DispatchOnly == UNCHANGED <<busRunning, told, signalVars, failures>>

\* Dispatching without the mutex.
DispatchUnlocked(d, kind) ==
  /\ at[d] = "idle" /\ ~told
  /\ kind = "command" => commands < MaxCommands
  /\ commands' = commands + (IF kind = "command" THEN 1 ELSE 0)
  /\ dispatcher' = d
  /\ at' = [at EXCEPT ![d] = IF ended THEN "update" ELSE kind]
  /\ ended' = (ended \/ kind = "exit")
  /\ UNCHANGED <<running, mainAt, busAt, queueVars>>

\* A thread has received something and takes the dispatch mutex.
Dispatch(d, kind) ==
  /\ at[d] = "idle" /\ ~told /\ dispatcher = None
  /\ kind = "command" => commands < MaxCommands
  /\ commands' = commands + (IF kind = "command" THEN 1 ELSE 0)
  /\ dispatcher' = d
  /\ at' = [at EXCEPT ![d] = IF ended THEN "update" ELSE kind]
  /\ ended' = (ended \/ kind = "exit")
  /\ UNCHANGED <<running, mainAt, busAt, queueVars>>

DispatchDone(d) ==
  /\ at[d] = "update"
  /\ at' = [at EXCEPT ![d] = "idle"] /\ dispatcher' = None
  /\ UNCHANGED <<running, mainAt, busAt, queueVars, ended, commands>>

LockQueue(d) ==
  /\ at[d] \in {"command", "exit"} /\ queueOwner = None
  /\ queueOwner' = d
  /\ at' = [at EXCEPT ![d] = IF @ = "command" THEN "pushCommand" ELSE "pushExit"]
  /\ UNCHANGED <<running, mainAt, busAt, queue, sent, published, ended, dispatcher, commands>>

Push(m) == queue' = Append(queue, m) /\ published' = Append(published, m)

\* Queueing without a notification.
PublishSilently(d) ==
  /\ at[d] \in {"pushCommand", "pushExit"}
  /\ Push(IF at[d] = "pushCommand" THEN "Command" ELSE "Exit")
  /\ queueOwner' = None /\ UNCHANGED busAt
  /\ at' = [at EXCEPT ![d] = IF @ = "pushCommand" THEN "update" ELSE "terminate"]
  /\ UNCHANGED <<running, mainAt, sent, ended, dispatcher, commands>>

\* Queueing the step instead of the message.
PublishStep(d) ==
  /\ at[d] \in {"pushCommand", "pushExit"}
  /\ Push(at[d]) /\ WakeBus /\ queueOwner' = None
  /\ at' = [at EXCEPT ![d] = IF @ = "pushCommand" THEN "update" ELSE "terminate"]
  /\ UNCHANGED <<running, mainAt, sent, ended, dispatcher, commands>>

Publish(d) ==
  /\ at[d] \in {"pushCommand", "pushExit"}
  /\ Push(IF at[d] = "pushCommand" THEN "Command" ELSE "Exit")
  /\ WakeBus /\ queueOwner' = None
  /\ at' = [at EXCEPT ![d] = IF @ = "pushCommand" THEN "update" ELSE "terminate"]
  /\ UNCHANGED <<running, mainAt, sent, ended, dispatcher, commands>>

Terminate(d) ==
  /\ at[d] = "terminate"
  /\ running' = FALSE /\ at' = [at EXCEPT ![d] = "notify"]
  /\ UNCHANGED <<mainAt, busAt, queueVars, ended, dispatcher, commands>>

NotifyMain(d) ==
  /\ at[d] = "notify"
  /\ WakeMain /\ at' = [at EXCEPT ![d] = "update"]
  /\ UNCHANGED <<running, busAt, queueVars, ended, dispatcher, commands>>

Quit(d) ==
  /\ at[d] = "idle" /\ told
  /\ at' = [at EXCEPT ![d] = "done"]
  /\ UNCHANGED <<running, mainAt, busAt, queueVars, ended, dispatcher, commands>>

DispatchingThread(d) ==
  /\ Free(d)
  /\ \/ \E kind \in {"update", "command", "exit"} : Dispatch(d, kind)
     \/ DispatchDone(d) \/ LockQueue(d) \/ Publish(d) \/ Terminate(d) \/ NotifyMain(d)
     \/ Quit(d)
  /\ DispatchOnly

(* --- the main thread: waitUntilTerminated, notifyAndJoinComponents ----- *)
MainTest ==
  /\ mainAt = "test"
  /\ mainAt' = IF running THEN "block" ELSE "stop"
  /\ UNCHANGED <<busRunning, busAt, told>>

MainBlock == mainAt = "block" /\ mainAt' = "wait" /\ UNCHANGED <<busRunning, busAt, told>>

MainStop ==
  /\ mainAt = "stop"
  /\ busRunning' = FALSE /\ mainAt' = "notify"
  /\ UNCHANGED <<busAt, told>>

MainNotify == mainAt = "notify" /\ WakeBus /\ told' = TRUE /\ mainAt' = "join"
              /\ UNCHANGED busRunning

MainJoin ==
  /\ mainAt = "join" /\ busAt = "done" /\ \A d \in Dispatcher : at[d] = "done"
  /\ mainAt' = "done"
  /\ UNCHANGED <<busRunning, busAt, told>>

Main == /\ Free("main")
        /\ MainTest \/ MainBlock \/ MainStop \/ MainNotify \/ MainJoin
        /\ UNCHANGED <<running, queueVars, ended, at, dispatcher, signalVars, commands, failures>>

(* --- the handler of SIGINT -------------------------------------------- *)
HandlerOnly == UNCHANGED <<busRunning, at, told, commands, failures>>

Alive(t) == CASE t = "main" -> mainAt # "done"
              [] t = "bus" -> busAt # "done"
              [] OTHER -> at[t] # "done"

Interrupt(t) ==
  /\ signalOn = None /\ signals < MaxSignals /\ Alive(t) /\ mainAt # "done"
  /\ signalOn' = t /\ signalAt' = "dispatch" /\ signals' = signals + 1
  /\ UNCHANGED <<running, mainAt, busAt, queueVars, ended, dispatcher, heldBefore>>

\* The mutex is recursive: the handler enters it on the thread that holds it.
HandlerDispatch ==
  /\ signalAt = "dispatch" /\ dispatcher \in {None, signalOn}
  /\ heldBefore' = dispatcher /\ dispatcher' = signalOn
  /\ ended' = TRUE /\ signalAt' = "exit"
  /\ UNCHANGED <<running, mainAt, busAt, queueVars, signalOn, signals>>

HandlerLock ==
  /\ signalAt = "exit" /\ queueOwner = None
  /\ queueOwner' = signalOn /\ signalAt' = "push"
  /\ UNCHANGED <<running, mainAt, busAt, queue, sent, published, ended, dispatcher, signalOn,
                 heldBefore, signals>>

HandlerPublish ==
  /\ signalAt = "push"
  /\ Push("Exit") /\ WakeBus /\ queueOwner' = None /\ signalAt' = "terminate"
  /\ UNCHANGED <<running, mainAt, sent, ended, dispatcher, signalOn, heldBefore, signals>>

HandlerTerminate ==
  /\ signalAt = "terminate" /\ running' = FALSE /\ signalAt' = "notify"
  /\ UNCHANGED <<mainAt, busAt, queueVars, ended, dispatcher, signalOn, heldBefore, signals>>

HandlerReturns ==
  /\ signalAt = "notify" /\ WakeMain
  /\ dispatcher' = heldBefore /\ heldBefore' = None
  /\ signalOn' = None /\ signalAt' = "idle"
  /\ UNCHANGED <<running, busAt, queueVars, ended, signals>>

Handler == /\ \/ HandlerDispatch \/ HandlerLock \/ HandlerPublish
              \/ HandlerTerminate \/ HandlerReturns
           /\ HandlerOnly

Next == \/ Bus \/ Main \/ Handler
        \/ \E d \in Dispatcher : DispatchingThread(d)
        \/ \E t \in Thread : Interrupt(t) /\ HandlerOnly

Spec == Init /\ [][Next]_vars

\* A thread that is neither blocked nor interrupted goes on; a dispatching thread
\* need not receive anything.
Ends(d) == Free(d) /\ DispatchOnly
           /\ (DispatchDone(d) \/ LockQueue(d) \/ Publish(d) \/ Terminate(d) \/ NotifyMain(d)
               \/ Quit(d))
FairSpec == /\ Spec
            /\ SF_vars(Bus) /\ WF_vars(Main) /\ SF_vars(Handler)
            /\ \A d \in Dispatcher : SF_vars(Ends(d))

(* --- properties -------------------------------------------------------- *)
\* Every message that was queued has been sent or is still queued, in its order and
\* once, whatever the bus threw in between.
NothingLost == published = sent \o queue

\* Nothing is published after Exit: what a thread decided to publish while it held
\* the dispatch mutex is out before another thread ends the experiment.
ExitIsLast == \A i \in 1 .. Len(published) - 1 : published[i] # "Exit"

\* The two mutexes are held by the threads whose steps say so, the handler's included,
\* and both are free once main has joined everyone.
HoldersAgree ==
  /\ queueOwner = "bus" <=> \/ busAt \in {"send", "block"}
                            \/ signalOn = "bus" /\ signalAt = "push"
  /\ \A d \in Dispatcher :
       dispatcher = d <=> \/ at[d] \notin {"idle", "done"}
                          \/ signalOn = d /\ signalAt \notin {"idle", "dispatch"}
  /\ mainAt = "done" => queueOwner = None /\ dispatcher = None

\* What is queued while the bus is wanted is sent, unless the end intervenes: publish
\* notifies under the mutex and cannot be missed.
Queued == queue # <<>> /\ busRunning
PublishedIsSent == Queued ~> ~Queued

\* Once notified, the bus ends and join returns, except in the window between its
\* test and its wait.
Joining == mainAt = "join" /\ busAt \notin {"block", "wait"}
Joined == mainAt = "done"
JoinReturns == Joining ~> Joined

\* The thread is suspended only until the termination: join always returns.
SuspendedUntilTermination == mainAt = "join" ~> busAt = "done"

\* The bus publishes as many messages as possible: none is left when it ends.
PublishesAll == busAt = "done" => queue = <<>>

\* An interrupt terminates the program: its handler runs to its end.
InterruptTerminates == signalOn # None ~> signalOn = None

=============================================================================
