--------------------------- MODULE ShutdownProofs ---------------------------
(***************************************************************************)
(* Theorems about Shutdown, for any dispatching threads and any number of   *)
(* commands, exceptions of the bus and interrupts: no message is lost or    *)
(* reordered, and the mutexes are held by the threads whose steps say so,   *)
(* the SIGINT handler's included.  Without an interrupt nothing follows     *)
(* Exit.                                                                    *)
(***************************************************************************)
EXTENDS Shutdown, SequenceTheorems, TLAPS

\* The threads are told from one another and from no thread.
Threads == /\ None \notin Thread
           /\ "main" \notin Dispatcher /\ "bus" \notin Dispatcher

(* --- the inductive invariant ------------------------------------------- *)
\* The handler has entered the dispatch mutex; d has; d pushes a message.
InHandler == signalAt \notin {"idle", "dispatch"}
Dispatching(d) == at[d] \notin {"idle", "done"}
Pushing(d) == at[d] \in {"pushCommand", "pushExit"}
HandlerPushes(t) == signalOn = t /\ signalAt = "push"
BusPushes == busAt \in {"send", "block"}

\* The mutex of the queue, which is not recursive: its holder, be it a thread or the
\* handler on that thread.
QueueHeld ==
  /\ queueOwner = "bus" <=> BusPushes \/ HandlerPushes("bus")
  /\ queueOwner = "main" <=> HandlerPushes("main")
  /\ \A d \in Dispatcher : queueOwner = d <=> Pushing(d) \/ HandlerPushes(d)

\* The handler never pushes on a thread that was interrupted while it held that mutex.
PushesAlone ==
  /\ HandlerPushes("bus") => ~BusPushes
  /\ \A d \in Dispatcher : HandlerPushes(d) => ~Pushing(d)

\* The dispatch mutex, which is: it goes back to the thread that held it.
DispatchHeld ==
  /\ dispatcher = "bus" <=> signalOn = "bus" /\ InHandler
  /\ dispatcher = "main" <=> signalOn = "main" /\ InHandler
  /\ \A d \in Dispatcher : dispatcher = d <=> Dispatching(d) \/ (signalOn = d /\ InHandler)

GivenBack ==
  /\ heldBefore \notin {"bus", "main"}
  /\ \A d \in Dispatcher : heldBefore = d <=> Dispatching(d) /\ signalOn = d /\ InHandler

\* The handler runs on a thread that has not ended.
Handled ==
  /\ signalOn = None <=> signalAt = "idle"
  /\ signalOn = "bus" => busAt # "done"
  /\ signalOn = "main" => mainAt # "done"
  /\ \A d \in Dispatcher : signalOn = d => at[d] # "done"

\* main is the last to end.
AllEnded ==
  mainAt = "done" => /\ busAt = "done" /\ signalOn = None
                     /\ \A d \in Dispatcher : at[d] = "done"

\* Without interrupts the first Exit is queued after the experiment has ended, and by
\* then no thread is left that would queue a command.
NoExit == \A i \in 1 .. Len(published) : published[i] # "Exit"
Exits ==
  MaxSignals = 0 =>
    /\ signals = 0 /\ signalOn = None
    /\ ~ended => NoExit
    /\ \A d \in Dispatcher : /\ at[d] \in {"command", "pushCommand"} => ~ended
                             /\ at[d] \in {"exit", "pushExit"} => ended /\ NoExit
    /\ ExitIsLast

Mutexes == QueueHeld /\ PushesAlone /\ DispatchHeld /\ GivenBack /\ Handled /\ AllEnded
IInv == TypeOK /\ NothingLost /\ Mutexes /\ Exits

(* --- sequences --------------------------------------------------------- *)
\* A message that is sent moves from the head of the queue to the end of what was sent.
LEMMA SentInOrder ==
  ASSUME NEW s \in Seq(Message), NEW q \in Seq(Message), q # <<>>
  PROVE  /\ Append(s, Head(q)) \o Tail(q) = s \o q
         /\ Append(s, Head(q)) \in Seq(Message) /\ Tail(q) \in Seq(Message)
  OBVIOUS

LEMMA QueuedInOrder ==
  ASSUME NEW s \in Seq(Message), NEW q \in Seq(Message), NEW m \in Message
  PROVE  s \o Append(q, m) = Append(s \o q, m)
  OBVIOUS

(* --- the initial states ------------------------------------------------ *)
LEMMA InitIInv == Threads /\ Init => IInv
<1>. SUFFICES ASSUME Threads, Init PROVE IInv
  OBVIOUS
<1>1. TypeOK
  <2>1. queue \in Seq(Message) /\ sent \in Seq(Message) /\ published \in Seq(Message)
    BY DEF Init
  <2>2. running \in BOOLEAN /\ busRunning \in BOOLEAN /\ ended \in BOOLEAN /\ told \in BOOLEAN
    BY Zenon DEF Init
  <2>. QED  BY <2>1, <2>2 DEF Init, TypeOK, Thread
<1>2. NothingLost
  BY DEF Init, NothingLost
<1>3. Mutexes
  BY DEF Threads, Thread, Init, Mutexes, QueueHeld, PushesAlone, DispatchHeld, GivenBack, Handled,
         AllEnded, InHandler, Dispatching, Pushing, HandlerPushes, BusPushes
<1>4. Exits
  BY DEF Init, Exits, NoExit, ExitIsLast
<1>. QED  BY <1>1, <1>2, <1>3, <1>4 DEF IInv

(* --- the steps --------------------------------------------------------- *)
(* Each step leaves everything in its type. *)
LEMMA StepType ==
  ASSUME TypeOK, [Next]_vars
  PROVE  TypeOK'
<1>. USE DEF queueVars, signalVars, BusOnly, HandlerOnly, DispatchOnly, TypeOK, Thread, Message
<1>1. CASE Bus
  <2>. Free("bus") /\ BusOnly
    BY <1>1 DEF Bus
  <2>1. CASE BusOpen
    BY <1>1, <2>1 DEF BusOpen
  <2>2. CASE BusReports
    BY <1>1, <2>2 DEF BusReports
  <2>3. CASE BusTest
    BY <1>1, <2>3 DEF BusTest
  <2>4. CASE BusLock
    BY <1>1, <2>4 DEF BusLock
  <2>5. CASE BusSend
    BY <1>1, <2>5, SentInOrder DEF BusSend
  <2>6. CASE BusSent
    BY <1>1, <2>6 DEF BusSent
  <2>7. CASE BusBlock
    BY <1>1, <2>7 DEF BusBlock
  <2>8. CASE BusAwake
    BY <1>1, <2>8 DEF BusAwake
  <2>9. CASE BusFails
    BY <1>1, <2>9 DEF BusFails
  <2>. QED  BY <1>1, <2>1, <2>2, <2>3, <2>4, <2>5, <2>6, <2>7, <2>8, <2>9 DEF Bus
<1>2. CASE Main
  <2>1. CASE MainTest
    BY <1>2, <2>1 DEF MainTest, Main
  <2>2. CASE MainBlock
    BY <1>2, <2>2 DEF MainBlock, Main
  <2>3. CASE MainStop
    <3>1. busRunning' \in BOOLEAN
      BY <1>2, <2>3, Zenon DEF MainStop
    <3>. QED  BY <3>1, <1>2, <2>3 DEF MainStop, Main
  <2>4. CASE MainNotify
    BY <1>2, <2>4 DEF MainNotify, WakeBus, Main
  <2>5. CASE MainJoin
    BY <1>2, <2>5 DEF MainJoin, Main
  <2>. QED  BY <1>2, <2>1, <2>2, <2>3, <2>4, <2>5 DEF Main
<1>3. CASE Handler
  <2>. HandlerOnly
    BY <1>3 DEF Handler
  <2>1. CASE HandlerDispatch
    BY <1>3, <2>1 DEF HandlerDispatch
  <2>2. CASE HandlerLock
    BY <1>3, <2>2 DEF HandlerLock
  <2>3. CASE HandlerPublish
    BY <1>3, <2>3 DEF HandlerPublish, Push, WakeBus
  <2>4. CASE HandlerTerminate
    <3>1. running' \in BOOLEAN
      BY <1>3, <2>4, Zenon DEF HandlerTerminate
    <3>. QED  BY <3>1, <1>3, <2>4 DEF HandlerTerminate
  <2>5. CASE HandlerReturns
    BY <1>3, <2>5 DEF HandlerReturns, WakeMain
  <2>. QED  BY <1>3, <2>1, <2>2, <2>3, <2>4, <2>5 DEF Handler
<1>4. ASSUME NEW d \in Dispatcher, DispatchingThread(d)
      PROVE  TypeOK'
  <2>. Free(d) /\ DispatchOnly
    BY <1>4 DEF DispatchingThread
  <2>1. CASE DispatchDone(d)
    BY <1>4, <2>1 DEF DispatchDone
  <2>2. CASE LockQueue(d)
    BY <1>4, <2>2 DEF LockQueue
  <2>3. CASE Publish(d)
    BY <1>4, <2>3 DEF Publish, Push, WakeBus
  <2>4. CASE Terminate(d)
    <3>1. running' \in BOOLEAN
      BY <1>4, <2>4, Zenon DEF Terminate
    <3>. QED  BY <3>1, <1>4, <2>4 DEF Terminate
  <2>5. CASE NotifyMain(d)
    BY <1>4, <2>5 DEF NotifyMain, WakeMain
  <2>6. CASE Quit(d)
    BY <1>4, <2>6 DEF Quit
  <2>7. ASSUME NEW kind \in {"update", "command", "exit"}, Dispatch(d, kind)
        PROVE  TypeOK'
    BY <1>4, <2>7 DEF Dispatch
  <2>. QED  BY <1>4, <2>1, <2>2, <2>3, <2>4, <2>5, <2>6, <2>7 DEF DispatchingThread
<1>5. ASSUME NEW t \in Thread, Interrupt(t), HandlerOnly
      PROVE  TypeOK'
  BY <1>5 DEF Interrupt, Alive
<1>6. CASE UNCHANGED vars
  BY <1>6 DEF vars
<1>. QED  BY <1>1, <1>2, <1>3, <1>4, <1>5, <1>6 DEF Next

(* The mutex of the queue is taken only when it is free, by a thread that is not interrupted or by
   the handler, and given back by whoever took it. *)
LEMMA StepQueueHeld ==
  ASSUME Threads, TypeOK, QueueHeld, PushesAlone, Handled, [Next]_vars
  PROVE  (QueueHeld /\ PushesAlone)'
<1>. USE DEF queueVars, signalVars, BusOnly, HandlerOnly, DispatchOnly, Free, QueueHeld,
             PushesAlone, Pushing, HandlerPushes, BusPushes, Handled, TypeOK, Threads, Thread
<1>1. CASE Bus
  <2>. Free("bus") /\ BusOnly
    BY <1>1 DEF Bus
  <2>1. CASE BusOpen
    BY <1>1, <2>1 DEF BusOpen
  <2>2. CASE BusReports
    BY <1>1, <2>2 DEF BusReports
  <2>3. CASE BusTest
    BY <1>1, <2>3 DEF BusTest
  <2>4. CASE BusLock
    BY <1>1, <2>4 DEF BusLock
  <2>5. CASE BusSend
    BY <1>1, <2>5 DEF BusSend
  <2>6. CASE BusSent
    BY <1>1, <2>6 DEF BusSent
  <2>7. CASE BusBlock
    BY <1>1, <2>7 DEF BusBlock
  <2>8. CASE BusAwake
    BY <1>1, <2>8 DEF BusAwake
  <2>9. CASE BusFails
    BY <1>1, <2>9 DEF BusFails
  <2>. QED  BY <1>1, <2>1, <2>2, <2>3, <2>4, <2>5, <2>6, <2>7, <2>8, <2>9 DEF Bus
<1>2. CASE Main
  <2>1. CASE MainTest
    BY <1>2, <2>1 DEF MainTest, Main
  <2>2. CASE MainBlock
    BY <1>2, <2>2 DEF MainBlock, Main
  <2>3. CASE MainStop
    BY <1>2, <2>3 DEF MainStop, Main
  <2>4. CASE MainNotify
    BY <1>2, <2>4 DEF MainNotify, WakeBus, Main
  <2>5. CASE MainJoin
    BY <1>2, <2>5 DEF MainJoin, Main
  <2>. QED  BY <1>2, <2>1, <2>2, <2>3, <2>4, <2>5 DEF Main
<1>3. CASE Handler
  <2>. HandlerOnly
    BY <1>3 DEF Handler
  <2>1. CASE HandlerDispatch
    BY <1>3, <2>1 DEF HandlerDispatch
  <2>2. CASE HandlerLock
    BY <1>3, <2>2 DEF HandlerLock
  <2>3. CASE HandlerPublish
    BY <1>3, <2>3 DEF HandlerPublish, Push, WakeBus
  <2>4. CASE HandlerTerminate
    BY <1>3, <2>4 DEF HandlerTerminate
  <2>5. CASE HandlerReturns
    BY <1>3, <2>5 DEF HandlerReturns, WakeMain
  <2>. QED  BY <1>3, <2>1, <2>2, <2>3, <2>4, <2>5 DEF Handler
<1>4. ASSUME NEW d \in Dispatcher, DispatchingThread(d)
      PROVE  (QueueHeld /\ PushesAlone)'
  <2>. Free(d) /\ DispatchOnly
    BY <1>4 DEF DispatchingThread
  <2>1. CASE DispatchDone(d)
    BY <1>4, <2>1 DEF DispatchDone
  <2>2. CASE LockQueue(d)
    BY <1>4, <2>2 DEF LockQueue
  <2>3. CASE Publish(d)
    BY <1>4, <2>3 DEF Publish, Push, WakeBus
  <2>4. CASE Terminate(d)
    BY <1>4, <2>4 DEF Terminate
  <2>5. CASE NotifyMain(d)
    BY <1>4, <2>5 DEF NotifyMain, WakeMain
  <2>6. CASE Quit(d)
    BY <1>4, <2>6 DEF Quit
  <2>7. ASSUME NEW kind \in {"update", "command", "exit"}, Dispatch(d, kind)
        PROVE  (QueueHeld /\ PushesAlone)'
    BY <1>4, <2>7 DEF Dispatch
  <2>. QED  BY <1>4, <2>1, <2>2, <2>3, <2>4, <2>5, <2>6, <2>7 DEF DispatchingThread
<1>5. ASSUME NEW t \in Thread, Interrupt(t), HandlerOnly
      PROVE  (QueueHeld /\ PushesAlone)'
  BY <1>5 DEF Interrupt, Alive
<1>6. CASE UNCHANGED vars
  BY <1>6 DEF vars
<1>. QED  BY <1>1, <1>2, <1>3, <1>4, <1>5, <1>6 DEF Next

(* The handler also takes the dispatch mutex of the thread it runs on, and leaves it to that
   thread when it returns. *)
LEMMA StepDispatchHeld ==
  ASSUME Threads, TypeOK, DispatchHeld, GivenBack, Handled, [Next]_vars
  PROVE  (DispatchHeld /\ GivenBack)'
<1>. USE DEF queueVars, signalVars, BusOnly, HandlerOnly, DispatchOnly, Free, DispatchHeld,
             GivenBack, Handled, InHandler, Dispatching, TypeOK, Threads, Thread
<1>1. CASE Bus
  <2>. Free("bus") /\ BusOnly
    BY <1>1 DEF Bus
  <2>1. CASE BusOpen
    BY <1>1, <2>1 DEF BusOpen
  <2>2. CASE BusReports
    BY <1>1, <2>2 DEF BusReports
  <2>3. CASE BusTest
    BY <1>1, <2>3 DEF BusTest
  <2>4. CASE BusLock
    BY <1>1, <2>4 DEF BusLock
  <2>5. CASE BusSend
    BY <1>1, <2>5 DEF BusSend
  <2>6. CASE BusSent
    BY <1>1, <2>6 DEF BusSent
  <2>7. CASE BusBlock
    BY <1>1, <2>7 DEF BusBlock
  <2>8. CASE BusAwake
    BY <1>1, <2>8 DEF BusAwake
  <2>9. CASE BusFails
    BY <1>1, <2>9 DEF BusFails
  <2>. QED  BY <1>1, <2>1, <2>2, <2>3, <2>4, <2>5, <2>6, <2>7, <2>8, <2>9 DEF Bus
<1>2. CASE Main
  <2>1. CASE MainTest
    BY <1>2, <2>1 DEF MainTest, Main
  <2>2. CASE MainBlock
    BY <1>2, <2>2 DEF MainBlock, Main
  <2>3. CASE MainStop
    BY <1>2, <2>3 DEF MainStop, Main
  <2>4. CASE MainNotify
    BY <1>2, <2>4 DEF MainNotify, WakeBus, Main
  <2>5. CASE MainJoin
    BY <1>2, <2>5 DEF MainJoin, Main
  <2>. QED  BY <1>2, <2>1, <2>2, <2>3, <2>4, <2>5 DEF Main
<1>3. CASE Handler
  <2>. HandlerOnly
    BY <1>3 DEF Handler
  <2>1. CASE HandlerDispatch
    BY <1>3, <2>1 DEF HandlerDispatch
  <2>2. CASE HandlerLock
    BY <1>3, <2>2 DEF HandlerLock
  <2>3. CASE HandlerPublish
    BY <1>3, <2>3 DEF HandlerPublish, Push, WakeBus
  <2>4. CASE HandlerTerminate
    BY <1>3, <2>4 DEF HandlerTerminate
  <2>5. CASE HandlerReturns
    BY <1>3, <2>5 DEF HandlerReturns, WakeMain
  <2>. QED  BY <1>3, <2>1, <2>2, <2>3, <2>4, <2>5 DEF Handler
<1>4. ASSUME NEW d \in Dispatcher, DispatchingThread(d)
      PROVE  (DispatchHeld /\ GivenBack)'
  <2>. Free(d) /\ DispatchOnly
    BY <1>4 DEF DispatchingThread
  <2>1. CASE DispatchDone(d)
    BY <1>4, <2>1 DEF DispatchDone
  <2>2. CASE LockQueue(d)
    BY <1>4, <2>2 DEF LockQueue
  <2>3. CASE Publish(d)
    BY <1>4, <2>3 DEF Publish, Push, WakeBus
  <2>4. CASE Terminate(d)
    BY <1>4, <2>4 DEF Terminate
  <2>5. CASE NotifyMain(d)
    BY <1>4, <2>5 DEF NotifyMain, WakeMain
  <2>6. CASE Quit(d)
    BY <1>4, <2>6 DEF Quit
  <2>7. ASSUME NEW kind \in {"update", "command", "exit"}, Dispatch(d, kind)
        PROVE  (DispatchHeld /\ GivenBack)'
    BY <1>4, <2>7 DEF Dispatch
  <2>. QED  BY <1>4, <2>1, <2>2, <2>3, <2>4, <2>5, <2>6, <2>7 DEF DispatchingThread
<1>5. ASSUME NEW t \in Thread, Interrupt(t), HandlerOnly
      PROVE  (DispatchHeld /\ GivenBack)'
  BY <1>5 DEF Interrupt, Alive
<1>6. CASE UNCHANGED vars
  BY <1>6 DEF vars
<1>. QED  BY <1>1, <1>2, <1>3, <1>4, <1>5, <1>6 DEF Next

(* No thread ends while the handler runs on it, and main waits for the others. *)
LEMMA StepHandled ==
  ASSUME Threads, TypeOK, Handled, AllEnded, [Next]_vars
  PROVE  (Handled /\ AllEnded)'
<1>. USE DEF queueVars, signalVars, BusOnly, HandlerOnly, DispatchOnly, Free, Handled, AllEnded,
             TypeOK, Threads, Thread
<1>1. CASE Bus
  <2>. Free("bus") /\ BusOnly
    BY <1>1 DEF Bus
  <2>1. CASE BusOpen
    BY <1>1, <2>1 DEF BusOpen
  <2>2. CASE BusReports
    BY <1>1, <2>2 DEF BusReports
  <2>3. CASE BusTest
    BY <1>1, <2>3 DEF BusTest
  <2>4. CASE BusLock
    BY <1>1, <2>4 DEF BusLock
  <2>5. CASE BusSend
    BY <1>1, <2>5 DEF BusSend
  <2>6. CASE BusSent
    BY <1>1, <2>6 DEF BusSent
  <2>7. CASE BusBlock
    BY <1>1, <2>7 DEF BusBlock
  <2>8. CASE BusAwake
    BY <1>1, <2>8 DEF BusAwake
  <2>9. CASE BusFails
    BY <1>1, <2>9 DEF BusFails
  <2>. QED  BY <1>1, <2>1, <2>2, <2>3, <2>4, <2>5, <2>6, <2>7, <2>8, <2>9 DEF Bus
<1>2. CASE Main
  <2>1. CASE MainTest
    BY <1>2, <2>1 DEF MainTest, Main
  <2>2. CASE MainBlock
    BY <1>2, <2>2 DEF MainBlock, Main
  <2>3. CASE MainStop
    BY <1>2, <2>3 DEF MainStop, Main
  <2>4. CASE MainNotify
    BY <1>2, <2>4 DEF MainNotify, WakeBus, Main
  <2>5. CASE MainJoin
    BY <1>2, <2>5 DEF MainJoin, Main
  <2>. QED  BY <1>2, <2>1, <2>2, <2>3, <2>4, <2>5 DEF Main
<1>3. CASE Handler
  <2>. HandlerOnly
    BY <1>3 DEF Handler
  <2>1. CASE HandlerDispatch
    BY <1>3, <2>1 DEF HandlerDispatch
  <2>2. CASE HandlerLock
    BY <1>3, <2>2 DEF HandlerLock
  <2>3. CASE HandlerPublish
    BY <1>3, <2>3 DEF HandlerPublish, Push, WakeBus
  <2>4. CASE HandlerTerminate
    BY <1>3, <2>4 DEF HandlerTerminate
  <2>5. CASE HandlerReturns
    BY <1>3, <2>5 DEF HandlerReturns, WakeMain
  <2>. QED  BY <1>3, <2>1, <2>2, <2>3, <2>4, <2>5 DEF Handler
<1>4. ASSUME NEW d \in Dispatcher, DispatchingThread(d)
      PROVE  (Handled /\ AllEnded)'
  <2>. Free(d) /\ DispatchOnly
    BY <1>4 DEF DispatchingThread
  <2>1. CASE DispatchDone(d)
    BY <1>4, <2>1 DEF DispatchDone
  <2>2. CASE LockQueue(d)
    BY <1>4, <2>2 DEF LockQueue
  <2>3. CASE Publish(d)
    BY <1>4, <2>3 DEF Publish, Push, WakeBus
  <2>4. CASE Terminate(d)
    BY <1>4, <2>4 DEF Terminate
  <2>5. CASE NotifyMain(d)
    BY <1>4, <2>5 DEF NotifyMain, WakeMain
  <2>6. CASE Quit(d)
    BY <1>4, <2>6 DEF Quit
  <2>7. ASSUME NEW kind \in {"update", "command", "exit"}, Dispatch(d, kind)
        PROVE  (Handled /\ AllEnded)'
    BY <1>4, <2>7 DEF Dispatch
  <2>. QED  BY <1>4, <2>1, <2>2, <2>3, <2>4, <2>5, <2>6, <2>7 DEF DispatchingThread
<1>5. ASSUME NEW t \in Thread, Interrupt(t), HandlerOnly
      PROVE  (Handled /\ AllEnded)'
  BY <1>5 DEF Interrupt, Alive
<1>6. CASE UNCHANGED vars
  BY <1>6 DEF vars
<1>. QED  BY <1>1, <1>2, <1>3, <1>4, <1>5, <1>6 DEF Next

(* Only sending and publishing touch the queue and what was sent or published. *)
LEMMA StepNothingLost ==
  ASSUME TypeOK, NothingLost, [Next]_vars
  PROVE  NothingLost'
<1>1. CASE BusSend /\ BusOnly
  BY <1>1, SentInOrder DEF BusSend, BusOnly, NothingLost, TypeOK
<1>2. ASSUME NEW m \in Message, Push(m), sent' = sent
      PROVE  NothingLost'
  BY <1>2, QueuedInOrder DEF Push, NothingLost, TypeOK
<1>3. CASE UNCHANGED <<queue, sent, published>>
  BY <1>3 DEF NothingLost
<1>4. CASE Bus
  <2>. BusOnly
    BY <1>4 DEF Bus
  <2>1. BusSend \/ UNCHANGED <<queue, sent>>
    BY <1>4 DEF Bus, BusOpen, BusReports, BusTest, BusLock, BusSent, BusBlock, BusAwake, BusFails
  <2>. QED  BY <1>1, <1>3, <2>1 DEF BusOnly
<1>5. CASE Main
  BY <1>3, <1>5 DEF Main, queueVars
<1>6. CASE Handler
  <2>1. CASE HandlerPublish
    BY <1>2, <2>1 DEF HandlerPublish, Message
  <2>. QED  BY <1>3, <1>6, <2>1 DEF Handler, HandlerDispatch, HandlerLock, HandlerTerminate,
                                    HandlerReturns, queueVars
<1>7. ASSUME NEW d \in Dispatcher, DispatchingThread(d)
      PROVE  NothingLost'
  <2>1. CASE Publish(d)
    BY <1>2, <2>1 DEF Publish, Message
  <2>. QED  BY <1>3, <1>7, <2>1
               DEF DispatchingThread, Dispatch, DispatchDone, LockQueue, Terminate,
                                    NotifyMain, Quit, queueVars
<1>8. ASSUME NEW t \in Thread, Interrupt(t)
      PROVE  NothingLost'
  BY <1>3, <1>8 DEF Interrupt, queueVars
<1>9. CASE UNCHANGED vars
  BY <1>3, <1>9 DEF vars, queueVars
<1>. QED  BY <1>4, <1>5, <1>6, <1>7, <1>8, <1>9 DEF Next

\* Without interrupts there is no handler: only the dispatching threads end the experiment and
\* publish, and only one of them is between the two at a time.
LEMMA StepExits ==
  ASSUME Threads, TypeOK, DispatchHeld, Handled, Exits, [Next]_vars
  PROVE  Exits'
<1>. SUFFICES ASSUME MaxSignals = 0
              PROVE  /\ signals' = 0 /\ signalOn' = None
                     /\ ~ended' => NoExit'
                     /\ \A d \in Dispatcher : /\ at'[d] \in {"command", "pushCommand"} => ~ended'
                                              /\ at'[d] \in {"exit", "pushExit"} => ended' /\ NoExit'
                     /\ ExitIsLast'
  BY DEF Exits
<1>1. /\ signals = 0 /\ signalOn = None /\ signalAt = "idle"
      /\ ~ended => NoExit
      /\ \A d \in Dispatcher : /\ at[d] \in {"command", "pushCommand"} => ~ended
                               /\ at[d] \in {"exit", "pushExit"} => ended /\ NoExit
      /\ ExitIsLast
  BY DEF Exits, Handled
<1>2. CASE UNCHANGED <<published, ended, at, signals, signalOn>>
  BY <1>1, <1>2, Zenon DEF NoExit, ExitIsLast
<1>3. CASE Bus \/ Main \/ UNCHANGED vars
  BY <1>2, <1>3 DEF Bus, BusOnly, Main, vars, queueVars, signalVars
<1>4. ~Handler
  BY <1>1 DEF Handler, HandlerDispatch, HandlerLock, HandlerPublish, HandlerTerminate,
              HandlerReturns
<1>5. ASSUME NEW t \in Thread PROVE ~Interrupt(t)
  BY <1>1 DEF Interrupt
<1>6. ASSUME NEW d \in Dispatcher, DispatchingThread(d)
      PROVE  /\ signals' = 0 /\ signalOn' = None
             /\ ~ended' => NoExit'
             /\ \A e \in Dispatcher : /\ at'[e] \in {"command", "pushCommand"} => ~ended'
                                      /\ at'[e] \in {"exit", "pushExit"} => ended' /\ NoExit'
             /\ ExitIsLast'
  <2>1. signals' = 0 /\ signalOn' = None
    BY <1>1, <1>6 DEF DispatchingThread, DispatchOnly, signalVars
  <2>2. ASSUME Dispatching(d), NEW e \in Dispatcher, e # d
        PROVE  ~Dispatching(e)
    BY <2>2 DEF DispatchHeld
  <2>3. CASE Publish(d) /\ at[d] = "pushCommand"
    BY <1>1, <2>1, <2>2, <2>3 DEF Publish, Push, NoExit, ExitIsLast, TypeOK
  <2>4. CASE Publish(d) /\ at[d] = "pushExit"
    <3>1. NoExit /\ ended
      BY <1>1, <2>4
    <3>2. ExitIsLast'
      BY <2>4, <3>1 DEF Publish, Push, NoExit, ExitIsLast, TypeOK
    <3>3. \A e \in Dispatcher : at'[e] \notin {"command", "pushCommand", "exit", "pushExit"}
      BY <2>2, <2>4 DEF Publish, TypeOK, Dispatching
    <3>4. ended'
      BY <2>4, <3>1 DEF Publish
    <3>. QED  BY <2>1, <3>2, <3>3, <3>4
  <2>5. ASSUME NEW kind \in {"update", "command", "exit"}, Dispatch(d, kind)
        PROVE  /\ ~ended' => NoExit'
               /\ \A e \in Dispatcher : /\ at'[e] \in {"command", "pushCommand"} => ~ended'
                                        /\ at'[e] \in {"exit", "pushExit"} => ended' /\ NoExit'
               /\ ExitIsLast'
    <3>1. dispatcher = None /\ (\A e \in Dispatcher : ~Dispatching(e)) /\ published' = published
      BY <2>5 DEF Dispatch, DispatchHeld, Threads, Thread, queueVars
    <3>. QED  BY <1>1, <2>5, <3>1 DEF Dispatch, NoExit, ExitIsLast, TypeOK, Dispatching
  <2>6. CASE LockQueue(d)
    BY <1>1, <2>1, <2>6, Zenon DEF LockQueue, NoExit, ExitIsLast, TypeOK
  <2>7. CASE DispatchDone(d) \/ Terminate(d) \/ NotifyMain(d) \/ Quit(d)
    <3>1. /\ published' = published /\ ended' = ended
          /\ \A e \in Dispatcher : at'[e] \in {at[e], "idle", "notify", "update", "done"}
      BY <2>7 DEF DispatchDone, Terminate, NotifyMain, Quit, queueVars, TypeOK
    <3>. QED  BY <1>1, <2>1, <3>1 DEF NoExit, ExitIsLast
  <2>8. Publish(d) => at[d] \in {"pushCommand", "pushExit"}
    BY DEF Publish
  <2>. QED  BY <1>6, <2>1, <2>3, <2>4, <2>5, <2>6, <2>7, <2>8 DEF DispatchingThread
<1>. QED  BY <1>3, <1>4, <1>5, <1>6 DEF Next

(* --- the invariant and the theorems ------------------------------------- *)
LEMMA StepIInv == Threads /\ IInv /\ [Next]_vars => IInv'
BY StepType, StepNothingLost, StepQueueHeld, StepDispatchHeld, StepHandled, StepExits, Zenon
   DEF IInv, Mutexes

LEMMA IInvHolds ==
  ASSUME Threads, IInv
  PROVE  /\ NothingLost /\ HoldersAgree
         /\ MaxSignals = 0 => ExitIsLast
<1>1. HoldersAgree
  BY DEF IInv, Threads, Thread, TypeOK, Mutexes, QueueHeld, DispatchHeld, AllEnded, Handled,
         InHandler, Dispatching, Pushing, BusPushes, HandlerPushes, HoldersAgree
<1>. QED  BY <1>1 DEF IInv, Exits

\* Everything has its type, for any dispatching threads.
THEOREM TypeCorrect ==
  ASSUME Threads
  PROVE  Spec => []TypeOK
<1>1. Init => IInv
  BY InitIInv
<1>2. IInv /\ [Next]_vars => IInv'
  BY StepIInv
<1>3. IInv => TypeOK
  BY DEF IInv
<1>. QED  BY <1>1, <1>2, <1>3, PTL DEF Spec

\* publisher.h: every message queued has been sent or is still queued, in its order and once,
\* whatever the bus threw and whichever thread was interrupted.
THEOREM MessagesKept ==
  ASSUME Threads
  PROVE  Spec => []NothingLost
<1>1. Init => IInv
  BY InitIInv
<1>2. IInv /\ [Next]_vars => IInv'
  BY StepIInv
<1>3. IInv => NothingLost
  BY IInvHolds
<1>. QED  BY <1>1, <1>2, <1>3, PTL DEF Spec

\* The mutexes are held by the threads whose steps say so, and free once main has joined them all:
\* the handler gives the recursive one back to the thread it interrupted.
THEOREM MutexesHeld ==
  ASSUME Threads
  PROVE  Spec => []HoldersAgree
<1>1. Init => IInv
  BY InitIInv
<1>2. IInv /\ [Next]_vars => IInv'
  BY StepIInv
<1>3. IInv => HoldersAgree
  BY IInvHolds
<1>. QED  BY <1>1, <1>2, <1>3, PTL DEF Spec

\* Nothing is published after Exit, unless the user interrupts.
THEOREM ExitEnds ==
  ASSUME Threads, MaxSignals = 0
  PROVE  Spec => []ExitIsLast
<1>1. Init => IInv
  BY InitIInv
<1>2. IInv /\ [Next]_vars => IInv'
  BY StepIInv
<1>3. IInv => ExitIsLast
  BY IInvHolds
<1>. QED  BY <1>1, <1>2, <1>3, PTL DEF Spec
=============================================================================
