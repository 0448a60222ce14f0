------------------------------ MODULE AppMain -------------------------------
(* The process of an application, DAQonite's: the main thread, the thread    *)
(* that receives commands, the one that receives signals, and the two of its *)
(* status bus.  Commands and signals are handled by whichever thread         *)
(* receives them, without a lock; the run they start and stop is followed    *)
(* step by step.  DAQontrol and DAQsitter have the same five threads.        *)
EXTENDS Naturals, Sequences

CONSTANTS None,
          MaxCommands, MaxFailures, MaxSignals, \* bounds: messages, exceptions of nng, interrupts
          MaxQueue                              \* bound: statuses queued while the bus runs

VARIABLES mainAt, handlerRuns, \* the main thread; the io_service of the handler is not stopped
          phase,         \* what the fsm process (external) has published last
          commands, failures, signals,
          cmdAt, cmdRunning, inbox,  \* CommandReceiver, and what waits in its socket
          sigAt, sigRunning, armed, pending, \* SignalReceiver, async_wait, and a SIGINT
          todo,          \* the steps of the command each receiver is handling
          run,           \* data_run_: None, or its state
          crashed,       \* a step used a run that was gone
          pubRunning, statusAt, status, \* BusPublisher: statusThread and the status it has read
          commAt, queue, owner, \* communicationThread, publish_queue_ and its mutex
          heard          \* the status sent last
commandVars == <<cmdAt, inbox>>
signalVars == <<sigAt, armed, pending>>
busVars == <<statusAt, status, commAt, queue, owner, heard>>
flags == <<cmdRunning, sigRunning, pubRunning>>
bounds == <<commands, failures, signals>>
vars == <<mainAt, handlerRuns, phase, commandVars, signalVars, todo, run, crashed, flags, busVars, bounds>>

Receiver == {"cmd", "sig"}
Init == /\ mainAt = "arm" /\ handlerRuns = TRUE /\ phase = "Started"
        /\ commands = 0 /\ failures = 0 /\ signals = 0
        /\ cmdAt = "unborn" /\ inbox = <<>> /\ sigAt = "start" /\ armed = FALSE /\ pending = FALSE
        /\ todo = [r \in Receiver |-> <<>>] /\ run = None /\ crashed = FALSE
        /\ cmdRunning = TRUE /\ sigRunning = TRUE /\ pubRunning = TRUE
        /\ statusAt = "unborn" /\ status = "Ready" /\ commAt = "unborn" /\ queue = <<>> /\ owner = None
        /\ heard = None

(* --- the fsm process (external) and the user ------------------------------------- *)
May(m) == CASE m = "StartRun" -> phase = "Started"
            [] m = "StopRun" -> phase = "Running"
            [] m = "Exit" -> phase # "Over"
\* Whoever is not connected misses it.
Publish == \E m \in {"StartRun", "StopRun", "Exit"} :
  /\ May(m) /\ commands < MaxCommands /\ commands' = commands + 1
  /\ phase' = CASE m = "StartRun" -> "Running" [] m = "StopRun" -> "Started" [] OTHER -> "Over"
  /\ inbox' = IF cmdAt \in {"recv", "handle"} THEN Append(inbox, m) ELSE inbox
  /\ UNCHANGED <<mainAt, handlerRuns, cmdAt, signalVars, todo, run, crashed, flags, busVars, failures, signals>>
Interrupt == /\ signals < MaxSignals /\ signals' = signals + 1 /\ pending' = TRUE
             /\ UNCHANGED <<mainAt, handlerRuns, phase, commandVars, sigAt, armed, todo, run, crashed, flags,
                            busVars, commands, failures>>
Fails == failures < MaxFailures /\ failures' = failures + 1

(* --- handleStartRunCommand, handleStopRunCommand, handleExitCommand ---------------- *)
StopRun == <<"test", "stop", "receivers", "serialiser", "reset">>
\* Exit without stopping the run.
StepsJustExit(m) == CASE m = "StartRun" -> Append(StopRun, "start") [] m = "StopRun" -> StopRun
                      [] m = "Exit" -> <<"end">>
Steps(m) == CASE m = "StartRun" -> Append(StopRun, "start") [] m = "StopRun" -> StopRun
              [] m = "Exit" -> Append(StopRun, "end")

\* One step of r's command.  Only "test" looks whether there is a run.
Handle(r) ==
  LET step == Head(todo[r]) IN
  /\ todo[r] # <<>>
  /\ todo' = [todo EXCEPT ![r] = IF step = "test" /\ run = None THEN SubSeq(@, 6, Len(@)) ELSE Tail(@)]
  /\ crashed' = (step \in {"stop", "serialiser"} /\ run = None)
  /\ run' = CASE step = "stop" /\ run # None -> "Stopped" [] step = "reset" -> None
              [] step = "start" -> "Running" [] OTHER -> run
  /\ handlerRuns' = (handlerRuns /\ step # "end")
  /\ UNCHANGED <<mainAt, phase, commandVars, signalVars, flags, busVars, bounds>>

(* --- CommandReceiver::receiverThread ----------------------------------------------- *)
Commands == UNCHANGED <<mainAt, handlerRuns, phase, signalVars, run, crashed, flags, busVars, commands, signals>>
Dial == /\ cmdAt = "open"
        /\ \/ cmdAt' = (IF cmdRunning THEN "recv" ELSE "done") /\ UNCHANGED failures
           \/ cmdRunning /\ Fails /\ cmdAt' = "reconnect"
        /\ UNCHANGED <<inbox, todo>>
Recv == /\ cmdAt = "recv" /\ cmdRunning /\ inbox # <<>> /\ inbox' = Tail(inbox) /\ cmdAt' = "handle"
        /\ todo' = [todo EXCEPT !["cmd"] = Steps(Head(inbox))] /\ UNCHANGED failures
Handled == /\ cmdAt = "handle" /\ todo["cmd"] = <<>> /\ cmdAt' = "recv" /\ UNCHANGED <<inbox, todo, failures>>
\* recv times out every 200 ms.
Finished == /\ cmdAt = "recv" /\ ~cmdRunning /\ cmdAt' = "open" /\ inbox' = <<>> /\ UNCHANGED <<todo, failures>>
\* The socket goes, with what was in it.
RecvFails == /\ cmdAt = "recv" /\ cmdRunning /\ Fails /\ cmdAt' = "reconnect" /\ inbox' = <<>> /\ UNCHANGED todo
Reconnect == /\ cmdAt = "reconnect" /\ cmdAt' = "open" /\ UNCHANGED <<inbox, todo, failures>>
CommandThread == (Dial \/ Recv \/ Handled \/ Finished \/ RecvFails \/ Reconnect) /\ Commands

(* --- SignalReceiver ------------------------------------------------------------------ *)
Signals == UNCHANGED <<mainAt, handlerRuns, phase, commandVars, armed, run, crashed, flags, busVars, bounds>>
\* io_service::run returns at once when nothing waits.
RunSignals == /\ sigAt = "start" /\ sigAt' = (IF armed THEN "wait" ELSE "done") /\ UNCHANGED <<pending, todo>>
\* A signal, once waited for.
Signalled == /\ sigAt = "wait" /\ pending /\ sigRunning /\ pending' = FALSE /\ sigAt' = "handle"
             /\ todo' = [todo EXCEPT !["sig"] = Steps("Exit")]
\* The io_service is stopped by the handler, or by join.
SignalsStop == /\ \/ sigAt = "handle" /\ todo["sig"] = <<>>
                  \/ sigAt = "wait" /\ ~sigRunning
               /\ sigAt' = "done" /\ UNCHANGED <<pending, todo>>
SignalThread == (RunSignals \/ Signalled \/ SignalsStop) /\ Signals

(* --- BusPublisher::statusThread and communicationThread ------------------------------- *)
Status == UNCHANGED <<mainAt, handlerRuns, phase, commandVars, signalVars, todo, run, crashed, flags, bounds>>
\* publishStatus, the first half.
ReadStatus == /\ statusAt = "loop"
              /\ statusAt' = (IF pubRunning THEN "push" ELSE "done")
              /\ status' = (IF run = "Running" THEN "Running" ELSE "Ready")
              /\ UNCHANGED <<commAt, queue, owner, heard>>
\* Queueing without a notification.
PushSilently == /\ statusAt = "push" /\ owner = None /\ (Len(queue) < MaxQueue \/ ~pubRunning)
                /\ statusAt' = "wait" /\ queue' = Append(queue, status) /\ UNCHANGED <<status, commAt, owner, heard>>
PushStatus == /\ statusAt = "push" /\ owner = None /\ (Len(queue) < MaxQueue \/ ~pubRunning)
              /\ statusAt' = "wait" /\ queue' = Append(queue, status)
              /\ commAt' = (IF commAt = "wait" THEN "awake" ELSE commAt)
              /\ UNCHANGED <<status, owner, heard>>
\* 200 ms later, or notified.
StatusInterval == /\ statusAt = "wait" /\ statusAt' = "loop" /\ UNCHANGED <<status, commAt, queue, owner, heard>>
StatusThread == (ReadStatus \/ PushStatus \/ StatusInterval) /\ Status

Bus == UNCHANGED <<mainAt, handlerRuns, phase, commandVars, signalVars, todo, run, crashed, flags, commands, signals,
                   statusAt, status>>
Listen == /\ commAt = "open"
          /\ \/ commAt' = (IF pubRunning THEN "lock" ELSE "done") /\ UNCHANGED failures
             \/ pubRunning /\ Fails /\ commAt' = "sleep"
          /\ UNCHANGED <<queue, owner, heard>>
Lock == /\ commAt = "lock" /\ owner = None /\ commAt' = "drain" /\ owner' = "comm" /\ UNCHANGED <<queue, heard, failures>>
Send == /\ commAt = "drain" /\ queue # <<>> /\ heard' = Head(queue) /\ queue' = Tail(queue)
        /\ UNCHANGED <<commAt, owner, failures>>
SendFails == /\ commAt = "drain" /\ queue # <<>> /\ Fails /\ commAt' = "sleep" /\ owner' = None
             /\ UNCHANGED <<queue, heard>>
\* Leaving with the mutex held.
DrainedLocked == /\ commAt = "drain" /\ queue = <<>>
           /\ commAt' = (IF pubRunning THEN "block" ELSE "open") /\ UNCHANGED <<owner, queue, heard, failures>>
\* Out, or the predicate of wait is false.
Drained == /\ commAt = "drain" /\ queue = <<>>
           /\ IF pubRunning THEN commAt' = "block" /\ UNCHANGED owner ELSE commAt' = "open" /\ owner' = None
           /\ UNCHANGED <<queue, heard, failures>>
\* Only now does it wait, and what was notified before is lost.
Block == /\ commAt = "block" /\ commAt' = "wait" /\ owner' = None /\ UNCHANGED <<queue, heard, failures>>
Awake == /\ commAt = "awake" /\ owner = None
         /\ IF pubRunning /\ queue = <<>> THEN commAt' = "block" /\ owner' = "comm"
                                          ELSE commAt' = "lock" /\ UNCHANGED owner
         /\ UNCHANGED <<queue, heard, failures>>
Sleep == /\ commAt = "sleep" /\ commAt' = "open" /\ UNCHANGED <<queue, owner, heard, failures>>
CommThread == (Listen \/ Lock \/ Send \/ SendFails \/ Drained \/ Block \/ Awake \/ Sleep) /\ Bus

(* --- main ------------------------------------------------------------------------------ *)
Main == UNCHANGED <<phase, sigAt, pending, todo, run, crashed, status, queue, owner, heard, bounds, handlerRuns, inbox>>
\* The thread of the signals runs already when they are first waited for; then the others start.
Arm == /\ mainAt = "arm" /\ mainAt' = "handler" /\ armed' = TRUE
       /\ cmdAt' = "open" /\ statusAt' = "loop" /\ commAt' = "open" /\ UNCHANGED flags
\* The threads of the io_service have ended: bus_publisher->join().
JoinBus == /\ mainAt = "handler" /\ ~handlerRuns /\ mainAt' = "status" /\ pubRunning' = FALSE
           /\ commAt' = (IF commAt = "wait" THEN "awake" ELSE commAt)
           /\ UNCHANGED <<armed, cmdAt, statusAt, cmdRunning, sigRunning>>
JoinStatus == /\ mainAt = "status" /\ statusAt = "done" /\ mainAt' = "comm"
              /\ UNCHANGED <<armed, cmdAt, statusAt, commAt, flags>>
JoinComm == /\ mainAt = "comm" /\ commAt = "done" /\ mainAt' = "cmd" /\ cmdRunning' = FALSE
            /\ UNCHANGED <<armed, cmdAt, statusAt, commAt, pubRunning, sigRunning>>
JoinCmd == /\ mainAt = "cmd" /\ cmdAt = "done" /\ mainAt' = "sig" /\ sigRunning' = FALSE
           /\ UNCHANGED <<armed, cmdAt, statusAt, commAt, cmdRunning, pubRunning>>
JoinSig == /\ mainAt = "sig" /\ sigAt = "done" /\ mainAt' = "done"
           /\ UNCHANGED <<armed, cmdAt, statusAt, commAt, flags>>
MainThread == (Arm \/ JoinBus \/ JoinStatus \/ JoinComm \/ JoinCmd \/ JoinSig) /\ Main

Threads == MainThread \/ CommandThread \/ SignalThread \/ StatusThread \/ CommThread \/ \E r \in Receiver : Handle(r)
Next == /\ ~crashed /\ mainAt # "done"
        /\ Publish \/ Interrupt \/ Threads
Spec == Init /\ [][Next]_vars
\* Threads go on.
Others == MainThread \/ CommandThread \/ SignalThread \/ \E r \in Receiver : Handle(r)
FairSpec == Spec /\ WF_vars(Others) /\ WF_vars(StatusThread) /\ WF_vars(CommThread)

(* --- properties -------------------------------------------------------------------------- *)
\* Everything has its type.
TypeOK == /\ run \in {None, "Running", "Stopped"} /\ heard \in {None, "Running", "Ready"} /\ Len(queue) <= MaxQueue + 1
          /\ mainAt \in {"arm", "handler", "status", "comm", "cmd", "sig", "done"} /\ owner \in {None, "comm"}
          /\ commAt \in {"unborn", "open", "lock", "drain", "block", "wait", "awake", "sleep", "done"}
          /\ owner = "comm" <=> commAt \in {"drain", "block"}

\* daqonite.cc: when the process ends without an interrupt, no run is left open: the commands that
\* came in before Exit have been carried out, and none after it.
RunClosedAtExit == mainAt = "done" /\ signals = 0 => run = None
\* No thread uses a run that another has put away, unless there was an interrupt.
OneHandler == crashed => signals > 0

(* --- the inductive invariant ---------------------------------------------------------------- *)
\* What is left of the command m from its step k: it has found a run to stop, or put it away, or has
\* found none; and Exit is the last command there is.
Message == {"StartRun", "StopRun", "Exit"}
Left(m, k) == SubSeq(Steps(m), k, Len(Steps(m)))
At(m, k) == /\ todo["cmd"] = Left(m, k)
            /\ k \in 2 .. 5 => run # None
            /\ k = 6 /\ k <= Len(Steps(m)) => run = None
            /\ m = "Exit" /\ k <= Len(Steps(m)) => inbox = <<>> /\ phase = "Over"
\* Without an interrupt the one thread that handles commands finds the run as its test found it.
OneByOne ==
  /\ ~crashed /\ ~pending /\ sigAt # "handle" /\ todo["sig"] = <<>>
  /\ \E m \in Message : \E k \in 1 .. Len(Steps(m)) + 1 : At(m, k)
  /\ todo["cmd"] # <<>> => cmdAt = "handle"
ExitLast ==
  /\ \A i \in DOMAIN inbox : inbox[i] = "Exit" => i = Len(inbox) /\ phase = "Over"
  /\ ~handlerRuns => run = None /\ todo["cmd"] = <<>> /\ inbox = <<>> /\ phase = "Over"
IInv == /\ signals \in Nat /\ inbox \in Seq(Message)
        /\ handlerRuns \in BOOLEAN /\ crashed \in BOOLEAN
        /\ todo \in [Receiver -> Seq({"test", "stop", "receivers", "serialiser", "reset", "start", "end"})]
        /\ mainAt \notin {"arm", "handler"} => ~handlerRuns
        /\ mainAt = "arm" => cmdAt = "unborn"
        /\ signals = 0 => OneByOne /\ ExitLast

\* bus_publisher.cc: the fsm process hears in the end that a run is going on, or that there is none.
RunLasts == run = "Running" /\ handlerRuns
RunHeard == heard = "Running"
NoRunLasts == run # "Running" /\ mainAt = "handler"
NoRunHeard == heard = "Ready"

\* The process ends once its handler has, unless the thread of the bus was just about to wait and no
\* further status is going to wake it.
Ending == mainAt = "status" /\ (commAt \notin {"block", "wait"} \/ statusAt = "push")
Ended == mainAt = "done" \/ crashed

\* bus_publisher.cc:39: join ends the threads, whatever they are at.
JoinReturns == mainAt = "status" ~> Ended

\* signal_receiver.cc:71: an interrupt ends the process.
InterruptEnds == signals > 0 /\ mainAt = "handler" ~> ~handlerRuns \/ crashed

\* daq_handler.cc:118: the commands find the run as their test found it.
NobodyElse == ~crashed
\* daq_handler.cc:144: after Exit, by command or interrupt, no run is left open.
NoRunLeft == mainAt = "done" => run = None
=============================================================================
