---------------------------- MODULE HitReceiver -----------------------------
(* The hit receivers under the commands of DAQHandler: modes, outstanding    *)
(* receive requests, and the handlers that threads of the io_service run.    *)
(* Commands come on another thread, in the order the Experiment sends them;  *)
(* each is carried out receiver by receiver.                                 *)
EXTENDS Integers, FiniteSets

CONSTANTS Port,        \* clb_ports_ and bbb_ports_
          MaxConfigs, MaxStarts \* bounds: commands Config and StartData

VARIABLES generation,  \* calls of createHitReceivers
          mode,        \* mode_ of the receiver of each port
          requests,    \* outstanding async_receives of each port
          aborted,     \* cancelled ones whose handlers have not run, with their generation
          handler,     \* handlers running: the port, generation, error, and where they are
          command,     \* the command being carried out, and the ports it has still to do
          phase,       \* what the Experiment may send next
          data_run,    \* data_run_ is set
          starts,      \* history: calls of startData
          mined        \* history: a datagram was mined, and whether a run was set then
vars == <<generation, mode, requests, aborted, handler, command, phase, data_run, starts, mined>>

None == [name |-> "none", todo |-> {}]
Init == /\ generation = 0 /\ mode = [p \in Port |-> "Idle"] /\ requests = [p \in Port |-> 0] /\ aborted = {}
        /\ handler = {} /\ command = None /\ phase = "Ready" /\ data_run = FALSE /\ starts = 0
        /\ mined = {}

(* --- commands ------------------------------------------------------------------- *)
\* cancel, or the end of the socket: the handlers will be called with operation_aborted.
Outstanding(ports) ==
  UNION {{[port |-> p, gen |-> generation, n |-> n] : n \in 1 .. requests[p]} : p \in ports}
\* A new object on each port.
createHitReceivers ==
  /\ generation' = generation + 1 /\ mode' = [p \in Port |-> "Idle"]
  /\ aborted' = aborted \cup Outstanding(Port) /\ requests' = [p \in Port |-> 0]
Config == /\ command = None /\ phase \in {"Ready", "Configured"} /\ generation < MaxConfigs /\ createHitReceivers
          /\ phase' = "Configured" /\ UNCHANGED <<handler, command, data_run, starts, mined>>

\* A command begins; a run is there before its receivers know.
Begin(name, from, to) ==
  /\ command = None /\ phase = from /\ phase' = to /\ command' = [name |-> name, todo |-> Port]
  /\ starts' = IF name = "StartData" THEN starts + 1 ELSE starts
  /\ data_run' = (data_run \/ name = "StartRun")
  /\ UNCHANGED <<generation, mode, requests, aborted, handler, mined>>
BeginCommand == \/ starts < MaxStarts /\ Begin("StartData", "Configured", "Started")
                \/ Begin("StopData", "Started", "Configured")
                \/ Begin("StartRun", "Started", "Running")
                \/ Begin("StopRun", "Running", "Started")

\* The command is carried out for one more receiver.
Do(name, p) == /\ command.name = name /\ p \in command.todo
               /\ command' = IF command.todo = {p} THEN None ELSE [command EXCEPT !.todo = @ \ {p}]
\* Forgetting the first request.
startDataQuietly(p) == /\ Do("StartData", p) /\ mode' = [mode EXCEPT ![p] = "Receiving"] /\ UNCHANGED requests
                /\ UNCHANGED <<generation, aborted, handler, phase, data_run, starts, mined>>
startData(p) == /\ Do("StartData", p) /\ mode' = [mode EXCEPT ![p] = "Receiving"]
                /\ requests' = [requests EXCEPT ![p] = @ + 1]
                /\ UNCHANGED <<generation, aborted, handler, phase, data_run, starts, mined>>
stopData(p) == /\ Do("StopData", p) /\ mode' = [mode EXCEPT ![p] = "Idle"]
               /\ aborted' = aborted \cup Outstanding({p}) /\ requests' = [requests EXCEPT ![p] = 0]
               /\ UNCHANGED <<generation, handler, phase, data_run, starts, mined>>
startRun(p) == /\ Do("StartRun", p) /\ mode' = [mode EXCEPT ![p] = "Mining"]
               /\ UNCHANGED <<generation, requests, aborted, handler, phase, data_run, starts, mined>>
\* Forgetting the mode.
stopRunStillMining(p) == /\ Do("StopRun", p) /\ UNCHANGED mode
              /\ data_run' = (command.todo # {p})
              /\ UNCHANGED <<generation, requests, aborted, handler, phase, starts, mined>>
stopRun(p) == /\ Do("StopRun", p) /\ mode' = [mode EXCEPT ![p] = "Receiving"]
              /\ data_run' = (command.todo # {p})
              /\ UNCHANGED <<generation, requests, aborted, handler, phase, starts, mined>>

(* --- receiveDatagram --------------------------------------------------------------- *)
Job(p, gen, n, error) == [port |-> p, gen |-> gen, n |-> n, error |-> error, at |-> "called", mode |-> "Idle"]
\* A request completes with a datagram, or aborted; n tells the requests of a port apart.
Complete == \E p \in Port, n \in 1 .. MaxStarts + 1 :
  /\ requests[p] > 0
  /\ ~\E h \in handler : h.port = p /\ h.gen = generation /\ h.n = n /\ ~h.error
  /\ requests' = [requests EXCEPT ![p] = @ - 1] /\ handler' = handler \cup {Job(p, generation, n, FALSE)}
  /\ UNCHANGED <<generation, mode, aborted, command, phase, data_run, starts, mined>>
Abort == \E a \in aborted :
  /\ ~\E h \in handler : h.port = a.port /\ h.gen = a.gen /\ h.n = a.n /\ h.error
  /\ aborted' = aborted \ {a} /\ handler' = handler \cup {Job(a.port, a.gen, a.n, TRUE)}
  /\ UNCHANGED <<generation, mode, requests, command, phase, data_run, starts, mined>>

\* The switch over mode_; a receiver that is gone has none to read.
ReadMode == \E h \in handler :
  /\ h.at = "called" /\ h.gen = generation
  /\ handler' = (handler \ {h}) \cup {[h EXCEPT !.at = "decided", !.mode = mode[h.port]]}
  /\ mined' = IF mode[h.port] = "Mining" /\ ~h.error THEN mined \cup {data_run} ELSE mined
  /\ UNCHANGED <<generation, mode, requests, aborted, command, phase, data_run, starts>>

\* Asking in every mode.
ShouldRequestAlways(h) == h.mode \in {"Idle", "Receiving", "Mining"}
ShouldRequest(h) == h.mode # "Idle"
\* Asking where a mined datagram was dealt with, and at the end.
NewRequestsTwice(h) == IF h.mode = "Mining" THEN 2 ELSE IF ShouldRequest(h) THEN 1 ELSE 0
NewRequests(h) == IF ShouldRequest(h) THEN 1 ELSE 0
Finish == \E h \in handler :
  /\ h.at = "decided" /\ h.gen = generation /\ handler' = handler \ {h}
  /\ requests' = [requests EXCEPT ![h.port] = @ + NewRequests(h)]
  /\ UNCHANGED <<generation, mode, aborted, command, phase, data_run, starts, mined>>

Command == \E p \in Port : startData(p) \/ stopData(p) \/ startRun(p) \/ stopRun(p)
Next == Config \/ BeginCommand \/ Command \/ Complete \/ Abort \/ ReadMode \/ Finish
Spec == Init /\ [][Next]_vars
\* Threads go on, and the boards go on sending.
FairSpec == Spec /\ WF_vars(Command) /\ WF_vars(Complete) /\ WF_vars(Abort) /\ WF_vars(ReadMode) /\ WF_vars(Finish)

(* --- properties ---------------------------------------------------------------------- *)
\* Everything has its type.
TypeOK == /\ mode \in [Port -> {"Idle", "Receiving", "Mining"}] /\ requests \in [Port -> 0 .. MaxStarts + 1]
          /\ phase \in {"Ready", "Configured", "Started", "Running"}

Handlers(p) == Cardinality({h \in handler : h.port = p /\ h.gen = generation})
\* A receiver that is receiving or mining has a request outstanding, or a handler that will make one:
\* it never goes deaf, whatever start, stop and late handlers do.
NeverDeaf == \A p \in Port : mode[p] # "Idle" =>
  requests[p] > 0 \/ \E h \in handler : h.port = p /\ h.gen = generation /\ (h.at = "called" \/ ShouldRequest(h))

\* basic_hit_receiver.cc:114: a datagram is mined only while DAQHandler has a run.
MinedInRun == mined \subseteq {TRUE}

\* Once data is stopped for good, the requests that were hanging in the air are used up and no more
\* are made.
DataStopped == phase = "Configured"
Quiet == \A p \in Port : requests[p] = 0
StopsAsking == <>[]DataStopped => <>[]Quiet

\* basic_hit_receiver.cc:55: the hanging request is consumed and new ones are not created: a receiver
\* has one request or one handler.
OneRequest == \A p \in Port : requests[p] + Handlers(p) <= 1

\* daq_handler.cc:34: Config gets rid of the previous receivers: nothing of them is run later.
PreviousReceiversGone == \A h \in handler : h.gen = generation
=============================================================================
