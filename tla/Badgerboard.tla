----------------------------- MODULE Badgerboard -----------------------------
(* The controller of one BeagleBone: BBBController sends requests over a       *)
(* request socket (BadgerboardControl) and waits for what the heartbeats of    *)
(* the board report (BadgerboardHeartbeat, a thread of its own).  The board    *)
(* and its network are external: it accepts or refuses a request, carries it   *)
(* out later, publishes heartbeats that may be lost, and may restart.          *)
EXTENDS Integers, Sequences, FiniteSets

CONSTANTS SeqModulus,     \* of the heartbeats' sequence numbers, 2^32 in the code
          DeadThreshold,  \* HEARTBEAT_DEAD_THRESHOLD / HEARTBEAT_RECV_TIMEOUT, 5 in the code
          NoReply,
          Boards,         \* what earlier controllers and a restart may have left of the board
          MaxOps,         \* bound: operations posted
          MaxFaults,      \* bound: refusals, odd replies, restarts and network errors
          MaxBeats        \* bound: heartbeats

VARIABLES running,   \* running_ of the heartbeat thread
          thread,    \* its step
          next,      \* next_seq_number
          silent,    \* receive timeouts passed since last_time_received
          state,     \* state_
          op, at,    \* the controller's operation, and its step
          seq,       \* req_next_sequence_number_
          reply,     \* in the request socket
          status,    \* Controller::state_
          acked,     \* requests for which blockingSend returned true
          board,     \* what the board is, its requests to carry out, its next heartbeat
          accepted,  \* requests that the board accepted, by number
          air,       \* heartbeats on their way
          carried,   \* what the board has carried out, for this controller or an earlier one
          ops, faults, beats

hostVars == <<running, thread, next, silent, state>>
callVars == <<op, at, seq, status, acked>>
vars == <<running, thread, next, silent, state, op, at, seq, reply, status, acked, board,
          accepted, air, carried, ops, faults, beats>>

Config == {"unknown", "NotConfigured", "Configured"}
Channels == {"unknown", "PoweredOff", "Started"}    \* all of them as desired, or not

\* The requests of each operation, and the part of the state each is followed by a wait for.
Requests == [configure |-> <<"ResetConfiguration", "ConfigureHub", "ConfigureRun", "SetPowerState">>,
             startData |-> <<"BeginDataRun">>, stopData |-> <<>>]
AwaitedPart == [ConfigureHub |-> "hub", ConfigureRun |-> "run", SetPowerState |-> "channels"]
Wanted == [hub |-> "Configured", run |-> "Configured", channels |-> "Started"]
Type(o, i) == Requests[o][i]
Named == {"ResetConfiguration", "ConfigureHub", "ConfigureRun", "SetPowerState", "BeginDataRun"}

Fresh == [hub |-> "NotConfigured", run |-> "NotConfigured", channels |-> "PoweredOff",
          todo |-> {}, seq |-> 0]
\* What it has been brought to.
Held(x) == {t \in {"ConfigureHub", "ConfigureRun", "SetPowerState"} :
              \/ t = "ConfigureHub" /\ x.hub = "Configured"
              \/ t = "ConfigureRun" /\ x.run = "Configured"
              \/ t = "SetPowerState" /\ x.channels = "Started"}
Init == /\ running = TRUE /\ thread = "start" /\ next = 0 /\ silent = 0
        /\ state = [connection |-> "Offline", hub |-> "unknown", run |-> "unknown",
                    channels |-> "unknown"]
        /\ op = "none" /\ at = <<0, "idle">> /\ seq = 0 /\ reply = NoReply /\ status = "Ready" /\ acked = {}
        /\ board \in Boards /\ carried = Held(board) /\ accepted = {} /\ air = <<>>
        /\ ops = 0 /\ faults = 0 /\ beats = 0

\* Everything has its type.
TypeOK ==
  /\ running \in BOOLEAN /\ thread \in {"start", "dial", "recv", "holdoff", "ended"}
  /\ next \in 0 .. SeqModulus - 1 /\ silent \in 0 .. DeadThreshold
  /\ state \in [connection : {"Offline", "Connecting", "Online"}, hub : Config, run : Config,
                channels : Channels]
  /\ op \in DOMAIN Requests \cup {"none"} /\ status \in {"Ready", "Configured", "Started", "dead"}
  /\ acked \subseteq 1 .. seq /\ accepted \subseteq 1 .. seq
  /\ board.seq \in 0 .. SeqModulus - 1 /\ board.hub \in Config /\ board.run \in Config
  /\ {faults, beats, ops} \subseteq Nat

Faulty == faults < MaxFaults /\ faults' = faults + 1

(* --- BadgerboardHeartbeat::run -------------------------------------------------- *)
HeartbeatOnly == UNCHANGED <<callVars, reply, board, accepted, carried, ops, beats, running>>

ModifyConnection(c) == state' = [state EXCEPT !.connection = c]
Started == /\ thread = "start" /\ thread' = "dial" /\ ModifyConnection("Connecting")
           /\ UNCHANGED <<next, silent, air, faults>>

\* Each attempt counts the silence from its own beginning.
Dial == /\ thread = "dial" /\ running
        /\ thread' = "recv" /\ next' = 0 /\ silent' = 0 /\ air' = <<>>
        /\ UNCHANGED <<state, faults>>

\* Silence for too long, or an error: offline for half a minute, then again.
Dead == /\ thread' = "holdoff" /\ ModifyConnection("Offline") /\ air' = <<>>
        /\ UNCHANGED next
NetworkError == /\ thread \in {"dial", "recv"} /\ running /\ Faulty /\ Dead /\ silent' = 0
HeldOff == /\ thread = "holdoff" /\ thread' = "dial" /\ ModifyConnection("Connecting")
           /\ UNCHANGED <<next, silent, air, faults>>

LongerSilence == IF silent < DeadThreshold THEN silent + 1 ELSE silent
TimedOut == /\ thread = "recv" /\ air = <<>>
            /\ IF silent + 1 > DeadThreshold THEN Dead /\ UNCHANGED silent
               ELSE /\ thread' = "dial" /\ silent' = LongerSilence /\ air' = <<>>
                    /\ UNCHANGED <<next, state>>
            /\ UNCHANGED faults

\* A heartbeat of another size, or of an earlier number: time may have passed with it.
Passed(h) == h.odd \/ h.seq < next
Skip == /\ thread = "recv" /\ running /\ air # <<>> /\ Passed(Head(air))
        /\ air' = Tail(air) /\ silent' \in {silent, LongerSilence}
        /\ UNCHANGED <<thread, next, state, faults>>

ProcessHeartbeat(h) == [connection |-> "Online", hub |-> h.hub, run |-> h.run,
                        channels |-> h.channels]
Beat == /\ thread = "recv" /\ running /\ air # <<>> /\ ~Passed(Head(air))
        /\ air' = Tail(air) /\ silent' = 0 /\ next' = (1 + Head(air).seq) % SeqModulus
        /\ state' = ProcessHeartbeat(Head(air))
        /\ UNCHANGED <<thread, faults>>

\* Both loops test running_; what comes after them wakes the waiting threads.
End == /\ thread \in {"dial", "recv"} /\ ~running
       /\ thread' = "ended" /\ ModifyConnection("Offline")
       /\ UNCHANGED <<next, silent, air, faults>>

Run == /\ Started \/ Dial \/ HeldOff \/ TimedOut \/ Skip \/ Beat \/ End
       /\ HeartbeatOnly
Fails == NetworkError /\ HeartbeatOnly

(* --- the controller's thread ------------------------------------------------------ *)
CallOnly == UNCHANGED <<running, thread, next, silent, state, board, carried, air, faults, beats>>

\* An operation that DAQControl posted begins.
Begin == /\ op = "none" /\ ops < MaxOps /\ status # "dead" /\ running
         /\ \E o \in DOMAIN Requests :
              /\ o = "startData" => status = "Configured"
              /\ op' = o
         /\ at' = <<1, "send">> /\ ops' = ops + 1
         /\ UNCHANGED <<seq, reply, status, acked, accepted>>

Left == op # "none" /\ at[1] <= Len(Requests[op])
Now == Type(op, at[1])
NextRequest == at' = <<at[1] + 1, "send">>

\* composeAndSendRequest: the next number, whatever is done with it.
Send == /\ Left /\ at[2] = "send" /\ seq' = seq + 1 /\ at' = <<at[1], "answer">> /\ reply' = NoReply
        /\ UNCHANGED <<op, status, acked, accepted, ops>>

\* blockingSend waits for a reply, without a limit; its result is not looked at.
BelievesAny(r) == r.kind = "Ack"
Believes(r) == r.kind = "Ack" /\ r.type = Now /\ r.seq = seq
Answered ==
  /\ Left /\ at[2] = "answer" /\ reply # NoReply
  /\ acked' = IF Believes(reply) THEN acked \cup {seq} ELSE acked
  /\ reply' = NoReply
  /\ IF Now \in DOMAIN AwaitedPart THEN at' = <<at[1], "connected">> ELSE NextRequest
  /\ UNCHANGED <<op, seq, status, accepted, ops>>

\* waitForStateChange: first until there is a connection, then until the part is as wanted.
Connected == /\ Left /\ at[2] = "connected" /\ running /\ state.connection = "Online"
             /\ at' = <<at[1], "wait">>
             /\ UNCHANGED <<op, seq, reply, status, acked, accepted, ops>>
AsWanted == state[AwaitedPart[Now]] = Wanted[AwaitedPart[Now]]
\* Going on with any change.
StateChangedAnyhow == /\ Left /\ at[2] = "wait" /\ running /\ state.connection = "Online"
                      /\ NextRequest
                      /\ UNCHANGED <<op, seq, reply, status, acked, accepted, ops>>
StateChanged == /\ Left /\ at[2] = "wait" /\ running /\ state.connection = "Online" /\ AsWanted
                /\ NextRequest
                /\ UNCHANGED <<op, seq, reply, status, acked, accepted, ops>>

\* Never connected, timed out, stopped, or the heartbeat lost: an exception that nobody
\* between here and the thread's function catches.
Throws == /\ Left /\ at[2] \in {"connected", "wait"}
          /\ ~(running /\ state.connection = "Online" /\ (at[2] = "wait" => AsWanted))
          /\ status' = "dead" /\ op' = "none" /\ at' = <<0, "idle">>
          /\ UNCHANGED <<seq, reply, acked, accepted, ops>>

Done == /\ op # "none" /\ ~Left
        /\ status' = (IF op = "startData" THEN "Started" ELSE "Configured")
        /\ op' = "none" /\ at' = <<0, "idle">>
        /\ UNCHANGED <<seq, reply, acked, accepted, ops>>

Works == (Send \/ Answered \/ Connected \/ StateChanged \/ Throws \/ Done) /\ CallOnly

\* ~BBBController: notifyJoin, then join.
Destroy == /\ running /\ running' = FALSE /\ op = "none"
           /\ UNCHANGED <<thread, next, silent, state, callVars, reply, board, accepted, air,
                          carried, ops, faults, beats>>

(* --- the board (external) ---------------------------------------------------------- *)
BoardOnly == UNCHANGED <<hostVars, callVars, ops>>
Asked == Left /\ at[2] = "answer" /\ reply = NoReply
Reply(k, t, s) == [kind |-> k, type |-> t, seq |-> s]

\* It takes the request on and says so; or refuses; or what the socket returns is something
\* else: the reply to an earlier request, or an error after which nobody knows.
Accept == /\ Asked /\ seq \notin accepted
          /\ accepted' = accepted \cup {seq} /\ board' = [board EXCEPT !.todo = @ \cup {Now}]
          /\ reply' = Reply("Ack", Now, seq)
          /\ UNCHANGED <<air, carried, faults, beats>>
Refuse == /\ Asked /\ Faulty /\ reply' = Reply("Nak", Now, seq)
          /\ UNCHANGED <<board, accepted, air, carried, beats>>
Late == /\ Asked /\ Faulty
        /\ \E s \in 1 .. seq - 1, t \in {"ResetConfiguration", Now} : reply' = Reply("Ack", t, s)
        /\ UNCHANGED <<board, accepted, air, carried, beats>>
Lost == /\ Asked /\ Faulty /\ reply' = Reply("error", Now, seq)
        /\ \E t \in BOOLEAN :
             /\ board' = IF t THEN [board EXCEPT !.todo = @ \cup {Now}] ELSE board
             /\ accepted' = IF t THEN accepted \cup {seq} ELSE accepted
        /\ UNCHANGED <<air, carried, beats>>

After(t) == CASE t = "ResetConfiguration" -> [board EXCEPT !.hub = "NotConfigured",
                                                           !.run = "NotConfigured"]
              [] t = "ConfigureHub" -> [board EXCEPT !.hub = "Configured"]
              [] t = "ConfigureRun" -> [board EXCEPT !.run = "Configured"]
              [] t = "SetPowerState" -> [board EXCEPT !.channels = "Started"]
              [] OTHER -> board
CarryOut == /\ \E t \in board.todo : /\ board' = [After(t) EXCEPT !.todo = @ \ {t}]
                                     /\ carried' = carried \cup {t}
            /\ UNCHANGED <<reply, accepted, air, faults, beats>>

\* A heartbeat goes out, if somebody listens; a publisher drops it if it must.
Publish == /\ beats < MaxBeats /\ beats' = beats + 1
           /\ board' = [board EXCEPT !.seq = (@ + 1) % SeqModulus]
           /\ \/ /\ thread = "recv"
                 /\ air' = Append(air, [odd |-> FALSE, seq |-> board.seq, hub |-> board.hub,
                                        run |-> board.run, channels |-> board.channels])
                 /\ UNCHANGED faults
              \/ /\ thread = "recv" /\ Faulty
                 /\ air' \in {air, Append(air, [odd |-> TRUE, seq |-> board.seq])}
              \/ thread # "recv" /\ UNCHANGED <<air, faults>>
           /\ UNCHANGED <<reply, accepted, carried>>

Restart == /\ Faulty /\ board' = Fresh /\ air' = <<>>
           /\ UNCHANGED <<reply, accepted, carried, beats>>

Answers == (Accept \/ Late \/ Lost \/ Refuse) /\ BoardOnly
Board == Answers \/ ((CarryOut \/ Publish \/ Restart) /\ BoardOnly)

Next == Run \/ Fails \/ (Begin /\ CallOnly) \/ Works \/ Destroy \/ Board

Spec == Init /\ [][Next]_vars
FairSpec == Spec /\ WF_vars(Run) /\ WF_vars(Works) /\ WF_vars(Answers)

(* --- properties ----------------------------------------------------------------------- *)
\* blockingSend says yes only to a request that the board took on: the reply to an earlier
\* one, of the same type even, does not pass for it.
AckedIsAccepted == acked \subseteq accepted

\* When the waits of a configuration are over, the board has at some time been brought to what each
\* of them waits for: by the request of this controller, or, if it was so already when the controller
\* was made, by an earlier one's.  No wait tells the two apart (ConfiguredIsConfigured).
ConfiguredWasReached ==
  op = "configure" /\ ~Left => {"ConfigureHub", "ConfigureRun", "SetPowerState"} \subseteq carried

(* --- the inductive invariant ------------------------------------------------------------ *)
\* What the board is, its heartbeats say and the host has heard from them was carried out.
CarriedOut(x) == Held(x) \subseteq carried
Heartbeat == [odd : {FALSE}, seq : Nat, hub : Config, run : Config, channels : Channels]
             \cup [odd : {TRUE}, seq : Nat]
BoardType == [hub : Config, run : Config, channels : Channels,
              todo : SUBSET Named, seq : Nat]
AllCarriedOut == /\ CarriedOut(board) /\ CarriedOut(state)
                 /\ \A i \in DOMAIN air : ~air[i].odd => CarriedOut(air[i])
\* The waits that an operation to configure has behind it.
Waited == op = "configure" =>
            /\ at[1] > 2 => "ConfigureHub" \in carried
            /\ at[1] > 3 => "ConfigureRun" \in carried
            /\ at[1] > 4 => "SetPowerState" \in carried
IInv == /\ ops \in Nat /\ seq \in Nat /\ op \in DOMAIN Requests \cup {"none"}
        /\ at \in Nat \X {"idle", "send", "answer", "connected", "wait"}
        /\ op # "none" => at[1] \in 1 .. Len(Requests[op]) + 1
        /\ board \in BoardType /\ air \in Seq(Heartbeat)
        /\ state \in [connection : {"Offline", "Connecting", "Online"}, hub : Config, run : Config,
                      channels : Channels]
        /\ AllCarriedOut /\ Waited
        /\ reply = NoReply \/ (reply.kind = "Ack" /\ reply.seq = seq => seq \in accepted)
        /\ AckedIsAccepted

\* A board that is configured when its configuration succeeds: does not hold, for a wait believes a
\* heartbeat from before the reset, of this controller's last configuration or of an earlier one's.
ConfiguredIsConfigured ==
  [][status' = "Configured" /\ op = "configure" /\ op' = "none" =>
       {board.hub, board.run} = {"Configured"}]_vars

\* "Heartbeat silent for too long, marking device as offline": a device that has been silent
\* for the threshold is.  Does not hold: every timeout begins a new attempt and a new count.
SilentIsOffline == [][thread = "recv" /\ thread' = "dial" /\ running => state.connection # "Online"]_vars

\* Every operation comes to an end or throws, and the destructor's join returns.
Operating == op # "none"
Stopping == ~running
Joined == thread = "ended"
OperationEnds == Operating ~> ~Operating
JoinReturns == Stopping ~> Joined
=============================================================================
