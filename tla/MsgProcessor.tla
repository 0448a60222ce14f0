---------------------------- MODULE MsgProcessor ----------------------------
(* One CLB's MsgProcessor: processCommand sends a command, waits two        *)
(* seconds for a datagram and looks whether it is the reply, three times at  *)
(* most.  The network (external) loses, delays and reorders; the CLB        *)
(* (external) executes each copy of a command it gets, replies to each, and  *)
(* repeats a reply until it is acknowledged.                                *)
EXTENDS Naturals, Sequences, FiniteSets, BagsExt, Bags

CONSTANTS IdModulus,     \* 64 in the code: cmdId() is six bits
          MAX_ATTEMPTS,
          None,
          MaxCommands,   \* bound: calls of processCommand
          MaxInFlight,   \* bound: datagrams on their way to the CLB
          MaxOdd         \* bound: datagrams of the CLB that are no reply

VARIABLES cmdId,    \* MsgProcessor::cmd_id_
          call,     \* number of the call of processCommand
          at,       \* its step
          attempt,
          packetId, \* response.packet_id_: None while never written
          reading,  \* the datagram getResponse returned
          ok,       \* results of the calls that returned
          toClb,    \* commands on their way, a bag
          inbox,    \* datagrams in the socket's buffer
          executed, \* calls whose command the CLB has executed
          unacked,  \* replies the CLB repeats
          inTime,   \* attempts of the call that found the right reply in the socket
          odd

vars == <<cmdId, call, at, attempt, packetId, reading, ok, toClb, inbox, executed,
          unacked, inTime, odd>>

\* A command carries its id; the call it belongs to is only known to this model.
Command == [id : 0 .. IdModulus - 1, call : 1 .. MaxCommands]
Datagram == [class : {"reply", "event", "noMessage"}, id : 0 .. IdModulus - 1,
             call : 0 .. MaxCommands]

Init == /\ cmdId \in 0 .. IdModulus - 1     \* rand()
        /\ call = 0 /\ at = "idle" /\ attempt = 0 /\ packetId = None /\ reading = None
        /\ ok = <<>> /\ toClb = EmptyBag /\ inbox = <<>>
        /\ executed = {} /\ unacked = {} /\ inTime = 0 /\ odd = 0

\* Everything has its type.
TypeOK ==
  /\ cmdId \in 0 .. IdModulus - 1 /\ call \in 0 .. MaxCommands
  /\ at \in {"idle", "send", "read", "check", "ackInvalid"}
  /\ attempt \in 0 .. MAX_ATTEMPTS - 1
  /\ packetId \in 0 .. IdModulus - 1 \cup {None}
  /\ reading \in Datagram \cup {None}
  /\ ok \in Seq(BOOLEAN) /\ Len(ok) = IF at = "idle" THEN call ELSE call - 1
  /\ BagToSet(toClb) \subseteq Command /\ inbox \in Seq(Datagram)
  /\ executed \subseteq 1 .. MaxCommands /\ unacked \subseteq Datagram
  /\ inTime \in 0 .. MAX_ATTEMPTS

(* --- the host: processCommand ------------------------------------------ *)
HostOnly == UNCHANGED <<executed, odd>>

\* A number that is not advanced.
CmdIdSame == cmdId
CmdId == (cmdId + 1) % IdModulus

Call ==
  /\ at = "idle" /\ call < MaxCommands
  /\ call' = call + 1 /\ cmdId' = CmdId /\ attempt' = 0 /\ packetId' = None
  /\ inTime' = 0 /\ at' = "send"
  /\ UNCHANGED <<reading, ok, toClb, inbox, unacked>>

\* Never giving up.
RetryForever == at' = "send" /\ UNCHANGED <<attempt, ok>>

\* The next attempt, or FALSE after the last one.
Retry == IF attempt = MAX_ATTEMPTS - 1
         THEN at' = "idle" /\ ok' = Append(ok, FALSE) /\ UNCHANGED attempt
         ELSE at' = "send" /\ attempt' = attempt + 1 /\ UNCHANGED ok

\* sendCommand: the datagram leaves, or is lost, or send_to fails.
Send ==
  /\ at = "send"
  /\ LET c == [id |-> cmdId, call |-> call] IN
     \/ /\ toClb' \in {toClb} \cup {t \in {BagAdd(toClb, c)} : BagCardinality(t) <= MaxInFlight}
        /\ at' = "read" /\ UNCHANGED <<attempt, ok>>
     \/ Retry /\ UNCHANGED toClb
  /\ UNCHANGED <<cmdId, call, packetId, reading, inbox, unacked, inTime>>

\* getResponse: the oldest datagram of the buffer, or nothing for two seconds.
Right(d) == d.class = "reply" /\ d.id = cmdId /\ d.call = call
Read ==
  /\ at = "read"
  /\ \/ /\ inbox # <<>> /\ reading' = Head(inbox) /\ inbox' = Tail(inbox) /\ at' = "check"
        /\ inTime' = inTime + (IF \E i \in DOMAIN inbox : Right(inbox[i]) THEN 1 ELSE 0)
        /\ UNCHANGED <<attempt, ok>>
     \/ inbox = <<>> /\ Retry /\ UNCHANGED <<reading, inbox, inTime>>
  /\ UNCHANGED <<cmdId, call, packetId, toClb, unacked>>

\* sendAck: the CLB stops repeating what has this packet id; the ack may be lost.
Ack(p) == unacked' \in {unacked, {d \in unacked : d.id # p}}

\* Accepting whatever has the form of a reply.
ValidOfAnyCall(d) == d.class = "reply"
Valid(d) == d.class = "reply" /\ d.id = cmdId

\* Returning without leaving the loop.
CheckResponseTwice ==
  /\ at = "check" /\ packetId' = reading.id /\ reading' = None /\ Ack(reading.id)
  /\ at' = "send" /\ ok' = Append(ok, TRUE)
  /\ UNCHANGED <<cmdId, call, attempt, toClb, inbox, inTime>>

\* checkResponse: a datagram too short for a message leaves response as it was.
CheckResponse ==
  /\ at = "check"
  /\ packetId' = IF reading.class = "noMessage" THEN packetId ELSE reading.id
  /\ reading' = None
  /\ IF Valid(reading)
     THEN /\ Ack(reading.id) /\ at' = "idle" /\ ok' = Append(ok, TRUE)
     ELSE at' = "ackInvalid" /\ UNCHANGED <<unacked, ok>>
  /\ UNCHANGED <<cmdId, call, attempt, toClb, inbox, inTime>>

\* An invalid response is acknowledged too, with an indeterminate id if none was read.
AckInvalid ==
  /\ at = "ackInvalid"
  /\ \E p \in 0 .. IdModulus - 1 : (packetId # None => p = packetId) /\ Ack(p)
  /\ Retry
  /\ UNCHANGED <<cmdId, call, packetId, reading, toClb, inbox, inTime>>

ProcessCommand == (Send \/ Read \/ CheckResponse \/ AckInvalid) /\ HostOnly

(* --- the CLB and the network (external) --------------------------------- *)
ClbOnly == UNCHANGED <<cmdId, call, at, attempt, packetId, reading, ok, inTime>>
Room == Len(inbox) < MaxInFlight

Execute ==
  /\ \E c \in BagToSet(toClb) :
       LET d == [class |-> "reply", id |-> c.id, call |-> c.call] IN
         /\ toClb' = BagRemove(toClb, c)
         /\ executed' = executed \cup {c.call}
         /\ unacked' = unacked \cup {d}
         /\ inbox' \in {inbox} \cup (IF Room THEN {Append(inbox, d)} ELSE {})
  /\ UNCHANGED odd

Repeat ==
  /\ Room /\ \E d \in unacked : inbox' = Append(inbox, d)
  /\ odd < MaxOdd /\ odd' = odd + 1
  /\ UNCHANGED <<toClb, executed, unacked>>

\* An event of the CLB, or a datagram that only acknowledges the command.
SendsOther ==
  /\ Room /\ odd < MaxOdd /\ odd' = odd + 1
  /\ \E k \in {"event", "noMessage"}, i \in 0 .. IdModulus - 1 :
       inbox' = Append(inbox, [class |-> k, id |-> i, call |-> 0])
  /\ UNCHANGED <<toClb, executed, unacked>>

Clb == (Execute \/ Repeat \/ SendsOther) /\ ClbOnly

Next == (Call /\ HostOnly) \/ ProcessCommand \/ Clb

Spec == Init /\ [][Next]_vars
FairSpec == Spec /\ WF_vars(ProcessCommand)

(* --- properties -------------------------------------------------------- *)
\* A call that returns TRUE was answered for its own command: no late reply to an
\* earlier call, no repeated one and no event passes for its reply, as long as the
\* command numbers have not come round.
AnsweredIsExecuted ==
  \A c \in DOMAIN ok : ok[c] /\ MaxCommands < IdModulus => c \in executed

\* Every call returns, however often the CLB is silent or sends something else.
Calling == at # "idle"
CallReturns == Calling ~> ~Calling

\* It tries up to MAX_ATTEMPTS for a successful processing: a command whose right reply
\* was in the socket at every one of its attempts succeeds.
TriesForSuccess == [][ok' # ok /\ ~ok'[Len(ok')] => inTime < MAX_ATTEMPTS]_vars

\* The acknowledgement stops the CLB resending what has been received: a reply that
\* was never read is not acknowledged.
AcksWhatItRead ==
  [][\A d \in unacked \ unacked' : packetId = d.id \/ packetId' = d.id]_vars

(* --- the inductive invariant ------------------------------ *)
\* What is checked has been read.
ReadFirst == at = "check" => reading \in Datagram

\* An attempt counts once.
InTime == inTime <= attempt + (IF at \in {"send", "read"} THEN 0 ELSE 1)

\* A message carries the number of its call, which is as many behind the current one as the
\* call is, once round at most.
Ours(m) ==
  /\ m.call \in 1 .. call
  /\ m.id + (call - m.call) \in {cmdId, cmdId + IdModulus}

\* A reply is to a command of ours that has been executed.
Executed(d) == d.class = "reply" => Ours(d) /\ d.call \in executed

MessagesAreOurs ==
  MaxCommands < IdModulus =>
    /\ \A c \in BagToSet(toClb) : Ours(c)
    /\ \A i \in DOMAIN inbox : Executed(inbox[i])
    /\ \A d \in unacked : Executed(d)
    /\ at = "check" => Executed(reading)

IInv == TypeOK /\ ReadFirst /\ InTime /\ MessagesAreOurs /\ AnsweredIsExecuted
=============================================================================
