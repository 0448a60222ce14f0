------------------------------ MODULE SpillRpc -------------------------------
(* The way of a spill over XML-RPC: the client of fakeSpillSender.cpp calls     *)
(* Spill for one spill after another, on a connection that it keeps; the        *)
(* servers, TDUSpillScheduler of daqonite and spillReceiver.cpp among them, all *)
(* want the same port, and start and end when they like.  A request is written  *)
(* at once, its answer in two parts; the network loses nothing by itself.       *)
EXTENDS Integers, Sequences, FiniteSets, Functions

CONSTANTS Servers,      \* the programs that serve
          KeepRunning,  \* those that keep running without the port: daqonite
          Knows,        \* those that have a method Spill: ChipsSpillForwarder.cc makes none
          None,
          count,        \* how many spills are sent
          MaxStarts     \* bound: starts of servers

VARIABLES sender,           \* "call", "work", "done"
          spill,            \* the spill being sent
          results,          \* of the calls: <<spill, answer>>, or <<0, "error">>
          connectionState, \* of the client: "none", "write", "header", "response", "idle"
          eof, sendAttempts,
          conn,             \* the client's connection, the latest of conns, or 0
          conns,            \* every connection: its server, the request that is on its way, the one
                            \* executed whose answer is not written yet, what was written, open
          server,           \* "off", "serving", "deaf" (running without the port)
          starts,
          received          \* the spills that Spill was executed for, in order

clientVars == <<sender, spill, results, connectionState, eof, sendAttempts, conn>>
vars == <<clientVars, conns, server, starts, received>>

Init == /\ sender = "call" /\ spill = 1 /\ results = <<>> /\ connectionState = "none" /\ eof = FALSE
        /\ sendAttempts = 0 /\ conn = 0 /\ conns = <<>> /\ server = [s \in Servers |-> "off"] /\ starts = 0
        /\ received = <<>>

\* Everything has its type.
TypeOK == /\ sender \in {"call", "work", "done"} /\ spill \in 1 .. count + 1 /\ Len(results) = spill - 1
          /\ connectionState \in {"none", "write", "header", "response", "idle"}
          /\ eof \in BOOLEAN /\ sendAttempts \in 0 .. 2 /\ conn \in 0 .. Len(conns)
          /\ \A c \in DOMAIN conns : /\ conns[c].server \in Servers \cup {None} /\ conns[c].open \in BOOLEAN
                                     /\ conns[c].request \in 0 .. count /\ conns[c].executed \in 0 .. count
          /\ server \in [Servers -> {"off", "serving", "deaf"}] /\ starts \in 0 .. MaxStarts

Serving == {s \in Servers : server[s] = "serving"}

(* --- the client -------------------------------------------------------------------- *)
\* doConnect does not wait: a connection that nobody accepts fails when it is written to.
Connection == [server |-> IF Serving = {} THEN None ELSE CHOOSE s \in Serving : TRUE,
               request |-> 0, executed |-> 0, answer |-> <<>>, open |-> Serving # {}]
\* setupConnection: anything but an idle connection is closed and made anew.
Reusable == connectionState = "idle" /\ ~eof
setupConnection(keep) ==
  /\ connectionState' = "write" /\ eof' = FALSE
  /\ IF keep THEN UNCHANGED <<conn, conns>>
     ELSE conns' = Append(conns, Connection) /\ conn' = Len(conns) + 1
execute == /\ sender = "call" /\ spill <= count /\ sender' = "work" /\ sendAttempts' = 0
           /\ setupConnection(Reusable)
           /\ UNCHANGED <<spill, results, server, starts, received>>

Return(result) == results' = Append(results, result) /\ spill' = spill + 1 /\ sender' = "call"
Error == <<0, "error">>
Mine == conns[conn]

\* A connection that the server has closed may still take what is written.
writeRequest ==
  /\ sender = "work" /\ connectionState = "write"
  /\ \/ /\ Mine.server # None /\ connectionState' = "header"
        /\ conns' = [conns EXCEPT ![conn].request = IF Mine.open THEN spill ELSE 0]
        /\ UNCHANGED <<sender, spill, results>>
     \/ /\ ~Mine.open /\ Return(Error) /\ UNCHANGED <<connectionState, conns>>
  /\ UNCHANGED <<eof, sendAttempts, conn, server, starts, received>>

\* Nothing but the end of the connection: it is made anew, once, and the request written again.
Nothing == Mine.answer = <<>> /\ ~Mine.open
Retry == /\ sender = "work" /\ connectionState = "header" /\ Nothing /\ sendAttempts = 0
         /\ sendAttempts' = 1 /\ setupConnection(FALSE)
         /\ UNCHANGED <<sender, spill, results, server, starts, received>>
GiveUp == /\ sender = "work" /\ connectionState = "header" /\ Nothing /\ sendAttempts > 0
          /\ sendAttempts' = 2 /\ eof' = TRUE /\ Return(Error)
          /\ UNCHANGED <<connectionState, conn, conns, server, starts, received>>
\* The header, and whatever of the body is there with it.
readHeader == /\ sender = "work" /\ connectionState = "header" /\ Mine.answer # <<>>
              /\ connectionState' = "response"
              /\ UNCHANGED <<sender, spill, results, eof, sendAttempts, conn, conns, server, starts, received>>
\* The whole answer, or what there is when the connection ends.
Whole == Len(Mine.answer) = 2
readResponse ==
  /\ sender = "work" /\ connectionState = "response" /\ (Whole \/ ~Mine.open)
  /\ eof' = ~Mine.open
  /\ IF Whole THEN /\ connectionState' = "idle" /\ conns' = [conns EXCEPT ![conn].answer = <<>>]
                   /\ Return(Mine.answer[2])
     ELSE Return(Error) /\ UNCHANGED <<connectionState, conns>>
  /\ UNCHANGED <<sendAttempts, conn, server, starts, received>>
End == sender = "call" /\ spill > count /\ sender' = "done"
       /\ UNCHANGED <<spill, results, connectionState, eof, sendAttempts, conn, conns, server, starts, received>>
Client == execute \/ writeRequest \/ Retry \/ GiveUp \/ readHeader \/ readResponse \/ End

(* --- the servers ------------------------------------------------------------------- *)
ServerOnly == UNCHANGED <<clientVars, starts>>
\* A method that is not known is answered with a fault, and any other is executed.
executeRequest(c) ==
  /\ conns[c].open /\ conns[c].request # 0
  /\ conns' = [conns EXCEPT ![c].executed = conns[c].request, ![c].request = 0]
  /\ received' = (IF conns[c].server \in Knows THEN Append(received, conns[c].request) ELSE received)
  /\ UNCHANGED server /\ ServerOnly
\* Both methods Spill answer Ok to a time and a type, whatever these are.
Result(x) == <<x.executed, IF x.server \in Knows THEN "Ok" ELSE "fault">>
writeResponse(c) ==
  LET x == conns[c]
      answer == <<"header", Result(x)>>
  IN /\ x.open /\ x.executed # 0
     /\ conns' = [conns EXCEPT ![c].answer = SubSeq(answer, 1, Len(x.answer) + 1),
                               ![c].executed = IF x.answer = <<>> THEN @ ELSE 0]
     /\ UNCHANGED <<server, received>> /\ ServerOnly

\* Nobody looks at what bindAndListen returns: without the port daqonite runs on, deaf, and the
\* others, which have nothing to wait for, end.
WithoutPort(s) == IF s \in KeepRunning THEN "deaf" ELSE "off"
Start(s) == /\ server[s] = "off" /\ starts < MaxStarts /\ starts' = starts + 1
            /\ server' = [server EXCEPT ![s] = IF Serving = {} THEN "serving" ELSE WithoutPort(s)]
            /\ UNCHANGED <<clientVars, conns, received>>
\* A process that ends closes its connections, at whatever it was.
EndServer(s) == /\ server[s] # "off" /\ server' = [server EXCEPT ![s] = "off"]
                /\ conns' = [c \in DOMAIN conns |-> IF conns[c].server = s
                               THEN [conns[c] EXCEPT !.open = FALSE, !.request = 0, !.executed = 0] ELSE conns[c]]
                /\ UNCHANGED received /\ ServerOnly

Next == \/ Client
        \/ \E c \in DOMAIN conns : executeRequest(c) \/ writeResponse(c)
        \/ \E s \in Servers : Start(s) \/ EndServer(s)
Spec == Init /\ [][Next]_vars

(* --- properties -------------------------------------------------------------------- *)
\* A call that returns true returns the answer to its own spill, and one that returns Ok has had
\* Spill executed for it, whichever connections and servers ended.
AnswersItsOwn == \A i \in 1 .. Len(results) : results[i] = Error \/ results[i][1] = i
OkIsReceived == \A i \in 1 .. Len(results) : results[i][2] = "Ok" => i \in Range(received)
\* Spills are received in the order sent, each at most twice, however often servers restart.
ReceivedInOrder == \A i, j \in DOMAIN received : i < j => received[i] <= received[j]
AtMostTwice == \A i \in 1 .. count : Cardinality({k \in DOMAIN received : received[k] = i}) <= 2

(* --- the inductive invariant --------------------------------------------------------- *)
\* Nothing is under way on a connection, or it is over.
Quiet(x) == x.request = 0 /\ x.executed = 0 /\ x.answer = <<>>
Over(x) == ~x.open /\ x.request = 0 /\ x.executed = 0
\* What is under way on the connection is of the spill that is being sent: its request, or what
\* has been executed, of which a first part of the answer may be written, or its answer.
Had == \E k \in DOMAIN received : received[k] = spill
Requested(x) == x.request = spill /\ x.executed = 0 /\ x.answer = <<>> /\ x.open
Executed(x) == /\ x.request = 0 /\ x.executed = spill /\ x.answer \in {<<>>, <<"header">>}
               /\ x.server \in Knows => Had
Answered(x) == /\ x.request = 0 /\ x.executed = 0 /\ Len(x.answer) = 2 /\ x.answer[2][1] = spill
               /\ x.answer[2][2] = "Ok" => Had
\* The latest connection is the client's, and the others are over; so is the latest when it is not
\* to be used again.
Latest == /\ conn = Len(conns)
          /\ \A c \in DOMAIN conns : c # conn => Over(conns[c])
          /\ \A c \in DOMAIN conns : ~conns[c].open => Over(conns[c])
MineAgrees ==
  /\ sender # "work" => conn = 0 \/ Over(Mine) \/ Reusable
  /\ sender # "work" /\ Reusable => conn # 0 /\ Quiet(Mine)
  /\ sender = "work" => conn # 0 /\ connectionState \in {"write", "header", "response"}
  /\ sender = "work" /\ connectionState = "write" => Quiet(Mine)
  /\ sender = "work" /\ connectionState \in {"header", "response"} =>
       Over(Mine) \/ Requested(Mine) \/ Executed(Mine) \/ Answered(Mine)
  /\ sender = "work" /\ connectionState \in {"header", "response"} /\ Len(Mine.answer) = 2 => Answered(Mine)
\* Spills up to this one have been received, this one once for each attempt whose request is gone.
Times(i) == Cardinality({k \in DOMAIN received : received[k] = i})
Pending == sender = "work" /\ (connectionState = "write" \/ Mine.request # 0)
ReceivedSoFar ==
  /\ received \in Seq(1 .. spill)
  /\ sender # "work" => \A k \in DOMAIN received : received[k] < spill
  /\ sender = "work" => /\ sendAttempts \in {0, 1}
                        /\ Times(spill) <= sendAttempts + (IF Pending THEN 0 ELSE 1)
  /\ \A i \in 1 .. spill : Times(i) <= 2
Answers == {<<>>, <<"header">>} \cup {"header"} \X (Nat \X {"Ok", "fault"})
ConnectionType == [server : Servers \cup {None}, request : Nat, executed : Nat,
                   answer : Answers, open : BOOLEAN]
IInv == /\ spill \in Nat \ {0} /\ conns \in Seq(ConnectionType) /\ sender \in {"call", "work", "done"}
        /\ results \in Seq((Nat \X {"Ok", "fault"}) \cup {Error}) /\ Len(results) = spill - 1
        /\ Latest /\ MineAgrees /\ ReceivedSoFar
        /\ AnswersItsOwn /\ OkIsReceived /\ ReceivedInOrder

(* --- what the code does not keep ---------------------------------------------------- *)
\* "the server may have timed out, so we try one more time" (XmlRpcClient.cpp:291): also when it
\* ended after it had executed the request, so that a spill is received twice.
ReceivedOnce == \A i, j \in DOMAIN received : received[i] = received[j] => i = j
\* "Up and running at port {}!" (tdu_spill_scheduler.cc:118): also without the port, and for good.
UpAndRunning == \A s \in KeepRunning : server[s] # "off" => server[s] = "serving"
=============================================================================
