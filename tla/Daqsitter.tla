----------------------------- MODULE Daqsitter ------------------------------
(* MonitoringHandler: four threads run one io_service.  Each of the two       *)
(* sockets has one receive request at a time; its handler looks at the        *)
(* datagram in the one buffer, fills the one pom_data_ and channel_data_,     *)
(* hands them to the ROOT file and to elasticsearch, and asks again.          *)
EXTENDS ClbPackets, Integers, Sequences, Functions

CONSTANTS Datagrams,    \* what may arrive at the CLB port; no two are equal
          Channel,      \* of the thirty
          save_elastic, save_file, sampled \* sampled: sample_frac is 1

VARIABLES arrived,      \* the datagrams that arrived, in order
          received,     \* how many of them the socket handed over
          clb_buffer,   \* the datagram a request brought, if it was not an error
          clb, bbb,     \* outstanding requests and running handlers of each socket
          file, elastic,\* rows of the tree; pairs of documents
          mode,         \* mode_
          io            \* the io_service: "runs", "stopped"; the process: "dead"
vars == <<arrived, received, clb_buffer, clb, bbb, file, elastic, mode, io>>

clb_mon_size == 240
Asked == [requests |-> 1, handlers |-> 0]
Init == /\ arrived = <<>> /\ received = 0 /\ clb_buffer = <<>> /\ clb = Asked /\ bbb = Asked
        /\ file = <<>> /\ elastic = <<>> /\ mode = FALSE /\ io = "runs"

Arrive == \E d \in Datagrams : /\ ~\E i \in DOMAIN arrived : arrived[i] = d
                               /\ arrived' = Append(arrived, d)
                               /\ UNCHANGED <<received, clb_buffer, clb, bbb, file, elastic, mode, io>>

(* --- the CLB socket -------------------------------------------------------- *)
Begun(s) == [requests |-> s.requests - 1, handlers |-> s.handlers + 1]
\* workCLBSocket at the end of the handler.
Ended(s) == [requests |-> s.requests + 1, handlers |-> s.handlers - 1]

\* The next request is there before this one's handler is done.
CompleteAskingAgain ==
  /\ io = "runs" /\ clb.requests > 0 /\ clb.handlers < 2
  /\ \/ received < Len(arrived) /\ received' = received + 1 /\ clb_buffer' = <<arrived[received + 1]>>
     \/ UNCHANGED received /\ clb_buffer' = <<>>
  /\ clb' = [clb EXCEPT !.handlers = @ + 1]
  /\ UNCHANGED <<arrived, bbb, file, elastic, mode, io>>
\* A request completes: the datagram is in the buffer and a thread is in the handler.
Complete ==
  /\ io = "runs" /\ clb.requests > 0
  /\ \/ received < Len(arrived) /\ received' = received + 1 /\ clb_buffer' = <<arrived[received + 1]>>
     \/ UNCHANGED received /\ clb_buffer' = <<>>
  /\ clb' = Begun(clb)
  /\ UNCHANGED <<arrived, bbb, file, elastic, mode, io>>

Accepted(d) == d.size = clb_mon_size /\ getType(d.header) = "monitoring" /\ validTimeStamp(d.header)

pom_data(d) == [timestamp |-> inMilliSeconds(d.header.time), pom |-> d.pom, sync |-> validTimeStamp(d.header),
                temperature |-> temp(d.sc), humidity |-> humidity(d.sc)]
\* Windows per second: integers are divided.
rate_scale(d) == 1000000 \div d.sc.duration
channel_data(d) == [timestamp |-> inMilliSeconds(d.header.time), pom |-> d.pom, veto |-> d.hits.rateVeto,
                    rate |-> [c \in Channel |-> d.hits.hits[c] * rate_scale(d)]]
Record(d) == [pom |-> pom_data(d), channel |-> channel_data(d)]

\* An error, a datagram that the sample leaves out, or one that is refused.
Refused == ~\E i \in DOMAIN clb_buffer : sampled /\ Accepted(clb_buffer[i])
HandleRefused ==
  /\ clb.handlers > 0 /\ io # "dead" /\ Refused
  /\ clb' = Ended(clb) /\ UNCHANGED <<arrived, received, clb_buffer, bbb, file, elastic, mode, io>>

HandleAccepted ==
  /\ clb.handlers > 0 /\ io # "dead" /\ clb_buffer # <<>> /\ Accepted(clb_buffer[1])
  /\ clb_buffer[1].sc.duration # 0
  /\ file' = IF save_file THEN Append(file, Record(clb_buffer[1])) ELSE file
  /\ elastic' = IF save_elastic THEN Append(elastic, Record(clb_buffer[1])) ELSE elastic
  /\ clb' = Ended(clb) /\ UNCHANGED <<arrived, received, clb_buffer, bbb, mode, io>>

\* An integer divided by zero ends the process.
HandleNoDuration ==
  /\ clb.handlers > 0 /\ io # "dead" /\ clb_buffer # <<>> /\ Accepted(clb_buffer[1])
  /\ clb_buffer[1].sc.duration = 0 /\ io' = "dead"
  /\ UNCHANGED <<arrived, received, clb_buffer, clb, bbb, file, elastic, mode>>

\* The BBB socket: whatever comes is dropped.
CompleteBBB == /\ io = "runs" /\ bbb.requests > 0 /\ bbb' = Begun(bbb)
               /\ UNCHANGED <<arrived, received, clb_buffer, clb, file, elastic, mode, io>>
HandleBBB == /\ bbb.handlers > 0 /\ io # "dead" /\ bbb' = Ended(bbb)
             /\ UNCHANGED <<arrived, received, clb_buffer, clb, file, elastic, mode, io>>

(* --- commands --------------------------------------------------------------- *)
StartData == /\ io # "dead" /\ mode' = TRUE
             /\ UNCHANGED <<arrived, received, clb_buffer, clb, bbb, file, elastic, io>>
StopData == /\ io # "dead" /\ mode' = FALSE
            /\ UNCHANGED <<arrived, received, clb_buffer, clb, bbb, file, elastic, io>>
Exit == /\ io = "runs" /\ io' = "stopped"
        /\ UNCHANGED <<arrived, received, clb_buffer, clb, bbb, file, elastic, mode>>

Handle == HandleRefused \/ HandleAccepted \/ HandleNoDuration
Next == Arrive \/ Complete \/ Handle \/ CompleteBBB \/ HandleBBB \/ StartData \/ StopData \/ Exit
Spec == Init /\ [][Next]_vars
\* A thread of the io_service always goes on, and the network has an end of errors: a datagram
\* that waits is delivered.
Deliver == Complete /\ received' # received
FairSpec == Spec /\ WF_vars(Handle) /\ SF_vars(Deliver)

(* --- properties --------------------------------------------------------------- *)
\* Everything has its type, and what was received had arrived.
TypeOK == /\ received \in 0 .. Len(arrived) /\ mode \in BOOLEAN /\ io \in {"runs", "stopped", "dead"}
          /\ Range(clb_buffer) \subseteq Datagrams
          /\ clb.requests + clb.handlers = 1 /\ bbb.requests + bbb.handlers = 1

\* The accepted ones of the first n to arrive; what is recorded is those, each with a duration.
Recorded(e, d) == d.sc.duration # 0 /\ e = Record(d)
AcceptedOf(n) == {i \in 1 .. n : Accepted(arrived[i])}
RecordedUpTo(n) == /\ Len(elastic) = Cardinality(AcceptedOf(n))
                   /\ \A i \in AcceptedOf(n) : Recorded(elastic[Cardinality(AcceptedOf(i))], arrived[i])
\* monitoring_handler.cc:104: four threads share one buffer: what is recorded are the accepted
\* datagrams received, each once, in order, with its own numbers, up to the one in the handler.
RecordedAsReceived == (save_elastic /\ sampled) => \E k \in 0 .. clb.handlers : RecordedUpTo(received - k)

\* pom_data_ has the flag of a valid timestamp: nothing else is recorded, in file and elastic alike.
OnlySynchronised == \A i \in DOMAIN elastic : elastic[i].pom.sync /\ (save_file => file[i] = elastic[i])

\* A synchronised monitoring packet is recorded, or the process has been told to exit or is dead.
Awaited(d) == (\E i \in DOMAIN arrived : arrived[i] = d) /\ Accepted(d) /\ sampled
Handled(d) == (\E i \in DOMAIN elastic : elastic[i].pom = pom_data(d)) \/ io # "runs"
EverythingHandled == \A d \in Datagrams : Awaited(d) ~> Handled(d)

\* packet_generator.cc:2: what DAQulator simulates are packets of the CLBs: they are recorded.
SimulatedRecorded == \A i \in 1 .. received - clb.handlers :
  arrived[i].simulated => \E j \in DOMAIN elastic : elastic[j].pom = pom_data(arrived[i])

\* monitoring_handler.h:96: false is not running: then nothing is recorded.
RecordsOnlyWhenRunning == [][elastic' # elastic => mode]_vars

\* monitoring_handler.cc:161: the duration is in microseconds: rates are in hertz.
RateInHertz == \A i \in 1 .. received : \A j \in DOMAIN elastic :
  LET d == arrived[i] IN (Accepted(d) /\ elastic[j] = Record(d)) =>
    \A c \in Channel : LET r == elastic[j].channel.rate[c] * d.sc.duration IN r = d.hits.hits[c] * 1000000

(* --- the inductive invariant -------------------------------------------------- *)
\* How many of the datagrams received have been dealt with: not the one in the handler.
Done == IF clb.handlers = 1 /\ clb_buffer # <<>> THEN received - 1 ELSE received
\* What the two can hold: of a datagram without a duration there is no record.
Records == {Record(d) : d \in {d \in Datagrams : Accepted(d) /\ d.sc.duration # 0}}
\* The buffer is the last datagram received as long as there is one request or one handler.
IInv ==
  /\ arrived \in Seq(Datagrams) /\ received \in 0 .. Len(arrived)
  /\ clb \in {Asked, [requests |-> 0, handlers |-> 1]}
  /\ clb_buffer = <<>> \/ (received > 0 /\ clb_buffer = <<arrived[received]>>)
  /\ elastic \in Seq(Records) /\ (~save_elastic => elastic = <<>>)
  /\ save_elastic /\ save_file => file = elastic
  /\ save_elastic /\ sampled => RecordedUpTo(Done)
=============================================================================
