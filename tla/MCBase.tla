------------------------------- MODULE MCBase --------------------------------
(* Components whose invariants are proved as well as checked, one or another  *)
(* of them in a behaviour: part says which, and x1, x2 and so on are its       *)
(* variables, in the order in which it declares them (the rest stay 0).        *)
CONSTANTS DaqConfigs, DaqCommands, DaqTimes, DaqFailures, \* of DaqControl
          AgainConfigs, AgainCommands, AgainTimes, AgainFailures,
          ReporterMachines, ReporterFirst, ReporterRounds, ReporterMoves, \* of Reporter
          AppCommands, AppFailures, AppSignals, AppQueue, \* of AppMain
          EndCommands, EndFailures, EndSignals, EndQueue,
          RunKinds, RunGarbage, RunCount, RunCrashes, \* of RunNumber
          NumiMessages, NumiFetches, NumiFailures, \* of NumiWatcher
          RpcServers, RpcKeepRunning, RpcKnows, RpcSpills, RpcStarts, \* of SpillRpc
          BoardNumbers, BoardThreshold, BoardOps, BoardFaults, BoardBeats, BoardFound, \* of Badgerboard
          SystemFaults, SystemFaultCount, SystemCommands, SystemAir, \* of System
          SlicePlanes, SliceNumbers, SliceBytes, \* of HitSequence
          CountPlanes, CountNumbers, CountBytes,
          LossyPlanes, LossyNumbers, LossyBytes, LossyFaults, LossyAir,
          HitModulus,
          SitterDatagrams, SitterChannels, SitterElastic, SitterFile, SitterSampled, \* of Daqsitter
          NoValue \* no value

VARIABLES part,
          x1, x2, x3, x4, x5, x6, x7, x8, x9, x10, x11, x12, x13, x14, x15, x16, x17, x18, x19, x20,
          x21, x22, x23

places == <<x1, x2, x3, x4, x5, x6, x7, x8, x9, x10, x11, x12, x13, x14, x15, x16, x17, x18, x19,
            x20, x21, x22, x23>>
allVars == <<part, places>>

\* One configuration, starts and stops, a CLB that fails; a CLB configured twice and started.
Daq(configs, commands, times, failures) == INSTANCE DaqControl
  WITH Configs <- configs, MaxCommands <- commands, MaxConfigs <- times, MaxFailures <- failures,
       current <- x1, target <- x2, buf <- x3, count <- x4, cmd <- x5, upd <- x6, asked <- x7,
       overtaken <- x8, commands <- x9, configs <- x10, failures <- x11

\* Two reports on two machines that move three times.
Reporter == INSTANCE Reporter
  WITH Machines <- ReporterMachines, First <- ReporterFirst, None <- NoValue,
       MaxRounds <- ReporterRounds, MaxMoves <- ReporterMoves, state <- x1, running <- x2,
       at <- x3, machine <- x4, question <- x5, reported <- x6, rounds <- x7, moves <- x8,
       during <- x9

\* Three commands and an exception of nng; two commands and an interrupt.
App(commandBound, failureBound, signalBound, queueBound) == INSTANCE AppMain
  WITH None <- "none", MaxCommands <- commandBound, MaxFailures <- failureBound,
       MaxSignals <- signalBound, MaxQueue <- queueBound, mainAt <- x1, handlerRuns <- x2,
       phase <- x3, commands <- x4, failures <- x5, signals <- x6, cmdAt <- x7, cmdRunning <- x8,
       inbox <- x9, sigAt <- x10, sigRunning <- x11, armed <- x12, pending <- x13, todo <- x14,
       run <- x15, crashed <- x16, pubRunning <- x17, statusAt <- x18, status <- x19,
       commAt <- x20, queue <- x21, owner <- x22, heard <- x23

\* Four runs of two types and a crash.
RunNumber == INSTANCE RunNumber
  WITH Types <- RunKinds, Absent <- NoValue, Garbage <- RunGarbage, MaxRuns <- RunCount,
       MaxCrashes <- RunCrashes, disk <- x1, at <- x2, run_type <- x3, number <- x4,
       runNums <- x5, output <- x6, runs <- x7, overwritten <- x8, torn <- x9, params <- x10,
       crashes <- x11

\* Three pages with three texts, and a bulk request that fails.
NumiWatcher == INSTANCE NumiWatcher
  WITH Message <- NumiMessages \cup {NoValue}, Missing <- NoValue,
       Outcomes <- {"page", "http", "other"}, MaxFetches <- NumiFetches,
       MaxFailures <- NumiFailures, step <- x1, data <- x2, admsg <- x3, last_admsg <- x4,
       bulk <- x5, posted <- x6, indexed <- x7, changed <- x8, fetches <- x9, failures <- x10

\* Two spills; daqonite and the forwarder start three times in all and end.
SpillRpc == INSTANCE SpillRpc
  WITH Servers <- RpcServers, KeepRunning <- RpcKeepRunning, Knows <- RpcKnows, None <- NoValue,
       count <- RpcSpills, MaxStarts <- RpcStarts, sender <- x1, spill <- x2, results <- x3,
       connectionState <- x4, eof <- x5, sendAttempts <- x6, conn <- x7, conns <- x8,
       server <- x9, starts <- x10, received <- x11

\* Two operations on a fresh board or a configured one, a fault, three heartbeats.
Badgerboard == INSTANCE Badgerboard
  WITH SeqModulus <- BoardNumbers, DeadThreshold <- BoardThreshold, NoReply <- NoValue,
       Boards <- BoardFound, MaxOps <- BoardOps, MaxFaults <- BoardFaults, MaxBeats <- BoardBeats,
       running <- x1, thread <- x2, next <- x3, silent <- x4, state <- x5, op <- x6, at <- x7, seq <- x8,
       reply <- x9, status <- x10, acked <- x11, board <- x12, accepted <- x13, air <- x14,
       carried <- x15, ops <- x16, faults <- x17, beats <- x18

\* Four commands to the whole system, one of them or a status lost.
System == INSTANCE System
  WITH Faults <- SystemFaults, MaxFaults <- SystemFaultCount, MaxCommands <- SystemCommands,
       MaxAir <- SystemAir, exp <- x1, app <- x2, last <- x3, inbox <- x4, linked <- x5,
       outbox <- x6, mode <- x7, target <- x8, resetting <- x9, empty <- x10, commands <- x11,
       faults <- x12

\* CLBs and their time slices; BeagleBones whose numbers overflow.
Numbering(planes, numbers, bytes, tolerated) == INSTANCE HitSequence
  WITH Plane <- planes, Numbers <- numbers, Bytes <- bytes, tolerate_seq_number_drops <- tolerated,
       Modulus <- HitModulus, Faults <- {}, MaxAir <- 1, sent <- x1, air <- x2, next <- x3,
       kept <- x4, bad <- x5, gaps <- x6, starts <- x7

\* A network that loses, duplicates and reorders.
LossySequence == INSTANCE HitSequence
  WITH Plane <- LossyPlanes, Numbers <- LossyNumbers, Bytes <- LossyBytes,
       tolerate_seq_number_drops <- FALSE, Modulus <- HitModulus, Faults <- LossyFaults,
       MaxAir <- LossyAir, sent <- x1, air <- x2, next <- x3, kept <- x4, bad <- x5, gaps <- x6,
       starts <- x7

\* Packets to be recorded, refused, and one that ends the process.
Daqsitter == INSTANCE Daqsitter
  WITH Datagrams <- SitterDatagrams, Channel <- SitterChannels, save_elastic <- SitterElastic,
       save_file <- SitterFile, sampled <- SitterSampled, arrived <- x1, received <- x2,
       clb_buffer <- x3, clb <- x4, bbb <- x5, file <- x6, elastic <- x7, mode <- x8, io <- x9

BaseInit ==
  \/ /\ part = "DaqControl" /\ Daq(DaqConfigs, DaqCommands, DaqTimes, DaqFailures)!Init
     /\ x12 = 0 /\ x13 = 0 /\ x14 = 0 /\ x15 = 0 /\ x16 = 0 /\ x17 = 0 /\ x18 = 0 /\ x19 = 0 /\ x20 = 0
     /\ x21 = 0 /\ x22 = 0 /\ x23 = 0
  \/ /\ part = "Reconfigured" /\ Daq(AgainConfigs, AgainCommands, AgainTimes, AgainFailures)!Init
     /\ x12 = 0 /\ x13 = 0 /\ x14 = 0 /\ x15 = 0 /\ x16 = 0 /\ x17 = 0 /\ x18 = 0 /\ x19 = 0 /\ x20 = 0
     /\ x21 = 0 /\ x22 = 0 /\ x23 = 0
  \/ /\ part = "Reporter" /\ Reporter!Init
     /\ x10 = 0 /\ x11 = 0 /\ x12 = 0 /\ x13 = 0 /\ x14 = 0 /\ x15 = 0 /\ x16 = 0 /\ x17 = 0 /\ x18 = 0
     /\ x19 = 0 /\ x20 = 0 /\ x21 = 0 /\ x22 = 0 /\ x23 = 0
  \/ /\ part = "AppMain" /\ App(AppCommands, AppFailures, AppSignals, AppQueue)!Init
  \/ /\ part = "AppInterrupt" /\ App(EndCommands, EndFailures, EndSignals, EndQueue)!Init
  \/ /\ part = "RunNumber" /\ RunNumber!Init
     /\ x12 = 0 /\ x13 = 0 /\ x14 = 0 /\ x15 = 0 /\ x16 = 0 /\ x17 = 0 /\ x18 = 0 /\ x19 = 0 /\ x20 = 0
     /\ x21 = 0 /\ x22 = 0 /\ x23 = 0
  \/ /\ part = "NumiWatcher" /\ NumiWatcher!Init
     /\ x11 = 0 /\ x12 = 0 /\ x13 = 0 /\ x14 = 0 /\ x15 = 0 /\ x16 = 0 /\ x17 = 0 /\ x18 = 0 /\ x19 = 0
     /\ x20 = 0 /\ x21 = 0 /\ x22 = 0 /\ x23 = 0
  \/ /\ part = "SpillRpc" /\ SpillRpc!Init
     /\ x12 = 0 /\ x13 = 0 /\ x14 = 0 /\ x15 = 0 /\ x16 = 0 /\ x17 = 0 /\ x18 = 0 /\ x19 = 0 /\ x20 = 0
     /\ x21 = 0 /\ x22 = 0 /\ x23 = 0
  \/ /\ part = "Badgerboard" /\ Badgerboard!Init
     /\ x19 = 0 /\ x20 = 0 /\ x21 = 0 /\ x22 = 0 /\ x23 = 0
  \/ /\ part = "System" /\ System!Init
     /\ x13 = 0 /\ x14 = 0 /\ x15 = 0 /\ x16 = 0 /\ x17 = 0 /\ x18 = 0 /\ x19 = 0 /\ x20 = 0 /\ x21 = 0
     /\ x22 = 0 /\ x23 = 0
  \/ /\ part = "ClbSequence" /\ Numbering(SlicePlanes, SliceNumbers, SliceBytes, TRUE)!Init
     /\ x8 = 0 /\ x9 = 0 /\ x10 = 0 /\ x11 = 0 /\ x12 = 0 /\ x13 = 0 /\ x14 = 0 /\ x15 = 0 /\ x16 = 0
     /\ x17 = 0 /\ x18 = 0 /\ x19 = 0 /\ x20 = 0 /\ x21 = 0 /\ x22 = 0 /\ x23 = 0
  \/ /\ part = "BbbSequence" /\ Numbering(CountPlanes, CountNumbers, CountBytes, FALSE)!Init
     /\ x8 = 0 /\ x9 = 0 /\ x10 = 0 /\ x11 = 0 /\ x12 = 0 /\ x13 = 0 /\ x14 = 0 /\ x15 = 0 /\ x16 = 0
     /\ x17 = 0 /\ x18 = 0 /\ x19 = 0 /\ x20 = 0 /\ x21 = 0 /\ x22 = 0 /\ x23 = 0
  \/ /\ part = "LossySequence" /\ LossySequence!Init
     /\ x8 = 0 /\ x9 = 0 /\ x10 = 0 /\ x11 = 0 /\ x12 = 0 /\ x13 = 0 /\ x14 = 0 /\ x15 = 0 /\ x16 = 0
     /\ x17 = 0 /\ x18 = 0 /\ x19 = 0 /\ x20 = 0 /\ x21 = 0 /\ x22 = 0 /\ x23 = 0
  \/ /\ part = "Daqsitter" /\ Daqsitter!Init
     /\ x10 = 0 /\ x11 = 0 /\ x12 = 0 /\ x13 = 0 /\ x14 = 0 /\ x15 = 0 /\ x16 = 0 /\ x17 = 0 /\ x18 = 0
     /\ x19 = 0 /\ x20 = 0 /\ x21 = 0 /\ x22 = 0 /\ x23 = 0
BaseNext ==
  \/ /\ part = "DaqControl" /\ Daq(DaqConfigs, DaqCommands, DaqTimes, DaqFailures)!Next
     /\ UNCHANGED <<part, x12, x13, x14, x15, x16, x17, x18, x19, x20, x21, x22, x23>>
  \/ /\ part = "Reconfigured" /\ Daq(AgainConfigs, AgainCommands, AgainTimes, AgainFailures)!Next
     /\ UNCHANGED <<part, x12, x13, x14, x15, x16, x17, x18, x19, x20, x21, x22, x23>>
  \/ /\ part = "Reporter" /\ Reporter!Next
     /\ UNCHANGED <<part, x10, x11, x12, x13, x14, x15, x16, x17, x18, x19, x20, x21, x22, x23>>
  \/ /\ part = "AppMain" /\ App(AppCommands, AppFailures, AppSignals, AppQueue)!Next
     /\ UNCHANGED part
  \/ /\ part = "AppInterrupt" /\ App(EndCommands, EndFailures, EndSignals, EndQueue)!Next
     /\ UNCHANGED part
  \/ /\ part = "RunNumber" /\ RunNumber!Next
     /\ UNCHANGED <<part, x12, x13, x14, x15, x16, x17, x18, x19, x20, x21, x22, x23>>
  \/ /\ part = "NumiWatcher" /\ NumiWatcher!Next
     /\ UNCHANGED <<part, x11, x12, x13, x14, x15, x16, x17, x18, x19, x20, x21, x22, x23>>
  \/ /\ part = "SpillRpc" /\ SpillRpc!Next
     /\ UNCHANGED <<part, x12, x13, x14, x15, x16, x17, x18, x19, x20, x21, x22, x23>>
  \/ /\ part = "Badgerboard" /\ Badgerboard!Next
     /\ UNCHANGED <<part, x19, x20, x21, x22, x23>>
  \/ /\ part = "System" /\ System!Next
     /\ UNCHANGED <<part, x13, x14, x15, x16, x17, x18, x19, x20, x21, x22, x23>>
  \/ /\ part = "ClbSequence" /\ Numbering(SlicePlanes, SliceNumbers, SliceBytes, TRUE)!Next
     /\ UNCHANGED <<part, x8, x9, x10, x11, x12, x13, x14, x15, x16, x17, x18, x19, x20, x21, x22, x23>>
  \/ /\ part = "BbbSequence" /\ Numbering(CountPlanes, CountNumbers, CountBytes, FALSE)!Next
     /\ UNCHANGED <<part, x8, x9, x10, x11, x12, x13, x14, x15, x16, x17, x18, x19, x20, x21, x22, x23>>
  \/ /\ part = "LossySequence" /\ LossySequence!Next
     /\ UNCHANGED <<part, x8, x9, x10, x11, x12, x13, x14, x15, x16, x17, x18, x19, x20, x21, x22, x23>>
  \/ /\ part = "Daqsitter" /\ Daqsitter!Next
     /\ UNCHANGED <<part, x10, x11, x12, x13, x14, x15, x16, x17, x18, x19, x20, x21, x22, x23>>
BaseSpec == BaseInit /\ [][BaseNext]_allVars

(* --- properties --------------------------------------------------------- *)
\* daq_control.cc: the mode becomes Started only when every controller that still counts has been
\* told to start, unless an update is overtaken by a new configuration; reporter.cc: a report tells
\* of each machine that stays as it is what it is.
StartedWasPosted ==
  [][/\ part = "DaqControl" => Daq(DaqConfigs, DaqCommands, DaqTimes, DaqFailures)!PostedBefore
     /\ part = "Reconfigured" => Daq(AgainConfigs, AgainCommands, AgainTimes, AgainFailures)!PostedBefore
     /\ part = "Reporter" => Reporter!StillIsReported]_allVars

\* states.cc: a run or data that the Experiment reports is being taken, and no application does what
\* it was not told, whatever commands and statuses are lost; badgerboard.cc: a command that is
\* acknowledged was accepted, and a configuration succeeds only on a board that has been brought to
\* what it waits for, by it or by an earlier one; XmlRpcClient.cpp: each call returns the answer to
\* its own spill.
ReportedIsTrue ==
  /\ part = "System" => System!ReportedIsTrue
  /\ part = "System" => System!NeverAhead
  /\ part = "Badgerboard" => Badgerboard!AckedIsAccepted
  /\ part = "Badgerboard" => Badgerboard!ConfiguredWasReached
  /\ part = "SpillRpc" => SpillRpc!AnswersItsOwn
  /\ part = "SpillRpc" => SpillRpc!OkIsReceived

\* data_run.cc and numi_update_watcher.py: no run replaces another's output, and no message is
\* offered twice; XmlRpcClient.cpp: spills are received in order, and each at most twice;
\* daqonite.cc: a run is used by one thread and closed before the process ends, unless it is
\* interrupted; monitoring_handler.cc: each accepted packet is recorded once, as it was.
WrittenOnce ==
  /\ part = "RunNumber" => RunNumber!NumbersUnique
  /\ part = "NumiWatcher" => NumiWatcher!OfferedOnce
  /\ part = "SpillRpc" => SpillRpc!ReceivedInOrder
  /\ part = "SpillRpc" => SpillRpc!AtMostTwice
  /\ part = "AppMain" => App(AppCommands, AppFailures, AppSignals, AppQueue)!RunClosedAtExit
  /\ part = "AppMain" => App(AppCommands, AppFailures, AppSignals, AppQueue)!OneHandler
  /\ part = "AppInterrupt" => App(EndCommands, EndFailures, EndSignals, EndQueue)!RunClosedAtExit
  /\ part = "AppInterrupt" => App(EndCommands, EndFailures, EndSignals, EndQueue)!OneHandler
  /\ part = "Daqsitter" => Daqsitter!RecordedAsReceived
  /\ part = "Daqsitter" => Daqsitter!OnlySynchronised

\* basic_hit_receiver.cc: in a network without faults no datagram is refused, at the end of a slice
\* or of the numbers; whatever the network does, the hits of a BeagleBone are kept in order and once,
\* and the gaps reported are those between them.
DatagramsKept ==
  /\ part = "ClbSequence" => Numbering(SlicePlanes, SliceNumbers, SliceBytes, TRUE)!OrderedKeepsAll
  /\ part = "BbbSequence" => Numbering(CountPlanes, CountNumbers, CountBytes, FALSE)!OrderedKeepsAll
  /\ part = "LossySequence" => LossySequence!KeptInOrder
  /\ part = "LossySequence" => LossySequence!GapsReported
=============================================================================
