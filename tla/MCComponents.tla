---------------------------- MODULE MCComponents ----------------------------
(* The components that share no state, each on its own small instance, one or *)
(* another of them in a behaviour: part says which, and x1, x2 and so on are  *)
(* its variables, in the order in which it declares them (the rest stay 0).   *)
EXTENDS MCCore, MCInputs

CONSTANT Parts \* the instances of this run

\* One dispatching thread.
ShutdownLive == INSTANCE Shutdown
  WITH Dispatcher <- {"d1"}, None <- "none", MaxCommands <- 1, MaxFailures <- 1, MaxSignals <- 0,
       running <- x1, mainAt <- x2, busRunning <- x3, busAt <- x4, queue <- x5, queueOwner <- x6,
       sent <- x7, published <- x8, ended <- x9, at <- x10, told <- x11, dispatcher <- x12,
       signalOn <- x13, signalAt <- x14, heldBefore <- x15, commands <- x16, failures <- x17,
       signals <- x18

\* Four operations and a failure: data is started, and its stop interrupted, before a configuration.
ClbControllerLive == INSTANCE ClbController
  WITH Channel <- {1}, MaxPosts <- 4, MaxFailures <- 1, MaxRestarts <- 0, config <- x1,
       wrongId <- x2, state <- x3, working <- x4, clbState <- x5, op <- x6, todo <- x7, clb <- x8,
       posts <- x9, failures <- x10, restarts <- x11

\* One call.
MsgProcessorLive == INSTANCE MsgProcessor
  WITH None <- NoValue, IdModulus <- 2, MAX_ATTEMPTS <- 2, MaxCommands <- 1, MaxInFlight <- 2,
       MaxOdd <- 1, cmdId <- x1, call <- x2, at <- x3, attempt <- x4, packetId <- x5, reading <- x6,
       ok <- x7, toClb <- x8, inbox <- x9, executed <- x10, unacked <- x11, inTime <- x12,
       odd <- x13

\* A CLB, a BeagleBone, a failure.
DaqControlLive == INSTANCE DaqControl
  WITH Configs <- LiveConfigs, MaxCommands <- 1, MaxConfigs <- 1, MaxFailures <- 1, current <- x1,
       target <- x2, buf <- x3, count <- x4, cmd <- x5, upd <- x6, asked <- x7, overtaken <- x8,
       commands <- x9, configs <- x10, failures <- x11

\* Files of up to two lines.
DaqConfig == INSTANCE DaqConfig
  WITH Lines <- SomeLines, MaxLines <- 2, file <- x1, at <- x2, num_controllers <- x3,
       enabled_controllers <- x4, enabled_channels <- x5, is_nano_enabled <- x6, configs <- x7,
       outcome <- x8

\* Every pair of values at the ends of the types.
MsgCodec == INSTANCE MsgCodec
  WITH Base <- 4, Items <- CodecItems, MaxItems <- 2, written <- x1, data <- x2, it <- x3,
       got <- x4, phase <- x5

\* Two operations; nothing, or the compass and the HV disabled.
ClbVars == INSTANCE ClbVars
  WITH ProcVar <- ProcVar, Masks <- {0, 5}, Firsts <- {225}, MaxOps <- 2, mem <- x1, config <- x2,
       op <- x3, wire <- x4, reply <- x5, got <- x6, left <- x7, info <- x8, ops <- x9

\* A command of every type and its answer.
MsgBuilder == INSTANCE MsgBuilder
  WITH Ids <- MCIds, Contents <- MCContents, Times <- MCTimes, Odd <- MCOdd, sent <- x1,
       bytes <- x2, from <- x3, got <- x4, result <- x5

\* Two controllers, slices of three packets.
Daqulator == INSTANCE Daqulator
  WITH Clb <- {"c1", "c2"}, DeltaTs <- 500, HitRate <- 1, MTU <- 60000, MaxSlices <- 2,
       Threads <- 2, opt <- x1, mon <- x2, cut <- x3, slices <- x4, posted <- x5, sent <- x6

\* Packets that are recorded.
DaqsitterLive == INSTANCE Daqsitter
  WITH Datagrams <- MonFew, Channel <- {0, 1}, save_elastic <- TRUE, save_file <- FALSE,
       sampled <- TRUE, arrived <- x1, received <- x2, clb_buffer <- x3, clb <- x4, bbb <- x5,
       file <- x6, elastic <- x7, mode <- x8, io <- x9

\* One receiver, started twice.
RestartedLive == INSTANCE HitReceiver
  WITH Port <- {1}, MaxConfigs <- 1, MaxStarts <- 2, generation <- x1, mode <- x2, requests <- x3,
       aborted <- x4, handler <- x5, command <- x6, phase <- x7, data_run <- x8, starts <- x9,
       mined <- x10

\* Two threads and two documents.
IndexingLive == INSTANCE Elastic
  WITH Thread <- {1, 2}, Severities <- {"INFO"}, Kinds <- {"channel"}, MaxTime <- 0, MaxPosts <- 2,
       Runs <- {1}, MAX_LOG_RATE <- 2, MAX_ELASTIC_ATTEMPTS <- 1, es_enabled <- TRUE,
       es_min_severity <- "INFO", Second <- 2, index_service <- x1, stopped <- x2, worker <- x3,
       now <- x4, log_counter <- x5, timer_start <- x6, pipeline <- x7, es <- x8, posts <- x9,
       run <- x10, passed <- x11, suppressed <- x12, tried <- x13

\* One operation, a fault.
BadgerboardLive == INSTANCE Badgerboard
  WITH SeqModulus <- 4, DeadThreshold <- 1, NoReply <- NoValue, Boards <- BoardFound, MaxOps <- 1,
       MaxFaults <- 1, MaxBeats <- 1, running <- x1, thread <- x2, next <- x3, silent <- x4, state <- x5, op <- x6,
       at <- x7, seq <- x8, reply <- x9, status <- x10, acked <- x11, board <- x12, accepted <- x13,
       air <- x14, carried <- x15, ops <- x16, faults <- x17, beats <- x18

\* Two spills of up to five planes.
MergeSort == INSTANCE MergeSort
  WITH Spills <- SomeSpills, Resolution <- 2, MaxSpills <- 2, at <- x1, spill <- x2, events <- x3,
       out_queue <- x4, mirror <- x5, opt_hits <- x6, spills <- x7

\* A signal over two seconds and a fault.
Watchdog == INSTANCE Watchdog
  WITH Signal <- {"NuMI"}, Threshold <- [s \in {"NuMI"} |-> 1], MaxTime <- 1, MaxFaults <- 1,
       Failures <- {"ssh", "other"}, stopping <- x1, fwd <- x2, forwarderRunning <- x3, child <- x4,
       loop <- x5, observed <- x6, times <- x7, arriving <- x8, rep <- x9, localSpills <- x10,
       localTimes <- x11, newSpills <- x12, stale <- x13, chk <- x14, requested <- x15,
       checkRunning <- x16, server <- x17, now <- x18, faults <- x19, heard <- x20

\* A server that may be down, and a fault: of the forwarder, of the server, of SSH, caught or not.
WatchdogLive == INSTANCE Watchdog
  WITH Signal <- {"NuMI"}, Threshold <- [s \in {"NuMI"} |-> 1], MaxTime <- 0, MaxFaults <- 1,
       Failures <- {"ssh", "other"}, stopping <- x1, fwd <- x2, forwarderRunning <- x3, child <- x4,
       loop <- x5, observed <- x6, times <- x7, arriving <- x8, rep <- x9, localSpills <- x10,
       localTimes <- x11, newSpills <- x12, stale <- x13, chk <- x14, requested <- x15,
       checkRunning <- x16, server <- x17, now <- x18, faults <- x19, heard <- x20

\* Six polls, of which those before the last two are dropped, and a spill.
Roundtrip == INSTANCE Roundtrip
  WITH WR_POLLER_FREQ <- 1, WR_POLLER_REPORTING_INTERVAL <- 3, Kept <- 2, Durations <- {0, 2},
       Answers <- {"time", "odd", "ssh", "other"}, None <- NoValue, MaxPolls <- 6, MaxSpills <- 1,
       stopping <- x1, poller <- x2, wait_time <- x3, poll_count <- x4, g_times <- x5,
       g_latest_time_key <- x6, since <- x7, receiver <- x8, spill_file <- x9, faults <- x10

\* Sixteen seconds with three leap seconds.
Times == INSTANCE Times
  WITH NOVA_EPOCH <- 3, NOVA_TIME_FACTOR <- 60, Leaps <- <<6, 10, 14>>, USEC <- 3, NSEC <- 900,
       Grains <- 16, MaxSecond <- 18, Nanos <- {0, 1, 899, 900, 2001}, call <- x1, out <- x2

\* A command.
AppMainLive == INSTANCE AppMain
  WITH None <- "none", MaxCommands <- 1, MaxFailures <- 0, MaxSignals <- 0, MaxQueue <- 1,
       mainAt <- x1, handlerRuns <- x2, phase <- x3, commands <- x4, failures <- x5, signals <- x6,
       cmdAt <- x7, cmdRunning <- x8, inbox <- x9, sigAt <- x10, sigRunning <- x11, armed <- x12,
       pending <- x13, todo <- x14, run <- x15, crashed <- x16, pubRunning <- x17, statusAt <- x18,
       status <- x19, commAt <- x20, queue <- x21, owner <- x22, heard <- x23

\* Two commands.
SystemLive == INSTANCE System
  WITH Faults <- {}, MaxFaults <- 0, MaxCommands <- 2, MaxAir <- 1, exp <- x1, app <- x2,
       last <- x3, inbox <- x4, linked <- x5, outbox <- x6, mode <- x7, target <- x8,
       resetting <- x9, empty <- x10, commands <- x11, faults <- x12

\* Three intervals remembered of five; event words of each kind.
SpillSignals == INSTANCE SpillSignals
  WITH n_last <- 3, init_interval <- 2, Intervals <- {1, 2, 4}, Garbage <- {2, 9}, None <- NoValue,
       Words <- EventWords, MaxTriggers <- 5, observed <- x1, next <- x2, last_timestamp <- x3,
       learned_interval <- x4, history <- x5

\* The processes and the buses between them.
ProcessInit ==
  \/ /\ part = "ShutdownLive" /\ ShutdownLive!Init
     /\ x19 = 0 /\ x20 = 0 /\ x21 = 0 /\ x22 = 0 /\ x23 = 0
  \/ /\ part = "AppMainLive" /\ AppMainLive!Init
  \/ /\ part = "SystemLive" /\ SystemLive!Init
     /\ x13 = 0 /\ x14 = 0 /\ x15 = 0 /\ x16 = 0 /\ x17 = 0 /\ x18 = 0 /\ x19 = 0 /\ x20 = 0 /\ x21 = 0 /\ x22 = 0
     /\ x23 = 0
ProcessNext ==
  \/ /\ part = "ShutdownLive" /\ ShutdownLive!Next
     /\ UNCHANGED <<part, x19, x20, x21, x22, x23>>
  \/ /\ part = "AppMainLive" /\ AppMainLive!Next
     /\ UNCHANGED part
  \/ /\ part = "SystemLive" /\ SystemLive!Next
     /\ UNCHANGED <<part, x13, x14, x15, x16, x17, x18, x19, x20, x21, x22, x23>>

\* The controllers of DAQontrol and what they send.
ControlInit ==
  \/ /\ part = "ClbControllerLive" /\ ClbControllerLive!Init
     /\ x12 = 0 /\ x13 = 0 /\ x14 = 0 /\ x15 = 0 /\ x16 = 0 /\ x17 = 0 /\ x18 = 0 /\ x19 = 0 /\ x20 = 0 /\ x21 = 0
     /\ x22 = 0 /\ x23 = 0
  \/ /\ part = "MsgProcessorLive" /\ MsgProcessorLive!Init
     /\ x14 = 0 /\ x15 = 0 /\ x16 = 0 /\ x17 = 0 /\ x18 = 0 /\ x19 = 0 /\ x20 = 0 /\ x21 = 0 /\ x22 = 0 /\ x23 = 0
  \/ /\ part = "MsgCodec" /\ MsgCodec!Init
     /\ x6 = 0 /\ x7 = 0 /\ x8 = 0 /\ x9 = 0 /\ x10 = 0 /\ x11 = 0 /\ x12 = 0 /\ x13 = 0 /\ x14 = 0 /\ x15 = 0
     /\ x16 = 0 /\ x17 = 0 /\ x18 = 0 /\ x19 = 0 /\ x20 = 0 /\ x21 = 0 /\ x22 = 0 /\ x23 = 0
  \/ /\ part = "MsgBuilder" /\ MsgBuilder!Init
     /\ x6 = 0 /\ x7 = 0 /\ x8 = 0 /\ x9 = 0 /\ x10 = 0 /\ x11 = 0 /\ x12 = 0 /\ x13 = 0 /\ x14 = 0 /\ x15 = 0
     /\ x16 = 0 /\ x17 = 0 /\ x18 = 0 /\ x19 = 0 /\ x20 = 0 /\ x21 = 0 /\ x22 = 0 /\ x23 = 0
  \/ /\ part = "ClbVars" /\ ClbVars!Init
     /\ x10 = 0 /\ x11 = 0 /\ x12 = 0 /\ x13 = 0 /\ x14 = 0 /\ x15 = 0 /\ x16 = 0 /\ x17 = 0 /\ x18 = 0 /\ x19 = 0
     /\ x20 = 0 /\ x21 = 0 /\ x22 = 0 /\ x23 = 0
  \/ /\ part = "DaqControlLive" /\ DaqControlLive!Init
     /\ x12 = 0 /\ x13 = 0 /\ x14 = 0 /\ x15 = 0 /\ x16 = 0 /\ x17 = 0 /\ x18 = 0 /\ x19 = 0 /\ x20 = 0
     /\ x21 = 0 /\ x22 = 0 /\ x23 = 0
  \/ /\ part = "DaqConfig" /\ DaqConfig!Init
     /\ x9 = 0 /\ x10 = 0 /\ x11 = 0 /\ x12 = 0 /\ x13 = 0 /\ x14 = 0 /\ x15 = 0 /\ x16 = 0 /\ x17 = 0 /\ x18 = 0
     /\ x19 = 0 /\ x20 = 0 /\ x21 = 0 /\ x22 = 0 /\ x23 = 0
  \/ /\ part = "BadgerboardLive" /\ BadgerboardLive!Init
     /\ x19 = 0 /\ x20 = 0 /\ x21 = 0 /\ x22 = 0 /\ x23 = 0
ControlNext ==
  \/ /\ part = "ClbControllerLive" /\ ClbControllerLive!Next
     /\ UNCHANGED <<part, x12, x13, x14, x15, x16, x17, x18, x19, x20, x21, x22, x23>>
  \/ /\ part = "MsgProcessorLive" /\ MsgProcessorLive!Next
     /\ UNCHANGED <<part, x14, x15, x16, x17, x18, x19, x20, x21, x22, x23>>
  \/ /\ part = "MsgCodec" /\ MsgCodec!Next
     /\ UNCHANGED <<part, x6, x7, x8, x9, x10, x11, x12, x13, x14, x15, x16, x17, x18, x19, x20,
                       x21, x22, x23>>
  \/ /\ part = "MsgBuilder" /\ MsgBuilder!Next
     /\ UNCHANGED <<part, x6, x7, x8, x9, x10, x11, x12, x13, x14, x15, x16, x17, x18, x19, x20,
                       x21, x22, x23>>
  \/ /\ part = "ClbVars" /\ ClbVars!Next
     /\ UNCHANGED <<part, x10, x11, x12, x13, x14, x15, x16, x17, x18, x19, x20, x21, x22, x23>>
  \/ /\ part = "DaqControlLive" /\ DaqControlLive!Next
     /\ UNCHANGED <<part, x12, x13, x14, x15, x16, x17, x18, x19, x20, x21, x22, x23>>
  \/ /\ part = "DaqConfig" /\ DaqConfig!Next
     /\ UNCHANGED <<part, x9, x10, x11, x12, x13, x14, x15, x16, x17, x18, x19, x20, x21, x22,
                       x23>>
  \/ /\ part = "BadgerboardLive" /\ BadgerboardLive!Next
     /\ UNCHANGED <<part, x19, x20, x21, x22, x23>>

\* The data and the monitoring of the boards.
DataInit ==
  \/ /\ part = "RestartedLive" /\ RestartedLive!Init
     /\ x11 = 0 /\ x12 = 0 /\ x13 = 0 /\ x14 = 0 /\ x15 = 0 /\ x16 = 0 /\ x17 = 0 /\ x18 = 0 /\ x19 = 0 /\ x20 = 0
     /\ x21 = 0 /\ x22 = 0 /\ x23 = 0
  \/ /\ part = "MergeSort" /\ MergeSort!Init
     /\ x8 = 0 /\ x9 = 0 /\ x10 = 0 /\ x11 = 0 /\ x12 = 0 /\ x13 = 0 /\ x14 = 0 /\ x15 = 0 /\ x16 = 0 /\ x17 = 0
     /\ x18 = 0 /\ x19 = 0 /\ x20 = 0 /\ x21 = 0 /\ x22 = 0 /\ x23 = 0
  \/ /\ part = "Daqulator" /\ Daqulator!Init
     /\ x7 = 0 /\ x8 = 0 /\ x9 = 0 /\ x10 = 0 /\ x11 = 0 /\ x12 = 0 /\ x13 = 0 /\ x14 = 0 /\ x15 = 0 /\ x16 = 0
     /\ x17 = 0 /\ x18 = 0 /\ x19 = 0 /\ x20 = 0 /\ x21 = 0 /\ x22 = 0 /\ x23 = 0
  \/ /\ part = "DaqsitterLive" /\ DaqsitterLive!Init
     /\ x10 = 0 /\ x11 = 0 /\ x12 = 0 /\ x13 = 0 /\ x14 = 0 /\ x15 = 0 /\ x16 = 0 /\ x17 = 0 /\ x18 = 0 /\ x19 = 0
     /\ x20 = 0 /\ x21 = 0 /\ x22 = 0 /\ x23 = 0
DataNext ==
  \/ /\ part = "RestartedLive" /\ RestartedLive!Next
     /\ UNCHANGED <<part, x11, x12, x13, x14, x15, x16, x17, x18, x19, x20, x21, x22, x23>>
  \/ /\ part = "MergeSort" /\ MergeSort!Next
     /\ UNCHANGED <<part, x8, x9, x10, x11, x12, x13, x14, x15, x16, x17, x18, x19, x20, x21,
                       x22, x23>>
  \/ /\ part = "Daqulator" /\ Daqulator!Next
     /\ UNCHANGED <<part, x7, x8, x9, x10, x11, x12, x13, x14, x15, x16, x17, x18, x19, x20, x21,
                       x22, x23>>
  \/ /\ part = "DaqsitterLive" /\ DaqsitterLive!Next
     /\ UNCHANGED <<part, x10, x11, x12, x13, x14, x15, x16, x17, x18, x19, x20, x21, x22, x23>>

\* The logs, and the times and signals of the spills.
ServiceInit ==
  \/ /\ part = "IndexingLive" /\ IndexingLive!Init
     /\ x14 = 0 /\ x15 = 0 /\ x16 = 0 /\ x17 = 0 /\ x18 = 0 /\ x19 = 0 /\ x20 = 0 /\ x21 = 0 /\ x22 = 0 /\ x23 = 0
  \/ /\ part = "Watchdog" /\ Watchdog!Init
     /\ x21 = 0 /\ x22 = 0 /\ x23 = 0
  \/ /\ part = "WatchdogLive" /\ WatchdogLive!Init
     /\ x21 = 0 /\ x22 = 0 /\ x23 = 0
  \/ /\ part = "Roundtrip" /\ Roundtrip!Init
     /\ x11 = 0 /\ x12 = 0 /\ x13 = 0 /\ x14 = 0 /\ x15 = 0 /\ x16 = 0 /\ x17 = 0 /\ x18 = 0 /\ x19 = 0 /\ x20 = 0
     /\ x21 = 0 /\ x22 = 0 /\ x23 = 0
  \/ /\ part = "Times" /\ Times!Init
     /\ x3 = 0 /\ x4 = 0 /\ x5 = 0 /\ x6 = 0 /\ x7 = 0 /\ x8 = 0 /\ x9 = 0 /\ x10 = 0 /\ x11 = 0 /\ x12 = 0
     /\ x13 = 0 /\ x14 = 0 /\ x15 = 0 /\ x16 = 0 /\ x17 = 0 /\ x18 = 0 /\ x19 = 0 /\ x20 = 0 /\ x21 = 0 /\ x22 = 0
     /\ x23 = 0
  \/ /\ part = "SpillSignals" /\ SpillSignals!Init
     /\ x6 = 0 /\ x7 = 0 /\ x8 = 0 /\ x9 = 0 /\ x10 = 0 /\ x11 = 0 /\ x12 = 0 /\ x13 = 0 /\ x14 = 0 /\ x15 = 0
     /\ x16 = 0 /\ x17 = 0 /\ x18 = 0 /\ x19 = 0 /\ x20 = 0 /\ x21 = 0 /\ x22 = 0 /\ x23 = 0
ServiceNext ==
  \/ /\ part = "IndexingLive" /\ IndexingLive!Next
     /\ UNCHANGED <<part, x14, x15, x16, x17, x18, x19, x20, x21, x22, x23>>
  \/ /\ part = "Watchdog" /\ Watchdog!Next
     /\ UNCHANGED <<part, x21, x22, x23>>
  \/ /\ part = "WatchdogLive" /\ WatchdogLive!Next
     /\ UNCHANGED <<part, x21, x22, x23>>
  \/ /\ part = "Roundtrip" /\ Roundtrip!Next
     /\ UNCHANGED <<part, x11, x12, x13, x14, x15, x16, x17, x18, x19, x20, x21, x22, x23>>
  \/ /\ part = "Times" /\ Times!Next
     /\ UNCHANGED <<part, x3, x4, x5, x6, x7, x8, x9, x10, x11, x12, x13, x14, x15, x16, x17,
                       x18, x19, x20, x21, x22, x23>>
  \/ /\ part = "SpillSignals" /\ SpillSignals!Next
     /\ UNCHANGED <<part, x6, x7, x8, x9, x10, x11, x12, x13, x14, x15, x16, x17, x18, x19, x20,
                       x21, x22, x23>>

Init == part \in Parts /\ (BaseInit \/ CoreInit \/ ProcessInit \/ ControlInit \/ DataInit \/ ServiceInit)
Next == BaseNext \/ CoreNext \/ ProcessNext \/ ControlNext \/ DataNext \/ ServiceNext
Spec == Init /\ [][Next]_allVars

\* The fairness of each component (see its FairSpec).
FairSpec ==
  /\ Spec
  /\ SF_(ShutdownLive!vars)(part = "ShutdownLive" /\ ShutdownLive!Bus)
  /\ WF_(ShutdownLive!vars)(part = "ShutdownLive" /\ ShutdownLive!Main)
  /\ WF_(ShutdownLive!vars)(part = "ShutdownLive" /\ ShutdownLive!Ends("d1"))
  /\ WF_(ClbControllerLive!vars)(part = "ClbControllerLive" /\ ClbControllerLive!Step)
  /\ WF_(MsgProcessorLive!vars)(part = "MsgProcessorLive" /\ MsgProcessorLive!ProcessCommand)
  /\ WF_(DaqControlLive!vars)(part = "DaqControlLive" /\ DaqControlLive!StateUpdate)
  /\ WF_(DaqControlLive!vars)(part = "DaqControlLive" /\ DaqControlLive!CommandGoesOn)
  /\ \A i \in 1 .. 2 : WF_(DaqControlLive!vars)(part = "DaqControlLive" /\ i \in DOMAIN x3 /\ DaqControlLive!Works(i))
  /\ WF_(DaqsitterLive!vars)(part = "DaqsitterLive" /\ DaqsitterLive!Handle)
  /\ SF_(DaqsitterLive!vars)(part = "DaqsitterLive" /\ DaqsitterLive!Deliver)
  /\ WF_(RestartedLive!vars)(part = "RestartedLive" /\ RestartedLive!Command)
  /\ WF_(RestartedLive!vars)(part = "RestartedLive" /\ RestartedLive!Complete)
  /\ WF_(RestartedLive!vars)(part = "RestartedLive" /\ RestartedLive!Abort)
  /\ WF_(RestartedLive!vars)(part = "RestartedLive" /\ RestartedLive!ReadMode)
  /\ WF_(RestartedLive!vars)(part = "RestartedLive" /\ RestartedLive!Finish)
  /\ \A t \in {1, 2} : WF_(IndexingLive!vars)(part = "IndexingLive" /\ IndexingLive!Take(t))
  /\ \A t \in {1, 2} : WF_(IndexingLive!vars)(part = "IndexingLive" /\ IndexingLive!Index(t))
  /\ WF_(BadgerboardLive!vars)(part = "BadgerboardLive" /\ BadgerboardLive!Run)
  /\ WF_(BadgerboardLive!vars)(part = "BadgerboardLive" /\ BadgerboardLive!Works)
  /\ WF_(BadgerboardLive!vars)(part = "BadgerboardLive" /\ BadgerboardLive!Answers)
  /\ WF_(WatchdogLive!vars)(part = "WatchdogLive" /\ WatchdogLive!Forwarder)
  /\ WF_(WatchdogLive!vars)(part = "WatchdogLive" /\ WatchdogLive!Receiver)
  /\ WF_(WatchdogLive!vars)(part = "WatchdogLive" /\ WatchdogLive!Reporter)
  /\ WF_(WatchdogLive!vars)(part = "WatchdogLive" /\ WatchdogLive!NextPeriod)
  /\ WF_(WatchdogLive!vars)(part = "WatchdogLive" /\ WatchdogLive!Checker)
  /\ WF_(WatchdogLive!vars)(part = "WatchdogLive" /\ WatchdogLive!Interrupted /\ WatchdogLive!ChildExits /\ WatchdogLive!ForwarderOnly)
  /\ WF_(AppMainLive!vars)(part = "AppMainLive" /\ AppMainLive!StatusThread)
  /\ WF_(AppMainLive!vars)(part = "AppMainLive" /\ AppMainLive!CommThread)
  /\ WF_(AppMainLive!vars)(part = "AppMainLive" /\ AppMainLive!Others)
  /\ WF_(SystemLive!vars)(part = "SystemLive" /\ SystemLive!Goes)
  /\ \A a \in {"Daqonite", "Daqontrol", "Daqsitter"} : WF_(SystemLive!vars)(part = "SystemLive" /\ (SystemLive!Hear(a) \/ SystemLive!Report(a)))

(* --- properties --------------------------------------------------------- *)

\* Everything has its type, in every component.
TypeOK ==
  /\ part = "Shutdown" => Shutdown!TypeOK
  /\ part = "Interrupt" => Interrupt!TypeOK
  /\ part = "ClbController" => ClbController!TypeOK
  /\ part = "MsgProcessor" => MsgProcessor!TypeOK
  /\ part = "DaqControl" => Daq(DaqConfigs, DaqCommands, DaqTimes, DaqFailures)!TypeOK
  /\ part = "Reconfigured" => Daq(AgainConfigs, AgainCommands, AgainTimes, AgainFailures)!TypeOK
  /\ part = "DaqConfig" => DaqConfig!TypeOK
  /\ part = "MsgCodec" => MsgCodec!TypeOK
  /\ part = "ClbVars" => ClbVars!TypeOK
  /\ part = "MsgBuilder" => MsgBuilder!TypeOK
  /\ part = "Daqulator" => Daqulator!TypeOK
  /\ part = "Daqsitter" => Daqsitter!TypeOK
  /\ part = "ClbSequence" => Numbering(SlicePlanes, SliceNumbers, SliceBytes, TRUE)!TypeOK
  /\ part = "BbbSequence" => Numbering(CountPlanes, CountNumbers, CountBytes, FALSE)!TypeOK
  /\ part = "LossySequence" => LossySequence!TypeOK
  /\ part = "HitReceiver" => HitReceiver!TypeOK
  /\ part = "Restarted" => Restarted!TypeOK
  /\ part = "LogRate" => LogRate!TypeOK
  /\ part = "Indexing" => Indexing!TypeOK
  /\ part = "Badgerboard" => Badgerboard!TypeOK
  /\ part = "RunNumber" => RunNumber!TypeOK
  /\ part = "MergeSort" => MergeSort!TypeOK
  /\ part = "Watchdog" => Watchdog!TypeOK
  /\ part = "NumiWatcher" => NumiWatcher!TypeOK
  /\ part = "Roundtrip" => Roundtrip!TypeOK
  /\ part = "Times" => Times!TypeOK
  /\ part = "AppMain" => App(AppCommands, AppFailures, AppSignals, AppQueue)!TypeOK
  /\ part = "AppInterrupt" => App(EndCommands, EndFailures, EndSignals, EndQueue)!TypeOK
  /\ part = "System" => System!TypeOK
  /\ part = "Relay" => Power(PowerPrograms, PowerJobs, PowerDead)!TypeOK
  /\ part = "RelayPair" => Power(PairPrograms, PairJobs, PairDead)!TypeOK
  /\ part = "SpillRpc" => SpillRpc!TypeOK
  /\ part = "SpillSignals" => SpillSignals!TypeOK
  /\ part = "Reporter" => Reporter!TypeOK

\* msg_writer.cc and msg_reader.cc: values come back as they were written, but for a byte below zero
\* and two bytes of the upper half, which come back with the other sign; clb_controller.cc and
\* msg_builder.cc: variables and whole messages come back as they were; packet_generator.cc: the slices
\* of the simulation are whole; merge_sorter.cc: the hits of each plane of a spill, of the first slot
\* that has it, are in the spill's range of the file, once and sorted by their keys; daq_config.cc: of
\* the lines that mean to set something the last one counts, and nothing else.
WrittenIsRead ==
  /\ part = "MsgCodec" => MsgCodec!RoundTrip
  /\ part = "ClbVars" => ClbVars!Understood
  /\ part = "ClbVars" => ClbVars!ReadsWhatIsHeld
  /\ part = "ClbVars" => ClbVars!TableIsSound
  /\ part = "MsgBuilder" => MsgBuilder!ReplyRecognised
  /\ part = "SpillSignals" => SpillSignals!TypesAgree
  /\ part = "Daqulator" => Daqulator!WholeSlices
  /\ part = "MergeSort" => MergeSort!HitsWrittenSorted
  /\ part = "DaqConfig" => DaqConfig!LastLineWins
  /\ part = "DaqConfig" => DaqConfig!LastNumberWins

\* msg_builder.cc: what is not one whole reply is refused, and leaves at most a packet id and a time
\* behind, and those only when it is refused for its number of messages.
OddRefused ==
  [][/\ (part = "MsgBuilder") => MsgBuilder!RefusesOdd]_allVars

\* TimingUtilities.cpp, timestamp.cc and measure_spill_roundtrip.py: each leap second is counted by
\* as many seconds too early as there are others before it, and every second comes back from NOvA time
\* but the one before the third; times are subtracted and compared as the times that they are; the
\* latest of the times polled is there until a cleaning finds it old, and from then on every spill is
\* refused; trigger_predictor.cc: what is learned is what most of the last intervals were.
TimesRight ==
  /\ part = "Times" => Times!SecondsReturn
  /\ part = "Times" => Times!ConvertedNear
  /\ part = "Times" => Times!SubtractsExactly
  /\ part = "Times" => Times!StampsAreTimes
  /\ part = "Roundtrip" => Roundtrip!LatestKept
  /\ part = "SpillSignals" => SpillSignals!MedianRobust
  /\ part = "SpillSignals" => SpillSignals!Balanced

\* bus: what is queued while it is wanted is sent; once notified, and not between its test and its
\* wait, it is joined; so is the thread of the heartbeats.
BusJoins ==
  /\ ((part = "ShutdownLive" /\ ShutdownLive!Queued) ~> (part = "ShutdownLive" /\ ~ShutdownLive!Queued))
  /\ ((part = "ShutdownLive" /\ ShutdownLive!Joining) ~> (part = "ShutdownLive" /\ ShutdownLive!Joined))
  /\ ((part = "BadgerboardLive" /\ BadgerboardLive!Stopping) ~> (part = "BadgerboardLive" /\ BadgerboardLive!Joined))
  /\ ((part = "AppMainLive" /\ AppMainLive!Ending) ~> (part = "AppMainLive" /\ AppMainLive!Ended))

\* clb_controller.cc: a configuration that meets no failure recovers from what is left of others.
ConfigureRecovers ==
  ((part = "ClbControllerLive" /\ ClbControllerLive!Unhindered) ~> (part = "ClbControllerLive" /\ ClbControllerLive!Recovered))

\* spill_forwarder_watchdog.py: a spill server that has ended is started again unless the watchdog
\* is stopped, or an exception that is not caught has ended the thread that would start it; once
\* interrupted, every thread of it ends.
WatchdogRestarts ==
  /\ ((part = "WatchdogLive" /\ WatchdogLive!Missing) ~> (part = "WatchdogLive" /\ WatchdogLive!Remedied))
  /\ ((part = "WatchdogLive" /\ WatchdogLive!Interrupted) ~> (part = "WatchdogLive" /\ WatchdogLive!AllDone))

\* msg_processor.cc and badgerboard_heartbeat.cc: every call returns, however often the CLB is
\* silent; every operation of a BeagleBone ends or throws, as long as requests are answered.
CallReturns ==
  /\ ((part = "MsgProcessorLive" /\ MsgProcessorLive!Calling) ~> (part = "MsgProcessorLive" /\ ~MsgProcessorLive!Calling))
  /\ ((part = "BadgerboardLive" /\ BadgerboardLive!Operating) ~> (part = "BadgerboardLive" /\ ~BadgerboardLive!Operating))

\* daq_control.cc: the mode follows the target in the end, or nobody is left; states.cc: when no message
\* is lost, every transition comes to its end.
Settles ==
  /\ <>[](part = "DaqControlLive" => DaqControlLive!Settled)
  /\ ((part = "SystemLive" /\ SystemLive!InTransition) ~> (part = "SystemLive" /\ ~SystemLive!InTransition))

\* monitoring_handler.cc and basic_hit_receiver.cc: a synchronised packet is recorded or the process
\* ends; once data is stopped for good, requests end; bus_publisher.cc: once a run goes on, or none
\* does, the fsm process hears so.
HandledInTheEnd ==
  /\ \A d \in MonFew : ((part = "DaqsitterLive" /\ DaqsitterLive!Awaited(d)) ~> (part = "DaqsitterLive" /\ DaqsitterLive!Handled(d)))
  /\ <>[](part = "RestartedLive" /\ RestartedLive!DataStopped) => <>[](part = "RestartedLive" /\ RestartedLive!Quiet)
  /\ <>[](part = "AppMainLive" /\ AppMainLive!RunLasts) => <>[](part = "AppMainLive" /\ AppMainLive!RunHeard)
  /\ <>[](part = "AppMainLive" /\ AppMainLive!NoRunLasts) => <>[](part = "AppMainLive" /\ AppMainLive!NoRunHeard)

\* elastic_interface.cc: every document has its attempt unless the process stops.
EveryDocumentTried ==
  \A i \in 1 .. 2 : ((part = "IndexingLive" /\ IndexingLive!Posted(i)) ~> (part = "IndexingLive" /\ IndexingLive!DealtWith(i)))
=============================================================================
