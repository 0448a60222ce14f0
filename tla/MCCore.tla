------------------------------- MODULE MCCore --------------------------------
(* More such components, those among them whose proofs are modules of their    *)
(* own, beside those of MCBase and in the same way.                            *)
EXTENDS MCBase

CONSTANTS ShutdownDispatchers, ShutdownCommands, ShutdownFailures, \* of Shutdown
          InterruptDispatchers, InterruptCommands, InterruptFailures, InterruptSignals,
          MsgIds, MsgAttempts, MsgCommands, MsgInFlight, MsgOdd, \* of MsgProcessor
          ClbChannels, ClbPosts, ClbFailures, ClbRestarts, \* of ClbController
          HitPorts, HitConfigs, HitStarts, \* of HitReceiver
          RestartedPorts, RestartedConfigs, RestartedStarts, \* of Restarted
          LogThreads, LogTime, LogPosts, LogLimit, LogSecond, \* of LogRate
          IndexThreads, IndexTime, IndexPosts, IndexRuns, IndexLimit, IndexSecond, \* of Indexing
          PowerPrograms, PowerJobs, PowerDead, PairPrograms, PairJobs, PairDead, \* of Relay
          PowerBefore, PowerGreeting

\* Two dispatching threads, two commands and an exception of the bus.
Shutdown == INSTANCE ShutdownProofs
  WITH Dispatcher <- ShutdownDispatchers, None <- "none", MaxCommands <- ShutdownCommands,
       MaxFailures <- ShutdownFailures, MaxSignals <- 0, running <- x1, mainAt <- x2,
       busRunning <- x3, busAt <- x4, queue <- x5, queueOwner <- x6, sent <- x7, published <- x8,
       ended <- x9, at <- x10, told <- x11, dispatcher <- x12, signalOn <- x13, signalAt <- x14,
       heldBefore <- x15, commands <- x16, failures <- x17, signals <- x18

\* One dispatching thread and an interrupt on any thread.
Interrupt == INSTANCE ShutdownProofs
  WITH Dispatcher <- InterruptDispatchers, None <- "none", MaxCommands <- InterruptCommands,
       MaxFailures <- InterruptFailures, MaxSignals <- InterruptSignals, running <- x1,
       mainAt <- x2, busRunning <- x3, busAt <- x4, queue <- x5, queueOwner <- x6, sent <- x7,
       published <- x8, ended <- x9, at <- x10, told <- x11, dispatcher <- x12, signalOn <- x13,
       signalAt <- x14, heldBefore <- x15, commands <- x16, failures <- x17, signals <- x18

\* Two calls of two attempts, two commands on their way, a datagram that is no reply.
MsgProcessor == INSTANCE MsgProcessor
  WITH None <- NoValue, IdModulus <- MsgIds, MAX_ATTEMPTS <- MsgAttempts,
       MaxCommands <- MsgCommands, MaxInFlight <- MsgInFlight, MaxOdd <- MsgOdd, cmdId <- x1,
       call <- x2, at <- x3, attempt <- x4, packetId <- x5, reading <- x6, ok <- x7, toClb <- x8,
       inbox <- x9, executed <- x10, unacked <- x11, inTime <- x12, odd <- x13

\* Two operations, a failure and a power cycle.
ClbController == INSTANCE ClbControllerProofs
  WITH Channel <- ClbChannels, MaxPosts <- ClbPosts, MaxFailures <- ClbFailures,
       MaxRestarts <- ClbRestarts, config <- x1, wrongId <- x2, state <- x3, working <- x4,
       clbState <- x5, op <- x6, todo <- x7, clb <- x8, posts <- x9, failures <- x10,
       restarts <- x11

\* Two receivers.
HitReceiver == INSTANCE HitReceiverProofs
  WITH Port <- HitPorts, MaxConfigs <- HitConfigs, MaxStarts <- HitStarts, generation <- x1,
       mode <- x2, requests <- x3, aborted <- x4, handler <- x5, command <- x6, phase <- x7,
       data_run <- x8, starts <- x9, mined <- x10

\* One receiver, configured and started twice.
Restarted == INSTANCE HitReceiverProofs
  WITH Port <- RestartedPorts, MaxConfigs <- RestartedConfigs, MaxStarts <- RestartedStarts,
       generation <- x1, mode <- x2, requests <- x3, aborted <- x4, handler <- x5, command <- x6,
       phase <- x7, data_run <- x8, starts <- x9, mined <- x10

\* One thread, four logs in four ticks, one of them a window.
LogRate == INSTANCE ElasticProofs
  WITH Thread <- LogThreads, Severities <- {"INFO", "DEBUG"}, Kinds <- {}, MaxTime <- LogTime,
       MaxPosts <- LogPosts, Runs <- {}, MAX_LOG_RATE <- LogLimit, MAX_ELASTIC_ATTEMPTS <- 1,
       es_enabled <- TRUE, es_min_severity <- "INFO", Second <- LogSecond, index_service <- x1,
       stopped <- x2, worker <- x3, now <- x4, log_counter <- x5, timer_start <- x6,
       pipeline <- x7, es <- x8, posts <- x9, run <- x10, passed <- x11, suppressed <- x12,
       tried <- x13

\* Two threads, three documents and a run.
Indexing == INSTANCE ElasticProofs
  WITH Thread <- IndexThreads, Severities <- {"INFO"}, Kinds <- {"state", "pom"}, MaxTime <- IndexTime,
       MaxPosts <- IndexPosts, Runs <- IndexRuns, MAX_LOG_RATE <- IndexLimit,
       MAX_ELASTIC_ATTEMPTS <- 1, es_enabled <- TRUE, es_min_severity <- "INFO",
       Second <- IndexSecond, index_service <- x1, stopped <- x2, worker <- x3, now <- x4,
       log_counter <- x5, timer_start <- x6, pipeline <- x7, es <- x8, posts <- x9, run <- x10,
       passed <- x11, suppressed <- x12, tried <- x13

\* The CLBs of a box, a box or one output, by one program, and a board may stop answering; two
\* programs at once, for two boxes.
Power(programs, jobs, deaths) == INSTANCE Relay
  WITH Programs <- programs, JobSets <- jobs, Before <- PowerBefore, Greeting <- PowerGreeting,
       MaxDead <- deaths, job <- x1, at <- x2, pc <- x3, linked <- x4, stream <- x5, inbox <- x6,
       errors <- x7, executed <- x8, out <- x9, dead <- x10

CoreInit ==
  \/ /\ part = "Shutdown" /\ Shutdown!Init
     /\ x19 = 0 /\ x20 = 0 /\ x21 = 0 /\ x22 = 0 /\ x23 = 0
  \/ /\ part = "Interrupt" /\ Interrupt!Init
     /\ x19 = 0 /\ x20 = 0 /\ x21 = 0 /\ x22 = 0 /\ x23 = 0
  \/ /\ part = "MsgProcessor" /\ MsgProcessor!Init
     /\ x14 = 0 /\ x15 = 0 /\ x16 = 0 /\ x17 = 0 /\ x18 = 0 /\ x19 = 0 /\ x20 = 0 /\ x21 = 0 /\ x22 = 0
     /\ x23 = 0
  \/ /\ part = "ClbController" /\ ClbController!Init
     /\ x12 = 0 /\ x13 = 0 /\ x14 = 0 /\ x15 = 0 /\ x16 = 0 /\ x17 = 0 /\ x18 = 0 /\ x19 = 0
     /\ x20 = 0 /\ x21 = 0
     /\ x22 = 0 /\ x23 = 0
  \/ /\ part = "HitReceiver" /\ HitReceiver!Init
     /\ x11 = 0 /\ x12 = 0 /\ x13 = 0 /\ x14 = 0 /\ x15 = 0 /\ x16 = 0 /\ x17 = 0 /\ x18 = 0
     /\ x19 = 0 /\ x20 = 0
     /\ x21 = 0 /\ x22 = 0 /\ x23 = 0
  \/ /\ part = "Restarted" /\ Restarted!Init
     /\ x11 = 0 /\ x12 = 0 /\ x13 = 0 /\ x14 = 0 /\ x15 = 0 /\ x16 = 0 /\ x17 = 0 /\ x18 = 0
     /\ x19 = 0 /\ x20 = 0
     /\ x21 = 0 /\ x22 = 0 /\ x23 = 0
  \/ /\ part = "LogRate" /\ LogRate!Init
     /\ x14 = 0 /\ x15 = 0 /\ x16 = 0 /\ x17 = 0 /\ x18 = 0 /\ x19 = 0 /\ x20 = 0 /\ x21 = 0
     /\ x22 = 0 /\ x23 = 0
  \/ /\ part = "Indexing" /\ Indexing!Init
     /\ x14 = 0 /\ x15 = 0 /\ x16 = 0 /\ x17 = 0 /\ x18 = 0 /\ x19 = 0 /\ x20 = 0 /\ x21 = 0
     /\ x22 = 0 /\ x23 = 0
  \/ /\ part = "Relay" /\ Power(PowerPrograms, PowerJobs, PowerDead)!Init
     /\ x11 = 0 /\ x12 = 0 /\ x13 = 0 /\ x14 = 0 /\ x15 = 0 /\ x16 = 0 /\ x17 = 0 /\ x18 = 0
     /\ x19 = 0 /\ x20 = 0 /\ x21 = 0 /\ x22 = 0 /\ x23 = 0
  \/ /\ part = "RelayPair" /\ Power(PairPrograms, PairJobs, PairDead)!Init
     /\ x11 = 0 /\ x12 = 0 /\ x13 = 0 /\ x14 = 0 /\ x15 = 0 /\ x16 = 0 /\ x17 = 0 /\ x18 = 0
     /\ x19 = 0 /\ x20 = 0 /\ x21 = 0 /\ x22 = 0 /\ x23 = 0
CoreNext ==
  \/ /\ part = "Shutdown" /\ Shutdown!Next
     /\ UNCHANGED <<part, x19, x20, x21, x22, x23>>
  \/ /\ part = "Interrupt" /\ Interrupt!Next
     /\ UNCHANGED <<part, x19, x20, x21, x22, x23>>
  \/ /\ part = "MsgProcessor" /\ MsgProcessor!Next
     /\ UNCHANGED <<part, x14, x15, x16, x17, x18, x19, x20, x21, x22, x23>>
  \/ /\ part = "ClbController" /\ ClbController!Next
     /\ UNCHANGED <<part, x12, x13, x14, x15, x16, x17, x18, x19, x20, x21, x22, x23>>
  \/ /\ part = "HitReceiver" /\ HitReceiver!Next
     /\ UNCHANGED <<part, x11, x12, x13, x14, x15, x16, x17, x18, x19, x20, x21, x22, x23>>
  \/ /\ part = "Restarted" /\ Restarted!Next
     /\ UNCHANGED <<part, x11, x12, x13, x14, x15, x16, x17, x18, x19, x20, x21, x22, x23>>
  \/ /\ part = "LogRate" /\ LogRate!Next
     /\ UNCHANGED <<part, x14, x15, x16, x17, x18, x19, x20, x21, x22, x23>>
  \/ /\ part = "Indexing" /\ Indexing!Next
     /\ UNCHANGED <<part, x14, x15, x16, x17, x18, x19, x20, x21, x22, x23>>
  \/ /\ part = "Relay" /\ Power(PowerPrograms, PowerJobs, PowerDead)!Next
     /\ UNCHANGED <<part, x11, x12, x13, x14, x15, x16, x17, x18, x19, x20, x21, x22, x23>>
  \/ /\ part = "RelayPair" /\ Power(PairPrograms, PairJobs, PairDead)!Next
     /\ UNCHANGED <<part, x11, x12, x13, x14, x15, x16, x17, x18, x19, x20, x21, x22, x23>>
CoreSpec == CoreInit /\ [][CoreNext]_allVars

(* --- properties --------------------------------------------------------- *)
\* publisher.h: every message queued has been sent or is still queued, in its order and once,
\* whatever the bus threw; nothing follows Exit; and the mutexes are held by the threads whose
\* steps say so, the interrupt handler's included.
NothingLost ==
  /\ part = "Shutdown" => Shutdown!NothingLost
  /\ part = "Shutdown" => Shutdown!HoldersAgree
  /\ part = "Interrupt" => Interrupt!NothingLost
  /\ part = "Interrupt" => Interrupt!HoldersAgree
  /\ part = "Shutdown" => Shutdown!ExitIsLast

\* clb_controller.cc: a CLB that is READY or further holds what its controller was configured
\* with, and no channel with the wrong PMT is on, whatever failed and whenever its power went.
ReadyIsSet ==
  /\ part = "ClbController" => ClbController!ReadyIsSet
  /\ part = "ClbController" => ClbController!WrongPmtStaysOff

\* msg_processor.cc: a call returns TRUE only for a command that the CLB has executed, over a
\* network that loses, delays and reorders.
AnsweredIsExecuted == part = "MsgProcessor" => MsgProcessor!AnsweredIsExecuted

\* basic_hit_receiver.cc: a receiver that is not idle has a request outstanding or a handler that
\* will make one, and mines only while there is a run.
NeverDeaf ==
  /\ part = "HitReceiver" => HitReceiver!NeverDeaf
  /\ part = "HitReceiver" => HitReceiver!MinedInRun
  /\ part = "Restarted" => Restarted!NeverDeaf
  /\ part = "Restarted" => Restarted!MinedInRun

\* elastic_interface.cc: no second lets through more than two windows' worth of logs, and none is
\* suppressed unless a window's worth went through in the second before.
RateBounded ==
  /\ part = "LogRate" => LogRate!RateBounded
  /\ part = "LogRate" => LogRate!SuppressedOnlyAbove

\* elastic_interface.h: the times of the documents are in the order they were posted, but for the
\* measurements, which have their packets'; and with one attempt none is there twice.
OrderMaintained ==
  /\ part = "Indexing" => Indexing!OrderMaintained
  /\ part = "Indexing" => Indexing!AtMostOnce

\* power.cc: a run that logs no error has switched all it was to switch, and whatever is logged or
\* lost, no other box's outputs.
AsAsked ==
  /\ part = "Relay" => Power(PowerPrograms, PowerJobs, PowerDead)!SilentIsDone
  /\ part = "Relay" => Power(PowerPrograms, PowerJobs, PowerDead)!AsAsked
  /\ part = "Relay" => Power(PowerPrograms, PowerJobs, PowerDead)!OthersUntouched
  /\ part = "RelayPair" => Power(PairPrograms, PairJobs, PairDead)!SilentIsDone
  /\ part = "RelayPair" => Power(PairPrograms, PairJobs, PairDead)!OthersUntouched
=============================================================================
