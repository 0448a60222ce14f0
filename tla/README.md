# A specification of chips-daq

TLA+ models of the data acquisition system of the CHIPS detector, with TLC
configurations that check them on small instances and proofs of its core for
every instance.  Paths are relative to `src/`; a `src/` directory of a component
is left out of longer paths where it is unique.

| module | what it is |
|---|---|
| `ControlProtocol` | abstract: the control messages an application may rely on |
| `ExperimentFsm`, `ExperimentFsmProofs`, `MCExperimentFsm` | the `fsm` process, its observers, its uplink, its operators; theorems; instances |
| `SpillLife` | abstract: the life of a spill |
| `SpillPipeline`, `SpillPipelineProofs`, `MCSpillPipeline` | the data path of `daqonite`: receivers, schedule, serialiser, handler; theorems; instances |
| `System` | `fsm` and the three applications over both kinds of buses |
| `Shutdown`, `Reporter` | how `fsm` ends; how it reports |
| `AppMain` | the five threads of an application process |
| `DaqControl`, `ClbController`, `MsgProcessor` | DAQontrol: its commands and threads; one CLB; one command to it |
| `MsgBuilder`, `MsgCodec`, `ClbVars`, `ProcVars` | what is in a message to a CLB: headers, values, variables, their table |
| `Badgerboard` | the controller of a BeagleBone |
| `DaqConfig` | the detector's configuration |
| `HitReceiver`, `HitSequence`, `MergeSort`, `RunNumber` | `daqonite`: requests and modes, sequence numbers, a spill's way to the file, numbers of runs |
| `ClbPackets`, `Daqsitter`, `Daqulator` | packets of a CLB; who records its monitoring data; who simulates it |
| `Elastic` | logs and measurements |
| `Times` | times of three kinds |
| `SpillSignals`, `SpillRpc` | signals of the accelerator; their way over XML-RPC |
| `Watchdog`, `Roundtrip`, `NumiWatcher` | the three Python programs |
| `Relay` | the power program |
| `ShutdownProofs`, `ClbControllerProofs`, `HitReceiverProofs`, `ElasticProofs` | theorems about the module each is named for |
| `MCBase`, `MCBaseProofs`, `MCCore`, `MCCoreProofs` | the instances whose invariants are proved; those theorems, for the specification TLC runs |
| `MCComponents`, `MCInputs` | the instances of all modules from `System` on, and their larger inputs |

## 1. The system

An operator runs `ops_cmd`, which sends one command to the process `fsm` and
waits for ACK or NAK.  `fsm` publishes control messages on the *control bus*
to three applications and listens to a *status bus* of each: `daqonite` takes
the data, `daqontrol` configures and drives the detector (CLB and
Badgerboard boxes), `daqsitter` records monitoring values.  All buses are nng
sockets: request/reply for the operator, publish/subscribe for the rest, so a
message published while nobody listens is lost.

| component | state | operations | talks to |
|---|---|---|---|
| experiment state machine, `fsm/src/experiment/states.cc` | one state of twelve | six operator commands, `StateUpdate`, `KillSignal` | publishes control messages from its transitions |
| state machines of the bus and the applications, `fsm/src/*/states.cc` | one state each | connected, disconnected, announcement heard | every state entered raises a `StateUpdate` |
| observers, `fsm/src/*/observer.cc` | a socket | dial, hear, lose (2 s of silence) | dispatch events, one thread each |
| uplink, `fsm/src/ops_uplink.cc` | message in hand | receive, dispatch, acknowledge | reads the experiment's state without the dispatch mutex |
| publishers and receivers, `util/` | message queue, `running_` | publish, notifyJoin, join, reconnect | condition variables between threads |
| `DAQHandler`, `daqonite/src/daq_handler.cc` | the current run | Config, StartData, StopData, StartRun, StopRun, Exit | starts and joins the threads below |
| hit receivers, `daqonite/src/*_hit_receiver.cc` | mode, sequence numbers | one datagram at a time each | latest timestamp and slots of the schedule |
| spill schedule, `daqonite/src/spill_schedule.cc` | spills open for writing, closed spills | open, find, close | writes the serialiser's queue |
| spill schedulers, `spill_scheduling/` | period, trigger history | append new spills | called by the schedule's thread |
| run serialiser, `daqonite/src/data_run_serialiser.cc` | queue of closed spills | pop, sort, write, delete | the run file |
| run, `daqonite/src/data_run.cc` | number, type, times | start, stop | the run-number file |
| DAQontrol, `daqontrol/src/daq_control.cc` | controllers, current and target state | Config, StartData, StopData, poll | one thread per controller |
| CLB controller and message processor | state of the board, message number | configure, start, stop; send, retry | UDP that loses and delays |
| Badgerboard, `bbb/src` | connection state, last heartbeat | wait for a change; heartbeat | nng |
| process of an application, `util/src/*_receiver.cc`, `bus_publisher.cc` | five threads, status queue | command, signal, status | its handler |
| reporter, `fsm/src/reporter.cc` | - | asks every machine where it is | elastic |
| DAQsitter, `daqsitter/src/monitoring_handler.cc` | receive buffer, one record, mode | packet, StartData, StopData | ROOT file, elastic |
| DAQulator, `daqulator/src/packet_generator.cc` | headers of both streams | one time slice at a time | UDP |
| elastic interface, `util/src/elastic_interface.cc` | posted work, log rate, run | log, measure, set the run | elasticsearch |
| configuration and times, `util/src/daq_config.cc`, `timestamp.cc` | controllers, channels; - | read a line; convert, compare | files |
| spill server and signals, `spill_server/`, `spill_scheduling/` | connection, intervals learned | Spill | XML-RPC |
| watchdogs, `spill_watchdogs/`, `numi_update_watcher/` | times of signals, of the switch, last message | watch, restart, poll, index | SSH, XML-RPC, HTTP |
| relay, `relay/src` | connections to relay boards | switch a box, its CLBs, one output | TCP |

What makes it hard:

* *Interleaving.*  Six threads of `fsm` dispatch events under one recursive
  mutex, but the uplink and the reporter read the states without it.  In
  `daqonite` receivers on eight threads, the scheduling thread, the serialiser
  and the handler share spills as raw pointers.
* *Ordering.*  Some control messages are published before a transition and
  some after the nested update that may already have undone it.
* *Failure.*  Applications and buses come and go; the output file may not
  open; boards do not answer and are dropped for good.
* *Termination.*  Threads are stopped with a flag and a condition variable,
  notified without its mutex.
* *Bounds.*  The serialiser's queue, the number of spills scheduled ahead,
  sequence numbers of 32 bits and message numbers of six.

What makes each component correct is said in sections 2 to 4 and above each
property of its module.  All hazards, each at its line, are in
`PROJECT.json`.

## 2. The experiment (`ExperimentFsm`)

**State.**  `exp`, `bus` and `app` are the states of the five state machines,
`last` the control message published last.  `want` and `reply` belong to the
operators; `serving` and `at` say whose message the uplink handles and which
comparison of `handleMessage` comes next.  `able` is a history variable: the
command in hand was one that the experiment takes.

**Actions.**  `Global::sendEvent` holds a recursive mutex while an event and
all `StateUpdate`s raised by the entry functions run, so one event is one
step.  `React` is what the states do with one `StateUpdate`, `Settle` the chain
of them: entering a state raises another, at most two have an effect.
`Target` is what they do with a command.  `Dispatch` publishes the message
of the state entered.  Whether the code publishes before the transition (Config,
StartRun) or in the entry, after the nested update (StartData, StopData,
StopRun, Exit), both happen under the mutex, and in both cases the message is
published even when the update leads straight to `Error`.  The uplink's
answer is *not* under the mutex: each `is_in_state` is a step, `Compare`, and
other threads run in between.  Exit is answered first and dispatched after
(`DispatchExit`), whatever the answer was.  `Kill` is SIGINT.  The observers
are `Dial`, `Hear` and `Lose` for each application in any order: what an
application announces is arbitrary, so everything proved holds whatever the
applications do.

**Left out.**  The payloads (file name, run type), errors of the uplink's own
socket, an operator who gives up, a message with an unknown discriminator
(answered NAK, changes nothing), the reporter (reads only), and what happens
after `terminate()`: the model lets the threads go on.

**Properties.**

* `StateFollowsMessage`: whoever has followed the control messages knows the
  state but for a failure.
* `TransitionSupervised`, `NoUpdateMissed`: the experiment is never left in a
  transition with the bus or an application lost, or with the goal reached.
* `PublishesInOrder`: the published messages implement `ControlProtocol`, the
  nesting of run in data taking in configuration.
* `FailureIsSilent`: after `Error` only Exit is published.
* `NakMeansFailure`: a NAK for a command that was taken means that the experiment
  failed or was killed; that it moved on between two reads is never mistaken
  for refusal.  This depends on the order of the comparisons in the code.
* `AckedExitStands`, `AckedExitHappens`: an acknowledged Exit is carried out.
* `UplinkServes`: the uplink never stays with one operator.

Two things the model makes visible are not errors of a stated intention: an
Exit answered NAK may still be executed when the state changes before it is
dispatched, and in `Configured`, `Started` and `Running` the experiment goes to
`Error` only when all three applications are wrong (the conditions are joined
with `&&`).

## 3. The data path (`SpillPipeline`)

**State.**  A spill is `unborn`, `live` or `deleted` (`mem`).  `start`,
`started`, `fresh`, `shut` and `hits` are its fields: its interval, whether a
receiver has touched it, whether the last touch is less than four seconds old,
which of its slots are closed for writing and which hold hits.  `current`,
`draft`, `closed`, `queue` and `taken` are the hands it can be in:
`current_schedule_`, the scheduling thread's `new_schedule`, `closed_spills_`,
the serialiser's queue and `current_spill`.  `approx` is
`last_approx_timestamp_`.  `sched` with `ending`, `scan`, `victim`, `todo`,
`serial`, `phase` and `job[r]` are the places of the threads.

| thread | actions, in the order of the code |
|---|---|
| handler | `StartRun`, `StartReceiver(r)`, then `StopRun`, `StopReceiver(r)`, `StopSchedule`, `StopSerialiser`, `RunStopped` |
| receiver `r` | `Datagram`, `Bump`, `FindSlot`, `CheckSlot`, `LockSlot`, `WriteHits` |
| scheduling | `CopySchedule`; per spill `Examine`, `CloseSlot`, `SlotsClosed`, `PassMutex`, `SpillClosed`; `ScanDone`, `Push`, `PushDone`, `AddSpill`, `ScheduleDone`, `Swap` |
| serialiser | `OpenFile`, then `Pop`, `WriteSpill` or `PopEmpty`, `TestRunning` |

A step is what the code does under one lock or with one atomic access.  Inside
the loop the order of the scheduling thread is examine, push, add, swap; after
the loop it is close all, swap, push until the queue has taken everything.

**Memory.**  Spills are handed about as raw pointers.  The pointer in `job[r]`
outlives the lock of the schedule under which it was found; what is read
through a pointer to a deleted spill is arbitrary (both outcomes of every
look).  If the access crashes the process nothing more happens, which the
model contains; a write into memory that was given out again is not modelled
(deleted spills are not reused).

**Time.**  Data time is counted in small units: `Duration` is the length of a
spill, `Maturation` the four seconds by which the end of a spill must lie behind
the latest data.  Wall time appears only in "last updated less than four
seconds ago": the set `fresh`, left by the action `Mature`.  A datagram has one
timestamp (the code uses that of its first hit for `approx` and the base time
to find the spill).  Sleeps are left out.

**Abstracted.**  Lists are sets where only membership counts: the order of
`closed_spills_`, of the queue and of the scan is arbitrary, which contains
the code's order.  The hits of a receiver in a spill are one element of
`hits`.  `updateSchedule` is that of the periodic scheduler.  `running_` of the
two threads is a function of `phase`.  A StartRun during a run is StopRun and
then StartRun, as in the code.  The modes of the receivers are in `HitReceiver`, the
infinite and the TDU scheduler in `SpillSignals`, what the serialiser makes of a
spill in `MergeSort`.

**Properties.**

* `OneOwner`: every live spill is in exactly one pair of hands, in every state;
  none leaks and none is deleted twice.  `startRun` clears its lists without
  deleting anything, which is right only because of this.
* `ClosedIsQuiet`: nobody writes into a spill that was closed.  The serialiser
  reads the slots without their mutexes although
  `spill_data_slot.h:10` asks for them; this is why it may.
* `HitsKeptUntilFiled`: the pipeline implements `SpillLife`.
* `OpenSpillsDisjoint`: no timestamp belongs to two open spills, although
  `approx`, from which a first spill is placed, may go back.
* `RunStops`, `ClosedLeaves`, `StartedSpillCloses`: stopping a run
  terminates, closed spills leave, spills with data are closed.

## 4. The other components

Each module below has its variables, one action per operation or step of a
thread, its properties, and at its end (or among the properties, marked "does
not hold") the statements of docs and comments that the code does not keep.

**`System`** puts the Experiment of `ExperimentFsm` (`INSTANCE`; its `Target` and
`React`) and the three applications on the two ends of the buses.  `inbox[a]` are
the commands under way to `a`, `outbox[a]` its statuses, `linked` who is connected
to the control bus, `mode[a]` what `a` does; for DAQontrol also the `target`,
`resetting` and `empty` (nobody left to command).  `Operate` is an operator's command
that the Experiment takes, `Handle` an application doing what it is told,
`Build` and `StateUpdate` the two threads of DAQontrol.  Faults are a lost
command, a lost status, a restart of an application and controllers that all drop
out.  *`ReportedIsTrue`*: what the Experiment says is going on is going on, whatever
commands and statuses are lost; *`NeverAhead`*; *transitions end* when nothing
is lost.

**`Shutdown`** is the end of `fsm`: `running` and the condition variable of
`Global::waitUntilTerminated`, the publisher's thread with `queue` and its mutex
(`publisher.h`, `bus_master.cc`), dispatching threads under the recursive
mutex, and the SIGINT handler on top of whichever thread it interrupts.  A look
at a flag, a lock, a sleep and a wake-up are steps.  *`NothingLost`*: what was
published is what was sent and what is queued; *`ExitIsLast`*; *`HoldersAgree`*: who
holds each mutex is who its steps say; the bus thread *sends what is queued* and
*is joined* if it is not between its test and its wait.

**`Reporter`** asks machine by machine, `is_in_state` by `is_in_state`, while
events move the machines.  *`StillIsReported`*: a machine that does not move during a
report is reported as it is.

**`AppMain`** is a process of the kind of DAQonite: the main thread, which arms
the signals and joins in order, the command receiver (`command_receiver.cc`), the
signal thread (`signal_receiver.cc`), the status and the communication threads
of `bus_publisher.cc`, and the handler's steps (`Steps`) on whichever thread
received the command.  `crashed` is a use of a run that another thread has put
away.  *`RunClosedAtExit`* and *`OneHandler`*, unless interrupted; with fairness *the
process ends* and *the run's state is heard*.

**`DaqControl`** is `daq_control.cc`: the command thread (reset, build, configure,
start, stop, with its sleeps), the state thread (`Look`, `Poll`, `Judge`,
`Equal`), and each controller's thread.  `buf` and `count` are the memory and the
size of the vector of controllers: one that has been deleted may still be in use.  `SecondPasses` is time: it needs
that nothing quick is left to do.  *`PostedBefore`*: `Started` is announced only
after everyone who still counts was told to start; *`Settled`*: the mode follows the
target or nobody is left.  `overtaken` is a history variable: the controllers were
deleted since the update began.  `PostedBefore` excludes such an update, which still
holds the state `Started` of controllers that have been deleted and says so of those that
replaced them (`daq_control.cc:36`): four commands are enough (Config, StartData, StopData,
Config), with a scan of the state thread that outlasts the ten seconds of a reset.

**`ClbController`** works through `todo`, the commands of reset, configure, startData
and stopData, against a CLB (`clb`: its state, event errors, settings, mask) that
may execute a command whose answer is lost, or lose its power.
*`WrongPmtStaysOff`*, *`ReadyIsSet`*: a CLB that is READY holds what was
configured; *an unhindered configuration recovers* from anything left over: its instance has four
operations and a failure, so that a configuration finds the CLB PAUSED or RUNNING too,
after one of the three transitions of a stopData has failed.

**`MsgProcessor`** is `processCommand`: attempts, the six-bit number, a datagram per
attempt, the acknowledgement.  `toClb` and `inbox` are bags and sequences of
datagrams under way.  *`AnsweredIsExecuted`*: TRUE only for a command that was
executed; *calls return*.

**`MsgBuilder`, `MsgCodec`, `ClbVars`, `ProcVars`** are data: headers (class, type,
length, id), values by width, ids of variables with the table of `proc_var.h`, and
the messages the controller writes with widths chosen by hand.
*`ReplyRecognised`*; *`RefusesOdd`*: a packet that is refused leaves at most its packet id
behind, and its time when it is refused for its number of messages (`msg_builder.cc:94`);
*`RoundTrip`*: every value comes back as it was written, but for an I8 below zero and a U16 of
the upper half (`AsRead`); *`Understood`*, *`ReadsWhatIsHeld`*,
*`TableIsSound`*.  The base of a byte is a parameter (256; 4 in the instance), so that the
ends of all widths are within reach.

**`Badgerboard`** has the heartbeat thread (`thread`, `next`, `silent`, `state`) and
the operations of `bbb_controller.cc` (`Send`, `Answered`, `StateChanged`).  The
board accepts, refuses, answers late, restarts; heartbeats get lost.  DAQontrol makes new
controllers at every Config (`daq_control.cc:42`), so the board that a controller finds may be
configured already (`Boards`; `carried` begins with what it holds).
*`AckedIsAccepted`*; *`ConfiguredWasReached`*: when the waits of a configuration are over the
board has been brought to what they wait for, by this controller or by an earlier one, which no
wait tells apart; *operations end* and *the thread is joined*.

**`DaqConfig`** applies lines word by word, as `daq_config.cc` does.  Each line of
the input says what its author means.  *`LastLineWins`*, *`LastNumberWins`*.

**`HitReceiver`** has per port the mode, the requests outstanding and the handlers
that threads run, over Config, StartData, StopData, StartRun and StopRun, receiver by
receiver.  *`NeverDeaf`*, *`MinedInRun`*; *requests end* after the last StopData.

**`HitSequence`** is what is made of the datagrams of a plane: late ones, gaps,
starts of time slices.  *`OrderedKeepsAll`* without faults; for a BeagleBone
*`KeptInOrder`* and *`GapsReported`* with loss, duplication and reordering.

**`MergeSort`**: a spill from the queue to the file.  Recursive functions for the
insertion sort and the merge over the buffers of the levels.  *`HitsWrittenSorted`*: the
spill's range of the file holds the hits of every plane in the first slot that has it, each
once, sorted by their keys of 238 ns.

**`RunNumber`**: the file of run numbers with a crash between any two steps.
*`NumbersUnique`* unless the crash tore the file.

**`ClbPackets`, `Daqsitter`, `Daqulator`**: sizes and fields of packets; the monitoring
handler with its one request, one buffer and one record on four threads
(*`RecordedAsReceived`*, *`OnlySynchronised`*, *every accepted packet is handled*); the
generator, whose slices must be whole (*`WholeSlices`*).

**`Elastic`**: the posted work, the threads that index it, the window of the log rate,
the run put into the ingest pipeline.  *`RateBounded`*, *`SuppressedOnlyAbove`*,
*`OrderMaintained`* (of logs, states, documents, values and runs: measurements of a pom and its
channels have the time of their packet), *`AtMostOnce`*, *everything is tried*.

**`Times`**: NOvA time, Unix time with leap seconds, and `tai_timestamp`; each call
with each argument is a step.  A double is its nearest multiple of `1/Grains`.
*`SecondsReturn`* and *`ConvertedNear`* say what the conversions return for every second,
those around the leap seconds included: each leap second counts as many seconds too early as
there are others before it, and only the second before the third comes back as another.
*`SubtractsExactly`*, *`StampsAreTimes`*.

**`SpillSignals`**: types found in event words, names, schedulers of runs,
`TriggerPredictor`.  *`TypesAgree`*, *`MedianRobust`* (an interval that most of the
last ones had is what is learned), *`Balanced`*.

**`SpillRpc`**: the client's state machine on a connection it keeps, servers that want
one port and come and go.  *`AnswersItsOwn`*, *`OkIsReceived`*, *`ReceivedInOrder`*,
*`AtMostTwice`*.

**`Watchdog`, `Roundtrip`, `NumiWatcher`**: the threads of each program, with
exceptions that are caught and others that end a thread.  In `Watchdog` the flags by
which reporter and checker tell each other of a request and a check are read and written one
by one.  *A missing server is restarted* unless the watchdog is stopped or an exception
that is not caught has ended its checker; *an interrupt ends every thread*.  *`LatestKept`*: the latest time polled goes
at the first cleaning more than the kept polls after it and at no other, and from then on
every spill is refused and the poller stops.  *`OfferedOnce`*.

**`Relay`**: one command and one answer at a time on a connection per board; an
answer may be late, which is the answer of the command before.  *`SilentIsDone`*,
*`AsAsked`*, *`OthersUntouched`*.

### How they are put together for TLC

`MCComponents` holds an instance of each module, named for what it
examines; the comment above each `INSTANCE` says which case its constants
make happen.  These modules share no state with each other, so that one
behaviour runs one of them: `part` says which and does not change, and the variables of
the component are `x1`, `x2` and so on, in the order of its declaration.
A property is a conjunction of `part = "P" => P!Property`: it states the same hazard
in the components that meet it.  The instances whose invariants are proved are in `MCBase` and
`MCCore`, which extends it and which `MCComponents` extends, with their constants given in the two
configurations.  Every other value
of a constant that is more than a number is in `MCInputs`.

| property of `Components` | stands for |
|---|---|
| `TypeOK` | the type invariant of each |
| `NothingLost` | `Shutdown!NothingLost`, `HoldersAgree`, `ExitIsLast` |
| `ReadyIsSet` | `ClbController!ReadyIsSet`, `WrongPmtStaysOff` |
| `AnsweredIsExecuted` | `MsgProcessor!AnsweredIsExecuted` |
| `ReportedIsTrue` | `System!ReportedIsTrue`, `NeverAhead`; `Badgerboard!AckedIsAccepted`, `ConfiguredWasReached`; `SpillRpc!AnswersItsOwn`, `OkIsReceived` |
| `StartedWasPosted` | `[][Daq!PostedBefore]` of `DaqControl` and of `Reconfigured`, `[][Reporter!StillIsReported]` |
| `AsAsked` | `Relay!SilentIsDone`, `AsAsked`, `OthersUntouched` |
| `WrittenIsRead` | `MsgCodec!RoundTrip`; `ClbVars!Understood`, `ReadsWhatIsHeld`, `TableIsSound`; `MsgBuilder!ReplyRecognised`; `SpillSignals!TypesAgree`; `Daqulator!WholeSlices`; `MergeSort!HitsWrittenSorted`; `DaqConfig!LastLineWins`, `LastNumberWins` |
| `OddRefused` | `[][MsgBuilder!RefusesOdd]` |
| `DatagramsKept` | `HitSequence!OrderedKeepsAll`, `KeptInOrder`, `GapsReported` |
| `NeverDeaf` | `HitReceiver!NeverDeaf`, `MinedInRun` |
| `RateBounded` | `Elastic!RateBounded`, `SuppressedOnlyAbove` |
| `OrderMaintained` | `Elastic!OrderMaintained`, `AtMostOnce` |
| `WrittenOnce` | `RunNumber!NumbersUnique`; `NumiWatcher!OfferedOnce`; `SpillRpc!ReceivedInOrder`, `AtMostTwice`; `AppMain!RunClosedAtExit`, `OneHandler`; `Daqsitter!RecordedAsReceived`, `OnlySynchronised` |
| `TimesRight` | `Times!SecondsReturn`, `ConvertedNear`, `SubtractsExactly`, `StampsAreTimes`; `Roundtrip!LatestKept`; `SpillSignals!MedianRobust`, `Balanced` |

| property of `ComponentsLive` | stands for |
|---|---|
| `BusJoins` | `Shutdown`: queued is sent, joining ends; `Badgerboard!JoinReturns`; `AppMain`: the process ends |
| `ConfigureRecovers` | `ClbController`: an unhindered configuration recovers |
| `WatchdogRestarts` | `Watchdog!RestartedByChecker`, `StopsOnInterrupt` |
| `CallReturns` | `MsgProcessor!CallReturns`; `Badgerboard!OperationEnds` |
| `Settles` | `DaqControl!Settled` in the end; `System!Ends` |
| `HandledInTheEnd` | `Daqsitter!EverythingHandled`; `HitReceiver`: requests end; `AppMain`: a lasting run, or none, is heard |
| `EveryDocumentTried` | `Elastic`: every document has its attempt or the process stops |

## 5. The runs

| run | configuration | bounds | result |
|---|---|---|---|
| `ExperimentFsm` | `MCExperimentFsm.cfg` | two operators (symmetric) | holds, 550 901 states |
| `ExperimentFsmLive` | `MCExperimentFsmLive.cfg` | one operator | holds, 73 690 states |
| `SpillPipeline` | `MCSpillPipeline.cfg` | 2 spills, 2 receivers, times {1, 5}, the file may fail | holds, 708 255 states |
| `SpillSchedule` | `MCSpillPipelineSchedule.cfg` | 3 spills, 1 receiver, times {1, 3, 6}, the file may fail | holds, 1 869 809 states |
| `SpillPipelineLive` | `MCSpillPipelineLive.cfg` | 2 spills, 1 receiver, times {1, 4} | holds, 101 018 states |
| `Components` | `MCComponents.cfg` | one small instance of each component | holds, 2 258 746 states |
| `ComponentsLive` | `MCComponentsLive.cfg` | eleven of them, smaller, with fairness | holds, 77 753 states |
| `WritesIntoOpenSpill` | `MCSpillPipelineWrites.cfg` | 2 spills, 1 receiver | **violated** |
| `StopsWhenNothingLeft` | `MCSpillPipelineLeft.cfg` | 2 spills, 1 receiver | **violated** |
| `ExpiredSpillCloses` | `MCSpillPipelineExpired.cfg` | 2 spills, 1 receiver, times {1, 7} | **violated** |
| `SinkDeletes` | `MCSpillPipelineSink.cfg` | 2 spills, 1 receiver, times {1, 4}, the file may fail | **violated** |
| `ApproxOnlyRises` | `MCSpillPipelineApprox.cfg` | 1 spill, 2 receivers | **violated** |

*Bounds.*  In `ExperimentFsm` only the number of operators is bounded: the
uplink serves one at a time, so two are enough to have one waiting or
starting anew while the other is served.  In `SpillPipeline` all runs use
`Duration` 2, `Ahead` 2 and `QueueSize` 1; `Maturation` is 1, and 0 in
`SpillSchedule`, `SpillPipelineLive` and `SinkDeletes`, where the times decide how
many spills get data.  A datagram of time 1 opens the spills [1, 3) and [3, 5).
With times {1, 5} the first gets data, matures, and may be held by two
receivers, one past it and one still writing.  With {1, 4} both get data and the
first is over before the second, so that one waits for a place in the queue when
the run ends.  With {1, 3, 6} three get data and two are over at once, so that
one waits for a place in the middle of a run; the schedule can also become empty
and start again from `approx`.  With {1, 7} both are over and one is empty.
Spills that were deleted are not used again, so the number of spills bounds the
length of a behaviour that schedules; runs without spills repeat for ever.

In `Components` the bound of each instance is in the comment above it and in its
constants.  They are chosen for the case that the properties are about: the modulus
of a number is small enough to come round (`LossySequence`, `BbbSequence`,
`Badgerboard`) or too large for it (`MsgProcessor`, three numbers for two calls: a
number that came round is what `AnsweredIsExecuted` excludes), and there are
enough commands for one more after a failure.  Two threads stand for the four or ten that share
a queue or a buffer, since a third one adds no case to what two of them do to
each other.  `Badgerboard` finds a new board and one that is configured otherwise, and has
two operations (one in `BadgerboardLive`); `ClbControllerLive` four and one failure.
The inputs of `MsgCodec` are the ends of every type, of
`SpillSignals` the event words of each kind and their neighbours, of
`DaqConfig` two of some twenty lines in any order.

*Deadlock* is checked except in `SpillPipeline`, `SpillSchedule`, `SinkDeletes` and the two runs of components.  In the first three the
file may fail to open, and the scheduling thread then waits for ever for room
in the queue, which is the finding of `SinkDeletes`.

*Fairness.*  `FairSpec` of `ExperimentFsm` asks only that the uplink goes on
with a message it has received: it is a thread that waits for nothing but a
mutex that is always released.  Applications, buses and operators owe nothing.
`FairSpec` of `SpillPipeline` asks that each thread goes on with what it has
begun: the scheduling and serialising threads poll in a loop, a receiver ends
its datagram, the handler once in StopRun ends it; and that wall time passes
(`Mature`).  No datagram ever has to arrive and no command has to be given.

`FairSpec` of `MCComponents` asks of each component what its own `FairSpec` asks:
every thread goes on with what it can do (weak fairness of the steps of the thread).
Fairness is strong in two places.  The threads of `Shutdown` share
mutexes, which a waiting thread gets in the end.  In `Daqsitter` the
network may report errors again and again but not for ever, so that a datagram that has
come is delivered (`Deliver`).  The rest of the world owes: the CLB of
`ClbController` and `MsgProcessor` nothing (a step of the controller ends, with success or
not, because sending a command ends by its timeouts); the BeagleBone an answer
to every request (`Answers`; `blockingSend` waits without a limit); in
`HitReceiver` that boards go on sending (a request ends by a datagram or by
cancelling); in `System` that every application reports and is heard; in `Watchdog`
that the child ends when it gets the interrupt.  Operators, commands, faults and
restarts are never owed.

*Deadlock* is not checked in the two: with their bounds reached the components
stop, and several do stop for good (`AppMain`, `Relay`, `NumiWatcher`).  A
component that is stuck before its end is what the liveness properties look for.

### What the violated properties show

1. `WritesIntoOpenSpill` (`basic_hit_receiver.cc:219`).  `findDataSlot` returns a
   pointer into a spill and releases the lock of the schedule.  Before the
   receiver has locked the slot the spill can be deleted: at the end of a run
   an unstarted spill is deleted while `current_schedule_` still lists it, and during
   a run the serialiser can write and delete a spill before the swap takes it
   out of the schedule.  `ClosedIsQuiet` shows that the locking is right for
   spills that still exist.
2. `StopsWhenNothingLeft` (`data_run_serialiser.cc:54-59`).  The queue is
   popped, then `running_` is read.  If the last spill is pushed and the flag
   cleared in between, the thread stops and the destructor discards the spill
   with its data.
3. `ExpiredSpillCloses` (`spill_schedule.cc:114`).  Only spills that some
   receiver has touched are closed during a run.  After a gap in the data as
   long as the schedule (eight minutes) every place is held by a spill that
   will never be touched, and the rest of the run is not recorded.
4. `SinkDeletes` (`data_run_serialiser.cc:39-42`).  If the file cannot be
   opened the serialiser returns; the queue fills and StopRun hangs.
5. `ApproxOnlyRises` (`spill_schedule.cc:131`).  Compare and store of the latest
   timestamp are not one step; the smaller of two may win.

### What the code does not keep

The statements below are defined in the modules and are in no run.  TLC
refutes each: put the definition on a module of its own that instantiates or
extends the component's module with the constants its instance named in the
second column has in `MCComponents` (changed as said), and check it as an
invariant, as `[][...]_vars` when it is about a step, or as a temporal property under `FairSpec`
(marked F).

| statement | instance | where | what happens, and what the source says |
|---|---|---|---|
| `Shutdown!SuspendedUntilTermination` F | `ShutdownLive` | `publisher.h:82` | `notifyJoin` clears `running_` and notifies without the mutex; the publisher between its predicate and its sleep misses it and `join` never returns.  "suspend thread until termination / new message arrives" (:46) |
| `Shutdown!PublishesAll` | `ShutdownLive` | `publisher.h:33` | the inner loop tests `running_` before the queue: Exit may never be sent.  "publish as many messages as possible" (:36) |
| `Shutdown!InterruptTerminates` F | `Interrupt` | `fsm.cc:20` | the signal handler waits for a mutex that the thread under it, or one that waits for it, holds.  "Received signal {}. Terminating..." (:19) |
| `AppMain!JoinReturns` F | `AppMainLive`, `MaxFailures` 1 | `bus_publisher.cc:39` | the same in `BusPublisher::join`, when the last status comes before the thread of the bus sleeps |
| `AppMain!InterruptEnds` F | `AppMainLive`, `MaxCommands` 0, `MaxSignals` 1 | `signal_receiver.cc:29` | the thread is started before `workSignals`: `io_service::run` may find nothing to do and return, and interrupts go unhandled |
| `AppMain!NobodyElse`, `NoRunLeft` | `AppInterrupt` | `daq_handler.cc:116` | the signal's thread and the commands' stop or start a run at once: one uses what the other reset, or a run begins after Exit has stopped the one before |
| `Reporter!EachRoundReports` | `Reporter` | `reporter.cc:32` | a machine that moves back past the question is not reported in that round.  "Report on the Experiment state" |
| `System!ConfiguredIsNew` | `System`, no faults | `states.cc:137` | a reconfigured Experiment finds DAQontrol still Configured from before |
| `System!Ends` F | `SystemLive`, `Faults` {"command"}, 1 | `states.cc:184` | no transition has a timeout: one lost command holds it for ever |
| `System!ReportedIsTrue` | `System`, `Faults` {"restart"} | `fsm/src/*/observer.cc:47` | an application that restarts between two statuses is not noticed at once |
| `DaqControl!PostedToAll` | `Reconfigured` | `daq_control.cc:36` | an update that was under way when the controllers were deleted says Started of those that replace them.  "We are currently configured so we need to reset first" (:22) |
| `DaqControl!CountsWhatItRead` | `DaqControl` | `daq_control.cc:134` | `state` is compared before it is first set.  "Get the current controller state" (:131) |
| `DaqControl!ResetCompletes` | `Reconfigured` | `daq_control.cc:35` | after ten seconds controllers are deleted, their reset done or not.  "Wait for the reset to complete" (:31) |
| `DaqControl!DropsOnlyWhoIsBehind` | `DaqControl` | `daq_control.cc:140` | a controller that arrives between `getState` and `isWorking` is dropped.  "Is this controller currently doing work?" (`controller.h:84`) |
| `DaqControl!ConfigureSucceeds` F | `Reconfigured`, `MaxCommands` 2, `MaxFailures` 0 | `daq_control.cc:140` | in a second configuration the new controllers are compared with the old target and dropped.  "Configure the controllers" (:50) |
| `ClbController!StateAccordingly` | `ClbController` | `clb_controller.cc:89` | PAUSE done and STOP failed leave the controller Started.  "updates the state accordingly" (`clb_controller.h:42`) |
| `ClbController!WorkingNow` | `ClbController` | `clb_controller.cc:19` | `reset` sets `working_` at its end, too.  "Is this controller currently doing work?" (`controller.h:84`) |
| `ClbController!InitialisationSet` | `ClbController` | `clb_controller.cc:35` | a CLB that restarts before INIT becomes READY with power-on values.  "Set the initialisation variables" (:35) |
| `ClbController!HvOnlyIfEnabled` | `ClbController` | `clb_controller.cc:191` | the whole mask is cleared, HV is disabled again steps later.  "Should the HV be enabled?" (`daq_config.h:39`) |
| `MsgProcessor!TriesForSuccess` | `MsgProcessor`, 3 attempts, `MaxInFlight` 6, `MaxOdd` 0 | `msg_processor.cc:39` | each attempt reads one datagram: three late replies use up the three attempts of the next command.  "Try up to MAX_ATTEMPTS for successful processing" (:29) |
| `MsgProcessor!AcksWhatItRead` | `MsgProcessor` | `msg_processor.cc:48` | a datagram that is too short leaves the packet id unset, and it is acknowledged.  "We have a valid response" (:56) |
| `MsgBuilder!PacketTime` | `MsgBuilder` | `msg_builder.cc:39` | `TIME_MOD` has no parentheses: the time is taken modulo 24 and multiplied.  "the packet time in 4 bytes" (:39) |
| `MsgCodec!ByteIsSigned` | `MsgCodec` | `msg_reader.cc:34` | `readI8` returns an unsigned char.  "in the range -128 through 127" (`msg_reader.h:29`) |
| `MsgCodec!U16InRange` | `MsgCodec` | `msg_reader.cc:64` | the bytes go through a short.  "in the range 0 through 65535" (`msg_reader.h:38`) |
| `MsgCodec!LengthFollows` | `MsgCodec`, a string of 8 (32768) | `msg_writer.cc:136` | the size is converted to short.  "two bytes ... giving the number of bytes to follow" (:127) |
| `ClbVars!BaseType` | `ClbVars` | `var_info.cc:10` | the enumeration has F32 and F64 one below the field.  "base type of this variable" (`var_info.h:128`) |
| `ClbVars!OtherSystemsStay` | `ClbVars` | `clb_controller.cc:594` | the comparison binds tighter than the assignment: every other system is enabled.  "get the current SYS_SYS_DISABLE mask" |
| `Badgerboard!ConfiguredIsConfigured` | `Badgerboard` | `badgerboard_heartbeat.cc:134` | the wait of a second configuration believes a heartbeat from before the reset |
| `Badgerboard!SilentIsOffline` | `Badgerboard` | `badgerboard_heartbeat.cc:71` | every receive timeout begins a new attempt and a new count of the silence.  "Heartbeat silent for too long, marking device as offline" (:78) |
| `DaqConfig!CountsControllers` | `DaqConfig`, `MaxLines` 3 | `daq_config.cc:81` | a repeated `enabled` line counts again, `enabled=0` does not count out.  "Total number of \"enabled\" controllers" (`daq_config.h:107`) |
| `DaqConfig!CountsChannels` | `DaqConfig` | `daq_config.cc:283` | channel 30 is not counted, a repeated line adds its channels again.  "Total number of \"enabled\" channels" (`daq_config.h:108`) |
| `DaqConfig!NanoOfAny` | `DaqConfig`, `MaxLines` 3 | `daq_config.cc:263` | the flag stays when the only flasher is disabled again.  "Do any of the controllers have an enabled nanobeacon?" (`daq_config.h:109`) |
| `DaqConfig!GoodHasBoth` | `DaqConfig` | `daq_config.cc:353` | the first character is compared with '0': "=7" is a good line.  "an = sign and text either side" (`daq_config.h:137`) |
| `HitReceiver!OneRequest` | `Restarted` | `basic_hit_receiver.cc:127` | a handler that saw the mode before StopData asks again, StartData too: two requests on one buffer.  "the next incoming hit will consume it, and new ones will not be" (:55) |
| `HitReceiver!PreviousReceiversGone` | `Restarted` | `daq_handler.cc:35` | handlers of cancelled requests hold their destroyed receiver.  "Get rid of any previous receivers." (:34) |
| `HitSequence!OnlyLateDiscarded` | `ClbSequence`, `Faults` {"loss"} | `basic_hit_receiver.cc:165` | without its datagram zero a whole slice is late.  "Late datagram, discard it." (`clb_hit_receiver.cc:57`) |
| `HitSequence!OverflowTolerated` | `BbbSequence`, `Faults` {"loss"} | `basic_hit_receiver.cc:170` | the largest number lost, everything after the overflow is late.  "monotonically increases (with overflow)" (`packets.h:36`) |
| `HitSequence!TriggerKept` | `BbbSequence` | `bbb_hit_receiver.cc:97` | the flag is bit 16 of eight.  "bit 16: ... 1 = CPU trigger active" (`packets.h:54`) |
| `MergeSort!AllConsolidated` | `MergeSort` | `data_run_serialiser.cc:77` | `emplace` keeps the first queue of a plane that is in two slots.  "moving it into a single instance" |
| `MergeSort!TimeSorted` | `MergeSort` | `data_run_file.cc:72` | hits closer than the resolution of the key (238 ns) stay as they came.  "guaranteed to be time-sorted within the scope of a single spill" |
| `RunNumber!NothingOverwritten` | `RunNumber` | `data_run.cc:117` | a crash while the file is truncated loses the numbers; the next runs replace the outputs of old ones |
| `Daqsitter!SimulatedRecorded` | `DaqsitterLive` | `monitoring_handler.cc:122` | DAQulator's packets are four bytes shorter and not synchronised: both tests refuse them.  "Class to simulate UDP packets from the CLBs" (`packet_generator.cc:2`) |
| `Daqsitter!RateInHertz` | `DaqsitterLive` | `monitoring_handler.cc:161` | the quotient is cut off: no rate for a window beyond a second.  "Window length in microseconds" (:161) |
| `Daqsitter!RecordsOnlyWhenRunning` | `Daqsitter` | `monitoring_handler.cc:222` | nobody reads the mode.  "false = Not Running, True = Running" (`monitoring_handler.h:96`) |
| `Daqulator!TrailerMarked` | `Daqulator` | `packet_generator.cc:167` | `htonl(128)` is bit 7, a trailer is bit 31.  "Make a trailer packet" (:166) |
| `Daqulator!SliceLength` | `Daqulator`, one CLB, 400 ms, 4 slices | `packet_generator.cc:180` | a new second begins with zero tics whatever was left of the slice.  "Time slice duration (ms)" (`daqulator.cc:43`) |
| `Daqulator!StreamsTogether` | `Daqulator`, one CLB, 5 slices | `packet_generator.cc:203` | a call does one round less than a slice needs: the streams drift apart |
| `Elastic!TaggedWithRun` | `Indexing` | `elastic_interface.cc:91` | one thread puts the run while another indexes what was posted after it.  "to set the run number/type" (`elastic_interface.h:186`) |
| `Elastic!UnitIsComponent` | `Indexing` | `elastic_interface.cc:221` | a format string is taken for the unit.  "component from which the message comes" (`elastic_interface.h:85`) |
| `Times!EverySecondReturns`, `LeapAtTheSecond` | `Times` | `TimingUtilities.cpp:58` | each threshold is compared with seconds that are already adjusted: the leap is a second early after the first.  The thresholds' comments give Unix seconds |
| `Times!NanosInSecond`, `TextIsTime` | `Times` | `TimingUtilities.cpp:169` | a double rounds the last ticks of a second up: nanoseconds below zero, a text of another second |
| `SpillSignals!FakeOnlyByParity` | `SpillSignals` | `NssSpillInfo.cpp` | an unknown signal of the clock is fake and found.  "assigned if there is a parity error" (`NssSpillInfo.h:35`) |
| `SpillSignals!GuessHolds` | `SpillSignals` | `trigger_predictor.cc` | nothing initialises the learned interval.  "Initial guess of trigger period" (`tdu_spill_scheduler.h:30`) |
| `SpillSignals!EveryRunHasSpills` | `SpillSignals` | `tdu_spill_scheduler.cc` | the body of its `updateSchedule` is a comment.  "A scheduler that creates spills based on signals" (`tdu_spill_scheduler.h:2`) |
| `SpillRpc!ReceivedOnce` | `SpillRpc` | `XmlRpcClient.cpp:293` | the request is repeated though the server had executed it before it ended.  "the server may have timed out, so we try one more time" (:291) |
| `SpillRpc!UpAndRunning` | `SpillRpc`, `Servers` {"daqonite", "receiver"} | `tdu_spill_scheduler.cc:118` | it says so without the port, for good.  "Up and running at port {}!" |
| `Watchdog!ServerRestarted` F | `WatchdogLive` | `spill_forwarder_watchdog.py:150` | a refused connection or a timeout of the command is not caught and ends the checker with `g_tdu_check_running` set: no server is started and no check requested any more.  "the next check will show if it worked" (:146) |
| `Watchdog!StaleWasLate` | `Watchdog`, `MaxTime` 2 | `spill_forwarder_watchdog.py:235` | two arrivals in time, but none of them looked at in between, count as a gap.  "Found %d stale signals" (:246) |
| `Watchdog!StoppedIsStale` | `Watchdog`, two signals, thresholds 1, `MaxTime` 3, no faults | `spill_forwarder_watchdog.py:235` | a signal that stops is compared with itself |
| `NumiWatcher!ChangesIndexed` | `NumiWatcher` | `numi_update_watcher.py:176` | the message of a bulk request that fails counts as seen |
| `Roundtrip!AlwaysFound` | `Roundtrip` | `measure_spill_roundtrip.py:170` | times are dropped by number of polls, the latest too when enough polls fail: the poller ends with a KeyError and the dispatcher faults |
| `Roundtrip!PolledAtPeriod` | `Roundtrip` | `measure_spill_roundtrip.py:140` | the wait is the time since the last poll less the period, not the other way round |
| `Relay!FlushSuffices` | `Relay` | `power.cc:194` | when greeting and flush both come late every answer read is the one before, and the last command may not have been carried out.  "Flush relay using simple off command" |
| `Relay!OneOfThem` | `RelayPair`, box 6 on and off | `power.cc:60` | two programs for one box leave it half on |

## 6. The theorems

All are proved for every value of the constants that satisfies what is assumed of
them.  `ExperimentFsm` and `SpillPipeline` name their assumptions,
`ClientAssumption` (the uplink's "nobody" is not an operator) and
`PipelineAssumption` (the null pointer is not a spill, times are positive, the
spill's length and the queue's size are not zero).  The theorems of the other modules
state what they need as a hypothesis, said below, which TLC's instances satisfy.

`ExperimentFsmProofs`, for any set of operators:

* `TypeCorrect`.
* `FollowsMessage`, `SupervisedTransitions`, `UpdatesAreSeen`: the three
  invariants are inductive together.  The lemmas `ReactLemma` and
  `SettleLemma` say where a chain of updates can end (`After`), so the proof of
  a step needs no table of all states of all applications.
* `ErrorPublishesNothing`: a case analysis over the actions, from the types.
* `ImplementsProtocol`: with the mapping from `last`, each dispatch is a step of
  `ControlProtocol`; `StateFollowsMessage` gives the guard of each.
* `AckedExitIsKept`, `NakIsFailure` need a stronger invariant, `UplinkInv`:
  while the comparisons of a command that was taken are under way, the state is
  one that is still to be compared, or a failure (`Found`).  It is kept because
  the comparisons run in the order in which the experiment moves on by itself
  (`FoundLemma`).

`SpillPipelineProofs`, for any number of spills and receivers, any scheduler
setting, any queue size:

* `TypeCorrect`, `SingleOwner`, `ClosedSpillIsQuiet` from the invariant
  `IInv` = `TypeOK`, `Control`, `OneOwner`, `Contents`, `Access`.  `Control` says
  where the threads can be at the same time; `Contents` what is known of a spill
  from the hands it is in; `Access` what is known of the spill a receiver works on.
  Its last conjunct is the reason for flag, mutex and second look: who writes into a
  slot that is closed writes into the spill being closed, and the scheduling
  thread has not passed that slot's mutex.
* `ImplementsLife`: a step of the pipeline is a step of `SpillLife` or changes
  neither the stage of any spill nor its hits.
* `OpenSpillsAreDisjoint`: needs that all open spills with the victim are apart and
  that a new spill starts at the end of the last one.

`ShutdownProofs`, for any dispatching threads, interrupts and exceptions of the bus
(`Threads`: the names of the threads are different):

* `MessagesKept` needs to know who is inside which mutex.  `QueueHeld` and
  `PushesAlone` say so of the queue's mutex, which is not recursive, `DispatchHeld` and
  `GivenBack` of the dispatch mutex, which is and goes back to the thread that the
  handler interrupted; `Handled` and `AllEnded`, that no thread that has ended holds one.
  Two threads that pushed at once would lose a message; these exclude it.
* `MutexesHeld` is what they amount to.
* `ExitEnds`, without interrupts: by `Exits` the first Exit is queued when no thread
  is left that would queue a command.

`ClbControllerProofs`, for any channels, failures and power cycles, without a hypothesis:

* `ReadyHoldsConfiguration`.  What is known of the CLB depends on how much is left
  of the list of commands.  `Shape`: the list in hand is the rest of one of the
  programs an operation may have; `Approached`: the states the CLB can then be in (if
  its power went it is IDLE, and configure is about to fail); `Verified`: each
  setting that has been read back is right unless the power went since;
  `StopProgress`: pausing a CLB keeps what it holds.
* `WrongPmtOff`: by `WrongDropped` no channel with the wrong PMT is left in the
  configuration once the ids have been compared, which is before channels are enabled.

`HitReceiverProofs`, for any ports, configurations and starts:

* `TypeCorrect`: a receiver never has more requests than data was started, from
  `Counted`, which counts requests, handlers and cancelled requests together.
* `ReceiversHear`, `MiningHasRun`: by `Phases` and `Modes` a receiver's mode
  follows from the command in hand and from whether it has had its turn; `RunThere`
  says that the run is there from before the first to after the last of them.

`ElasticProofs`, for any threads and posts (`Assumptions`: limit, second and time are
numbers, the limit is not zero):

* `DocumentsInOrder`: what waits in the queue is after what the threads hold and what
  has been indexed (`QueueAfterHeld`, `QueueAfterDocs`), and times rise with the
  posts (`Ordered`), those of measurements excepted, also of work that is put back for another attempt.
* `LogRateIsBounded`: `FarApart` says that a log and the one twice the limit further
  on are more than a second apart, which follows from where the last two windows
  began (`WindowBegan`, `WindowReset`); `AfterWindow` that a log is suppressed only after a
  full window.  `WindowIsBounded` turns positions into the number of logs in a second.

`MCCoreProofs` carries these over to what TLC runs, and `MCBaseProofs` proves the same of
the components that have no module of theorems: `CoreSpec` and `BaseSpec` are the disjunctions
of the instances in `MCCore` and in `MCBase`, each theorem states a property of the run
`Components`, and a component's invariant is its `IInv` as its instance sees it.  A behaviour of
`MCComponents` whose `part` is one of `MCBase` is a behaviour of `BaseSpec` (`part` never
changes, which the lemmas `...Runs` say), and in any other the properties hold because they
speak of those parts only; the same goes for `CoreSpec`.

* `AnsweredWasExecuted` of `MCCoreProofs`, for any number of attempts, calls and datagrams under
  way, if there are numbers and attempts.  `MsgProcessor!IInv` says of every datagram, to the CLB
  or back, read or not yet acknowledged, that its number is as many behind the current one as
  its call is behind the current call, once round at most, and that a reply is to a call that
  has been executed.  Two messages with the same number are then of the same call, as long
  as there are fewer calls than numbers.  That proviso is part of the property: with more
  calls a reply that has been under way for a whole round is taken for the answer.
  `MsgProcessorTyped` is its type invariant.
* `StartedWasTold`, for any configurations (`Boards`: lists of boards), commands and
  failures, and any machines in any order (`Listed`: known ones, which start in a state that
  is asked for).  Of `DaqControl`, `IInv`: Started is the target only when all have been told
  and none is being replaced (`Targeted`, from `PostTold`); who has started, does so or is to
  do so was told (`DoneTold`); and an update that has found nothing but Started has passed
  nobody who counts and was not told (`ScanTold`), since what it reads is the target or the
  controller's state.  `PostedBefore` follows because the update announces Started only when
  that was all it found, and went to the end of the vector.  Of `Reporter`, `Telling`: a machine that
  has been as it is since the report began was found so if it was asked before, and
  if it is being asked, is in none of the states that were asked for already.
* `OutputsOnce`, for any runs, crashes, pages, spills, commands, exceptions and datagrams.  It assumes
  that there are the four types of runs, that what an uninitialised number holds counts as a
  number (`AtLeastOne` raises what is smaller), that no file is not a file
  (`RunAssumptions`), and that the number of spills is a number.
  - `RunNumber!IInv`: the numbers in the file, and in the array between reading and
    rewriting, are beyond those of all runs (`FileAgrees`, `StepAgrees`); a run is named only
    after the file that no longer offers its number was closed.  All of it
    ends with a torn file, which the property excludes (`NothingOverwritten` is false).
  - `NumiWatcher!IInv`: what was offered last says what was seen last, unless this is about to be
    offered for saying something else, and the two bulk requests keep that between them.
  - `SpillRpc!IInv`: whatever is under way on the client's connection is of the spill being
    sent, and all other connections are over (`Latest`, `MineAgrees`); a spill has been received
    once for each attempt whose request is gone (`ReceivedSoFar`).  There are two attempts, hence
    `AtMostTwice`; and a retry comes on a new connection, so that the answer to the first attempt
    never meets the second.
  - `AppMain!IInv`, for an application without interrupts: what is left of a command is a rest
    of its program, and the run is there or not as the program's test found it (`OneByOne`);
    Exit is the last command, so that the handler ends with no run (`ExitLast`).  With an
    interrupt neither holds (`NobodyElse`, `NoRunLeft` are false), and the property does not
    claim it.
  - `Daqsitter!IInv`: the socket has a request or a handler and never both, so the
    one buffer holds the last datagram received until it is dealt with, and what is recorded are
    the accepted ones of the others (`Done`): the `n`th record is of the one
    that is the `n`th to be accepted.  Asking again before the handler is done, as the mutant
    `CompleteAskingAgain` does, would let a second datagram overwrite the first.
* `ReportsTrue`, for any commands, losses of commands, of statuses and of controllers, any
  operations, heartbeats and spills.  It assumes that heartbeats have numbers and that no
  application is restarted unnoticed, within the two seconds that its observer waits: then the report
  is false until the next status (section 5).  A crash that is noticed is the loss of
  a status.
  - `System!IInv` relates what each application is told, does and says to the state of
    the Experiment (`Agrees`), for the states of a status bus and of a command bus at any
    length.  An application either rests, when its mode and all it has said since it was last
    found are the same (`Rests`), or follows one command, which is the last on its way
    (`Follows`, `OnlyLast`), and what it says turns from the old mode to the new one once
    (`Turns`).  DAQontrol gets to its target some time later and may lose its
    controllers, so that it needs the target as well (`StaysLow`, `TakesData`, `GoesTo`).  That
    a lost command leaves the Experiment in a transition, and that a lost status sends it to
    `Error`, is why nothing false is reported.
  - `Badgerboard!IInv`, for a board found in any state (`BoardFound` is any set of boards): what
    it holds when the controller is made is what an earlier controller carried out; what it is and
    what its heartbeats say, those in the air included, was carried out before
    (`AllCarriedOut`), so a wait that has ended says so of its request (`Waited`), for
    every configuration and not only the first; and a believed reply bears the number
    of a request that was accepted.  That the request waited for is *this* one does not follow
    and is not so (`ConfiguredIsConfigured`): the wait believes a heartbeat from before the reset.
  - `SpillRpc!IInv` again.
* `DatagramsAreKept`, for any planes, any number of datagrams and any width of their numbers.
  - Without faults (`HitSequence!OrderedIInv`) it assumes what the boards do
    (`NumbersFollow`): a number is the one after the last, with overflow, or for a CLB zero
    again.  At most one datagram is under way, the last one its plane sent, and the number
    expected is the one after the last that arrived (`Arrived`), or unknown after a start.
  - With any losses, duplicates, malformed datagrams and overtaking (`LossyIInv`) it assumes that
    the numbers are counted on and do not overflow (`NumbersCountOn`): with an overflow
    the property is false (`OverflowTolerated`).  The number expected of a plane
    is the one after its last hit kept (`Expected`), so that a hit that is not late is sent later
    than all that were kept, and a gap is one between it and the last of them.

Only model-checked: the other properties of `Components` (`TypeOK` as a whole,
`AsAsked`, `WrittenIsRead`, `OddRefused`, `TimesRight`), the liveness
properties, which are out of the prover's reach, and what is violated.  `MergeSort` and `Times` compute with
recursive functions and sums over sequences, whose values for every input would need an
induction over data; so do the lines of `DaqConfig` and the values of `MsgCodec`,
which are finite tables of inputs at that.

## 7. Plan

What is left is the theorem that `MCCore!AsAsked` holds for any jobs of the power program:
its instance is where the proofs are, and TLC checks it.

## 8. Not modelled

* Vendored code (`lib/XmlRpc`, its copy in `spill_server/spillSim`) except for the way of a
  call: the values, their XML and base64 are taken as given.  A request that is
  retried while its source is removed from the dispatcher's list, and an
  iterator used after that, is not followed.
* The contents of ROOT files, wording and layout of logs, command lines, and the reading of a
  configuration file (`config.cc`): they keep no state that a property here is about.
* nng, tinyfsm, elasticlient, boost::asio, paramiko: modelled by how they are
  used.  Boards, accelerator pages, SSH and networks are external actions.
* Danout's relay has no code, and the body of `TDUSpillScheduler::updateSchedule`
  is a comment in the source.
* Wrong arguments of `power`, which end it, and boxes or channels outside its
  tables, which it does not check.
* A write into memory that has been given out again after a delete.

Noticed on the way and stated by no property: the branch `cpu_trigger` of the hits'
tree is bound to `adc0` (`data_run_file.cc:82`); the BeagleBone's controller ignores whether
a request was believed, and waits for its answer without a limit; a SIGTERM does not
reach the watchdog's child; statuses that queue up while a bus cannot listen are
sent late; nobody calls `TDUSpillScheduler::join`; `ec_relay.cc:21` prints three
characters into two.
