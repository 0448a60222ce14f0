--------------------------- MODULE SpillPipeline ---------------------------
(***************************************************************************)
(* The data path of daqonite during runs: the hit receivers, which write   *)
(* hits into the slots of open spills; the SpillSchedule thread, which     *)
(* opens and closes the spills; the DataRunSerialiser thread, which writes *)
(* closed spills to the run file; and the DAQHandler, which starts and     *)
(* stops a run on the commands of the experiment.                          *)
(*                                                                         *)
(* Spills are handed about as raw pointers, so memory is part of the       *)
(* model: the pointer to a deleted spill stays where it was copied to, and *)
(* what is read through it is arbitrary.  (If the access crashes daqonite  *)
(* nothing more happens; and deleted memory is not handed out again.)      *)
(*                                                                         *)
(* Data time is counted in small units.  Wall time appears only in         *)
(* "updated less than four seconds ago", the set `fresh`.                  *)
(***************************************************************************)
EXTENDS Naturals, FiniteSets

CONSTANTS Spill,       \* the spills there can ever be (bound)
          NoSpill,     \* the null pointer
          Receiver,    \* the hit receivers, each with a slot in every spill
          Time,        \* the timestamps of datagrams (bound); 0 is "empty"
          Duration,    \* batch_duration_s_ of the periodic scheduler
          Maturation,  \* MATURATION_SECONDS, in data time
          Ahead,       \* n_batches_ahead_ of the periodic scheduler
          QueueSize,   \* max_serialiser_queue_size
          OpenFails    \* whether opening the output file may fail

ASSUME PipelineAssumption ==
  /\ NoSpill \notin Spill
  /\ Time \subseteq Nat \ {0}
  /\ Duration \in Nat \ {0}
  /\ Maturation \in Nat
  /\ Ahead \in Nat
  /\ QueueSize \in Nat \ {0}
  /\ OpenFails \in BOOLEAN

VARIABLES
  mem,        \* mem[s]: whether spill s is "unborn", "live" or "deleted"
  start,      \* start[s]: start_time of s
  started,    \* spills touched by a receiver
  fresh,      \* spills whose last update is less than four seconds old
  shut,       \* shut[s]: receivers whose slot in s is closed for writing
  hits,       \* hits[s]: receivers whose hits are in s
  current,    \* current_schedule_
  draft,      \* new_schedule, the scheduling thread's copy
  closed,     \* closed_spills_
  queue,      \* waiting_spills_ of the serialiser
  taken,      \* current_spill of the serialiser
  filed,      \* spills written to a run file
  approx,     \* last_approx_timestamp_
  sched,      \* where the scheduling thread is
  ending,     \* it has left its loop and closes every spill
  scan,       \* spills it still has to look at
  victim,     \* the spill it is closing
  todo,       \* receivers whose slot mutex it still has to pass
  serial,     \* where the serialiser thread is
  phase,      \* where the DAQHandler is
  mining,     \* receivers in DataMode::Mining
  job         \* job[r]: the datagram receiver r works on

spillVars == <<mem, start, started, fresh, shut, hits>>
listVars == <<current, draft, closed, queue>>
schedVars == <<sched, ending, scan, victim, todo>>
serialVars == <<taken, filed, serial>>
recvVars == <<mining, job>>
vars == <<spillVars, listVars, schedVars, serialVars, recvVars, approx, phase>>

\* What the steps of one thread leave alone, with few exceptions.
notHandler == <<spillVars, listVars, schedVars, serialVars, job, approx>>
notSched == <<serialVars, recvVars, approx, phase>>
notSerial == <<schedVars, recvVars, approx, phase>>
notRecv == <<listVars, schedVars, serialVars, phase>>
----------------------------------------------------------------------------
Live(s) == mem[s] = "live"

End(s) == start[s] + Duration

Covers(s, t) == start[s] <= t /\ t < End(s)

Job == [at : {"idle", "bump", "find", "found", "lock", "write"},
        time : Time \cup {0}, mine : BOOLEAN, slot : Spill \cup {NoSpill}]

Idle == [at |-> "idle", time |-> 0, mine |-> FALSE, slot |-> NoSpill]

\* Delete the spills of S: what they held is gone.
Delete(S) ==
  /\ mem' = [s \in Spill |-> IF s \in S THEN "deleted" ELSE mem[s]]
  /\ start' = [s \in Spill |-> IF s \in S THEN 0 ELSE start[s]]
  /\ shut' = [s \in Spill |-> IF s \in S THEN {} ELSE shut[s]]
  /\ hits' = [s \in Spill |-> IF s \in S THEN {} ELSE hits[s]]
  /\ started' = started \ S
  /\ fresh' = fresh \ S

\* running_ of SpillSchedule and of DataRunSerialiser.
Running == phase \in {"started", "stopping"}
SerialiserRunning == phase \in {"started", "stopping", "joining"}

Writing(r, s) == job[r].at = "write" /\ job[r].slot = s

Init ==
  /\ mem = [s \in Spill |-> "unborn"]
  /\ start = [s \in Spill |-> 0]
  /\ started = {} /\ fresh = {}
  /\ shut = [s \in Spill |-> {}]
  /\ hits = [s \in Spill |-> {}]
  /\ current = {} /\ draft = {} /\ closed = {} /\ queue = {}
  /\ taken = NoSpill /\ filed = {}
  /\ approx = 0
  /\ sched = "off" /\ ending = FALSE
  /\ scan = {} /\ victim = NoSpill /\ todo = {}
  /\ serial = "off"
  /\ phase = "stopped" /\ mining = {}
  /\ job = [r \in Receiver |-> Idle]
----------------------------------------------------------------------------
(* DAQHandler.  StartRun during a run is a StopRun and then a StartRun.    *)

StartRun ==
  /\ phase = "stopped"
  /\ phase' = "started"
  /\ serial' = "open"
  /\ sched' = "loop"
  /\ current' = {} /\ closed' = {}
  /\ approx' = 0
  /\ UNCHANGED <<spillVars, draft, queue, ending, scan, victim, todo, taken,
                 filed, recvVars>>

StartReceiver(r) ==
  /\ phase = "started"
  /\ r \notin mining
  /\ mining' = mining \cup {r}
  /\ UNCHANGED <<notHandler, phase>>

StopRun ==
  /\ phase = "started"
  /\ mining = Receiver
  /\ phase' = "stopping"
  /\ UNCHANGED <<notHandler, mining>>

StopReceiver(r) ==
  /\ phase = "stopping"
  /\ r \in mining
  /\ mining' = mining \ {r}
  /\ UNCHANGED <<notHandler, phase>>

\* notifyJoin of SpillSchedule.
StopSchedule ==
  /\ phase = "stopping"
  /\ mining = {}
  /\ phase' = "joining"
  /\ UNCHANGED <<notHandler, mining>>

\* The scheduling thread is joined; only then is the serialiser told.
StopSerialiser ==
  /\ phase = "joining"
  /\ sched = "off"
  /\ phase' = "draining"
  /\ UNCHANGED <<notHandler, mining>>

\* The serialiser is joined and destroyed, with what is left in its queue.
RunStopped ==
  /\ phase = "draining"
  /\ serial = "done"
  /\ Delete(queue)
  /\ queue' = {}
  /\ serial' = "off"
  /\ phase' = "stopped"
  /\ UNCHANGED <<current, draft, closed, schedVars, taken, filed, recvVars, approx>>

Handler == \/ StartRun \/ StopRun \/ StopSchedule \/ StopSerialiser \/ RunStopped
           \/ \E r \in Receiver : StartReceiver(r) \/ StopReceiver(r)
----------------------------------------------------------------------------
(* The hit receivers.  Each works on one datagram at a time.               *)

Becomes(r, j) ==
  /\ job' = [job EXCEPT ![r] = j]
  /\ UNCHANGED mining

\* The mode is read once; the timestamp is compared with approx here and
\* stored there by Bump, without a lock around the two.
Datagram(r, t) ==
  /\ job[r].at = "idle"
  /\ r \in mining \/ t > approx
  /\ Becomes(r, [at |-> IF t > approx THEN "bump" ELSE "find", time |-> t,
                 mine |-> r \in mining, slot |-> NoSpill])
  /\ UNCHANGED <<spillVars, notRecv, approx>>

Bump(r) ==
  /\ job[r].at = "bump"
  /\ approx' = job[r].time
  /\ Becomes(r, IF job[r].mine THEN [job[r] EXCEPT !.at = "find"] ELSE Idle)
  /\ UNCHANGED <<spillVars, notRecv>>

\* findDataSlot, under the reader's lock of current_schedule_.
FindSlot(r) ==
  /\ job[r].at = "find"
  /\ \/ \E s \in current :
          /\ Live(s) => Covers(s, job[r].time)
          /\ started' = IF Live(s) THEN started \cup {s} ELSE started
          /\ fresh' = IF Live(s) THEN fresh \cup {s} ELSE fresh
          /\ Becomes(r, [Idle EXCEPT !.at = "found", !.slot = s])
     \/ /\ \A s \in current : Live(s) => ~Covers(s, job[r].time)
        /\ Becomes(r, Idle)
        /\ UNCHANGED <<started, fresh>>
  /\ UNCHANGED <<mem, start, shut, hits, notRecv, approx>>

\* One look at closed_for_writing: go on, or discard the datagram.
LookAtSlot(r, from, to) ==
  /\ job[r].at = from
  /\ LET s == job[r].slot
     IN \/ /\ Live(s) => r \notin shut[s]
           /\ Becomes(r, [job[r] EXCEPT !.at = to])
        \/ /\ Live(s) => r \in shut[s]
           /\ Becomes(r, Idle)
  /\ UNCHANGED <<spillVars, notRecv, approx>>

CheckSlot(r) == LookAtSlot(r, "found", "lock")

\* Mutant: no second look.
LockWithoutLook(r) ==
  /\ job[r].at = "lock"
  /\ Becomes(r, [job[r] EXCEPT !.at = "write"])
  /\ UNCHANGED <<spillVars, notRecv, approx>>

\* Take the slot's mutex and look again.
LockSlot(r) == LookAtSlot(r, "lock", "write")

\* Mutant: the mutex is never released.
WriteAndKeepMutex(r) ==
  /\ job[r].at = "write"
  /\ LET s == job[r].slot
     IN hits' = IF Live(s) THEN [hits EXCEPT ![s] = @ \cup {r}] ELSE hits
  /\ UNCHANGED <<mem, start, started, fresh, shut, recvVars, notRecv, approx>>

\* Enqueue the hits and release the mutex.
WriteHits(r) ==
  /\ job[r].at = "write"
  /\ LET s == job[r].slot
     IN hits' = IF Live(s) THEN [hits EXCEPT ![s] = @ \cup {r}] ELSE hits
  /\ Becomes(r, Idle)
  /\ UNCHANGED <<mem, start, started, fresh, shut, notRecv, approx>>

Mine(r) == FindSlot(r) \/ CheckSlot(r) \/ LockSlot(r) \/ WriteHits(r)
----------------------------------------------------------------------------
(* The scheduling thread.                                                  *)

\* Four seconds pass without a datagram for s.
Mature(s) ==
  /\ s \in fresh
  /\ fresh' = fresh \ {s}
  /\ UNCHANGED <<mem, start, started, shut, hits, listVars, schedVars, notSched>>

\* Mutant: spills are closed after the loop only.
CopyScheduleNothingOld ==
  /\ sched = "loop"
  /\ draft' = current
  /\ ending' = ~Running
  /\ scan' = {s \in current : ~Running}
  /\ sched' = "scan"
  /\ UNCHANGED <<spillVars, current, closed, queue, victim, todo, notSched>>

\* The head of the loop, or what follows it: of the copied schedule only the
\* spills whose end time has matured, or all of them, can be closed.
CopySchedule ==
  /\ sched = "loop"
  /\ draft' = current
  /\ ending' = ~Running
  /\ scan' = {s \in current : Running => End(s) + Maturation < approx}
  /\ sched' = "scan"
  /\ UNCHANGED <<spillVars, current, closed, queue, victim, todo, notSched>>

\* The rest of the condition of closeOldSpills.
Examine(s) ==
  /\ sched = "scan"
  /\ s \in scan
  /\ scan' = scan \ {s}
  /\ IF ending \/ s \in started \ fresh
     THEN sched' = "flag" /\ victim' = s
     ELSE UNCHANGED <<sched, victim>>
  /\ UNCHANGED <<spillVars, listVars, ending, todo, notSched>>

\* closeSpill: set closed_for_writing in every slot, ...
CloseSlot(r) ==
  /\ sched = "flag"
  /\ r \notin shut[victim]
  /\ shut' = [shut EXCEPT ![victim] = @ \cup {r}]
  /\ UNCHANGED <<mem, start, started, fresh, hits, listVars, schedVars, notSched>>

SlotsClosed ==
  /\ sched = "flag"
  /\ shut[victim] = Receiver
  /\ sched' = "wait"
  /\ todo' = Receiver
  /\ UNCHANGED <<spillVars, listVars, ending, scan, victim, notSched>>

\* Mutant: the mutexes are not waited for.
PassMutexAnyway(r) ==
  /\ sched = "wait"
  /\ r \in todo
  /\ todo' = todo \ {r}
  /\ UNCHANGED <<spillVars, listVars, sched, ending, scan, victim, notSched>>

\* ... then lock and release the mutex of every slot, ...
PassMutex(r) ==
  /\ sched = "wait"
  /\ r \in todo
  /\ ~Writing(r, victim)
  /\ todo' = todo \ {r}
  /\ UNCHANGED <<spillVars, listVars, sched, ending, scan, victim, notSched>>

\* ... then dispose of the spill: delete it if no receiver ever found it.
SpillClosed ==
  /\ sched = "wait"
  /\ todo = {}
  /\ draft' = draft \ {victim}
  /\ IF victim \in started
     THEN /\ closed' = closed \cup {victim}
          /\ fresh' = fresh \ {victim}   \* of no more use
          /\ UNCHANGED <<mem, start, started, shut, hits>>
     ELSE Delete({victim}) /\ UNCHANGED closed
  /\ victim' = NoSpill
  /\ sched' = "scan"
  /\ UNCHANGED <<current, queue, ending, scan, todo, notSched>>

SchedGoesTo(to) ==
  /\ sched' = to
  /\ UNCHANGED <<spillVars, listVars, ending, scan, victim, todo, notSched>>

ScanDone ==
  /\ sched = "scan"
  /\ scan = {}
  /\ SchedGoesTo(IF ending THEN "swap" ELSE "push")

QueueFull == Cardinality(queue) >= QueueSize

\* serialiseClosedSpills: one spill accepted by the serialiser's queue.
Push(s) ==
  /\ sched = "push"
  /\ s \in closed
  /\ ~QueueFull
  /\ closed' = closed \ {s}
  /\ queue' = queue \cup {s}
  /\ UNCHANGED <<spillVars, current, draft, schedVars, notSched>>

\* Mutant: the thread does not block until all closed spills are accepted.
PushDoneInHaste ==
  /\ sched = "push"
  /\ closed = {} \/ QueueFull
  /\ sched' = IF ending THEN "off" ELSE "update"
  /\ ending' = FALSE
  /\ UNCHANGED <<spillVars, listVars, scan, victim, todo, notSched>>

\* Go on; after the loop only when every closed spill has been accepted.
PushDone ==
  /\ sched = "push"
  /\ closed = {} \/ (QueueFull /\ ~ending)
  /\ sched' = IF ending THEN "off" ELSE "update"
  /\ ending' = FALSE
  /\ UNCHANGED <<spillVars, listVars, scan, victim, todo, notSched>>

\* The scheduler has enough spills, no data yet, or (the bound) no spill left.
Scheduled == \/ approx = 0
             \/ draft # {} /\ Cardinality(draft) >= Ahead
             \/ \A s \in Spill : mem[s] # "unborn"

\* Mutant: a new spill covers the batch before the latest data.
AddSpillForThePast(s) ==
  /\ sched = "update"
  /\ ~Scheduled
  /\ mem[s] = "unborn"
  /\ mem' = [mem EXCEPT ![s] = "live"]
  /\ start' = [start EXCEPT ![s] = approx - Duration]
  /\ draft' = draft \cup {s}
  /\ UNCHANGED <<started, fresh, shut, hits, current, closed, queue, schedVars, notSched>>

\* updateSchedule and prepareNewSpills: a new spill at the end of the schedule.
AddSpill(s) ==
  /\ sched = "update"
  /\ ~Scheduled
  /\ mem[s] = "unborn"
  /\ mem' = [mem EXCEPT ![s] = "live"]
  /\ \/ draft = {} /\ start' = [start EXCEPT ![s] = approx]
     \/ \E back \in draft :
          /\ \A p \in draft : start[p] <= start[back]
          /\ start' = [start EXCEPT ![s] = End(back)]
  /\ draft' = draft \cup {s}
  /\ UNCHANGED <<started, fresh, shut, hits, current, closed, queue, schedVars, notSched>>

ScheduleDone ==
  /\ sched = "update"
  /\ Scheduled
  /\ SchedGoesTo("swap")

\* current_schedule_.swap(new_schedule), under the writer's lock.
Swap ==
  /\ sched = "swap"
  /\ current' = draft
  /\ draft' = {}
  /\ sched' = IF ending THEN "push" ELSE "loop"
  /\ UNCHANGED <<spillVars, closed, queue, ending, scan, victim, todo, notSched>>

Scheduling == \/ CopySchedule \/ SlotsClosed \/ SpillClosed \/ ScanDone
              \/ PushDone \/ ScheduleDone \/ Swap
              \/ \E s \in Spill : Examine(s) \/ Push(s) \/ AddSpill(s)
              \/ \E r \in Receiver : CloseSlot(r) \/ PassMutex(r)
----------------------------------------------------------------------------
(* The serialiser thread.                                                  *)

SerialGoesTo(to) ==
  /\ serial' = to
  /\ UNCHANGED <<spillVars, listVars, taken, filed, notSerial>>

OpenFile ==
  /\ serial = "open"
  /\ SerialGoesTo("poll") \/ (OpenFails /\ SerialGoesTo("done"))

Pop(s) ==
  /\ serial = "poll"
  /\ s \in queue
  /\ queue' = queue \ {s}
  /\ taken' = s
  /\ serial' = "work"
  /\ UNCHANGED <<spillVars, current, draft, closed, filed, notSerial>>

PopEmpty ==
  /\ serial = "poll"
  /\ queue = {}
  /\ SerialGoesTo("empty")

\* Mutant: an empty queue ends the serialiser.
StopWhenEmpty ==
  /\ serial = "empty"
  /\ SerialGoesTo("done")

\* Having found nothing to pop, stop or sleep.
TestRunning ==
  /\ serial = "empty"
  /\ SerialGoesTo(IF SerialiserRunning THEN "poll" ELSE "done")

WriteSpill ==
  /\ serial = "work"
  /\ filed' = filed \cup {taken}
  /\ Delete({taken})
  /\ taken' = NoSpill
  /\ serial' = "poll"
  /\ UNCHANGED <<listVars, notSerial>>

Serialising == OpenFile \/ PopEmpty \/ TestRunning \/ WriteSpill
               \/ \E s \in Spill : Pop(s)
----------------------------------------------------------------------------
Next == \/ Handler \/ Scheduling \/ Serialising
        \/ \E s \in Spill : Mature(s)
        \/ \E r \in Receiver : \/ Bump(r) \/ Mine(r)
                               \/ \E t \in Time : Datagram(r, t)

Spec == Init /\ [][Next]_vars

\* Every thread goes on with what it has begun, a run under way is stopped
\* completely once StopRun has come, and wall time passes.  No datagram ever
\* has to arrive and no command has to be given.
FairSpec ==
  /\ Spec
  /\ WF_vars(Scheduling) /\ WF_vars(Serialising)
  /\ WF_vars(StopSchedule) /\ WF_vars(StopSerialiser) /\ WF_vars(RunStopped)
  /\ \A r \in Receiver : WF_vars(Bump(r) \/ Mine(r)) /\ WF_vars(StopReceiver(r))
  /\ \A s \in Spill : WF_vars(Mature(s))
----------------------------------------------------------------------------
\* Every variable has its type.
TypeOK ==
  /\ mem \in [Spill -> {"unborn", "live", "deleted"}]
  /\ start \in [Spill -> Nat]
  /\ shut \in [Spill -> SUBSET Receiver]
  /\ hits \in [Spill -> SUBSET Receiver]
  /\ \A S \in {started, fresh, current, draft, closed, queue, filed, scan} :
        S \subseteq Spill
  /\ {taken, victim} \subseteq Spill \cup {NoSpill}
  /\ approx \in Nat
  /\ ending \in BOOLEAN
  /\ sched \in {"off", "loop", "scan", "flag", "wait", "push", "update", "swap"}
  /\ serial \in {"off", "open", "poll", "empty", "work", "done"}
  /\ phase \in {"stopped", "started", "stopping", "joining", "draining"}
  /\ todo \subseteq Receiver /\ mining \subseteq Receiver
  /\ job \in [Receiver -> Job]

\* The spills in the hands of SpillSchedule and open: the thread's copy counts
\* while it works on one.
Owned == IF sched \in {"off", "loop"} THEN current ELSE draft

Taken == {taken} \ {NoSpill}

\* A spill that exists is in exactly one pair of hands: none leaks, none can
\* be deleted twice.  (startRun's clear() of the lists relies on it.)
OneOwner ==
  /\ {s \in Spill : Live(s)} = Owned \cup closed \cup queue \cup Taken
  /\ Owned \cap closed = {} /\ Owned \cap queue = {} /\ Owned \cap Taken = {}
  /\ closed \cap queue = {} /\ closed \cap Taken = {} /\ queue \cap Taken = {}

\* Once a spill has been closed no receiver is writing into it, whatever its
\* owner: the serialiser reads the hits without taking the slots' mutexes.
ClosedIsQuiet ==
  \A s \in closed \cup queue \cup Taken, r \in Receiver : ~Writing(r, s)

\* No timestamp belongs to two open spills.
OpenSpillsDisjoint ==
  \A p, q \in Owned : p # q => End(p) <= start[q] \/ End(q) <= start[p]

\* How far s has got, for SpillLife.
Stage(s) ==
  CASE mem[s] = "unborn" -> "unborn"
    [] Live(s) -> IF s \in Owned THEN "open" ELSE "closed"
    [] mem[s] = "deleted" -> IF s \in filed THEN "filed" ELSE "dropped"

Life == INSTANCE SpillLife WITH stage <- [s \in Spill |-> Stage(s)]

\* Whatever the threads do, every spill lives the life of SpillLife: nothing
\* is added to a spill that was closed, nothing with hits in it is deleted
\* but after it was written to the file, or with the serialiser's queue.
HitsKeptUntilFiled == Life!Spec

\* A run is stopped completely when the output file could be opened.
RunStops == phase = "stopping" ~> phase = "stopped"

\* A closed spill is written to the file or, in the end, discarded.
ClosedLeaves == \A s \in Spill : s \in closed ~> ~Live(s)

\* The end time of s lies more than MATURATION_SECONDS before the last data.
Expired(s) == s \in Owned /\ End(s) + Maturation < approx

\* A spill with data does not stay open for ever once it is over and no
\* receiver touches it any more.
StartedSpillCloses ==
  \A s \in Spill : []<>~(Expired(s) /\ s \in started \ fresh)
----------------------------------------------------------------------------
(* What comments of the source say, and the code does not keep.            *)

\* "From this point on, the spill is being written into and cannot be
\* closed": a receiver writes into a spill that is still open.
WritesIntoOpenSpill ==
  \A r \in Receiver, s \in Spill : Writing(r, s) => s \in Owned

\* "If there's something to process, dequeue. If not, and we're done, stop":
\* the serialiser that opened its file stops with nothing left to process.
StopsWhenNothingLeft == phase = "draining" /\ serial = "done" => queue = {}

\* "which closes them when the run ends or when their end time expires during
\* an ongoing run": no spill stays open for ever once it is over and no
\* receiver touches it any more.
ExpiredSpillCloses == \A s \in Spill : []<>~(Expired(s) /\ s \notin fresh)

\* "The DataRunSerialiser acts as a sink and deletes all Spills it receives":
\* at the latest when the run is stopped.
SinkDeletes ==
  \A s \in Spill : s \in queue /\ phase = "joining" ~> ~Live(s)

\* "Bump up last approximate timestamp": within a run it never goes back.
ApproxOnlyRises == [][phase = phase' => approx' >= approx]_vars
============================================================================
