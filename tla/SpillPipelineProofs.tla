------------------------ MODULE SpillPipelineProofs ------------------------
(***************************************************************************)
(* Theorems about SpillPipeline, for any number of spills and receivers,   *)
(* any scheduler setting and any size of the serialiser's queue.           *)
(***************************************************************************)
EXTENDS SpillPipeline, TLAPS

\* Where the threads can be, and what their local variables hold there.
Control ==
  /\ phase \in {"stopped", "draining"} => sched = "off"
  /\ phase = "stopped" => serial = "off"
  /\ sched = "off" => current = {} /\ closed = {}
  /\ sched \in {"off", "loop"} => draft = {}
  /\ ending /\ sched \in {"push", "swap"} => draft = {}
  /\ ending /\ sched = "push" => current = {}
  /\ sched \in {"off", "loop", "update"} => ~ending
  /\ sched \in {"flag", "wait"} <=> victim # NoSpill
  /\ victim # NoSpill => victim \in draft /\ victim \notin scan
  /\ scan \subseteq draft
  /\ sched \in {"push", "update", "swap"} => scan = {}
  /\ ending /\ sched \in {"scan", "flag",
        "wait"} => draft \subseteq scan \cup {victim}
  /\ serial = "work" <=> taken # NoSpill

\* What is known of a spill from where it is.
Contents ==
  /\ \A s \in current : mem[s] # "unborn"
  /\ \A s \in closed \cup queue \cup Taken : shut[s] = Receiver
  /\ sched = "wait" => shut[victim] = Receiver
  /\ filed \subseteq {s \in Spill : mem[s] = "deleted"}
  /\ \A s \in Spill : hits[s] # {} => s \in started

\* What is known of the spill a receiver works on.
Access ==
  \A r \in Receiver :
    job[r].at \in {"found", "lock", "write"} =>
      LET s == job[r].slot
      IN /\ s \in Spill
         /\ mem[s] # "unborn"
         /\ Live(s) => s \in started
         /\ Live(s) /\ job[r].at = "write" /\ r \in shut[s]
              => s = victim /\ (sched = "flag" \/ (sched = "wait" /\ r \in todo))

IInv == TypeOK /\ Control /\ OneOwner /\ Contents /\ Access
----------------------------------------------------------------------------

\* The inductive invariant holds when daqonite starts.
LEMMA InitIInv == Init => IInv
<1>. SUFFICES ASSUME Init PROVE IInv
  OBVIOUS
<1>. USE DEF Init
<1>1. TypeOK
  BY PipelineAssumption DEF TypeOK, Idle, Job
<1>2. Control
  BY DEF Control
<1>3. OneOwner
  BY DEF OneOwner, Owned, Taken, Live
<1>4. Contents
  BY DEF Contents, Taken
<1>5. Access
  BY DEF Access, Idle
<1>. QED
  BY <1>1, <1>2, <1>3, <1>4, <1>5 DEF IInv

\* Every command of the DAQHandler keeps the types.
LEMMA HandlerType == TypeOK /\ Handler => TypeOK'
<1>. SUFFICES ASSUME TypeOK, Handler PROVE TypeOK'
  OBVIOUS
<1>. USE DEF TypeOK, Delete, spillVars, listVars, schedVars, serialVars,
      recvVars, notHandler
<1>1. CASE StartRun
  BY <1>1 DEF StartRun
<1>2. CASE StopRun \/ StopSchedule \/ StopSerialiser
  BY <1>2 DEF StopRun, StopSchedule, StopSerialiser
<1>3. CASE RunStopped
  BY <1>3 DEF RunStopped
<1>4. CASE \E r \in Receiver : StartReceiver(r) \/ StopReceiver(r)
  BY <1>4 DEF StartReceiver, StopReceiver
<1>. QED
  BY <1>1, <1>2, <1>3, <1>4 DEF Handler

\* So does every step of a receiver.
LEMMA ReceiverType ==
  ASSUME TypeOK, NEW r \in Receiver,
         Bump(r) \/ Mine(r) \/ \E t \in Time : Datagram(r, t)
  PROVE  TypeOK'
<1>. USE DEF TypeOK, spillVars, notRecv, listVars, schedVars, serialVars, Becomes
<1>. Idle \in Job
  BY DEF Idle, Job
<1>1. CASE Bump(r)
  BY <1>1, PipelineAssumption DEF Bump, Job
<1>2. CASE FindSlot(r)
  <2>1. \A s \in current : [Idle EXCEPT !.at = "found", !.slot = s] \in Job
    BY DEF Idle, Job
  <2>2. /\ started' \subseteq Spill /\ fresh' \subseteq Spill
        /\ job' \in [Receiver -> Job]
    <3>1. CASE \A s \in current : Live(s) => ~Covers(s, job[r].time)
      BY <1>2, <2>1, <3>1 DEF FindSlot
    <3>2. ASSUME NEW s \in current,
                 started' = IF Live(s) THEN started \cup {s} ELSE started,
                 fresh' = IF Live(s) THEN fresh \cup {s} ELSE fresh,
                 Becomes(r, [Idle EXCEPT !.at = "found", !.slot = s])
          PROVE  /\ started' \subseteq Spill /\ fresh' \subseteq Spill
                 /\ job' \in [Receiver -> Job]
      BY <2>1, <3>2
    <3>. QED
      BY <1>2, <3>2 DEF FindSlot
  <2>3. UNCHANGED <<mem, start, shut, hits, notRecv, approx, mining>>
    BY <1>2 DEF FindSlot
  <2>. QED
    BY <2>2, <2>3
<1>3. CASE CheckSlot(r) \/ LockSlot(r)
  BY <1>3 DEF CheckSlot, LockSlot, LookAtSlot, Job
<1>4. CASE WriteHits(r)
  BY <1>4 DEF WriteHits
<1>5. ASSUME NEW t \in Time, Datagram(r, t) PROVE TypeOK'
  BY <1>5 DEF Datagram, Job
<1>. QED
  BY <1>1, <1>2, <1>3, <1>4, <1>5 DEF Mine

\* So does every step of the scheduling thread.
LEMMA SchedulingType == TypeOK /\ Control /\ Scheduling => TypeOK'
<1>. SUFFICES ASSUME TypeOK, Control, Scheduling PROVE TypeOK'
  OBVIOUS
<1>. USE DEF TypeOK, spillVars, listVars, notSched, serialVars, recvVars,
      schedVars
<1>1. CASE CopySchedule \/ SlotsClosed \/ ScanDone \/ ScheduleDone \/ Swap
  BY <1>1 DEF CopySchedule, SlotsClosed, ScanDone, ScheduleDone, Swap, SchedGoesTo
<1>2. CASE SpillClosed
  BY <1>2 DEF SpillClosed, Delete, Control
<1>3. CASE PushDone
  BY <1>3 DEF PushDone
<1>4. ASSUME NEW s \in Spill, Examine(s) \/ Push(s) PROVE TypeOK'
  BY <1>4 DEF Examine, Push
<1>5. ASSUME NEW s \in Spill, AddSpill(s) PROVE TypeOK'
  <2>1. start' \in [Spill -> Nat]
    BY <1>5, PipelineAssumption DEF AddSpill, End
  <2>. QED
    BY <1>5, <2>1 DEF AddSpill
<1>6. ASSUME NEW r \in Receiver, CloseSlot(r) \/ PassMutex(r) PROVE TypeOK'
  BY <1>6 DEF CloseSlot, PassMutex
<1>. QED
  BY <1>1, <1>2, <1>3, <1>4, <1>5, <1>6 DEF Scheduling

\* So does every step of the serialiser.
LEMMA SerialisingType == TypeOK /\ Control /\ Serialising => TypeOK'
<1>. SUFFICES ASSUME TypeOK, Control, Serialising PROVE TypeOK'
  OBVIOUS
<1>. USE DEF TypeOK, spillVars, listVars, notSerial, schedVars, recvVars
<1>1. CASE OpenFile \/ PopEmpty \/ TestRunning
  BY <1>1 DEF OpenFile, PopEmpty, TestRunning, SerialGoesTo
<1>2. CASE WriteSpill
  BY <1>2 DEF WriteSpill, Delete, Control
<1>3. ASSUME NEW s \in Spill, Pop(s) PROVE TypeOK'
  BY <1>3 DEF Pop
<1>. QED
  BY <1>1, <1>2, <1>3 DEF Serialising

\* So does the passing of time, and a step of somebody else.
LEMMA RestType ==
  ASSUME TypeOK, (\E s \in Spill : Mature(s)) \/ UNCHANGED vars
  PROVE  TypeOK'
BY DEF TypeOK, Mature, vars, spillVars, listVars, schedVars, serialVars,
      recvVars, notSched
----------------------------------------------------------------------------
(* The steps and the rest of the invariant.                                *)

\* Starting a run throws nothing away: the lists it clears are empty.
LEMMA StartRunKeeps ==
  ASSUME IInv, StartRun
  PROVE  (Control /\ OneOwner /\ Contents /\ Access)'
<1>. USE DEF IInv, StartRun, spillVars, listVars, schedVars, serialVars, recvVars
<1>1. Control'
  BY DEF Control
<1>2. OneOwner'
  BY DEF Control, OneOwner, Owned, Taken, Live
<1>3. Contents'
  BY DEF Contents, Taken
<1>4. Access'
  BY DEF Control, Access, Live
<1>. QED
  BY <1>1, <1>2, <1>3, <1>4

\* The other steps of the DAQHandler move no spill.
LEMMA HandlerKeeps ==
  ASSUME IInv,
        StopRun \/ StopSchedule \/ StopSerialiser
        \/ (\E r \in Receiver : StartReceiver(r) \/ StopReceiver(r))
  PROVE  (Control /\ OneOwner /\ Contents /\ Access)'
<1>. USE DEF IInv, StopRun, StopSchedule, StopSerialiser, StartReceiver,
      StopReceiver, notHandler, spillVars, listVars, schedVars, serialVars,
      recvVars
<1>1. Control'
  BY DEF Control
<1>2. OneOwner'
  BY DEF OneOwner, Owned, Taken, Live
<1>3. Contents'
  BY DEF Contents, Taken
<1>4. Access'
  BY DEF Access, Live
<1>. QED
  BY <1>1, <1>2, <1>3, <1>4

\* Tearing down the serialiser deletes the spills of its queue, nobody else's.
LEMMA RunStoppedKeeps ==
  ASSUME IInv, RunStopped
  PROVE  (Control /\ OneOwner /\ Contents /\ Access)'
<1>. USE DEF IInv, RunStopped, Delete, spillVars, listVars, schedVars,
      serialVars, recvVars
<1>1. Control'
  BY DEF Control
<1>2. OneOwner'
  BY DEF OneOwner, Owned, Taken, Live
<1>3. Contents'
  BY DEF Control, Contents, Taken
<1>4. Access'
  BY DEF Access, Live
<1>. QED
  BY <1>1, <1>2, <1>3, <1>4

\* A datagram comes in, or bumps the timestamp: no spill is concerned.
LEMMA DatagramKeeps ==
  ASSUME IInv, NEW r \in Receiver, Bump(r) \/ \E t \in Time : Datagram(r, t)
  PROVE  (Control /\ OneOwner /\ Contents /\ Access)'
<1>. USE DEF IInv, Bump, Datagram, notRecv, Becomes, spillVars, listVars,
      schedVars, serialVars, recvVars
<1>1. Control'
  BY DEF Control
<1>2. OneOwner'
  BY DEF OneOwner, Owned, Taken, Live
<1>3. Contents'
  BY DEF Contents, Taken
<1>4. Access'
  BY DEF TypeOK, Access, Live, Job, Idle
<1>. QED
  BY <1>1, <1>2, <1>3, <1>4

\* A receiver that is given a slot has marked the spill as started.
LEMMA FindSlotKeeps ==
  ASSUME IInv, NEW r \in Receiver, FindSlot(r)
  PROVE  (Control /\ OneOwner /\ Contents /\ Access)'
<1>. USE DEF IInv, FindSlot, notRecv, Becomes, spillVars, listVars, schedVars,
      serialVars, recvVars
<1>1. Control'
  BY DEF Control
<1>2. OneOwner'
  BY DEF OneOwner, Owned, Taken, Live
<1>3. Contents'
  BY DEF Contents, Taken
<1>4. Access'
  <2>1. UNCHANGED <<mem, shut, victim, sched, todo>> /\ started \subseteq started'
    OBVIOUS
  <2>2. ASSUME NEW q \in Receiver, q # r PROVE job'[q] = job[q]
    BY <2>2 DEF TypeOK
  <2>3. CASE Becomes(r, Idle)
    BY <2>1, <2>2, <2>3 DEF TypeOK, Access, Live, Idle
  <2>4. ASSUME NEW s \in current,
               started' = IF Live(s) THEN started \cup {s} ELSE started,
               Becomes(r, [Idle EXCEPT !.at = "found", !.slot = s])
        PROVE  Access'
    <3>1. job'[r].at = "found" /\ job'[r].slot = s
      BY <2>4 DEF TypeOK, Idle
    <3>2. s \in Spill
      BY DEF TypeOK
    <3>3. mem[s] # "unborn"
      BY DEF Contents
    <3>4. Live(s) => s \in started'
      BY <2>4
    <3>. QED
      BY <2>1, <2>2, <3>1, <3>2, <3>3, <3>4 DEF Access, Live
  <2>. QED
    BY <2>3, <2>4
<1>. QED
  BY <1>1, <1>2, <1>3, <1>4

\* A receiver gets inside a slot only if that is not closed for writing.
LEMMA LookKeeps ==
  ASSUME IInv, NEW r \in Receiver, CheckSlot(r) \/ LockSlot(r)
  PROVE  (Control /\ OneOwner /\ Contents /\ Access)'
<1>. USE DEF IInv, CheckSlot, LockSlot, LookAtSlot, notRecv, Becomes,
      spillVars, listVars, schedVars, serialVars, recvVars
<1>1. Control'
  BY DEF Control
<1>2. OneOwner'
  BY DEF OneOwner, Owned, Taken, Live
<1>3. Contents'
  BY DEF Contents, Taken
<1>4. Access'
  BY DEF TypeOK, Access, Live, Job, Idle
<1>. QED
  BY <1>1, <1>2, <1>3, <1>4

\* A receiver writes into a spill that is started, if it exists at all.
LEMMA WriteKeeps ==
  ASSUME IInv, NEW r \in Receiver, WriteHits(r)
  PROVE  (Control /\ OneOwner /\ Contents /\ Access)'
<1>. USE DEF IInv, WriteHits, notRecv, Becomes, spillVars, listVars,
      schedVars, serialVars, recvVars
<1>1. Control'
  BY DEF Control
<1>2. OneOwner'
  BY DEF OneOwner, Owned, Taken, Live
<1>3. Contents'
  BY DEF Contents, Access, Taken
<1>4. Access'
  BY DEF Access, Live, Idle
<1>. QED
  BY <1>1, <1>2, <1>3, <1>4

\* The passing of time concerns no list.
LEMMA MatureKeeps ==
  ASSUME IInv, (\E s \in Spill : Mature(s)) \/ UNCHANGED vars
  PROVE  (Control /\ OneOwner /\ Contents /\ Access)'
<1>. USE DEF IInv, Mature, vars, notSched, spillVars, listVars, schedVars,
      serialVars, recvVars
<1>1. Control'
  BY DEF Control
<1>2. OneOwner'
  BY DEF OneOwner, Owned, Taken, Live
<1>3. Contents'
  BY DEF Contents, Taken
<1>4. Access'
  BY DEF Access, Live
<1>. QED
  BY <1>1, <1>2, <1>3, <1>4

\* The scheduling thread leaves its loop with nothing open or closed in hand.
LEMMA LoopKeeps ==
  ASSUME IInv, CopySchedule \/ ScanDone \/ ScheduleDone \/ PushDone
  PROVE  (Control /\ OneOwner /\ Contents /\ Access)'
<1>. USE DEF IInv, CopySchedule, ScanDone, ScheduleDone, PushDone,
      SchedGoesTo, notSched, spillVars, listVars, schedVars, serialVars,
      recvVars
<1>1. Control'
  BY PipelineAssumption DEF TypeOK, Control
<1>2. OneOwner'
  BY DEF Control, OneOwner, Owned, Taken, Live
<1>3. Contents'
  BY DEF Contents, Taken
<1>4. Access'
  BY DEF Access, Live
<1>. QED
  BY <1>1, <1>2, <1>3, <1>4

\* The swap hands the copied schedule over without loss.
LEMMA SwapKeeps ==
  ASSUME IInv, Swap
  PROVE  (Control /\ OneOwner /\ Contents /\ Access)'
<1>. USE DEF IInv, Swap, notSched, spillVars, listVars, schedVars, serialVars,
      recvVars
<1>1. Control'
  BY DEF Control
<1>2. OneOwner'
  BY DEF Control, OneOwner, Owned, Taken, Live
<1>3. Contents'
  BY DEF OneOwner, Contents, Owned, Taken, Live
<1>4. Access'
  BY DEF Access, Live
<1>. QED
  BY <1>1, <1>2, <1>3, <1>4

\* The spill chosen to be closed is in the copied schedule.
LEMMA ExamineKeeps ==
  ASSUME IInv, NEW s \in Spill, Examine(s)
  PROVE  (Control /\ OneOwner /\ Contents /\ Access)'
<1>. USE DEF IInv, Examine, notSched, spillVars, listVars, schedVars,
      serialVars, recvVars
<1>1. Control'
  BY PipelineAssumption DEF Control, OneOwner, Owned
<1>2. OneOwner'
  BY DEF OneOwner, Owned, Taken, Live
<1>3. Contents'
  BY DEF Contents, Taken
<1>4. Access'
  BY DEF Access, Live
<1>. QED
  BY <1>1, <1>2, <1>3, <1>4

\* Who is still inside a closed slot has its mutex waited for.
LEMMA CloseSlotKeeps ==
  ASSUME IInv, SlotsClosed \/ \E r \in Receiver : CloseSlot(r) \/ PassMutex(r)
  PROVE  (Control /\ OneOwner /\ Contents /\ Access)'
<1>. USE DEF IInv, SlotsClosed, CloseSlot, PassMutex, Writing, notSched,
      spillVars, listVars, schedVars, serialVars, recvVars
<1>1. Control'
  BY DEF Control
<1>2. OneOwner'
  BY DEF OneOwner, Owned, Taken, Live
<1>3. Contents'
  BY DEF TypeOK, Contents, Taken
<1>4. Access'
  BY DEF TypeOK, Access, Live
<1>. QED
  BY <1>1, <1>2, <1>3, <1>4

\* A closed spill goes from the schedule to the closed list, or is deleted.
LEMMA SpillClosedKeeps ==
  ASSUME IInv, SpillClosed
  PROVE  (Control /\ OneOwner /\ Contents /\ Access)'
<1>. USE DEF IInv, SpillClosed, Delete, notSched, spillVars, listVars,
      schedVars, serialVars, recvVars
<1>1. Control'
  BY DEF Control
<1>2. OneOwner'
  BY DEF Control, OneOwner, Owned, Taken, Live
<1>3. Contents'
  BY DEF TypeOK, Control, OneOwner, Contents, Owned, Taken
<1>4. Access'
  BY DEF Access, Live
<1>. QED
  BY <1>1, <1>2, <1>3, <1>4

\* A spill goes from the closed list to the queue.
LEMMA PushKeeps ==
  ASSUME IInv, NEW s \in Spill, Push(s)
  PROVE  (Control /\ OneOwner /\ Contents /\ Access)'
<1>. USE DEF IInv, Push, notSched, spillVars, listVars, schedVars, serialVars,
      recvVars
<1>1. Control'
  BY DEF Control
<1>2. OneOwner'
  BY DEF OneOwner, Owned, Taken, Live
<1>3. Contents'
  BY DEF Contents, Taken
<1>4. Access'
  BY DEF Access, Live
<1>. QED
  BY <1>1, <1>2, <1>3, <1>4

\* A new spill joins the schedule.
LEMMA AddSpillKeeps ==
  ASSUME IInv, NEW s \in Spill, AddSpill(s)
  PROVE  (Control /\ OneOwner /\ Contents /\ Access)'
<1>. USE DEF IInv, AddSpill, notSched, spillVars, listVars, schedVars,
      serialVars, recvVars
<1>1. Control'
  BY DEF Control
<1>2. OneOwner'
  BY DEF TypeOK, OneOwner, Owned, Taken, Live
<1>3. Contents'
  BY DEF Contents, Taken
<1>4. Access'
  BY DEF Access, Live
<1>. QED
  BY <1>1, <1>2, <1>3, <1>4

\* The serialiser takes spills out of its queue one at a time.
LEMMA PollKeeps ==
  ASSUME IInv, OpenFile \/ PopEmpty \/ TestRunning \/ \E s \in Spill : Pop(s)
  PROVE  (Control /\ OneOwner /\ Contents /\ Access)'
<1>. USE DEF IInv, OpenFile, PopEmpty, TestRunning, SerialGoesTo, Pop,
      notSerial, spillVars, listVars, schedVars, serialVars, recvVars
<1>1. Control'
  BY PipelineAssumption DEF Control
<1>2. OneOwner'
  BY PipelineAssumption DEF Control, OneOwner, Owned, Taken, Live
<1>3. Contents'
  BY DEF Contents, Taken
<1>4. Access'
  BY DEF Access, Live
<1>. QED
  BY <1>1, <1>2, <1>3, <1>4

\* The serialiser deletes the spill it has taken.
LEMMA WriteSpillKeeps ==
  ASSUME IInv, WriteSpill
  PROVE  (Control /\ OneOwner /\ Contents /\ Access)'
<1>. USE DEF IInv, WriteSpill, Delete, notSerial, spillVars, listVars,
      schedVars, serialVars, recvVars
<1>1. Control'
  BY DEF Control
<1>2. OneOwner'
  BY DEF Control, OneOwner, Owned, Taken, Live
<1>3. Contents'
  BY DEF TypeOK, Control, OneOwner, Contents, Owned, Taken
<1>4. Access'
  BY DEF Access, Live
<1>. QED
  BY <1>1, <1>2, <1>3, <1>4

\* Every step keeps the inductive invariant.
LEMMA StepIInv == IInv /\ [Next]_vars => IInv'
<1>. SUFFICES ASSUME IInv, [Next]_vars PROVE IInv'
  OBVIOUS
<1>1. TypeOK'
  BY HandlerType, ReceiverType, SchedulingType, SerialisingType, RestType
        DEF IInv, Next
<1>2. CASE Handler
  BY <1>1, <1>2, StartRunKeeps, HandlerKeeps, RunStoppedKeeps DEF Handler, IInv
<1>3. CASE Scheduling
  BY <1>1, <1>3, LoopKeeps, SwapKeeps, ExamineKeeps, CloseSlotKeeps,
     SpillClosedKeeps, PushKeeps, AddSpillKeeps DEF Scheduling, IInv
<1>4. CASE Serialising
  BY <1>1, <1>4, PollKeeps, WriteSpillKeeps DEF Serialising, IInv
<1>5. CASE (\E s \in Spill : Mature(s)) \/ UNCHANGED vars
  BY <1>1, <1>5, MatureKeeps DEF IInv
<1>6. ASSUME NEW r \in Receiver,
      Bump(r) \/ Mine(r) \/ \E t \in Time : Datagram(r, t)
      PROVE  IInv'
  BY <1>1, <1>6, DatagramKeeps, FindSlotKeeps, LookKeeps, WriteKeeps DEF Mine,
        IInv
<1>. QED
  BY <1>2, <1>3, <1>4, <1>5, <1>6 DEF Next

\* The inductive invariant holds throughout.
LEMMA Invariant == Spec => []IInv
BY InitIInv, StepIInv, PTL DEF Spec

\* The variables of the pipeline keep their types, whatever the constants.
THEOREM TypeCorrect == Spec => []TypeOK
<1>1. IInv => TypeOK
  BY DEF IInv
<1>. QED
  BY <1>1, Invariant, PTL

\* No spill leaks and none is deleted twice: between SpillSchedule's lists, the
\* serialiser's queue and the serialiser's hands, each has one owner.
THEOREM SingleOwner == Spec => []OneOwner
<1>1. IInv => OneOwner
  BY DEF IInv
<1>. QED
  BY <1>1, Invariant, PTL

\* The handshake of closeSpill and findAndLockDataSlot works: when a spill has
\* been closed no receiver is inside it.
THEOREM ClosedSpillIsQuiet == Spec => []ClosedIsQuiet
<1>1. ASSUME IInv, NEW s \in closed \cup queue \cup Taken, NEW r \in Receiver,
             Writing(r, s)
      PROVE  FALSE
  <2>1. Live(s) /\ r \in shut[s]
    BY <1>1 DEF IInv, OneOwner, Contents, TypeOK, Taken
  <2>2. s = victim /\ sched \in {"flag", "wait"}
    BY <1>1, <2>1 DEF IInv, Access, Writing
  <2>3. s \in Owned
    BY <1>1, <2>2 DEF IInv, Control, Owned
  <2>. QED
    BY <1>1, <2>3 DEF IInv, OneOwner
<1>2. IInv => ClosedIsQuiet
  BY <1>1 DEF ClosedIsQuiet
<1>. QED
  BY <1>2, Invariant, PTL
----------------------------------------------------------------------------
(* The pipeline implements SpillLife.                                      *)

\* Most steps concern no spill's life at all.
LEMMA OthersStutter ==
  ASSUME IInv, UNCHANGED <<mem, hits, filed>>, Owned' = Owned
  PROVE  UNCHANGED Life!vars
BY DEF Life!vars, Stage, Live

\* The scheduling thread's rounds leave the owned spills alone.
LEMMA RoundStutters ==
  ASSUME IInv,
         \/ CopySchedule \/ SlotsClosed \/ ScanDone \/ PushDone \/ ScheduleDone \/ Swap
         \/ \E s \in Spill : Examine(s) \/ Push(s)
         \/ \E r \in Receiver : CloseSlot(r) \/ PassMutex(r)
  PROVE  UNCHANGED Life!vars
<1>1. UNCHANGED <<mem, hits, filed>>
  BY DEF CopySchedule, SlotsClosed, ScanDone, PushDone, ScheduleDone, Swap,
        Examine,
         Push, CloseSlot, PassMutex, SchedGoesTo, spillVars, notSched, serialVars
<1>2. Owned' = Owned
  BY DEF IInv, Control, Owned, CopySchedule, SlotsClosed, ScanDone, PushDone,
         ScheduleDone, Swap, Examine, Push, CloseSlot, PassMutex, SchedGoesTo,
         listVars, schedVars
<1>. QED
  BY <1>1, <1>2, OthersStutter

\* Adding a spill opens it.
LEMMA AddOpens ==
  ASSUME IInv, NEW s \in Spill, AddSpill(s)
  PROVE  Life!Open(s)
<1>. USE DEF AddSpill, notSched, serialVars, schedVars
<1>1. Stage(s) = "unborn" /\ Stage(s)' = "open"
  BY DEF Stage, Live, Owned, IInv, TypeOK
<1>2. ASSUME NEW p \in Spill, p # s PROVE Stage(p)' = Stage(p)
  BY <1>2 DEF Stage, Live, Owned, IInv, TypeOK
<1>. QED
  BY <1>1, <1>2 DEF Life!Open

\* Closing a spill closes or drops it.
LEMMA CloseCloses ==
  ASSUME IInv, SpillClosed
  PROVE  \E s \in Spill : Life!Close(s) \/ Life!DropEmpty(s)
<1>. USE DEF SpillClosed, notSched, serialVars
<1>. DEFINE v == victim
<1>1. v \in Spill /\ v \in Owned /\ v \notin closed /\ Live(v) /\ v \notin filed
  BY PipelineAssumption DEF IInv, Control, TypeOK, OneOwner, Contents, Owned, Live
<1>2. PICK s \in Spill : s = victim
  BY <1>1
<1>3. ASSUME NEW p \in Spill, p # s PROVE Stage(p)' = Stage(p)
  BY <1>2, <1>3 DEF Stage, Live, Owned, Delete, IInv, TypeOK
<1>4. Stage(s) = "open"
  BY <1>1, <1>2 DEF Stage, Live
<1>5. CASE s \in started
  <2>1. Stage(s)' = "closed" /\ UNCHANGED hits
    BY <1>1, <1>2, <1>5 DEF Stage, Live, Owned
  <2>. QED
    BY <1>3, <1>4, <2>1 DEF Life!Close
<1>6. CASE s \notin started
  <2>1. hits[s] = {}
    BY <1>6 DEF IInv, Contents
  <2>2. UNCHANGED hits
    <3>1. hits' = [p \in Spill |-> IF p \in {s} THEN {} ELSE hits[p]]
      BY <1>2, <1>6 DEF Delete
    <3>2. \A p \in Spill : hits'[p] = hits[p]
      BY <2>1, <3>1
    <3>3. hits = [p \in Spill |-> hits[p]] /\ hits' = [p \in Spill |-> hits'[p]]
      BY <3>1 DEF IInv, TypeOK
    <3>. QED
      BY <3>2, <3>3
  <2>3. Stage(s)' = "dropped"
    BY <1>1, <1>2, <1>6 DEF Stage, Live, Delete
  <2>. QED
    BY <1>3, <1>4, <2>1, <2>2, <2>3 DEF Life!DropEmpty
<1>. QED
  BY <1>5, <1>6

\* Writing a spill files it.
LEMMA WriteFiles ==
  ASSUME IInv, WriteSpill
  PROVE  \E s \in Spill : Life!File(s)
<1>. USE DEF WriteSpill, notSerial, listVars, schedVars, recvVars
<1>. DEFINE v == taken
<1>1. v \in Spill /\ Live(v) /\ v \notin Owned
  BY PipelineAssumption DEF IInv, Control, TypeOK, OneOwner, Taken
<1>2. PICK s \in Spill : s = taken
  BY <1>1
<1>3. ASSUME NEW p \in Spill, p # s PROVE Stage(p)' = Stage(p)
  BY <1>2, <1>3 DEF Stage, Live, Owned, Delete
<1>4. Stage(s) = "closed" /\ Stage(s)' = "filed"
  BY <1>1, <1>2 DEF Stage, Live, Delete
<1>5. hits' = [hits EXCEPT ![s] = {}]
  BY <1>2 DEF Delete, IInv, TypeOK
<1>. QED
  BY <1>3, <1>4, <1>5 DEF Life!File

\* Tearing down the serialiser discards what is left in its queue.
LEMMA StopDiscards ==
  ASSUME IInv, RunStopped
  PROVE  \E S \in SUBSET Spill : Life!Discard(S)
<1>. USE DEF RunStopped, schedVars
<1>1. queue \in SUBSET Spill
  BY DEF IInv, TypeOK
<1>2. ASSUME NEW s \in queue
      PROVE  Live(s) /\ s \notin Owned /\ s \notin filed
  BY <1>1 DEF IInv, OneOwner, Contents, Live
<1>3. ASSUME NEW s \in queue PROVE Stage(s) = "closed" /\ Stage(s)' = "dropped"
  BY <1>1, <1>2, <1>3 DEF Stage, Live, Delete
<1>4. ASSUME NEW p \in Spill, p \notin queue PROVE Stage(p)' = Stage(p)
  BY <1>4 DEF Stage, Live, Owned, Delete
<1>5. Life!Discard(queue)
  BY <1>1, <1>3, <1>4 DEF Life!Discard, Delete
<1>. QED
  BY <1>1, <1>5

\* A receiver writes into an open spill, or into one that is deleted.
LEMMA WriteStores ==
  ASSUME IInv, NEW r \in Receiver, WriteHits(r)
  PROVE  UNCHANGED Life!vars \/ \E s \in Spill : Life!Store(s, r)
<1>. USE DEF WriteHits, notRecv, serialVars, listVars, schedVars
<1>. DEFINE s == job[r].slot
<1>1. UNCHANGED <<mem, filed>> /\ Owned' = Owned
  BY DEF Owned
<1>2. \A p \in Spill : Stage(p)' = Stage(p)
  BY <1>1 DEF Stage, Live
<1>3. s \in Spill
  BY DEF IInv, Access
<1>4. CASE Live(s)
  <2>1. s \notin closed \cup queue \cup Taken
    <3>1. ASSUME s \in closed \cup queue \cup Taken PROVE FALSE
      <4>1. r \in shut[s]
        BY <3>1 DEF IInv, Contents
      <4>2. s = victim /\ sched \in {"flag", "wait"}
        BY <1>4, <4>1 DEF IInv, Access
      <4>3. s \in Owned
        BY <1>3, <4>2, PipelineAssumption DEF IInv, Control, Owned, TypeOK
      <4>. QED
        BY <3>1, <4>3 DEF IInv, OneOwner
    <3>. QED
      BY <3>1
  <2>2. Stage(s) = "open"
    BY <1>3, <1>4, <2>1 DEF Stage, IInv, OneOwner, Live
  <2>3. Life!Store(s, r)
    BY <1>2, <1>3, <1>4, <2>2 DEF Life!Store
  <2>. QED
    BY <1>3, <2>3
<1>5. CASE ~Live(s)
  BY <1>1, <1>5, OthersStutter
<1>. QED
  BY <1>4, <1>5

\* Whatever the threads do, every spill lives the life of SpillLife.
THEOREM ImplementsLife == Spec => HitsKeptUntilFiled
<1>1. ASSUME Init PROVE Life!Init
  <2>1. \A s \in Spill : mem[s] = "unborn"
    BY <1>1 DEF Init
  <2>2. \A s \in Spill : Stage(s) = "unborn"
    BY <2>1 DEF Stage, Live
  <2>3. hits = [s \in Spill |-> {}]
    BY <1>1 DEF Init
  <2>. QED
    BY <2>2, <2>3 DEF Life!Init
<1>2. ASSUME IInv, [Next]_vars PROVE [Life!Next]_(Life!vars)
  <2>. USE DEF spillVars, listVars, schedVars, serialVars, recvVars
  <2>1. CASE Handler
    <3>1. CASE RunStopped
      BY <1>2, <3>1, StopDiscards DEF Life!Next
    <3>2. CASE StartRun
      BY <1>2, <3>2, OthersStutter DEF StartRun, Owned, IInv, Control
    <3>3. ASSUME StopRun \/ StopSchedule \/ StopSerialiser
                 \/ \E r \in Receiver : StartReceiver(r) \/ StopReceiver(r)
          PROVE  UNCHANGED Life!vars
      BY <1>2, <3>3, OthersStutter
         DEF StopRun, StopSchedule, StopSerialiser, StartReceiver, StopReceiver,
             notHandler, Owned
    <3>. QED
      BY <2>1, <3>1, <3>2, <3>3 DEF Handler
  <2>2. CASE Scheduling
    BY <1>2, <2>2, RoundStutters, AddOpens, CloseCloses DEF Scheduling, Life!Next
  <2>3. CASE Serialising
    <3>1. CASE WriteSpill
      BY <1>2, <3>1, WriteFiles DEF Life!Next
    <3>2. ASSUME OpenFile \/ PopEmpty \/ TestRunning \/ \E s \in Spill : Pop(s)
          PROVE  UNCHANGED Life!vars
      BY <1>2, <3>2, OthersStutter
         DEF OpenFile, PopEmpty, TestRunning, Pop, SerialGoesTo, notSerial, Owned
    <3>. QED
      BY <2>3, <3>1, <3>2 DEF Serialising
  <2>4. CASE (\E s \in Spill : Mature(s)) \/ UNCHANGED vars
    BY <1>2, <2>4, OthersStutter DEF Mature, notSched, vars, Owned
  <2>5. ASSUME NEW r \in Receiver,
               Bump(r) \/ Mine(r) \/ \E t \in Time : Datagram(r, t)
        PROVE  [Life!Next]_(Life!vars)
    <3>1. CASE WriteHits(r)
      BY <1>2, <3>1, WriteStores DEF Life!Next
    <3>2. CASE \/ Bump(r) \/ FindSlot(r) \/ CheckSlot(r) \/ LockSlot(r)
               \/ \E t \in Time : Datagram(r, t)
      BY <1>2, <3>2, OthersStutter
         DEF Bump, FindSlot, CheckSlot, LockSlot, LookAtSlot, Datagram,
               notRecv, Owned
    <3>. QED
      BY <2>5, <3>1, <3>2 DEF Mine
  <2>. QED
    BY <1>2, <2>1, <2>2, <2>3, <2>4, <2>5 DEF Next
<1>. QED
  BY <1>1, <1>2, Invariant, PTL DEF Spec, HitsKeptUntilFiled, Life!Spec
----------------------------------------------------------------------------
(* The intervals of the open spills.                                       *)

\* Spills that stay open keep their intervals.
LEMMA DisjointStays ==
  ASSUME OpenSpillsDisjoint, Owned' \subseteq Owned,
         \A p \in Owned' : start'[p] = start[p]
  PROVE  OpenSpillsDisjoint'
BY DEF OpenSpillsDisjoint, End

\* A spill is added behind the last one.
LEMMA AddKeepsDisjoint ==
  ASSUME IInv, OpenSpillsDisjoint, NEW s \in Spill, AddSpill(s)
  PROVE  OpenSpillsDisjoint'
<1>. USE DEF AddSpill, schedVars
<1>1. Owned = draft /\ Owned' = draft \cup {s} /\ s \notin draft
  BY DEF Owned, IInv, OneOwner, Live
<1>2. /\ start' \in [Spill -> Nat] /\ start \in [Spill -> Nat] /\ draft \subseteq Spill
      /\ Duration \in Nat
      /\ \A p \in draft : start'[p] = start[p]
  BY <1>1, SchedulingType, PipelineAssumption DEF IInv, TypeOK, Scheduling
<1>3. \A p \in draft : End(p) <= start'[s]
  <2>1. CASE draft = {}
    BY <2>1
  <2>2. ASSUME NEW back \in draft, \A p \in draft : start[p] <= start[back],
               start' = [start EXCEPT ![s] = End(back)]
        PROVE  \A p \in draft : End(p) <= start'[s]
    BY <1>2, <2>2 DEF End, IInv, TypeOK
  <2>. QED
    BY <2>1, <2>2
<1>. QED
  BY <1>1, <1>2, <1>3 DEF OpenSpillsDisjoint, End

\* No timestamp belongs to two open spills, whatever the scheduler's setting.
THEOREM OpenSpillsAreDisjoint == Spec => []OpenSpillsDisjoint
<1>1. Init => OpenSpillsDisjoint
  BY DEF Init, OpenSpillsDisjoint, Owned
<1>2. ASSUME IInv, OpenSpillsDisjoint, [Next]_vars PROVE OpenSpillsDisjoint'
  <2>. USE DEF spillVars, listVars, schedVars, serialVars, recvVars
  <2>1. CASE Handler
    BY <1>2, <2>1, DisjointStays
       DEF Handler, StartRun, StopRun, StopSchedule, StopSerialiser, RunStopped,
           StartReceiver, StopReceiver, Delete, notHandler, Owned, IInv, OneOwner,
           Control, TypeOK
  <2>2. CASE Scheduling
    <3>1. ASSUME NEW s \in Spill, AddSpill(s) PROVE OpenSpillsDisjoint'
      BY <1>2, <3>1, AddKeepsDisjoint
    <3>2. CASE SpillClosed
      BY <1>2, <3>2, DisjointStays DEF SpillClosed, Delete, Owned, IInv, TypeOK
    <3>3. ASSUME \/ CopySchedule \/ SlotsClosed \/ ScanDone \/ PushDone
                 \/ ScheduleDone \/ Swap
                 \/ \E s \in Spill : Examine(s) \/ Push(s)
                 \/ \E r \in Receiver : CloseSlot(r) \/ PassMutex(r)
          PROVE  OpenSpillsDisjoint'
      BY <1>2, <3>3, DisjointStays
         DEF CopySchedule, SlotsClosed, ScanDone, PushDone, ScheduleDone, Swap,
             Examine, Push, CloseSlot, PassMutex, SchedGoesTo, Owned, IInv,
                   Control
    <3>. QED
      BY <2>2, <3>1, <3>2, <3>3 DEF Scheduling
  <2>3. CASE Serialising
    <3>1. CASE WriteSpill
      BY <1>2, <3>1, DisjointStays, PipelineAssumption
         DEF WriteSpill, Delete, notSerial, Owned, IInv, OneOwner, Taken, TypeOK
    <3>2. ASSUME OpenFile \/ PopEmpty \/ TestRunning \/ \E s \in Spill : Pop(s)
          PROVE  OpenSpillsDisjoint'
      BY <1>2, <3>2, DisjointStays
         DEF OpenFile, PopEmpty, TestRunning, Pop, SerialGoesTo, notSerial, Owned
    <3>. QED
      BY <2>3, <3>1, <3>2 DEF Serialising
  <2>4. CASE (\E s \in Spill : Mature(s)) \/ UNCHANGED vars
    BY <1>2, <2>4, DisjointStays DEF Mature, notSched, vars, Owned
  <2>5. ASSUME NEW r \in Receiver,
               Bump(r) \/ Mine(r) \/ \E t \in Time : Datagram(r, t)
        PROVE  OpenSpillsDisjoint'
    BY <1>2, <2>5, DisjointStays
       DEF Mine, Bump, FindSlot, CheckSlot, LockSlot, LookAtSlot, WriteHits,
           Datagram, notRecv, Owned
  <2>. QED
    BY <1>2, <2>1, <2>2, <2>3, <2>4, <2>5 DEF Next
<1>. QED
  BY <1>1, <1>2, Invariant, PTL DEF Spec
============================================================================
