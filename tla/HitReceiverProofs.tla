------------------------- MODULE HitReceiverProofs -------------------------
(***************************************************************************)
(* Theorems about HitReceiver, for any set of ports and any numbers of     *)
(* configurations and of starts of data.                                   *)
(***************************************************************************)
EXTENDS HitReceiver, FiniteSetTheorems, TLAPS

Mode == {"Idle", "Receiving", "Mining"}
Commands == {"StartData", "StopData", "StartRun", "StopRun"}

\* The types of what the commands change.
Types ==
  /\ generation \in Nat /\ mode \in [Port -> Mode] /\ requests \in [Port -> Nat]
  /\ phase \in {"Ready", "Configured", "Started", "Running"}
  /\ starts \in 0 .. MaxStarts
RunType == data_run \in BOOLEAN
CommandType == command \in [name : Commands \cup {"none"}, todo : SUBSET Port]
\* No handler or cancelled request is of a receiver still to come.
Request == [port : Port, gen : Nat, n : Nat]
JobSet == [port : Port, gen : Nat, n : Nat, error : BOOLEAN, at : {"called", "decided"}, mode : Mode]
JobTypes == /\ \A a \in aborted : a \in Request /\ a.gen <= generation
            /\ \A h \in handler : h \in JobSet /\ h.gen <= generation

\* The mode that a command finds, and the one that a phase means.
ModeBefore(name) == CASE name = "StartData" -> "Idle"
                      [] name = "StopRun" -> "Mining"
                      [] OTHER -> "Receiving"
ModeIn(ph) == CASE ph = "Started" -> "Receiving"
                [] ph = "Running" -> "Mining"
                [] OTHER -> "Idle"

\* The phase the Experiment is in while a command is carried out.
Phases ==
  /\ command.name = "none" => command = None
  /\ command.name = "StartData" => phase = "Started"
  /\ command.name = "StopData" => phase = "Configured"
  /\ command.name = "StartRun" => phase = "Running"
  /\ command.name = "StopRun" => phase = "Started"
\* There is a run as long as a receiver may mine.
RunThere == phase = "Running" \/ command.name = "StopRun" => data_run

\* A receiver is as the last command it has carried out left it.
Modes == \A p \in Port :
  mode[p] = IF p \in command.todo THEN ModeBefore(command.name) ELSE ModeIn(phase)

\* What one receiver, as it is now, has been asked for: its handlers, and its cancelled requests.
Handling(p) == {h \in handler : h.port = p /\ h.gen = generation}
Cancelled(p) == {a \in aborted : a.port = p /\ a.gen = generation}
\* The starts of data that a receiver has seen.
Started(p) == starts - (IF command.name = "StartData" /\ p \in command.todo THEN 1 ELSE 0)
\* Only a start makes a request; a handler makes at most one for the one it was called for.
Counted == \A p \in Port :
  /\ IsFiniteSet(Handling(p)) /\ IsFiniteSet(Cancelled(p))
  /\ requests[p] + Cardinality(Handling(p)) + Cardinality(Cancelled(p)) <= Started(p)

IInv == Types /\ RunType /\ CommandType /\ JobTypes /\ Phases /\ RunThere /\ Modes /\ MinedInRun /\ NeverDeaf /\ Counted
----------------------------------------------------------------------------

\* The inductive invariant holds when DAQonite starts.
LEMMA InitIInv == ASSUME MaxStarts \in Nat PROVE Init => IInv
<1>. SUFFICES ASSUME Init PROVE IInv
  OBVIOUS
<1>. USE DEF Init, None
<1>1. Types
  BY DEF Types, Mode
<1>6. RunType /\ CommandType /\ JobTypes
  BY DEF RunType, CommandType, JobTypes, Commands
<1>2. Phases /\ RunThere /\ Modes /\ NeverDeaf
  BY DEF Phases, RunThere, Modes, NeverDeaf, ModeIn
<1>3. ASSUME NEW p \in Port
      PROVE  Handling(p) = {} /\ Cancelled(p) = {}
  BY DEF Handling, Cancelled
<1>4. Counted
  BY <1>3, FS_EmptySet DEF Counted, Started
<1>5. MinedInRun
  BY DEF MinedInRun
<1>. QED
  BY <1>1, <1>2, <1>4, <1>5, <1>6 DEF IInv

\* What the switch over the mode makes of a handler.
LEMMA DecidedType ==
  ASSUME NEW h \in JobSet, NEW m \in Mode
  PROVE  LET d == [h EXCEPT !.at = "decided", !.mode = m]
         IN  d \in JobSet /\ d.port = h.port /\ d.gen = h.gen /\ d.at = "decided" /\ d.mode = m
  BY DEF JobSet

\* The fields of a handler.
LEMMA JobFields ==
  ASSUME NEW h \in JobSet
  PROVE  h.port \in Port /\ h.gen \in Nat /\ h.at \in {"called", "decided"} /\ h.mode \in Mode
  BY DEF JobSet

\* What is cancelled: the requests of the receivers of today.
LEMMA OutstandingType ==
  ASSUME Types, NEW ports \in SUBSET Port, NEW a \in Outstanding(ports)
  PROVE  a \in Request /\ a.port \in ports /\ a.gen = generation
  BY DEF Types, Outstanding, Request

\* A request that completes calls a handler.
LEMMA CompleteStep ==
  ASSUME MaxStarts \in Nat, Types, Complete
  PROVE  \E h \in JobSet : /\ h.gen = generation /\ h.at = "called"
                           /\ requests[h.port] > 0 /\ handler' = handler \cup {h}
                           /\ requests' = [requests EXCEPT ![h.port] = @ - 1]
         /\ UNCHANGED <<generation, mode, aborted, command, phase, data_run, starts, mined>>
<1>1. PICK p \in Port, n \in 1 .. MaxStarts + 1 : Complete!(p, n)
  BY Zenon DEF Complete
<1>. DEFINE h == Job(p, generation, n, FALSE)
<1>2. h \in JobSet /\ h.gen = generation /\ h.at = "called" /\ h.port = p
  BY DEF Types, Job, JobSet, Mode
<1>3. handler' = handler \cup {h}
  BY <1>1
<1>4. /\ requests[p] > 0 /\ requests' = [requests EXCEPT ![p] = @ - 1]
      /\ UNCHANGED <<generation, mode, aborted, command, phase, data_run, starts, mined>>
  BY <1>1
<1>. HIDE DEF h
<1>. QED
  BY <1>2, <1>3, <1>4

\* A request that was cancelled calls its handler too.
LEMMA AbortStep ==
  ASSUME JobTypes, Abort
  PROVE  \E h \in JobSet, a \in aborted :
           /\ h.port = a.port /\ h.gen = a.gen /\ h.at = "called"
           /\ aborted' = aborted \ {a} /\ handler' = handler \cup {h}
         /\ UNCHANGED <<generation, mode, requests, command, phase, data_run, starts, mined>>
<1>1. PICK a \in aborted : Abort!(a)
  BY Zenon DEF Abort
<1>. DEFINE h == Job(a.port, a.gen, a.n, TRUE)
<1>2. h \in JobSet /\ h.port = a.port /\ h.gen = a.gen /\ h.at = "called"
  BY DEF JobTypes, Request, Job, JobSet, Mode
<1>3. handler' = handler \cup {h}
  BY <1>1
<1>4. /\ aborted' = aborted \ {a}
      /\ UNCHANGED <<generation, mode, requests, command, phase, data_run, starts, mined>>
  BY <1>1
<1>. HIDE DEF h
<1>. QED
  BY <1>2, <1>3, <1>4

\* The switch takes a handler that was called and keeps the mode it has read.
LEMMA ReadModeStep ==
  ASSUME Types, JobTypes, ReadMode
  PROVE  \E h \in handler, d \in JobSet :
           /\ h.gen = generation /\ d.port = h.port /\ d.gen = generation
           /\ d.at = "decided" /\ d.mode = mode[h.port]
           /\ handler' = (handler \ {h}) \cup {d}
         /\ UNCHANGED <<generation, mode, requests, aborted, command, phase, data_run, starts>>
<1>1. PICK h \in handler :
        /\ h.gen = generation
        /\ handler' = (handler \ {h}) \cup {[h EXCEPT !.at = "decided", !.mode = mode[h.port]]}
  BY DEF ReadMode
<1>2. h \in JobSet /\ mode[h.port] \in Mode
  BY JobFields DEF JobTypes, Types
<1>. DEFINE d == [h EXCEPT !.at = "decided", !.mode = mode[h.port]]
<1>3. d \in JobSet /\ d.port = h.port /\ d.gen = h.gen /\ d.at = "decided" /\ d.mode = mode[h.port]
  BY <1>2, DecidedType
<1>4. handler' = (handler \ {h}) \cup {d}
  BY <1>1
<1>. HIDE DEF d
<1>. QED
  BY <1>1, <1>3, <1>4 DEF ReadMode

\* Every step keeps the types.
LEMMA StepTypes ==
  ASSUME MaxStarts \in Nat, IInv, Next PROVE Types' /\ RunType' /\ CommandType' /\ JobTypes'
<1>. USE DEF IInv
<1>1. CASE Config
  <2>. USE <1>1 DEF Config, createHitReceivers
  <2>1. Types' /\ RunType' /\ CommandType'
    BY DEF Types, RunType, CommandType, Mode
  <2>2. \A a \in Outstanding(Port) : a \in Request /\ a.gen = generation
    BY OutstandingType
  <2>3. JobTypes'
    BY <2>2, JobFields DEF Types, JobTypes, Request
  <2>. QED
    BY <2>1, <2>3
<1>2. CASE BeginCommand
  <2>. USE <1>2 DEF BeginCommand, Begin
  <2>1. Types' /\ JobTypes'
    BY DEF Types, JobTypes
  <2>2. RunType'
    BY DEF RunType
  <2>3. CommandType'
    BY DEF CommandType, Commands
  <2>. QED
    BY <2>1, <2>2, <2>3
<1>3. ASSUME NEW p \in Port, startData(p) \/ stopData(p) \/ startRun(p) \/ stopRun(p)
      PROVE  Types' /\ RunType' /\ CommandType' /\ JobTypes'
  <2>. USE <1>3 DEF startData, stopData, startRun, stopRun
  <2>1. Types'
    BY DEF Types, Mode
  <2>2. RunType'
    BY DEF RunType
  <2>3. CommandType'
    BY DEF CommandType, Do, None
  <2>4. \A a \in Outstanding({p}) : a \in Request /\ a.gen = generation
    BY OutstandingType
  <2>5. UNCHANGED <<generation, handler>> /\ aborted' \subseteq aborted \cup Outstanding({p})
    OBVIOUS
  <2>6. JobTypes'
    BY ONLY JobTypes, Types, <2>4, <2>5 DEF Types, JobTypes
  <2>. QED
    BY <2>1, <2>2, <2>3, <2>6
<1>4. CASE Complete
  <2>1. PICK h \in JobSet :
          /\ h.gen = generation /\ requests[h.port] > 0
          /\ handler' = handler \cup {h} /\ requests' = [requests EXCEPT ![h.port] = @ - 1]
          /\ UNCHANGED <<generation, mode, aborted, command, phase, data_run, starts, mined>>
    BY <1>4, CompleteStep
  <2>2. Types' /\ CommandType'
    BY <2>1, JobFields DEF Types, CommandType
  <2>4. RunType'
    BY <2>1 DEF RunType
  <2>3. JobTypes'
    BY <2>1 DEF Types, JobTypes
  <2>. QED
    BY <2>2, <2>3, <2>4
<1>5. CASE Abort
  <2>1. PICK h \in JobSet, a \in aborted :
          /\ h.gen = a.gen /\ aborted' = aborted \ {a} /\ handler' = handler \cup {h}
          /\ UNCHANGED <<generation, mode, requests, command, phase, data_run, starts, mined>>
    BY <1>5, AbortStep
  <2>2. Types' /\ CommandType'
    BY <2>1, JobFields DEF Types, CommandType
  <2>4. RunType'
    BY <2>1 DEF RunType
  <2>3. JobTypes'
    BY <2>1 DEF JobTypes
  <2>. QED
    BY <2>2, <2>3, <2>4
<1>6. CASE ReadMode
  <2>1. PICK h \in handler, d \in JobSet :
          /\ d.gen = generation /\ handler' = (handler \ {h}) \cup {d}
          /\ UNCHANGED <<generation, mode, requests, aborted, command, phase, data_run, starts>>
    BY <1>6, ReadModeStep
  <2>2. Types' /\ CommandType'
    BY <2>1, JobFields DEF Types, CommandType
  <2>4. RunType'
    BY <2>1 DEF RunType
  <2>3. JobTypes'
    BY <2>1 DEF Types, JobTypes
  <2>. QED
    BY <2>2, <2>3, <2>4
<1>7. CASE Finish
  <2>1. Types' /\ RunType' /\ CommandType'
    BY <1>7, JobFields DEF Finish, NewRequests, Types, RunType, CommandType, JobTypes
  <2>2. JobTypes'
    BY <1>7 DEF Finish, JobTypes
  <2>. QED
    BY <2>1, <2>2
<1>. QED
  BY <1>1, <1>2, <1>3, <1>4, <1>5, <1>6, <1>7 DEF Next, Command

\* Every step keeps phase, command and run in agreement, and each receiver in the mode that they mean.
LEMMA StepModes ==
  ASSUME IInv, Next PROVE Phases' /\ RunThere' /\ Modes'
<1>. USE DEF IInv
<1>1. CASE Config
  BY <1>1 DEF Config, createHitReceivers, None, Phases, RunThere, Modes, ModeIn
<1>2. CASE BeginCommand
  <2>. USE <1>2 DEF BeginCommand, Begin, None
  <2>1. Phases'
    BY DEF Phases
  <2>2. RunThere'
    <3>1. CASE Begin("StartData", "Configured", "Started") \/ Begin("StopData", "Started", "Configured")
      BY <3>1 DEF RunThere
    <3>2. CASE Begin("StartRun", "Started", "Running")
      BY <3>2, Zenon DEF RunThere
    <3>3. CASE Begin("StopRun", "Running", "Started")
      BY <3>3, Zenon DEF RunThere
    <3>. QED
      BY <3>1, <3>2, <3>3
  <2>3. Modes'
    BY DEF Modes, ModeIn, ModeBefore
  <2>. QED
    BY <2>1, <2>2, <2>3
<1>3. ASSUME NEW p \in Port, startData(p) \/ stopData(p) \/ startRun(p) \/ stopRun(p)
      PROVE  Phases' /\ RunThere' /\ Modes'
  <2>. USE <1>3 DEF startData, stopData, startRun, stopRun, Do, CommandType
  <2>1. Phases'
    BY DEF Phases, None
  <2>7. RunThere'
    <3>1. CASE startData(p) \/ stopData(p) \/ startRun(p)
      BY <3>1 DEF Phases, RunThere, None
    <3>2. CASE stopRun(p) /\ command.todo = {p}
      BY <3>2 DEF Phases, RunThere, None
    <3>3. CASE stopRun(p) /\ command.todo # {p}
      BY <3>3, Zenon DEF RunThere
    <3>. QED
      BY <3>1, <3>2, <3>3
  <2>2. \A q \in Port : q # p => (q \in command'.todo <=> q \in command.todo) /\ mode'[q] = mode[q]
    BY DEF Types, None
  <2>3. p \notin command'.todo /\ mode'[p] = ModeIn(phase')
    BY DEF Types, None, Phases, ModeIn
  <2>4. command'.todo # {} => command'.name = command.name
    BY DEF None
  <2>5. phase' = phase
    OBVIOUS
  <2>6. Modes'
    BY ONLY Modes, <2>2, <2>3, <2>4, <2>5 DEF Modes
  <2>. QED
    BY <2>1, <2>6, <2>7
<1>4. CASE Complete \/ Abort \/ ReadMode \/ Finish
  BY <1>4 DEF Complete, Abort, ReadMode, Finish, Phases, RunThere, Modes
<1>. QED
  BY <1>1, <1>2, <1>3, <1>4 DEF Next, Command

\* No step mines without a run.
LEMMA StepMined ==
  ASSUME IInv, Next PROVE MinedInRun'
<1>. USE DEF IInv, MinedInRun
<1>1. CASE ReadMode
  <2>1. PICK h \in handler :
          mined' = IF mode[h.port] = "Mining" /\ ~h.error THEN mined \cup {data_run} ELSE mined
    BY <1>1 DEF ReadMode
  <2>2. h.port \in Port
    BY JobFields DEF JobTypes
  <2>3. mode[h.port] = "Mining" => data_run
    BY <2>2 DEF Modes, Phases, RunThere, ModeBefore, ModeIn, Types
  <2>4. data_run = TRUE \/ mined' = mined
    BY <2>1, <2>3 DEF RunType
  <2>. QED
    BY <2>1, <2>4, Zenon
<1>2. CASE ~ReadMode
  <2>1. mined' = mined
    BY <1>2 DEF Next, Config, createHitReceivers, BeginCommand, Begin, Command, startData, stopData, startRun,
                stopRun, Complete, Abort, Finish
  <2>. QED
    BY <2>1
<1>. QED
  BY <1>1, <1>2

\* No step leaves a receiver that is to receive without a request or a handler that will make one.
LEMMA StepHears ==
  ASSUME MaxStarts \in Nat, IInv, Next PROVE NeverDeaf'
<1>. USE DEF IInv
<1>. DEFINE Asks(p) == requests[p] > 0 \/ \E h \in handler : /\ h.port = p /\ h.gen = generation
                                                            /\ (h.at = "called" \/ h.mode # "Idle")
<1>0. NeverDeaf <=> \A p \in Port : mode[p] # "Idle" => Asks(p)
  BY DEF NeverDeaf, ShouldRequest
<1>1. CASE Config
  BY <1>1 DEF Config, createHitReceivers, NeverDeaf
<1>2. CASE BeginCommand
  BY <1>2 DEF BeginCommand, Begin, NeverDeaf
<1>3. ASSUME NEW p \in Port, startData(p) \/ stopData(p) \/ startRun(p) \/ stopRun(p)
      PROVE  NeverDeaf'
  <2>1. CASE startData(p)
    BY <2>1 DEF startData, NeverDeaf, Types
  <2>2. CASE stopData(p)
    BY <2>2 DEF stopData, NeverDeaf, Types
  <2>3. CASE startRun(p) \/ stopRun(p)
    <3>1. mode[p] # "Idle"
      BY <2>3 DEF startRun, stopRun, Do, Modes, ModeBefore
    <3>. QED
      BY <2>3, <3>1 DEF startRun, stopRun, NeverDeaf, Types
  <2>. QED
    BY <1>3, <2>1, <2>2, <2>3
<1>4. CASE Complete
  <2>1. PICK h \in JobSet :
          /\ h.gen = generation /\ h.at = "called"
          /\ handler' = handler \cup {h} /\ requests' = [requests EXCEPT ![h.port] = @ - 1]
          /\ UNCHANGED <<generation, mode, aborted, command, phase, data_run, starts, mined>>
    BY <1>4, CompleteStep
  <2>. QED
    BY <2>1, JobFields DEF NeverDeaf, Types
<1>5. CASE Abort
  BY <1>5 DEF Abort, NeverDeaf
<1>6. CASE ReadMode
  <2>1. PICK h \in handler, d \in JobSet :
          /\ d.port = h.port /\ d.gen = generation /\ d.at = "decided" /\ d.mode = mode[h.port]
          /\ handler' = (handler \ {h}) \cup {d}
          /\ UNCHANGED <<generation, mode, requests, aborted, command, phase, data_run, starts>>
    BY <1>6, ReadModeStep
  <2>. QED
    BY <2>1 DEF NeverDeaf, ShouldRequest
<1>7. CASE Finish
  <2>1. PICK h \in handler : Finish!(h)
    BY <1>7 DEF Finish
  <2>2. h.port \in Port
    BY JobFields DEF JobTypes
  <2>. QED
    BY <2>1, <2>2 DEF NeverDeaf, NewRequests, ShouldRequest, Types
<1>. QED
  BY <1>1, <1>2, <1>3, <1>4, <1>5, <1>6, <1>7 DEF Next, Command

\* A receiver has as many requests to be cancelled as are outstanding.
LEMMA OutstandingSize ==
  ASSUME Types, NEW p \in Port
  PROVE  IsFiniteSet(Outstanding({p})) /\ Cardinality(Outstanding({p})) <= requests[p]
<1>. DEFINE n == requests[p]
            f == [k \in 1 .. n |-> [port |-> p, gen |-> generation, n |-> k]]
<1>1. n \in Nat
  BY DEF Types
<1>2. IsFiniteSet(1 .. n) /\ Cardinality(1 .. n) = n
  BY <1>1, FS_Interval
<1>3. f \in Surjection(1 .. n, Outstanding({p}))
  BY DEF Outstanding, Surjection
<1>4. IsFiniteSet(Outstanding({p})) /\ Cardinality(Outstanding({p})) <= Cardinality(1 .. n)
  BY <1>2, <1>3, FS_Surjection
<1>. QED
  BY <1>2, <1>4

\* No step asks more often than data was started.
LEMMA StepCounted ==
  ASSUME MaxStarts \in Nat, IInv, Next PROVE Counted'
<1>. USE DEF IInv
<1>. DEFINE H(p) == Cardinality(Handling(p))
            C(p) == Cardinality(Cancelled(p))
<1>0. \A p \in Port : H(p) \in Nat /\ C(p) \in Nat /\ requests[p] \in Nat /\ Started(p) \in Int
  BY FS_CardinalityType DEF Counted, Types, Started
<1>1. CASE Config
  <2>. USE <1>1 DEF Config, createHitReceivers
  <2>1. \A a \in Outstanding(Port) : a.gen = generation
    BY OutstandingType
  <2>2. \A p \in Port : Handling(p)' = {} /\ Cancelled(p)' = {}
    BY <2>1, JobFields DEF Handling, Cancelled, JobTypes, Types, Request
  <2>3. \A p \in Port : requests'[p] = 0 /\ Started(p)' >= 0
    BY DEF Started, Types, None
  <2>. QED
    BY <2>2, <2>3, FS_EmptySet DEF Counted
<1>2. CASE BeginCommand
  <2>. USE <1>2 DEF BeginCommand, Begin
  <2>1. \A p \in Port : Started(p)' = Started(p)
    BY DEF Started, Types, None
  <2>2. \A p \in Port : Handling(p)' = Handling(p) /\ Cancelled(p)' = Cancelled(p)
    BY DEF Handling, Cancelled
  <2>. QED
    BY <2>1, <2>2 DEF Counted
<1>3. ASSUME NEW p \in Port, startData(p)
      PROVE  Counted'
  <2>. USE <1>3 DEF startData, Do
  <2>1. /\ Started(p)' = Started(p) + 1
        /\ \A q \in Port : q # p => Started(q)' = Started(q)
    BY DEF Started, Types, CommandType, None
  <2>2. /\ requests'[p] = requests[p] + 1
        /\ \A q \in Port : q # p => requests'[q] = requests[q]
    BY DEF Types
  <2>3. \A q \in Port : Handling(q)' = Handling(q) /\ Cancelled(q)' = Cancelled(q)
    BY DEF Handling, Cancelled
  <2>. QED
    BY <1>0, <2>1, <2>2, <2>3 DEF Counted
<1>4. ASSUME NEW p \in Port, stopData(p)
      PROVE  Counted'
  <2>. USE <1>4 DEF stopData, Do
  <2>1. \A q \in Port : Started(q)' = Started(q)
    BY DEF Started, CommandType, None
  <2>2. requests'[p] = 0 /\ \A q \in Port : q # p => requests'[q] = requests[q]
    BY DEF Types
  <2>3. \A a \in Outstanding({p}) : a.port = p /\ a.gen = generation
    BY OutstandingType
  <2>4. \A q \in Port : Handling(q)' = Handling(q) /\ (q # p => Cancelled(q)' = Cancelled(q))
    BY <2>3 DEF Handling, Cancelled
  <2>5. Cancelled(p)' = Cancelled(p) \cup Outstanding({p})
    BY <2>3 DEF Cancelled
  <2>6. IsFiniteSet(Cancelled(p)) /\ IsFiniteSet(Outstanding({p}))
    BY OutstandingSize DEF Counted
  <2>7. IsFiniteSet(Cancelled(p)') /\ Cardinality(Cancelled(p)') <= C(p) + requests[p]
    <3>. DEFINE O == Outstanding({p})
    <3>1. Cardinality(O) \in Nat /\ Cardinality(O) <= requests[p] /\ Cardinality(Cancelled(p) \cap O) \in Nat
      BY <2>6, OutstandingSize, FS_CardinalityType, FS_Intersection
    <3>2. /\ IsFiniteSet(Cancelled(p) \cup O)
          /\ Cardinality(Cancelled(p) \cup O) = C(p) + Cardinality(O) - Cardinality(Cancelled(p) \cap O)
      BY <2>6, FS_Union
    <3>. QED
      BY <1>0, <2>5, <3>1, <3>2
  <2>8. \A q \in Port : IsFiniteSet(Handling(q)') /\ IsFiniteSet(Cancelled(q)')
    BY <2>4, <2>7 DEF Counted
  <2>9. Cardinality(Cancelled(p)') \in Nat
    BY <2>7, FS_CardinalityType
  <2>10. \A q \in Port : requests'[q] + Cardinality(Handling(q)') + Cardinality(Cancelled(q)') <= Started(q)'
    BY <1>0, <2>1, <2>2, <2>4, <2>7, <2>9 DEF Counted
  <2>. QED
    BY <2>8, <2>10 DEF Counted
<1>5. ASSUME NEW p \in Port, startRun(p) \/ stopRun(p)
      PROVE  Counted'
  <2>. USE <1>5 DEF startRun, stopRun, Do
  <2>1. \A q \in Port : Started(q)' = Started(q)
    BY DEF Started, CommandType, None
  <2>2. \A q \in Port : Handling(q)' = Handling(q) /\ Cancelled(q)' = Cancelled(q)
    BY DEF Handling, Cancelled
  <2>. QED
    BY <2>1, <2>2 DEF Counted
<1>6. CASE Complete
  <2>1. PICK h \in JobSet :
          /\ h.gen = generation /\ requests[h.port] > 0
          /\ handler' = handler \cup {h} /\ requests' = [requests EXCEPT ![h.port] = @ - 1]
          /\ UNCHANGED <<generation, mode, aborted, command, phase, data_run, starts, mined>>
    BY <1>6, CompleteStep
  <2>. DEFINE p == h.port
  <2>2. p \in Port
    BY JobFields
  <2>3. \A q \in Port : Started(q)' = Started(q) /\ Cancelled(q)' = Cancelled(q)
    BY <2>1 DEF Started, Cancelled
  <2>4. requests'[p] = requests[p] - 1 /\ \A q \in Port : q # p => requests'[q] = requests[q]
    BY <2>1, <2>2 DEF Types
  <2>5. Handling(p)' = Handling(p) \cup {h}
    <3>1. \A x : x \in Handling(p)' <=> x \in handler' /\ x.port = p /\ x.gen = generation
      BY <2>1 DEF Handling
    <3>2. \A x : x \in Handling(p) <=> x \in handler /\ x.port = p /\ x.gen = generation
      BY DEF Handling
    <3>. QED
      BY <2>1, <3>1, <3>2
  <2>10. \A q \in Port : q # p => Handling(q)' = Handling(q)
    BY <2>1 DEF Handling
  <2>12. /\ IsFiniteSet(Handling(p) \cup {h})
       /\ Cardinality(Handling(p) \cup {h}) \in {H(p), H(p) + 1}
    BY <2>2, FS_AddElement DEF Counted
  <2>6. IsFiniteSet(Handling(p)') /\ Cardinality(Handling(p)') <= H(p) + 1
    BY <1>0, <2>2, <2>5, <2>12
  <2>7. Cardinality(Handling(p)') \in Nat
    BY <2>6, FS_CardinalityType
  <2>. HIDE DEF p
  <2>8. \A q \in Port : IsFiniteSet(Handling(q)') /\ IsFiniteSet(Cancelled(q)')
    BY <2>3, <2>6, <2>10 DEF Counted
  <2>9. \A q \in Port : requests'[q] + Cardinality(Handling(q)') + Cardinality(Cancelled(q)') <= Started(q)'
    BY <1>0, <2>2, <2>3, <2>4, <2>6, <2>7, <2>10 DEF Counted
  <2>. QED
    BY <2>8, <2>9 DEF Counted
<1>7. CASE Abort
  <2>1. PICK h \in JobSet, a \in aborted :
          /\ h.port = a.port /\ h.gen = a.gen /\ aborted' = aborted \ {a} /\ handler' = handler \cup {h}
          /\ UNCHANGED <<generation, mode, requests, command, phase, data_run, starts, mined>>
    BY <1>7, AbortStep
  <2>. DEFINE p == a.port
  <2>2. p \in Port
    BY DEF JobTypes, Request
  <2>3. \A q \in Port : Started(q)' = Started(q)
    BY <2>1 DEF Started
  <2>4. \A q \in Port : q # p => Handling(q)' = Handling(q) /\ Cancelled(q)' = Cancelled(q)
    BY <2>1 DEF Handling, Cancelled
  <2>5. CASE a.gen # generation
    <3>1. \A q \in Port : Handling(q)' = Handling(q) /\ Cancelled(q)' = Cancelled(q)
      BY <2>1, <2>5 DEF Handling, Cancelled
    <3>. QED
      BY <2>1, <2>3, <3>1 DEF Counted
  <2>6. CASE a.gen = generation
    <3>1. Handling(p)' = Handling(p) \cup {h}
      <4>1. \A x : x \in Handling(p)' <=> x \in handler' /\ x.port = p /\ x.gen = generation
        BY <2>1 DEF Handling
      <4>2. \A x : x \in Handling(p) <=> x \in handler /\ x.port = p /\ x.gen = generation
        BY DEF Handling
      <4>. QED
        BY <2>1, <2>6, <4>1, <4>2
    <3>7. Cancelled(p)' = Cancelled(p) \ {a} /\ a \in Cancelled(p)
      BY <2>1, <2>6 DEF Cancelled
    <3>8. /\ IsFiniteSet(Handling(p) \cup {h})
         /\ Cardinality(Handling(p) \cup {h}) \in {H(p), H(p) + 1}
      BY <2>2, FS_AddElement DEF Counted
    <3>2. IsFiniteSet(Handling(p)') /\ Cardinality(Handling(p)') <= H(p) + 1
      BY <1>0, <2>2, <3>1, <3>8
    <3>3. IsFiniteSet(Cancelled(p)') /\ Cardinality(Cancelled(p)') = C(p) - 1
      BY <2>2, <3>7, FS_RemoveElement DEF Counted
    <3>4. Cardinality(Handling(p)') \in Nat /\ Cardinality(Cancelled(p)') \in Nat
      BY <3>2, <3>3, FS_CardinalityType
    <3>. HIDE DEF p
    <3>5. \A q \in Port : IsFiniteSet(Handling(q)') /\ IsFiniteSet(Cancelled(q)')
      BY <2>4, <3>2, <3>3 DEF Counted
    <3>6. \A q \in Port : requests'[q] + Cardinality(Handling(q)') + Cardinality(Cancelled(q)') <= Started(q)'
      BY <1>0, <2>1, <2>2, <2>3, <2>4, <3>2, <3>3, <3>4 DEF Counted
    <3>. QED
      BY <3>5, <3>6 DEF Counted
  <2>. QED
    BY <2>5, <2>6
<1>8. CASE ReadMode
  <2>1. PICK h \in handler, d \in JobSet :
          /\ h.gen = generation /\ d.port = h.port /\ d.gen = generation
          /\ handler' = (handler \ {h}) \cup {d}
          /\ UNCHANGED <<generation, mode, requests, aborted, command, phase, data_run, starts>>
    BY <1>8, ReadModeStep
  <2>. DEFINE p == h.port
  <2>2. p \in Port
    BY JobFields DEF JobTypes
  <2>3. \A q \in Port : Started(q)' = Started(q) /\ Cancelled(q)' = Cancelled(q)
    BY <2>1 DEF Started, Cancelled
  <2>4. \A q \in Port : q # p => Handling(q)' = Handling(q)
    BY <2>1 DEF Handling
  <2>5. Handling(p)' = (Handling(p) \ {h}) \cup {d} /\ h \in Handling(p)
    BY <2>1, <2>2 DEF Handling
  <2>6. IsFiniteSet(Handling(p) \ {h}) /\ Cardinality(Handling(p) \ {h}) = H(p) - 1
    BY <2>2, <2>5, FS_RemoveElement DEF Counted
  <2>11. /\ IsFiniteSet((Handling(p) \ {h}) \cup {d})
         /\ Cardinality((Handling(p) \ {h}) \cup {d}) \in {H(p) - 1, H(p) - 1 + 1}
    BY <2>6, FS_AddElement
  <2>7. IsFiniteSet(Handling(p)') /\ Cardinality(Handling(p)') <= H(p)
    BY <1>0, <2>2, <2>5, <2>11
  <2>8. Cardinality(Handling(p)') \in Nat
    BY <2>7, FS_CardinalityType
  <2>. HIDE DEF p
  <2>9. \A q \in Port : IsFiniteSet(Handling(q)') /\ IsFiniteSet(Cancelled(q)')
    BY <2>3, <2>4, <2>7 DEF Counted
  <2>10. \A q \in Port : requests'[q] + Cardinality(Handling(q)') + Cardinality(Cancelled(q)') <= Started(q)'
    BY <1>0, <2>1, <2>2, <2>3, <2>4, <2>7, <2>8 DEF Counted
  <2>. QED
    BY <2>9, <2>10 DEF Counted
<1>9. CASE Finish
  <2>1. PICK h \in handler :
          /\ h.gen = generation /\ handler' = handler \ {h}
          /\ requests' = [requests EXCEPT ![h.port] = @ + NewRequests(h)]
          /\ UNCHANGED <<generation, mode, aborted, command, phase, data_run, starts, mined>>
    BY <1>9 DEF Finish
  <2>. DEFINE p == h.port
  <2>2. p \in Port /\ NewRequests(h) \in 0 .. 1
    BY JobFields DEF JobTypes, NewRequests
  <2>3. \A q \in Port : Started(q)' = Started(q) /\ Cancelled(q)' = Cancelled(q)
    BY <2>1 DEF Started, Cancelled
  <2>4. requests'[p] = requests[p] + NewRequests(h) /\ \A q \in Port : q # p => requests'[q] = requests[q]
    BY <2>1, <2>2 DEF Types
  <2>5. Handling(p)' = Handling(p) \ {h} /\ h \in Handling(p)
    BY <2>1, <2>2 DEF Handling
  <2>6. \A q \in Port : q # p => Handling(q)' = Handling(q)
    BY <2>1 DEF Handling
  <2>7. IsFiniteSet(Handling(p)') /\ Cardinality(Handling(p)') = H(p) - 1
    BY <2>2, <2>5, FS_RemoveElement DEF Counted
  <2>. HIDE DEF p
  <2>8. \A q \in Port : IsFiniteSet(Handling(q)') /\ IsFiniteSet(Cancelled(q)')
    BY <2>3, <2>6, <2>7 DEF Counted
  <2>9. \A q \in Port : requests'[q] + Cardinality(Handling(q)') + Cardinality(Cancelled(q)') <= Started(q)'
    BY <1>0, <2>2, <2>3, <2>4, <2>6, <2>7 DEF Counted
  <2>. QED
    BY <2>8, <2>9 DEF Counted
<1>. QED
  BY <1>1, <1>2, <1>3, <1>4, <1>5, <1>6, <1>7, <1>8, <1>9 DEF Next, Command

\* What does not happen leaves everything as it is.
LEMMA StepIInv ==
  ASSUME MaxStarts \in Nat PROVE IInv /\ [Next]_vars => IInv'
<1>. SUFFICES ASSUME IInv, [Next]_vars PROVE IInv'
  OBVIOUS
<1>1. CASE Next
  BY <1>1, StepTypes, StepModes, StepMined, StepHears, StepCounted DEF IInv
<1>2. CASE UNCHANGED vars
  BY <1>2 DEF vars, IInv, Types, RunType, CommandType, JobTypes, Phases, RunThere, Modes, MinedInRun,
              NeverDeaf, Counted, Handling, Cancelled, Started
<1>. QED
  BY <1>1, <1>2

\* basic_hit_receiver.cc: what a receiver has outstanding, running or cancelled is bounded by the
\* starts of data, for any number of ports, of configurations and of starts.
THEOREM TypeCorrect == ASSUME MaxStarts \in Nat PROVE Spec => []TypeOK
<1>1. ASSUME IInv PROVE TypeOK
  <2>. USE <1>1 DEF IInv
  <2>1. ASSUME NEW p \in Port
        PROVE  requests[p] <= MaxStarts + 1
    <3>1. /\ requests[p] + Cardinality(Handling(p)) + Cardinality(Cancelled(p)) <= Started(p)
          /\ Cardinality(Handling(p)) \in Nat /\ Cardinality(Cancelled(p)) \in Nat
      BY FS_CardinalityType DEF Counted
    <3>. QED
      BY <3>1 DEF Started, Types
  <2>2. requests \in [Port -> 0 .. MaxStarts + 1]
    BY <2>1 DEF Types
  <2>. QED
    BY <2>2 DEF TypeOK, Types, Mode
<1>. QED
  BY <1>1, InitIInv, StepIInv, PTL DEF Spec

\* basic_hit_receiver.cc: a receiver that is receiving or mining has a request outstanding, or a
\* handler that will make one, for any ports and whatever the commands and the late handlers do.
THEOREM ReceiversHear == ASSUME MaxStarts \in Nat PROVE Spec => []NeverDeaf
<1>1. IInv => NeverDeaf
  BY DEF IInv
<1>. QED
  BY <1>1, InitIInv, StepIInv, PTL DEF Spec

\* basic_hit_receiver.cc:114: no datagram is mined without a run, on any port.
THEOREM MiningHasRun == ASSUME MaxStarts \in Nat PROVE Spec => []MinedInRun
<1>1. IInv => MinedInRun
  BY DEF IInv
<1>. QED
  BY <1>1, InitIInv, StepIInv, PTL DEF Spec
=============================================================================
