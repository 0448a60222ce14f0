---------------------------- MODULE MCBaseProofs ----------------------------
(***************************************************************************)
(* What the run Components checks of the components of MCBase, for every    *)
(* value of their constants: the inductive invariant that a component's     *)
(* module states of it holds as long as it is the part that runs.           *)
(***************************************************************************)
EXTENDS MCBase, Naturals, Sequences, FiniteSetTheorems, SequenceTheorems, TLAPS

(* --- a part stays what it is and goes on as its module says ---------------- *)
LEMMA AppMainRuns ==
  /\ BaseInit /\ part = "AppMain" => App(AppCommands, AppFailures, AppSignals, AppQueue)!Init
  /\ [BaseNext]_allVars /\ part' = "AppMain" =>
       part = "AppMain" /\
       [App(AppCommands, AppFailures, AppSignals, AppQueue)!Next]_(App(AppCommands, AppFailures,
             AppSignals, AppQueue)!vars)
<1>1. BaseInit /\ part = "AppMain" => App(AppCommands, AppFailures, AppSignals, AppQueue)!Init
  BY Zenon DEF BaseInit
<1>2. ASSUME BaseNext, part' = "AppMain"
      PROVE  part = "AppMain" /\ App(AppCommands, AppFailures, AppSignals, AppQueue)!Next
  BY <1>2, Zenon DEF BaseNext
<1>3. ASSUME UNCHANGED allVars
      PROVE  part' = part /\ UNCHANGED App(AppCommands, AppFailures, AppSignals, AppQueue)!vars
  <2>1. /\ part' = part /\ x1' = x1 /\ x2' = x2 /\ x3' = x3 /\ x4' = x4 /\ x5' = x5 /\ x6' = x6
        /\ x7' = x7 /\ x8' = x8 /\ x9' = x9 /\ x10' = x10 /\ x11' = x11 /\ x12' = x12 /\ x13' = x13
        /\ x14' = x14 /\ x15' = x15 /\ x16' = x16 /\ x17' = x17 /\ x18' = x18 /\ x19' = x19 /\ x20' = x20
        /\ x21' = x21 /\ x22' = x22 /\ x23' = x23
    BY <1>3 DEF allVars, places
  <2>. QED  BY <2>1 DEF App!vars, App!commandVars, App!signalVars, App!busVars, App!flags, App!bounds
<1>. QED  BY <1>1, <1>2, <1>3, Zenon

LEMMA AppInterruptRuns ==
  /\ BaseInit /\ part = "AppInterrupt" => App(EndCommands, EndFailures, EndSignals, EndQueue)!Init
  /\ [BaseNext]_allVars /\ part' = "AppInterrupt" =>
       part = "AppInterrupt" /\
       [App(EndCommands, EndFailures, EndSignals, EndQueue)!Next]_(App(EndCommands, EndFailures,
             EndSignals, EndQueue)!vars)
<1>1. BaseInit /\ part = "AppInterrupt" => App(EndCommands, EndFailures, EndSignals, EndQueue)!Init
  BY Zenon DEF BaseInit
<1>2. ASSUME BaseNext, part' = "AppInterrupt"
      PROVE  part = "AppInterrupt" /\ App(EndCommands, EndFailures, EndSignals, EndQueue)!Next
  BY <1>2, Zenon DEF BaseNext
<1>3. ASSUME UNCHANGED allVars
      PROVE  part' = part /\ UNCHANGED App(EndCommands, EndFailures, EndSignals, EndQueue)!vars
  <2>1. /\ part' = part /\ x1' = x1 /\ x2' = x2 /\ x3' = x3 /\ x4' = x4 /\ x5' = x5 /\ x6' = x6
        /\ x7' = x7 /\ x8' = x8 /\ x9' = x9 /\ x10' = x10 /\ x11' = x11 /\ x12' = x12 /\ x13' = x13
        /\ x14' = x14 /\ x15' = x15 /\ x16' = x16 /\ x17' = x17 /\ x18' = x18 /\ x19' = x19 /\ x20' = x20
        /\ x21' = x21 /\ x22' = x22 /\ x23' = x23
    BY <1>3 DEF allVars, places
  <2>. QED  BY <2>1 DEF App!vars, App!commandVars, App!signalVars, App!busVars, App!flags, App!bounds
<1>. QED  BY <1>1, <1>2, <1>3, Zenon

LEMMA RunNumberRuns ==
  /\ BaseInit /\ part = "RunNumber" => RunNumber!Init
  /\ [BaseNext]_allVars /\ part' = "RunNumber" => part = "RunNumber" /\ [RunNumber!Next]_(RunNumber!vars)
<1>1. BaseInit /\ part = "RunNumber" => RunNumber!Init
  BY Zenon DEF BaseInit
<1>2. ASSUME BaseNext, part' = "RunNumber"
      PROVE  part = "RunNumber" /\ RunNumber!Next
  BY <1>2, Zenon DEF BaseNext
<1>3. ASSUME UNCHANGED allVars
      PROVE  part' = part /\ UNCHANGED RunNumber!vars
  <2>1. /\ part' = part /\ x1' = x1 /\ x2' = x2 /\ x3' = x3 /\ x4' = x4 /\ x5' = x5 /\ x6' = x6
        /\ x7' = x7 /\ x8' = x8 /\ x9' = x9 /\ x10' = x10 /\ x11' = x11
    BY <1>3 DEF allVars, places
  <2>. QED  BY <2>1 DEF RunNumber!vars
<1>. QED  BY <1>1, <1>2, <1>3, Zenon

LEMMA NumiWatcherRuns ==
  /\ BaseInit /\ part = "NumiWatcher" => NumiWatcher!Init
  /\ [BaseNext]_allVars /\ part' = "NumiWatcher" =>
       part = "NumiWatcher" /\ [NumiWatcher!Next]_(NumiWatcher!vars)
<1>1. BaseInit /\ part = "NumiWatcher" => NumiWatcher!Init
  BY Zenon DEF BaseInit
<1>2. ASSUME BaseNext, part' = "NumiWatcher"
      PROVE  part = "NumiWatcher" /\ NumiWatcher!Next
  BY <1>2, Zenon DEF BaseNext
<1>3. ASSUME UNCHANGED allVars
      PROVE  part' = part /\ UNCHANGED NumiWatcher!vars
  <2>1. /\ part' = part /\ x1' = x1 /\ x2' = x2 /\ x3' = x3 /\ x4' = x4 /\ x5' = x5 /\ x6' = x6
        /\ x7' = x7 /\ x8' = x8 /\ x9' = x9 /\ x10' = x10
    BY <1>3 DEF allVars, places
  <2>. QED  BY <2>1 DEF NumiWatcher!vars
<1>. QED  BY <1>1, <1>2, <1>3, Zenon

LEMMA SpillRpcRuns ==
  /\ BaseInit /\ part = "SpillRpc" => SpillRpc!Init
  /\ [BaseNext]_allVars /\ part' = "SpillRpc" => part = "SpillRpc" /\ [SpillRpc!Next]_(SpillRpc!vars)
<1>1. BaseInit /\ part = "SpillRpc" => SpillRpc!Init
  BY Zenon DEF BaseInit
<1>2. ASSUME BaseNext, part' = "SpillRpc"
      PROVE  part = "SpillRpc" /\ SpillRpc!Next
  BY <1>2, Zenon DEF BaseNext
<1>3. ASSUME UNCHANGED allVars
      PROVE  part' = part /\ UNCHANGED SpillRpc!vars
  <2>1. /\ part' = part /\ x1' = x1 /\ x2' = x2 /\ x3' = x3 /\ x4' = x4 /\ x5' = x5 /\ x6' = x6
        /\ x7' = x7 /\ x8' = x8 /\ x9' = x9 /\ x10' = x10 /\ x11' = x11
    BY <1>3 DEF allVars, places
  <2>. QED  BY <2>1 DEF SpillRpc!vars, SpillRpc!clientVars
<1>. QED  BY <1>1, <1>2, <1>3, Zenon

LEMMA BadgerboardRuns ==
  /\ BaseInit /\ part = "Badgerboard" => Badgerboard!Init
  /\ [BaseNext]_allVars /\ part' = "Badgerboard" =>
       part = "Badgerboard" /\ [Badgerboard!Next]_(Badgerboard!vars)
<1>1. BaseInit /\ part = "Badgerboard" => Badgerboard!Init
  BY Zenon DEF BaseInit
<1>2. ASSUME BaseNext, part' = "Badgerboard"
      PROVE  part = "Badgerboard" /\ Badgerboard!Next
  BY <1>2, Zenon DEF BaseNext
<1>3. ASSUME UNCHANGED allVars
      PROVE  part' = part /\ UNCHANGED Badgerboard!vars
  <2>1. /\ part' = part /\ x1' = x1 /\ x2' = x2 /\ x3' = x3 /\ x4' = x4 /\ x5' = x5 /\ x6' = x6
        /\ x7' = x7 /\ x8' = x8 /\ x9' = x9 /\ x10' = x10 /\ x11' = x11 /\ x12' = x12 /\ x13' = x13
        /\ x14' = x14 /\ x15' = x15 /\ x16' = x16 /\ x17' = x17 /\ x18' = x18
    BY <1>3 DEF allVars, places
  <2>. QED  BY <2>1 DEF Badgerboard!vars
<1>. QED  BY <1>1, <1>2, <1>3, Zenon

LEMMA SystemRuns ==
  /\ BaseInit /\ part = "System" => System!Init
  /\ [BaseNext]_allVars /\ part' = "System" => part = "System" /\ [System!Next]_(System!vars)
<1>1. BaseInit /\ part = "System" => System!Init
  BY Zenon DEF BaseInit
<1>2. ASSUME BaseNext, part' = "System"
      PROVE  part = "System" /\ System!Next
  BY <1>2, Zenon DEF BaseNext
<1>3. ASSUME UNCHANGED allVars
      PROVE  part' = part /\ UNCHANGED System!vars
  <2>1. /\ part' = part /\ x1' = x1 /\ x2' = x2 /\ x3' = x3 /\ x4' = x4 /\ x5' = x5 /\ x6' = x6
        /\ x7' = x7 /\ x8' = x8 /\ x9' = x9 /\ x10' = x10 /\ x11' = x11 /\ x12' = x12
    BY <1>3 DEF allVars, places
  <2>. QED  BY <2>1 DEF System!vars, System!fsmVars, System!control
<1>. QED  BY <1>1, <1>2, <1>3, Zenon

LEMMA ClbSequenceRuns ==
  /\ BaseInit /\ part = "ClbSequence" => Numbering(SlicePlanes, SliceNumbers, SliceBytes, TRUE)!Init
  /\ [BaseNext]_allVars /\ part' = "ClbSequence" =>
       part = "ClbSequence" /\
       [Numbering(SlicePlanes, SliceNumbers, SliceBytes, TRUE)!Next]_(Numbering(SlicePlanes, SliceNumbers, SliceBytes,
             TRUE)!vars)
<1>1. BaseInit /\ part = "ClbSequence" => Numbering(SlicePlanes, SliceNumbers, SliceBytes, TRUE)!Init
  BY Zenon DEF BaseInit
<1>2. ASSUME BaseNext, part' = "ClbSequence"
      PROVE  part = "ClbSequence" /\ Numbering(SlicePlanes, SliceNumbers, SliceBytes, TRUE)!Next
  BY <1>2, Zenon DEF BaseNext
<1>3. ASSUME UNCHANGED allVars
      PROVE  part' = part /\ UNCHANGED Numbering(SlicePlanes, SliceNumbers, SliceBytes, TRUE)!vars
  <2>1. /\ part' = part /\ x1' = x1 /\ x2' = x2 /\ x3' = x3 /\ x4' = x4 /\ x5' = x5 /\ x6' = x6
        /\ x7' = x7
    BY <1>3 DEF allVars, places
  <2>. QED  BY <2>1 DEF Numbering!vars
<1>. QED  BY <1>1, <1>2, <1>3, Zenon

LEMMA BbbSequenceRuns ==
  /\ BaseInit /\ part = "BbbSequence" => Numbering(CountPlanes, CountNumbers, CountBytes, FALSE)!Init
  /\ [BaseNext]_allVars /\ part' = "BbbSequence" =>
       part = "BbbSequence" /\
       [Numbering(CountPlanes, CountNumbers, CountBytes, FALSE)!Next]_(Numbering(CountPlanes, CountNumbers, CountBytes,
             FALSE)!vars)
<1>1. BaseInit /\ part = "BbbSequence" => Numbering(CountPlanes, CountNumbers, CountBytes, FALSE)!Init
  BY Zenon DEF BaseInit
<1>2. ASSUME BaseNext, part' = "BbbSequence"
      PROVE  part = "BbbSequence" /\ Numbering(CountPlanes, CountNumbers, CountBytes, FALSE)!Next
  BY <1>2, Zenon DEF BaseNext
<1>3. ASSUME UNCHANGED allVars
      PROVE  part' = part /\ UNCHANGED Numbering(CountPlanes, CountNumbers, CountBytes, FALSE)!vars
  <2>1. /\ part' = part /\ x1' = x1 /\ x2' = x2 /\ x3' = x3 /\ x4' = x4 /\ x5' = x5 /\ x6' = x6
        /\ x7' = x7
    BY <1>3 DEF allVars, places
  <2>. QED  BY <2>1 DEF Numbering!vars
<1>. QED  BY <1>1, <1>2, <1>3, Zenon

LEMMA LossySequenceRuns ==
  /\ BaseInit /\ part = "LossySequence" => LossySequence!Init
  /\ [BaseNext]_allVars /\ part' = "LossySequence" =>
       part = "LossySequence" /\
       [LossySequence!Next]_(LossySequence!vars)
<1>1. BaseInit /\ part = "LossySequence" => LossySequence!Init
  BY Zenon DEF BaseInit
<1>2. ASSUME BaseNext, part' = "LossySequence"
      PROVE  part = "LossySequence" /\ LossySequence!Next
  BY <1>2, Zenon DEF BaseNext
<1>3. ASSUME UNCHANGED allVars
      PROVE  part' = part /\ UNCHANGED LossySequence!vars
  <2>1. /\ part' = part /\ x1' = x1 /\ x2' = x2 /\ x3' = x3 /\ x4' = x4 /\ x5' = x5 /\ x6' = x6
        /\ x7' = x7
    BY <1>3 DEF allVars, places
  <2>. QED  BY <2>1 DEF LossySequence!vars
<1>. QED  BY <1>1, <1>2, <1>3, Zenon

LEMMA DaqsitterRuns ==
  /\ BaseInit /\ part = "Daqsitter" => Daqsitter!Init
  /\ [BaseNext]_allVars /\ part' = "Daqsitter" =>
       part = "Daqsitter" /\ [Daqsitter!Next]_(Daqsitter!vars)
<1>1. BaseInit /\ part = "Daqsitter" => Daqsitter!Init
  BY Zenon DEF BaseInit
<1>2. ASSUME BaseNext, part' = "Daqsitter"
      PROVE  part = "Daqsitter" /\ Daqsitter!Next
  BY <1>2, Zenon DEF BaseNext
<1>3. ASSUME UNCHANGED allVars
      PROVE  part' = part /\ UNCHANGED Daqsitter!vars
  <2>1. /\ part' = part /\ x1' = x1 /\ x2' = x2 /\ x3' = x3 /\ x4' = x4 /\ x5' = x5 /\ x6' = x6
        /\ x7' = x7 /\ x8' = x8 /\ x9' = x9
    BY <1>3 DEF allVars, places
  <2>. QED  BY <2>1 DEF Daqsitter!vars
<1>. QED  BY <1>1, <1>2, <1>3, Zenon

LEMMA DaqControlRuns ==
  /\ BaseInit /\ part = "DaqControl" => Daq(DaqConfigs, DaqCommands, DaqTimes, DaqFailures)!Init
  /\ [BaseNext]_allVars /\ (part = "DaqControl" \/ part' = "DaqControl") =>
       part' = part /\ [Daq(DaqConfigs, DaqCommands, DaqTimes, DaqFailures)!Next]_(Daq(DaqConfigs,
             DaqCommands, DaqTimes, DaqFailures)!vars)
<1>1. BaseInit /\ part = "DaqControl" => Daq(DaqConfigs, DaqCommands, DaqTimes, DaqFailures)!Init
  BY Zenon DEF BaseInit
<1>2. ASSUME BaseNext, part = "DaqControl" \/ part' = "DaqControl"
      PROVE  part' = part /\ Daq(DaqConfigs, DaqCommands, DaqTimes, DaqFailures)!Next
  BY <1>2, Zenon DEF BaseNext
<1>3. ASSUME UNCHANGED allVars
      PROVE  part' = part /\ UNCHANGED Daq(DaqConfigs, DaqCommands, DaqTimes, DaqFailures)!vars
  <2>1. /\ part' = part /\ x1' = x1 /\ x2' = x2 /\ x3' = x3 /\ x4' = x4 /\ x5' = x5 /\ x6' = x6
        /\ x7' = x7 /\ x8' = x8 /\ x9' = x9 /\ x10' = x10 /\ x11' = x11
    BY <1>3 DEF allVars, places
  <2>. QED  BY <2>1 DEF Daq!vars, Daq!counters
<1>. QED  BY <1>1, <1>2, <1>3, Zenon

LEMMA ReconfiguredRuns ==
  /\ BaseInit /\ part = "Reconfigured" => Daq(AgainConfigs, AgainCommands, AgainTimes, AgainFailures)!Init
  /\ [BaseNext]_allVars /\ (part = "Reconfigured" \/ part' = "Reconfigured") =>
       part' = part /\ [Daq(AgainConfigs, AgainCommands, AgainTimes,
             AgainFailures)!Next]_(Daq(AgainConfigs, AgainCommands, AgainTimes, AgainFailures)!vars)
<1>1. BaseInit /\ part = "Reconfigured" => Daq(AgainConfigs, AgainCommands, AgainTimes, AgainFailures)!Init
  BY Zenon DEF BaseInit
<1>2. ASSUME BaseNext, part = "Reconfigured" \/ part' = "Reconfigured"
      PROVE  part' = part /\ Daq(AgainConfigs, AgainCommands, AgainTimes, AgainFailures)!Next
  BY <1>2, Zenon DEF BaseNext
<1>3. ASSUME UNCHANGED allVars
      PROVE  part' = part /\ UNCHANGED Daq(AgainConfigs, AgainCommands, AgainTimes, AgainFailures)!vars
  <2>1. /\ part' = part /\ x1' = x1 /\ x2' = x2 /\ x3' = x3 /\ x4' = x4 /\ x5' = x5 /\ x6' = x6
        /\ x7' = x7 /\ x8' = x8 /\ x9' = x9 /\ x10' = x10 /\ x11' = x11
    BY <1>3 DEF allVars, places
  <2>. QED  BY <2>1 DEF Daq!vars, Daq!counters
<1>. QED  BY <1>1, <1>2, <1>3, Zenon

LEMMA ReporterRuns ==
  /\ BaseInit /\ part = "Reporter" => Reporter!Init
  /\ [BaseNext]_allVars /\ (part = "Reporter" \/ part' = "Reporter") =>
       part' = part /\ [Reporter!Next]_(Reporter!vars)
<1>1. BaseInit /\ part = "Reporter" => Reporter!Init
  BY Zenon DEF BaseInit
<1>2. ASSUME BaseNext, part = "Reporter" \/ part' = "Reporter"
      PROVE  part' = part /\ Reporter!Next
  BY <1>2, Zenon DEF BaseNext
<1>3. ASSUME UNCHANGED allVars
      PROVE  part' = part /\ UNCHANGED Reporter!vars
  <2>1. /\ part' = part /\ x1' = x1 /\ x2' = x2 /\ x3' = x3 /\ x4' = x4 /\ x5' = x5 /\ x6' = x6
        /\ x7' = x7 /\ x8' = x8 /\ x9' = x9
    BY <1>3 DEF allVars, places
  <2>. QED  BY <2>1 DEF Reporter!vars
<1>. QED  BY <1>1, <1>2, <1>3, Zenon

(* --- DaqControl: x3 is its buf, x5 its cmd, x6 its upd ---------------------- *)
\* The configurations are lists of boards.
Board == [type : {"CLB", "BBB"}, enabled : BOOLEAN]
Boards == Seq(Board)

\* Controllers that are the same and have been told no less.
Kept == /\ Len(x3') = Len(x3)
        /\ \A i \in 1 .. Len(x3) : /\ ~x3'[i].dropped /\ x3'[i].enabled => ~x3[i].dropped /\ x3[i].enabled
                                   /\ x3[i].started => x3'[i].started

\* The module has its own instance of what FiniteSets defines.
LEMMA DaqSets ==
  ASSUME NEW CONSTANT C, NEW CONSTANT M, NEW CONSTANT N, NEW CONSTANT F, NEW S
  PROVE  (Daq(C, M, N, F)!IsFiniteSet(S) <=> IsFiniteSet(S)) /\ Daq(C, M, N, F)!Cardinality(S) = Cardinality(S)
<1>1. Daq(C, M, N, F)!IsFiniteSet(S) <=> IsFiniteSet(S)
  BY Zenon DEF Daq!IsFiniteSet, IsFiniteSet
<1>2. Daq(C, M, N, F)!Cardinality(S) = Cardinality(S)
  BY Zenon DEF Daq!Cardinality, Cardinality
<1>. QED  BY <1>1, <1>2

LEMMA DaqInit ==
  ASSUME NEW CONSTANT C, NEW CONSTANT M, NEW CONSTANT N, NEW CONSTANT F, Daq(C, M, N, F)!Init
  PROVE  Daq(C, M, N, F)!IInv
<1>. USE DEF Daq!Init
<1>1. x3 \in Seq(Daq(C, M, N, F)!ControllerType)
  OBVIOUS
<1>2. Daq(C, M, N, F)!CmdType /\ Daq(C, M, N, F)!UpdType
  <2>1. IsFiniteSet({})
    BY FS_EmptySet
  <2>2. x6.states = {} /\ x6.i = 1 /\ x6.end = 0
    OBVIOUS
  <2>3. Daq(C, M, N, F)!IsFiniteSet(x6.states)
    BY <2>1, <2>2, DaqSets, Zenon
  <2>. QED  BY <2>2, <2>3 DEF Daq!CmdType, Daq!UpdType, Daq!Idle, Daq!Operations
<1>3. Daq(C, M, N, F)!Vector /\ Daq(C, M, N, F)!Targeted
  BY DEF Daq!Vector, Daq!Targeted, Daq!Idle, Daq!Reconfiguring
<1>4. Daq(C, M, N, F)!PostTold /\ Daq(C, M, N, F)!DoneTold /\ Daq(C, M, N, F)!ScanTold
  BY DEF Daq!PostTold, Daq!DoneTold, Daq!ScanTold, Daq!Scanning
<1>. QED  BY <1>1, <1>2, <1>3, <1>4 DEF Daq!IInv

\* A step that keeps the controllers keeps what the update knows of them and, when it is there, what
\* the target says.
LEMMA DaqKept ==
  ASSUME NEW CONSTANT C, NEW CONSTANT M, NEW CONSTANT N, NEW CONSTANT F,
         x3 \in Seq(Daq(C, M, N, F)!ControllerType),
         x3' \in Seq(Daq(C, M, N, F)!ControllerType), Kept, Daq(C, M, N, F)!Vector
  PROVE  /\ Daq(C, M, N, F)!ScanTold /\ Daq(C, M, N, F)!UpdType /\ x6' = x6 /\ x4' = x4 /\ (x8 => x8') =>
            Daq(C, M, N, F)!ScanTold'
         /\ Daq(C, M, N, F)!Told => Daq(C, M, N, F)!Told'
         /\ Daq(C, M, N, F)!PostTold /\ UNCHANGED x5 => Daq(C, M, N, F)!PostTold'
<1>1. ASSUME Daq(C, M, N, F)!ScanTold, Daq(C, M, N, F)!UpdType, x6' = x6, x4' = x4, x8 => x8'
      PROVE  Daq(C, M, N, F)!ScanTold'
  <2>1. x4 = Len(x3) \/ x4 = 0
    BY DEF Daq!Vector
  <2>2. x6.end \in Nat /\ x6.i \in Nat
    BY <1>1 DEF Daq!UpdType
  <2>. QED  BY <1>1, <2>1, <2>2 DEF Kept, Daq!ScanTold, Daq!Scanning, Daq!Takes
<1>2. ASSUME Daq(C, M, N, F)!Told
      PROVE  Daq(C, M, N, F)!Told'
  BY <1>2 DEF Kept, Daq!Told, Daq!Takes
<1>3. ASSUME Daq(C, M, N, F)!PostTold, UNCHANGED x5
      PROVE  Daq(C, M, N, F)!PostTold'
  BY <1>3 DEF Kept, Daq!PostTold, Daq!Takes
<1>. QED  BY <1>1, <1>2, <1>3

\* Who has started, does so or is to do so was told.
Done(c) == (\/ c.state = "Started" \/ c.op = "startData"
            \/ \E k \in DOMAIN c.queue : c.queue[k] = "startData") => c.started

LEMMA DaqOne ==
  ASSUME NEW CONSTANT C, NEW CONSTANT M, NEW CONSTANT N, NEW CONSTANT F,
         x3 \in Seq(Daq(C, M, N, F)!ControllerType), Daq(C, M, N, F)!DoneTold,
         NEW i \in 1 .. Len(x3), NEW c \in Daq(C, M, N, F)!ControllerType,
         x3' = [x3 EXCEPT ![i] = c],
         ~c.dropped /\ c.enabled => ~x3[i].dropped /\ x3[i].enabled,
         x3[i].started => c.started, Done(x3[i]) => Done(c)
  PROVE  x3' \in Seq(Daq(C, M, N, F)!ControllerType) /\ Kept /\ Daq(C, M, N, F)!DoneTold'
<1>. HIDE DEF Daq!ControllerType
<1>1. x3' \in Seq(Daq(C, M, N, F)!ControllerType) /\ Len(x3') = Len(x3)
  OBVIOUS
<1>2. x3'[i] = c /\ \A j \in 1 .. Len(x3) : j # i => x3'[j] = x3[j]
  OBVIOUS
<1>3. Kept
  BY <1>1, <1>2 DEF Kept
<1>4. \A j \in 1 .. Len(x3) : Done(x3[j])
  BY DEF Daq!DoneTold, Done
<1>5. \A j \in 1 .. Len(x3) : Done(x3'[j])
  <2>1. TAKE j \in 1 .. Len(x3)
  <2>2. CASE j = i
    BY <1>2, <1>4, <2>2
  <2>3. CASE j # i
    BY <1>2, <1>4, <2>3
  <2>. QED  BY <2>2, <2>3
<1>6. Daq(C, M, N, F)!DoneTold'
  BY <1>1, <1>5 DEF Daq!DoneTold, Done
<1>. QED  BY <1>1, <1>3, <1>6

\* The command thread changes controllers only by posting to them, until it replaces them all.
LEMMA DaqCommand ==
  ASSUME NEW CONSTANT C, NEW CONSTANT M, NEW CONSTANT N, NEW CONSTANT F, C \subseteq Boards,
         Daq(C, M, N, F)!IInv, Daq(C, M, N, F)!Command
  PROVE  Daq(C, M, N, F)!IInv'
<1>1. /\ x3 \in Seq(Daq(C, M, N, F)!ControllerType) /\ Daq(C, M, N, F)!DoneTold
      /\ Daq(C, M, N, F)!UpdType /\ Daq(C, M, N, F)!ScanTold /\ Daq(C, M, N, F)!PostTold
      /\ Daq(C, M, N, F)!Vector /\ Daq(C, M, N, F)!Targeted /\ Daq(C, M, N, F)!CmdType /\ x4 \in Nat
  BY DEF Daq!IInv
<1>2. x6' = x6 /\ (x8 => x8') /\ (x4 # 0 /\ x4' = 0 => x8')
  <2>1. Daq(C, M, N, F)!CommandOnly
    BY DEF Daq!Command
  <2>. QED  BY <2>1, Zenon DEF Daq!CommandOnly
<1>3. x5 = [at |-> x5.at, op |-> x5.op, i |-> x5.i]
  BY <1>1 DEF Daq!CmdType
<1>4. Daq(C, M, N, F)!UpdType'
  BY <1>1, <1>2 DEF Daq!UpdType
\* An operation is posted to a controller, which has been told to start if that is it.
<1>5. ASSUME NEW i \in 1 .. Len(x3), NEW o \in Daq(C, M, N, F)!Operations, NEW t \in BOOLEAN,
             o = "startData" => t, x3[i].started => t,
             x3' = [x3 EXCEPT ![i] = [x3[i] EXCEPT !.queue = Append(x3[i].queue, o), !.started = t]]
      PROVE  /\ x3' \in Seq(Daq(C, M, N, F)!ControllerType) /\ Kept /\ Daq(C, M, N, F)!DoneTold'
             /\ x3'[i].started = t
  <2>. DEFINE c == [x3[i] EXCEPT !.queue = Append(x3[i].queue, o), !.started = t]
  <2>1. x3[i] \in Daq(C, M, N, F)!ControllerType /\ i \in DOMAIN x3
    BY <1>1
  <2>2. x3[i].queue \in Seq(Daq(C, M, N, F)!Operations)
    BY <2>1 DEF Daq!ControllerType
  <2>3. Append(x3[i].queue, o) \in Seq(Daq(C, M, N, F)!Operations)
    BY <2>2
  <2>4. c \in Daq(C, M, N, F)!ControllerType
    BY <2>1, <2>3 DEF Daq!ControllerType
  <2>5. /\ c.dropped = x3[i].dropped /\ c.enabled = x3[i].enabled /\ c.started = t
        /\ c.state = x3[i].state /\ c.op = x3[i].op /\ c.queue = Append(x3[i].queue, o)
    BY <2>1 DEF Daq!ControllerType
  <2>6. Done(x3[i]) => Done(c)
    BY <1>5, <2>2, <2>5 DEF Done
  <2>7. x3' = [x3 EXCEPT ![i] = c]
    BY <1>5
  <2>. HIDE DEF c
  <2>8. x3' \in Seq(Daq(C, M, N, F)!ControllerType) /\ Kept /\ Daq(C, M, N, F)!DoneTold'
    <3>1. ~c.dropped /\ c.enabled => ~x3[i].dropped /\ x3[i].enabled
      BY <2>5, Zenon
    <3>2. x3[i].started => c.started
      BY <1>5, <2>5, Zenon
    <3>. QED  BY <1>1, <1>5, <2>4, <2>6, <2>7, <3>1, <3>2, DaqOne, ZenonT(40)
  <2>9. x3'[i] = c
    BY <2>1, <2>7, Zenon
  <2>. QED  BY <2>5, <2>8, <2>9, Zenon
<1>6. CASE Daq(C, M, N, F)!Post
  <2>1. x5.at = "post" /\ x4 = Len(x3) /\ x5.i \in 1 .. Len(x3) /\ x5.op \in Daq(C, M, N, F)!Operations
    BY <1>1, <1>6 DEF Daq!Post, Daq!Vector, Daq!CmdType
  <2>2. x5' = [x5 EXCEPT !.i = x5.i + 1] /\ UNCHANGED <<x1, x2, x4>>
    BY <1>6 DEF Daq!Post
  <2>3. x5'.at = "post" /\ x5'.op = x5.op /\ x5'.i = x5.i + 1 /\ Daq(C, M, N, F)!CmdType'
    BY <1>3, <2>1, <2>2 DEF Daq!CmdType, Daq!Operations
  <2>4. /\ x3' \in Seq(Daq(C, M, N, F)!ControllerType) /\ Kept /\ Daq(C, M, N, F)!DoneTold'
        /\ x5.op = "startData" /\ Daq(C, M, N, F)!Takes(x3[x5.i]) => x3'[x5.i].started
    <3>1. CASE Daq(C, M, N, F)!Takes(x3[x5.i])
      <4>1. x3' = [x3 EXCEPT ![x5.i].queue = Append(@, x5.op), ![x5.i].started = @ \/ x5.op = "startData"]
        BY <1>6, <3>1 DEF Daq!Post
      <4>. DEFINE t == x3[x5.i].started \/ x5.op = "startData"
      <4>2. x3[x5.i] \in Daq(C, M, N, F)!ControllerType
        BY <1>1, <2>1
      <4>3. t \in BOOLEAN
        BY Zenon
      <4>4. /\ x5.op = "startData" => t
            /\ x3[x5.i].started => t
        OBVIOUS
      <4>5. x3' = [x3 EXCEPT ![x5.i] = [x3[x5.i] EXCEPT !.queue = Append(x3[x5.i].queue, x5.op), !.started = t]]
        BY <1>1, <2>1, <4>1, <4>2 DEF Daq!ControllerType
      <4>. HIDE DEF t
      <4>6. /\ x3' \in Seq(Daq(C, M, N, F)!ControllerType) /\ Kept /\ Daq(C, M, N, F)!DoneTold'
            /\ x3'[x5.i].started = t
        BY <1>5, <2>1, <4>3, <4>4, <4>5, Zenon
      <4>. QED  BY <4>4, <4>6, Zenon
    <3>2. CASE ~Daq(C, M, N, F)!Takes(x3[x5.i])
      <4>1. x3' = x3
        BY <1>6, <3>2 DEF Daq!Post
      <4>. QED  BY <1>1, <3>2, <4>1 DEF Kept, Daq!DoneTold
    <3>. QED  BY <3>1, <3>2
  <2>5. Daq(C, M, N, F)!ScanTold'
    BY <1>1, <1>2, <2>2, <2>4, DaqKept
  <2>6. Daq(C, M, N, F)!Vector'
    BY <2>1, <2>2, <2>4 DEF Kept, Daq!Vector
  <2>7. Daq(C, M, N, F)!Targeted'
    <3>1. Daq(C, M, N, F)!Told => Daq(C, M, N, F)!Told'
      BY <1>1, <2>4, DaqKept
    <3>. QED  BY <1>1, <2>1, <2>2, <2>3, <3>1 DEF Daq!Targeted, Daq!Reconfiguring
  <2>8. Daq(C, M, N, F)!PostTold'
    <3>1. SUFFICES ASSUME NEW i \in DOMAIN x3', x5'.op = "startData", i < x5'.i,
                          Daq(C, M, N, F)!Takes(x3[i])'
                   PROVE  x3'[i].started
      BY DEF Daq!PostTold
    <3>2. /\ i \in 1 .. Len(x3) /\ Daq(C, M, N, F)!Takes(x3[i])
          /\ x3[i].started => x3'[i].started
      BY <2>4, <3>1 DEF Kept, Daq!Takes
    <3>3. CASE i < x5.i
      BY <1>1, <2>1, <2>3, <3>1, <3>2, <3>3 DEF Daq!PostTold
    <3>4. CASE i = x5.i
      BY <2>3, <2>4, <3>1, <3>2, <3>4
    <3>. QED  BY <2>1, <2>3, <3>1, <3>2, <3>3, <3>4
  <2>. QED  BY <1>1, <1>4, <2>2, <2>3, <2>4, <2>5, <2>6, <2>7, <2>8 DEF Daq!IInv
<1>7. CASE Daq(C, M, N, F)!PostConfigure
  <2>1. x5.at = "configure" /\ x4 = Len(x3) /\ UNCHANGED <<x1, x2, x4>>
    BY <1>1, <1>7 DEF Daq!PostConfigure, Daq!Vector
  <2>2. x5'.at \in {"sleep2", "target"} /\ x5'.op = "configure" /\ Daq(C, M, N, F)!CmdType'
    BY <1>7 DEF Daq!PostConfigure, Daq!ToConfigure, Daq!Goto, Daq!CmdType, Daq!Operations
  <2>3. x3' = [x3 EXCEPT ![x5.i].queue = Append(@, "configure")]
    BY <1>7 DEF Daq!PostConfigure
  <2>4. x3' \in Seq(Daq(C, M, N, F)!ControllerType) /\ Kept /\ Daq(C, M, N, F)!DoneTold'
    <3>1. CASE x5.i \in 1 .. Len(x3)
      <4>. DEFINE t == x3[x5.i].started
      <4>1. x3[x5.i] \in Daq(C, M, N, F)!ControllerType /\ "configure" \in Daq(C, M, N, F)!Operations
        BY <1>1, <3>1 DEF Daq!Operations
      <4>2. t \in BOOLEAN
        BY <4>1 DEF Daq!ControllerType
      <4>3. x3' = [x3 EXCEPT ![x5.i] = [x3[x5.i] EXCEPT !.queue = Append(x3[x5.i].queue, "configure"),
            !.started = t]]
        BY <1>1, <2>3, <3>1, <4>1 DEF Daq!ControllerType
      <4>4. x3[x5.i].started => t
        OBVIOUS
      <4>. HIDE DEF t
      <4>. QED  BY <1>5, <3>1, <4>1, <4>2, <4>3, <4>4
    <3>2. CASE x5.i \notin 1 .. Len(x3)
      <4>1. x3' = x3
        BY <1>1, <2>3, <3>2
      <4>. QED  BY <1>1, <4>1 DEF Kept, Daq!DoneTold
    <3>. QED  BY <3>1, <3>2
  <2>5. Daq(C, M, N, F)!ScanTold'
    BY <1>1, <1>2, <2>1, <2>4, DaqKept
  <2>6. Daq(C, M, N, F)!Vector' /\ Daq(C, M, N, F)!PostTold'
    BY <2>1, <2>2, <2>4 DEF Kept, Daq!Vector, Daq!PostTold
  <2>7. Daq(C, M, N, F)!Targeted'
    BY <1>1, <2>1, <2>2 DEF Daq!Targeted, Daq!Reconfiguring
  <2>. QED  BY <1>1, <1>4, <2>1, <2>2, <2>4, <2>5, <2>6, <2>7 DEF Daq!IInv
\* The other steps leave the controllers alone, except when they are replaced.
<1>8. ASSUME UNCHANGED <<x3, x4>>, x5.at = "delete" => x5'.at = "delete", Daq(C, M, N, F)!CmdType',
             Daq(C, M, N, F)!PostTold', Daq(C, M, N, F)!Targeted'
      PROVE  Daq(C, M, N, F)!IInv'
  <2>1. Kept
    BY <1>8 DEF Kept
  <2>2. Daq(C, M, N, F)!ScanTold'
    BY <1>1, <1>2, <1>8, <2>1, DaqKept
  <2>3. Daq(C, M, N, F)!Vector' /\ Daq(C, M, N, F)!DoneTold'
    BY <1>1, <1>8 DEF Daq!Vector, Daq!DoneTold
  <2>. QED  BY <1>1, <1>4, <1>8, <2>2, <2>3 DEF Daq!IInv
<1>9. UNCHANGED x3 => Daq(C, M, N, F)!Told' = Daq(C, M, N, F)!Told
  BY DEF Daq!Told, Daq!Takes
<1>10. CASE Daq(C, M, N, F)!Config \/ Daq(C, M, N, F)!WaitForReset
  <2>1. /\ UNCHANGED <<x2, x3, x4>> /\ x5.at # "delete" /\ x2 # "Started"
        /\ x5' \in {[at |-> "post", op |-> "reset", i |-> 1], [at |-> "delete", op |-> "none", i |-> 0],
                    [at |-> "sleep10", op |-> "none", i |-> 0]}
    BY <1>1, <1>10 DEF Daq!Config, Daq!WaitForReset, Daq!Receive, Daq!FsmConfigures, Daq!Idle, Daq!Goto,
                       Daq!Targeted,
                       Daq!Reconfiguring
  <2>2. Daq(C, M, N, F)!CmdType' /\ Daq(C, M, N, F)!PostTold'
    BY <2>1 DEF Daq!CmdType, Daq!PostTold, Daq!Operations
  <2>3. Daq(C, M, N, F)!Targeted'
    BY <2>1 DEF Daq!Targeted, Daq!Reconfiguring
  <2>. QED  BY <1>8, <2>1, <2>2, <2>3
<1>11. CASE Daq(C, M, N, F)!Sleep10 \/ Daq(C, M, N, F)!Sleep2
  <2>1. /\ UNCHANGED <<x2, x3, x4>> /\ x5.at # "delete" /\ x2 # "Started" /\ x5'.op = x5.op
        /\ x5' = [x5 EXCEPT !.at = x5'.at] /\ x5'.at \in {"delete", "configure"}
        /\ x5'.at = "configure" => x5.op = "configure"
    BY <1>1, <1>3, <1>11 DEF Daq!Sleep10, Daq!Sleep2, Daq!Targeted, Daq!Reconfiguring
  <2>2. Daq(C, M, N, F)!CmdType' /\ Daq(C, M, N, F)!PostTold'
    BY <1>1, <2>1 DEF Daq!CmdType, Daq!PostTold, Daq!Operations
  <2>3. Daq(C, M, N, F)!Targeted'
    BY <2>1 DEF Daq!Targeted, Daq!Reconfiguring
  <2>. QED  BY <1>8, <2>1, <2>2, <2>3
<1>12. CASE Daq(C, M, N, F)!StartData \/ Daq(C, M, N, F)!StopData \/ Daq(C, M, N, F)!Exit
  <2>1. /\ UNCHANGED <<x2, x3, x4>> /\ x5.at # "delete"
        /\ x5' \in {[at |-> "post", op |-> "startData", i |-> 1], [at |-> "post", op |-> "stopData", i |-> 1],
                    [at |-> "exited", op |-> "none", i |-> 0]}
    BY <1>12 DEF Daq!StartData, Daq!StopData, Daq!Exit, Daq!Receive, Daq!Idle, Daq!Goto
  <2>2. Daq(C, M, N, F)!CmdType' /\ Daq(C, M, N, F)!PostTold'
    BY <1>1, <2>1 DEF Daq!CmdType, Daq!PostTold, Daq!Operations
  <2>3. Daq(C, M, N, F)!Targeted'
    BY <1>1, <1>9, <2>1 DEF Daq!Targeted, Daq!Reconfiguring
  <2>. QED  BY <1>8, <2>1, <2>2, <2>3
\* Started becomes the target when all have been told.
<1>13. CASE Daq(C, M, N, F)!SetTarget
  <2>1. /\ UNCHANGED <<x3, x4>> /\ x5.at # "delete" /\ x5' = [at |-> "idle", op |-> "none", i |-> 0]
        /\ x2' = "Started" => x5.op = "startData"
    BY <1>13 DEF Daq!SetTarget, Daq!Idle
  <2>2. Daq(C, M, N, F)!CmdType' /\ Daq(C, M, N, F)!PostTold'
    BY <2>1 DEF Daq!CmdType, Daq!PostTold, Daq!Operations
  <2>3. ASSUME x5.op = "startData"
        PROVE  Daq(C, M, N, F)!Told
    <3>1. x5.at = "post" /\ x5.i > x4 /\ x4 = Len(x3)
      BY <1>1, <1>13, <2>1, <2>3 DEF Daq!SetTarget, Daq!Vector, Daq!Targeted
    <3>. QED  BY <1>1, <2>3, <3>1 DEF Daq!PostTold, Daq!Told, Daq!CmdType
  <2>4. Daq(C, M, N, F)!Targeted'
    BY <1>9, <2>1, <2>3 DEF Daq!Targeted, Daq!Reconfiguring
  <2>. QED  BY <1>8, <2>1, <2>2, <2>4
<1>14. CASE Daq(C, M, N, F)!Delete
  <2>1. /\ x5.at = "delete" /\ x4 # 0 /\ x4' = 0 /\ UNCHANGED <<x2, x5>>
        /\ x3' = [i \in DOMAIN x3 |-> [x3[i] EXCEPT !.alive = FALSE]]
    BY <1>14 DEF Daq!Delete
  <2>2. x3' \in Seq(Daq(C, M, N, F)!ControllerType)
    <3>1. ASSUME NEW i \in DOMAIN x3
          PROVE  [x3[i] EXCEPT !.alive = FALSE] \in Daq(C, M, N, F)!ControllerType
      <4>1. x3[i] \in Daq(C, M, N, F)!ControllerType
        BY <1>1
      <4>. QED  BY <4>1 DEF Daq!ControllerType
    <3>. QED  BY <1>1, <2>1, <3>1
  <2>3. Len(x3') = Len(x3)
    BY <1>1, <2>1
  <2>4. ASSUME NEW i \in 1 .. Len(x3)
        PROVE  Done(x3[i]) => Done(x3'[i])
    <3>1. x3[i] \in Daq(C, M, N, F)!ControllerType /\ i \in DOMAIN x3
      BY <1>1
    <3>2. x3'[i] = [x3[i] EXCEPT !.alive = FALSE]
      BY <2>1, <3>1, Zenon
    <3>. QED  BY <3>1, <3>2 DEF Done, Daq!ControllerType
  <2>5. Daq(C, M, N, F)!DoneTold'
    <3>1. \A i \in 1 .. Len(x3) : Done(x3[i])
      BY <1>1 DEF Daq!DoneTold, Done
    <3>. HIDE DEF Done
    <3>2. \A i \in 1 .. Len(x3') : Done(x3'[i])
      BY <2>3, <2>4, <3>1
    <3>. QED  BY <2>2, <3>2 DEF Daq!DoneTold, Done
  <2>6. Daq(C, M, N, F)!ScanTold'
    BY <1>2, <2>1 DEF Daq!ScanTold
  <2>7. Daq(C, M, N, F)!Vector' /\ Daq(C, M, N, F)!CmdType' /\ Daq(C, M, N, F)!PostTold' /\
        Daq(C, M, N, F)!Targeted'
    BY <1>1, <2>1 DEF Daq!Vector, Daq!CmdType, Daq!PostTold, Daq!Targeted, Daq!Reconfiguring
  <2>. QED  BY <1>4, <2>1, <2>2, <2>5, <2>6, <2>7 DEF Daq!IInv
<1>15. CASE Daq(C, M, N, F)!Build
  <2>1. PICK c \in C : /\ x3' = [i \in DOMAIN c |-> Daq(C, M, N, F)!Controller(c[i])]
                       /\ x4' = Len(c) /\ x5' = Daq(C, M, N, F)!ToConfigure(x3', 1)
    BY <1>15 DEF Daq!Build
  <2>2. x5.at = "delete" /\ x4 = 0 /\ x2' = x2 /\ x2 # "Started"
    BY <1>1, <1>15 DEF Daq!Build, Daq!Targeted, Daq!Reconfiguring
  <2>3. c \in Boards
    BY <2>1
  <2>4. x3' \in Seq(Daq(C, M, N, F)!ControllerType) /\ Len(x3') = Len(c)
    <3>1. \A i \in DOMAIN c : Daq(C, M, N, F)!Controller(c[i]) \in Daq(C, M, N, F)!ControllerType
      <4>1. TAKE i \in DOMAIN c
      <4>2. c[i] \in Board
        BY <2>3, <4>1 DEF Boards
      <4>5. c[i].type \in {"CLB", "BBB"} /\ c[i].enabled \in BOOLEAN
        BY <4>2 DEF Board
      <4>3. <<>> \in Seq(Daq(C, M, N, F)!Operations)
        OBVIOUS
      <4>4. "Ready" \in Daq(C, M, N, F)!Status
        BY DEF Daq!Status
      <4>. QED  BY <4>3, <4>4, <4>5 DEF Daq!Controller, Daq!ControllerType
    <3>. QED  BY <2>1, <2>3, <3>1 DEF Boards
  <2>5. Daq(C, M, N, F)!DoneTold'
    <3>1. SUFFICES ASSUME NEW i \in DOMAIN c
                   PROVE  x3'[i].state = "Ready" /\ x3'[i].op = "none" /\ x3'[i].queue = <<>>
      BY <2>1 DEF Daq!DoneTold
    <3>. QED  BY <2>1 DEF Daq!Controller
  <2>6. x5'.at \in {"sleep2", "target"} /\ x5'.op = "configure" /\ Daq(C, M, N, F)!CmdType'
    BY <2>1 DEF Daq!ToConfigure, Daq!Goto, Daq!CmdType, Daq!Operations
  <2>7. Daq(C, M, N, F)!Vector' /\ Daq(C, M, N, F)!PostTold' /\ Daq(C, M, N, F)!Targeted'
    BY <2>1, <2>2, <2>4, <2>6 DEF Daq!Vector, Daq!PostTold, Daq!Targeted, Daq!Reconfiguring
  <2>8. Daq(C, M, N, F)!ScanTold'
    BY <1>1, <1>2, <2>2 DEF Daq!ScanTold, Daq!Scanning, Daq!UpdType
  <2>. QED  BY <1>4, <2>1, <2>3, <2>4, <2>5, <2>6, <2>7, <2>8 DEF Daq!IInv, Boards
<1>. QED  BY <1>6, <1>7, <1>10, <1>11, <1>12, <1>13, <1>14, <1>15 DEF Daq!Command

\* A controller's thread begins what was posted, and ends it in its state or fails.
LEMMA DaqThread ==
  ASSUME NEW CONSTANT C, NEW CONSTANT M, NEW CONSTANT N, NEW CONSTANT F,
         Daq(C, M, N, F)!IInv, Daq(C, M, N, F)!Thread
  PROVE  Daq(C, M, N, F)!IInv'
<1>1. /\ x3 \in Seq(Daq(C, M, N, F)!ControllerType) /\ Daq(C, M, N, F)!DoneTold
      /\ Daq(C, M, N, F)!UpdType /\ Daq(C, M, N, F)!ScanTold /\ Daq(C, M, N, F)!PostTold
      /\ Daq(C, M, N, F)!Vector /\ Daq(C, M, N, F)!Targeted /\ Daq(C, M, N, F)!CmdType /\ x4 \in Nat
  BY DEF Daq!IInv
<1>2. PICK i \in 1 .. Len(x3) : Daq(C, M, N, F)!Works(i)
  BY <1>1 DEF Daq!Thread
<1>3. UNCHANGED <<x2, x4, x5, x6, x8>>
  BY <1>2, Zenon DEF Daq!Works, Daq!Begin, Daq!Reach, Daq!End, Daq!Fail, Daq!ControllerOnly
<1>4. i \in DOMAIN x3 /\ x3[i] \in Daq(C, M, N, F)!ControllerType
  BY <1>1
<1>5. /\ x3[i].queue \in Seq(Daq(C, M, N, F)!Operations) /\
         x3[i].op \in Daq(C, M, N, F)!Operations \cup {"none"}
      /\ x3[i].state \in Daq(C, M, N, F)!Status
  BY <1>4 DEF Daq!ControllerType
<1>6. ASSUME NEW c \in Daq(C, M, N, F)!ControllerType, x3' = [x3 EXCEPT ![i] = c],
             c.dropped = x3[i].dropped, c.enabled = x3[i].enabled,
             c.started = x3[i].started, Done(x3[i]) => Done(c)
      PROVE  x3' \in Seq(Daq(C, M, N, F)!ControllerType) /\ Kept /\ Daq(C, M, N, F)!DoneTold'
  BY <1>1, <1>6, DaqOne, Zenon
<1>7. x3' \in Seq(Daq(C, M, N, F)!ControllerType) /\ Kept /\ Daq(C, M, N, F)!DoneTold'
  <2>1. CASE Daq(C, M, N, F)!Begin(i)
    <3>. DEFINE o == Head(x3[i].queue)
                q == Tail(x3[i].queue)
                c == [x3[i] EXCEPT !.queue = q]
                d == [x3[i] EXCEPT !.queue = q, !.op = o, !.working = TRUE]
    <3>1. x3[i].queue # <<>> /\ (x3' = [x3 EXCEPT ![i] = c] \/ x3' = [x3 EXCEPT ![i] = d])
      BY <2>1 DEF Daq!Begin, Daq!ControllerOnly
    <3>2. q \in Seq(Daq(C, M, N, F)!Operations) /\ o \in Daq(C, M, N, F)!Operations
      BY <1>5, <3>1
    <3>3. /\ \A k \in DOMAIN q : k + 1 \in DOMAIN x3[i].queue /\ q[k] = x3[i].queue[k + 1]
          /\ 1 \in DOMAIN x3[i].queue /\ o = x3[i].queue[1]
      BY <1>5, <3>1
    <3>. HIDE DEF o, q
    <3>4. c \in Daq(C, M, N, F)!ControllerType /\ d \in Daq(C, M, N, F)!ControllerType
      BY <1>4, <3>2 DEF Daq!ControllerType
    <3>5. /\ c.dropped = x3[i].dropped /\ c.enabled = x3[i].enabled /\ c.started = x3[i].started
          /\ c.state = x3[i].state /\ c.op = x3[i].op /\ c.queue = q
          /\ d.dropped = x3[i].dropped /\ d.enabled = x3[i].enabled /\ d.started = x3[i].started
          /\ d.state = x3[i].state /\ d.op = o /\ d.queue = q
      BY <1>4 DEF Daq!ControllerType
    <3>6. Done(x3[i]) => Done(c) /\ Done(d)
      BY <3>3, <3>5 DEF Done
    <3>. HIDE DEF c, d
    <3>. QED  BY <1>6, <3>1, <3>4, <3>5, <3>6, Zenon
  <2>2. CASE Daq(C, M, N, F)!Reach(i)
    <3>. DEFINE c == [x3[i] EXCEPT !.state = Daq(C, M, N, F)!After(x3[i])]
    <3>1. /\ x3' = [x3 EXCEPT ![i] = c] /\ Daq(C, M, N, F)!After(x3[i]) \in Daq(C, M, N, F)!Status
          /\ Daq(C, M, N, F)!After(x3[i]) = "Started" => x3[i].op = "startData" \/ x3[i].state = "Started"
      BY <1>5, <2>2 DEF Daq!Reach, Daq!ControllerOnly, Daq!After, Daq!Status
    <3>2. c \in Daq(C, M, N, F)!ControllerType
      BY <1>4, <3>1 DEF Daq!ControllerType
    <3>3. /\ c.dropped = x3[i].dropped /\ c.enabled = x3[i].enabled /\ c.started = x3[i].started
          /\ c.state = Daq(C, M, N, F)!After(x3[i]) /\ c.op = x3[i].op /\ c.queue = x3[i].queue
      BY <1>4 DEF Daq!ControllerType
    <3>4. Done(x3[i]) => Done(c)
      BY <3>1, <3>3 DEF Done
    <3>. HIDE DEF c
    <3>. QED  BY <1>6, <3>1, <3>2, <3>3, <3>4, Zenon
  <2>3. ASSUME NEW w \in BOOLEAN, x3' = [x3 EXCEPT ![i] = [x3[i] EXCEPT !.op = "none", !.working = w]]
        PROVE  x3' \in Seq(Daq(C, M, N, F)!ControllerType) /\ Kept /\ Daq(C, M, N, F)!DoneTold'
    <3>. DEFINE c == [x3[i] EXCEPT !.op = "none", !.working = w]
    <3>1. c \in Daq(C, M, N, F)!ControllerType
      BY <1>4 DEF Daq!ControllerType
    <3>2. /\ c.dropped = x3[i].dropped /\ c.enabled = x3[i].enabled /\ c.started = x3[i].started
          /\ c.state = x3[i].state /\ c.op = "none" /\ c.queue = x3[i].queue
      BY <1>4 DEF Daq!ControllerType
    <3>3. Done(x3[i]) => Done(c)
      BY <3>2 DEF Done
    <3>4. x3' = [x3 EXCEPT ![i] = c]
      BY <2>3
    <3>. HIDE DEF c
    <3>. QED  BY <1>6, <3>1, <3>2, <3>3, <3>4, Zenon
  <2>4. CASE Daq(C, M, N, F)!End(i)
    <3>1. x3' = [x3 EXCEPT ![i] = [x3[i] EXCEPT !.op = "none", !.working = (x3[i].op = "reset")]]
      BY <2>4 DEF Daq!End, Daq!ControllerOnly
    <3>2. (x3[i].op = "reset") \in BOOLEAN
      BY Zenon
    <3>. QED  BY <2>3, <3>1, <3>2, Zenon
  <2>5. CASE Daq(C, M, N, F)!Fail(i)
    <3>1. x3' = [x3 EXCEPT ![i] = [x3[i] EXCEPT !.op = "none", !.working = FALSE]]
      BY <2>5 DEF Daq!Fail, Daq!ControllerOnly
    <3>. QED  BY <2>3, <3>1, Zenon
  <2>. QED  BY <1>2, <2>1, <2>2, <2>4, <2>5 DEF Daq!Works
<1>8. Daq(C, M, N, F)!ScanTold' /\ (Daq(C, M, N, F)!Told => Daq(C, M, N, F)!Told') /\ Daq(C, M, N, F)!PostTold'
  BY <1>1, <1>3, <1>7, DaqKept
<1>9. Daq(C, M, N, F)!Vector' /\ Daq(C, M, N, F)!UpdType' /\ Daq(C, M, N, F)!CmdType' /\
      Daq(C, M, N, F)!Targeted'
  BY <1>1, <1>3, <1>7, <1>8 DEF Kept, Daq!Vector, Daq!UpdType, Daq!CmdType, Daq!Targeted, Daq!Reconfiguring
<1>. QED  BY <1>1, <1>3, <1>7, <1>8, <1>9 DEF Daq!IInv

\* The update counts a controller only after it was told, when Started is what it finds.
LEMMA DaqUpdate ==
  ASSUME NEW CONSTANT C, NEW CONSTANT M, NEW CONSTANT N, NEW CONSTANT F,
         Daq(C, M, N, F)!IInv, Daq(C, M, N, F)!StateUpdate
  PROVE  Daq(C, M, N, F)!IInv'
<1>1. /\ x3 \in Seq(Daq(C, M, N, F)!ControllerType) /\ Daq(C, M, N, F)!DoneTold
      /\ Daq(C, M, N, F)!UpdType /\ Daq(C, M, N, F)!ScanTold /\ Daq(C, M, N, F)!PostTold
      /\ Daq(C, M, N, F)!Vector /\ Daq(C, M, N, F)!Targeted /\ Daq(C, M, N, F)!CmdType /\ x4 \in Nat
  BY DEF Daq!IInv
<1>2. UNCHANGED <<x2, x4, x5>>
  BY DEF Daq!StateUpdate, Daq!UpdateOnly
<1>3. x4 = Len(x3) \/ x4 = 0
  BY <1>1 DEF Daq!Vector
<1>4. /\ x6 = [at |-> x6.at, i |-> x6.i, end |-> x6.end, state |-> x6.state, states |-> x6.states]
      /\ x6.i \in Nat \ {0} /\ x6.end \in Nat /\ IsFiniteSet(x6.states)
  BY <1>1, DaqSets DEF Daq!UpdType
<1>5. Daq(C, M, N, F)!CmdType'
  BY <1>1, <1>2 DEF Daq!CmdType
\* What holds of a step that leaves the controllers alone.
<1>6. ASSUME x3' = x3, Daq(C, M, N, F)!UpdType', Daq(C, M, N, F)!ScanTold'
      PROVE  Daq(C, M, N, F)!IInv'
  <2>1. Kept
    BY <1>6 DEF Kept
  <2>2. (Daq(C, M, N, F)!Told => Daq(C, M, N, F)!Told') /\ Daq(C, M, N, F)!PostTold'
    BY <1>1, <1>2, <1>6, <2>1, DaqKept
  <2>3. Daq(C, M, N, F)!Vector' /\ Daq(C, M, N, F)!DoneTold' /\ Daq(C, M, N, F)!Targeted'
    BY <1>1, <1>2, <1>6, <2>2 DEF Daq!Vector, Daq!DoneTold, Daq!Targeted, Daq!Reconfiguring
  <2>. QED  BY <1>1, <1>2, <1>5, <1>6, <2>2, <2>3 DEF Daq!IInv
<1>7. CASE Daq(C, M, N, F)!UpdateBegin
  <2>1. x3' = x3 /\ x6' = [x6 EXCEPT !.at = "look", !.i = 1, !.end = x4, !.states = {}]
    BY <1>7 DEF Daq!UpdateBegin
  <2>2. /\ x6' = [at |-> "look", i |-> 1, end |-> x4, state |-> x6.state, states |-> {}]
        /\ x6'.at = "look" /\ x6'.i = 1 /\ x6'.end = x4 /\ x6'.states = {}
        /\ x6'.state = x6.state
    BY <1>4, <2>1
  <2>3. Daq(C, M, N, F)!IsFiniteSet({})
    BY FS_EmptySet, DaqSets, Zenon
  <2>4. Daq(C, M, N, F)!UpdType'
    BY <1>1, <2>2, <2>3 DEF Daq!UpdType
  <2>5. Daq(C, M, N, F)!ScanTold'
    BY <1>1, <1>2, <2>1, <2>2 DEF Daq!ScanTold
  <2>. QED  BY <1>6, <2>1, <2>4, <2>5
\* The next controller, with s counted: who is told if s is Started.
<1>8. ASSUME NEW s, x6' = [Daq(C, M, N, F)!Passed EXCEPT !.states = @ \cup {s}], x3' = x3, x8' = x8,
             Daq(C, M, N, F)!Scanning,
             ~x8 /\ s = "Started" /\ x6.i \in 1 .. Len(x3) /\ Daq(C, M, N, F)!Takes(x3[x6.i]) =>
             x3[x6.i].started,
             x6.at = "look" => x6.i <= x6.end
      PROVE  Daq(C, M, N, F)!IInv'
  <2>1. /\ x6' = [at |-> "look", i |-> x6.i + 1, end |-> x6.end, state |-> x6.state,
                  states |-> x6.states \cup {s}]
        /\ x6'.at = "look" /\ x6'.i = x6.i + 1 /\ x6'.end = x6.end /\ x6'.state = x6.state
        /\ x6'.states = x6.states \cup {s}
    BY <1>4, <1>8 DEF Daq!Passed
  <2>2. Daq(C, M, N, F)!IsFiniteSet(x6.states \cup {s})
    BY <1>4, FS_AddElement, DaqSets, Zenon
  <2>3. Daq(C, M, N, F)!UpdType'
    BY <1>4, <2>1, <2>2 DEF Daq!UpdType
  <2>4. ASSUME ~x8
        PROVE  /\ x6.end \in {0, x4} /\ x6.i \in 1 .. x6.end
               /\ x6.states \subseteq {"Started"} =>
                    \A k \in 1 .. x6.end : k < x6.i /\ Daq(C, M, N, F)!Takes(x3[k]) => x3[k].started
    BY <1>1, <1>4, <1>8, <2>4 DEF Daq!ScanTold, Daq!Scanning
  <2>5. ASSUME ~x8, x6'.states \subseteq {"Started"}, NEW k \in 1 .. x6.end, k < x6.i + 1,
               Daq(C, M, N, F)!Takes(x3[k])
        PROVE  x3[k].started
    <3>1. CASE k < x6.i
      BY <2>1, <2>4, <2>5, <3>1
    <3>2. CASE k = x6.i
      <4>1. s = "Started"
        BY <2>1, <2>5
      <4>2. x6.i \in 1 .. Len(x3)
        BY <1>1, <1>3, <1>4, <2>4, <2>5
      <4>. QED  BY <1>8, <2>5, <3>2, <4>1, <4>2
    <3>. QED  BY <1>4, <2>5, <3>1, <3>2
  <2>6. Daq(C, M, N, F)!ScanTold'
    BY <1>2, <1>4, <1>8, <2>1, <2>4, <2>5 DEF Daq!ScanTold, Daq!Scanning, Daq!Takes
  <2>. QED  BY <1>6, <1>8, <2>3, <2>6
\* If the target is found, it is Started only after all were told.
<1>9. ~x8 /\ x2 = "Started" /\ x6.i \in 1 .. Len(x3) /\ Daq(C, M, N, F)!Takes(x3[x6.i]) => x3[x6.i].started
  BY <1>1 DEF Daq!Targeted, Daq!Told
\* The next controller, when the state read is not the target or the controller is dropped.
<1>10. ASSUME NEW a \in {"poll", "judge"}, NEW s, x6' = [x6 EXCEPT !.at = a, !.state = s], x3' = x3, x8' = x8,
              Daq(C, M, N, F)!Scanning, x6.at = "look" => x6.i <= x6.end,
              ~x8 /\ a = "judge" /\ s = "Started" /\ x6.i \in 1 .. Len(x3) => x3[x6.i].started
       PROVE  Daq(C, M, N, F)!IInv'
  <2>1. /\ x6' = [at |-> a, i |-> x6.i, end |-> x6.end, state |-> s, states |-> x6.states]
        /\ x6'.at = a /\ x6'.i = x6.i /\ x6'.end = x6.end /\ x6'.state = s
        /\ x6'.states = x6.states
    BY <1>4, <1>10
  <2>2. Daq(C, M, N, F)!UpdType'
    BY <1>1, <2>1 DEF Daq!UpdType
  <2>3. ASSUME ~x8
        PROVE  /\ x6.end \in {0, x4} /\ x6.i \in 1 .. x6.end /\ x6.i \in 1 .. Len(x3)
               /\ x6.end = 0 => x6.states = {}
               /\ x6.states \subseteq {"Started"} =>
                    \A k \in 1 .. x6.end : k < x6.i /\ Daq(C, M, N, F)!Takes(x3[k]) => x3[k].started
    BY <1>1, <1>3, <1>4, <1>10, <2>3 DEF Daq!ScanTold, Daq!Scanning
  <2>4. Daq(C, M, N, F)!ScanTold'
    BY <1>2, <1>10, <2>1, <2>3 DEF Daq!ScanTold, Daq!Takes
  <2>. QED  BY <1>6, <1>10, <2>2, <2>4
<1>11. ASSUME x6' = Daq(C, M, N, F)!Passed, x8' = x8, Daq(C, M, N, F)!Scanning, x6.at = "look" =>
              x6.i <= x6.end,
              x3' \in Seq(Daq(C, M, N, F)!ControllerType), Kept, Daq(C, M, N, F)!DoneTold',
              ~x8 /\ x6.i \in 1 .. Len(x3) => ~Daq(C, M, N, F)!Takes(x3'[x6.i])
       PROVE  Daq(C, M, N, F)!IInv'
  <2>1. /\ x6' = [at |-> "look", i |-> x6.i + 1, end |-> x6.end, state |-> x6.state,
                  states |-> x6.states]
        /\ x6'.at = "look" /\ x6'.i = x6.i + 1 /\ x6'.end = x6.end /\ x6'.state = x6.state
        /\ x6'.states = x6.states
    BY <1>4, <1>11 DEF Daq!Passed
  <2>2. Daq(C, M, N, F)!UpdType'
    BY <1>1, <1>4, <2>1 DEF Daq!UpdType
  <2>3. ASSUME ~x8
        PROVE  /\ x6.end \in {0, x4} /\ x6.i \in 1 .. x6.end /\ x6.i \in 1 .. Len(x3)
               /\ x6.end = 0 => x6.states = {}
               /\ x6.states \subseteq {"Started"} =>
                    \A k \in 1 .. x6.end : k < x6.i /\ Daq(C, M, N, F)!Takes(x3[k]) => x3[k].started
    BY <1>1, <1>3, <1>4, <1>11, <2>3 DEF Daq!ScanTold, Daq!Scanning
  <2>4. ASSUME ~x8, x6.states \subseteq {"Started"}, NEW k \in 1 .. x6.end, k < x6.i + 1,
               Daq(C, M, N, F)!Takes(x3'[k])
        PROVE  x3'[k].started
    <3>1. k \in 1 .. Len(x3)
      BY <1>1, <1>3, <1>4, <2>3, <2>4
    <3>2. Daq(C, M, N, F)!Takes(x3[k]) /\ (x3[k].started => x3'[k].started)
      BY <1>11, <2>4, <3>1 DEF Kept, Daq!Takes
    <3>3. k # x6.i
      BY <1>11, <2>4, <3>1
    <3>. QED  BY <1>4, <2>3, <2>4, <3>2, <3>3
  <2>5. Daq(C, M, N, F)!ScanTold'
    BY <1>2, <1>4, <1>11, <2>1, <2>3, <2>4 DEF Daq!ScanTold, Daq!Takes
  <2>6. (Daq(C, M, N, F)!Told => Daq(C, M, N, F)!Told') /\ Daq(C, M, N, F)!PostTold'
    BY <1>1, <1>2, <1>11, DaqKept
  <2>7. Daq(C, M, N, F)!Vector' /\ Daq(C, M, N, F)!Targeted'
    BY <1>1, <1>2, <1>11, <2>6 DEF Kept, Daq!Vector, Daq!Targeted, Daq!Reconfiguring
  <2>. QED  BY <1>1, <1>2, <1>5, <1>11, <2>2, <2>5, <2>6, <2>7 DEF Daq!IInv
<1>12. CASE Daq(C, M, N, F)!Look
  <2>1. /\ x3' = x3 /\ x8' = x8 /\ Daq(C, M, N, F)!Scanning /\ x6.i <= x6.end
    BY <1>12 DEF Daq!Look, Daq!Scanning
  <2>2. CASE Daq(C, M, N, F)!Takes(x3[x6.i])
    <3>1. PICK s \in Daq(C, M, N, F)!Status :
            x6' = IF s = x2 THEN [Daq(C, M, N, F)!Passed EXCEPT !.states = @ \cup {s}]
                            ELSE [x6 EXCEPT !.at = "poll", !.state = s]
      BY <1>12, <2>2 DEF Daq!Look
    <3>2. CASE s = x2
      BY <1>8, <1>9, <2>1, <3>1, <3>2
    <3>3. CASE s # x2
      BY <1>10, <2>1, <3>1, <3>3
    <3>. QED  BY <3>2, <3>3
  <2>3. CASE ~Daq(C, M, N, F)!Takes(x3[x6.i])
    <3>1. x6' = Daq(C, M, N, F)!Passed
      BY <1>12, <2>3 DEF Daq!Look
    <3>2. Kept /\ Daq(C, M, N, F)!DoneTold' /\ x3' \in Seq(Daq(C, M, N, F)!ControllerType) /\
          ~Daq(C, M, N, F)!Takes(x3'[x6.i])
      BY <1>1, <2>1, <2>3 DEF Kept, Daq!DoneTold
    <3>. QED  BY <1>11, <2>1, <3>1, <3>2
  <2>. QED  BY <2>2, <2>3
<1>13. CASE Daq(C, M, N, F)!Poll
  <2>. DEFINE s == x3[x6.i].state
  <2>1. /\ x3' = x3 /\ x8' = x8 /\ Daq(C, M, N, F)!Scanning /\ x6.at # "look"
        /\ \/ s = x2 /\ x6' = [Daq(C, M, N, F)!Passed EXCEPT !.states = @ \cup {s}]
           \/ x6' = [x6 EXCEPT !.at = "judge", !.state = s]
    BY <1>13 DEF Daq!Poll, Daq!Scanning
  <2>2. x6.i \in 1 .. Len(x3) /\ s = "Started" => x3[x6.i].started
    BY <1>1 DEF Daq!DoneTold
  <2>. HIDE DEF s
  <2>. QED  BY <1>8, <1>10, <2>1, <2>2
<1>14. CASE Daq(C, M, N, F)!Judge
  <2>1. x8' = x8 /\ Daq(C, M, N, F)!Scanning /\ x6.at = "judge"
    BY <1>14 DEF Daq!Judge, Daq!Scanning
  <2>2. CASE x6.state # x2 /\ ~x3[x6.i].working
    <3>1. x3' = [x3 EXCEPT ![x6.i].dropped = TRUE] /\ x6' = Daq(C, M, N, F)!Passed
      BY <1>14, <2>2 DEF Daq!Judge
    <3>2. /\ x3' \in Seq(Daq(C, M, N, F)!ControllerType) /\ Kept /\ Daq(C, M, N, F)!DoneTold'
          /\ x6.i \in 1 .. Len(x3) => ~Daq(C, M, N, F)!Takes(x3'[x6.i])
      <4>1. CASE x6.i \in 1 .. Len(x3)
        <5>. DEFINE c == [x3[x6.i] EXCEPT !.dropped = TRUE]
        <5>1. x3[x6.i] \in Daq(C, M, N, F)!ControllerType /\ x6.i \in DOMAIN x3
          BY <1>1, <4>1
        <5>2. c \in Daq(C, M, N, F)!ControllerType
          BY <5>1 DEF Daq!ControllerType
        <5>3. /\ c.dropped = TRUE /\ c.enabled = x3[x6.i].enabled /\ c.started = x3[x6.i].started
              /\ c.state = x3[x6.i].state /\ c.op = x3[x6.i].op /\ c.queue = x3[x6.i].queue
          BY <5>1 DEF Daq!ControllerType
        <5>4. Done(x3[x6.i]) => Done(c)
          BY <5>3 DEF Done
        <5>5. x3' = [x3 EXCEPT ![x6.i] = c]
          BY <3>1
        <5>. HIDE DEF c
        <5>6. x3' \in Seq(Daq(C, M, N, F)!ControllerType) /\ Kept /\ Daq(C, M, N, F)!DoneTold'
          BY <1>1, <4>1, <5>2, <5>3, <5>4, <5>5, DaqOne, Zenon
        <5>7. x3'[x6.i] = c
          BY <5>1, <5>5, Zenon
        <5>. QED  BY <5>3, <5>6, <5>7, Zenon DEF Daq!Takes
      <4>2. CASE x6.i \notin 1 .. Len(x3)
        <5>1. x3' = x3
          BY <1>1, <3>1, <4>2
        <5>. QED  BY <1>1, <4>2, <5>1 DEF Kept, Daq!DoneTold
      <4>. QED  BY <4>1, <4>2
    <3>. QED  BY <1>11, <2>1, <3>1, <3>2
  <2>3. CASE ~(x6.state # x2 /\ ~x3[x6.i].working)
    <3>1. x3' = x3 /\ x6' = [Daq(C, M, N, F)!Passed EXCEPT !.states = @ \cup {x6.state}]
      BY <1>14, <2>3 DEF Daq!Judge
    <3>2. ~x8 /\ x6.state = "Started" => x3[x6.i].started
      BY <1>1, <2>1 DEF Daq!ScanTold
    <3>. QED  BY <1>8, <2>1, <3>1, <3>2
  <2>. QED  BY <2>2, <2>3
<1>15. CASE Daq(C, M, N, F)!Equal
  <2>1. /\ x3' = x3
        /\ x6' = [at |-> IF x5.at = "exited" THEN "ended" ELSE "begin", i |-> x6.i, end |-> x6.end,
                  state |-> x6.state, states |-> {}]
    BY <1>4, <1>15 DEF Daq!Equal
  <2>2. x6'.at \in {"begin", "ended"} /\ x6'.i = x6.i /\ x6'.end = x6.end /\ x6'.states = {}
    BY <2>1
  <2>3. Daq(C, M, N, F)!IsFiniteSet({})
    BY FS_EmptySet, DaqSets, Zenon
  <2>4. Daq(C, M, N, F)!UpdType'
    BY <1>4, <2>1, <2>3 DEF Daq!UpdType
  <2>5. Daq(C, M, N, F)!ScanTold'
    BY <2>2 DEF Daq!ScanTold, Daq!Scanning
  <2>. QED  BY <1>6, <2>1, <2>4, <2>5
<1>. QED  BY <1>7, <1>12, <1>13, <1>14, <1>15 DEF Daq!StateUpdate

LEMMA DaqNext ==
  ASSUME NEW CONSTANT C, NEW CONSTANT M, NEW CONSTANT N, NEW CONSTANT F, C \subseteq Boards,
         Daq(C, M, N, F)!IInv, [Daq(C, M, N, F)!Next]_(Daq(C, M, N, F)!vars)
  PROVE  Daq(C, M, N, F)!IInv'
<1>1. CASE UNCHANGED Daq(C, M, N, F)!vars
  BY <1>1 DEF Daq!vars, Daq!counters, Daq!IInv, Daq!CmdType, Daq!UpdType, Daq!Vector, Daq!Targeted, Daq!Told,
              Daq!Takes, Daq!Reconfiguring,
              Daq!PostTold, Daq!DoneTold, Daq!ScanTold, Daq!Scanning
<1>. QED  BY <1>1, DaqCommand, DaqThread, DaqUpdate DEF Daq!Next

\* The mode becomes what every state is that was counted.
LEMMA DaqPosted ==
  ASSUME NEW CONSTANT C, NEW CONSTANT M, NEW CONSTANT N, NEW CONSTANT F,
         Daq(C, M, N, F)!IInv, [Daq(C, M, N, F)!Next]_(Daq(C, M, N, F)!vars)
  PROVE  Daq(C, M, N, F)!PostedBefore
<1>1. SUFFICES ASSUME x1' # x1, x1' = "Started", ~x8, Daq(C, M, N, F)!Equal
               PROVE  Daq(C, M, N, F)!Told
  <2>1. x1' # x1 /\ x1' = "Started" => Daq(C, M, N, F)!Equal
    BY DEF Daq!Next, Daq!vars, Daq!counters, Daq!Command, Daq!Config, Daq!Post, Daq!WaitForReset,
           Daq!Sleep10, Daq!Delete, Daq!Build, Daq!Sleep2,
           Daq!PostConfigure, Daq!SetTarget, Daq!StartData, Daq!StopData, Daq!Exit, Daq!Thread, Daq!Works,
           Daq!Begin, Daq!Reach, Daq!End,
           Daq!Fail, Daq!ControllerOnly, Daq!StateUpdate, Daq!UpdateBegin, Daq!Look, Daq!Poll, Daq!Judge
  <2>. QED  BY <2>1 DEF Daq!PostedBefore, Daq!Announced
<1>2. Daq(C, M, N, F)!Cardinality(x6.states) = 1 /\ x1' = CHOOSE s \in x6.states : TRUE
  BY <1>1 DEF Daq!Equal
<1>3. x6.states = {"Started"}
  <2>1. IsFiniteSet(x6.states) /\ Cardinality(x6.states) = 1
    BY <1>2, DaqSets DEF Daq!IInv, Daq!UpdType
  <2>2. PICK s : x6.states = {s}
    BY <2>1, FS_Singleton
  <2>. QED  BY <1>1, <1>2, <2>2
<1>4. /\ x6.at = "look" /\ x6.i > x6.end /\ x6.i \in Nat /\ x6.end \in Nat
      /\ x6.end = Len(x3)
      /\ \A k \in 1 .. x6.end : k < x6.i /\ Daq(C, M, N, F)!Takes(x3[k]) => x3[k].started
  BY <1>1, <1>3 DEF Daq!Equal, Daq!IInv, Daq!ScanTold, Daq!Scanning, Daq!UpdType, Daq!Vector
<1>5. x3 \in Seq(Daq(C, M, N, F)!ControllerType)
  BY DEF Daq!IInv
<1>. QED  BY <1>4, <1>5 DEF Daq!Told

(* --- Reporter: x1 is its state, x3 its at, x4 its machine, x5 its question ----- *)
LEMMA ReporterSets ==
  ASSUME NEW S
  PROVE  (Reporter!IsFiniteSet(S) <=> IsFiniteSet(S)) /\ Reporter!Cardinality(S) = Cardinality(S)
<1>1. Reporter!IsFiniteSet(S) <=> IsFiniteSet(S)
  BY Zenon DEF Reporter!IsFiniteSet, IsFiniteSet
<1>2. Reporter!Cardinality(S) = Cardinality(S)
  BY Zenon DEF Reporter!Cardinality, Cardinality
<1>. QED  BY <1>1, <1>2

\* Every machine is asked for some states, in their order.
LEMMA ReporterAsked ==
  \A m \in DOMAIN Reporter!Asked : /\ Len(Reporter!Asked[m]) \in Nat \ {0}
                                  /\ DOMAIN Reporter!Asked[m] = 1 .. Len(Reporter!Asked[m])
<1>1. DOMAIN Reporter!Asked = {"ControlBus", "Experiment", "Daqonite", "Daqontrol", "Daqsitter"}
  BY DEF Reporter!Asked
<1>2. Len(Reporter!Asked["ControlBus"]) = 2 /\ DOMAIN Reporter!Asked["ControlBus"] = 1 .. 2
  BY DEF Reporter!Asked
<1>3. Len(Reporter!Asked["Experiment"]) = 12 /\ DOMAIN Reporter!Asked["Experiment"] = 1 .. 12
  BY DEF Reporter!Asked
<1>4. Len(Reporter!Asked["Daqonite"]) = 4 /\ DOMAIN Reporter!Asked["Daqonite"] = 1 .. 4
  BY DEF Reporter!Asked
<1>5. Len(Reporter!Asked["Daqontrol"]) = 6 /\ DOMAIN Reporter!Asked["Daqontrol"] = 1 .. 6
  BY DEF Reporter!Asked
<1>6. Len(Reporter!Asked["Daqsitter"]) = 4 /\ DOMAIN Reporter!Asked["Daqsitter"] = 1 .. 4
  BY DEF Reporter!Asked
<1>. QED  BY <1>1, <1>2, <1>3, <1>4, <1>5, <1>6

LEMMA ReporterInit ==
  ASSUME Reporter!Listed, Reporter!Init
  PROVE  Reporter!IInv
<1>1. Reporter!Watched # {} /\ Len(ReporterMachines) \in Nat \ {0} /\
      ReporterMachines[1] \in DOMAIN Reporter!Asked
  <2>1. ReporterMachines \in Seq(DOMAIN Reporter!Asked) /\ ReporterMachines # <<>>
    BY DEF Reporter!Listed
  <2>. HIDE DEF Reporter!Asked
  <2>2. Len(ReporterMachines) \in Nat \ {0} /\ 1 \in DOMAIN ReporterMachines
    BY <2>1
  <2>. QED  BY <2>1, <2>2 DEF Reporter!Watched, Reporter!Range
<1>2. x5 = 1 /\ x4 = 1 /\ x5 \in 1 .. Len(Reporter!Asked[ReporterMachines[1]])
  BY <1>1, ReporterAsked DEF Reporter!Init
<1>. QED  BY <1>1, <1>2 DEF Reporter!Listed, Reporter!Init, Reporter!IInv, Reporter!Telling, Reporter!Now,
                            Reporter!Watched

LEMMA ReporterNext ==
  ASSUME Reporter!Listed, Reporter!IInv, [Reporter!Next]_(Reporter!vars)
  PROVE  Reporter!IInv' /\ Reporter!StillIsReported
<1>1. /\ DOMAIN x1 = Reporter!Watched /\ DOMAIN x6 = Reporter!Watched /\ DOMAIN x9 = Reporter!Watched
      /\ x4 \in 1 .. Len(ReporterMachines) /\ x5 \in 1 .. Len(Reporter!Asked[Reporter!Now])
      /\ \A m \in Reporter!Watched : x1[m] \in Reporter!Range(Reporter!Asked[m])
      /\ Reporter!Telling
  BY DEF Reporter!IInv
<1>2. /\ Len(ReporterMachines) \in Nat
      /\ \A k \in 1 .. Len(ReporterMachines) : /\ ReporterMachines[k] \in DOMAIN Reporter!Asked
                                              /\ ReporterMachines[k] \in Reporter!Watched
      /\ \A m \in Reporter!Watched : m \in DOMAIN Reporter!Asked
  BY DEF Reporter!Listed, Reporter!Watched, Reporter!Range
<1>3. \A k \in 1 .. Len(ReporterMachines) : Len(Reporter!Asked[ReporterMachines[k]]) \in Nat \ {0}
  BY <1>2, ReporterAsked
<1>4. Reporter!Now = ReporterMachines[x4] /\ Reporter!Now \in Reporter!Watched
  BY <1>1, <1>2 DEF Reporter!Now
<1>5. CASE Reporter!Sleep
  <2>1. /\ x4' = 1 /\ x5' = 1 /\ x9' = [m \in Reporter!Watched |-> {x1[m]}] /\ x3 # "ask"
        /\ x1' = x1 /\ x6' = x6
    BY <1>5 DEF Reporter!Sleep
  <2>2. Reporter!Now' = ReporterMachines[1] /\ x4' \in 1 .. Len(ReporterMachines)
    BY <1>1, <1>2, <2>1 DEF Reporter!Now
  <2>3. \A m \in Reporter!Watched : x9'[m] = {x1[m]} /\ Reporter!IsFiniteSet(x9'[m])
    BY <2>1, FS_Singleton, ReporterSets
  <2>4. Reporter!Telling'
    BY <2>1, <2>2, <2>3 DEF Reporter!Telling
  <2>5. x5' \in 1 .. Len(Reporter!Asked[Reporter!Now'])
    BY <1>1, <1>2, <1>3, <2>1, <2>2
  <2>6. Reporter!IInv'
    BY <1>1, <2>1, <2>2, <2>4, <2>5 DEF Reporter!IInv
  <2>. QED  BY <2>1, <2>6 DEF Reporter!StillIsReported
<1>6. CASE \E m \in Reporter!Watched : \E to \in Reporter!Range(Reporter!Asked[m]) : Reporter!Move(m, to)
  <2>1. PICK m \in Reporter!Watched : \E to \in Reporter!Range(Reporter!Asked[m]) : Reporter!Move(m, to)
    BY <1>6
  <2>2. PICK to \in Reporter!Range(Reporter!Asked[m]) : Reporter!Move(m, to)
    BY <2>1
  <2>3. /\ x1' = [x1 EXCEPT ![m] = to] /\ x9' = [x9 EXCEPT ![m] = x9[m] \cup {to}]
        /\ UNCHANGED <<x3, x4, x5, x6>>
    BY <2>2 DEF Reporter!Move
  <2>4. /\ DOMAIN x1' = Reporter!Watched /\ DOMAIN x9' = Reporter!Watched
        /\ x1'[m] = to /\ x9'[m] = x9[m] \cup {to}
        /\ \A n \in Reporter!Watched : n # m => x1'[n] = x1[n] /\ x9'[n] = x9[n]
    BY <1>1, <2>3
  <2>5. ASSUME x3 = "ask", NEW n \in Reporter!Watched
        PROVE  /\ x1'[n] \in x9'[n] /\ Reporter!IsFiniteSet(x9'[n])
               /\ x9'[n] = {x1'[n]} => x9[n] = {x1[n]} /\ x1'[n] = x1[n]
    <3>2. x1[n] \in x9[n] /\ Reporter!IsFiniteSet(x9[n])
      BY <1>1, <2>5 DEF Reporter!Telling
    <3>3. Reporter!IsFiniteSet(x9[n] \cup {to})
      BY <3>2, FS_AddElement, ReporterSets, Zenon
    <3>4. CASE n = m
      BY <2>4, <3>2, <3>3, <3>4
    <3>5. CASE n # m
      BY <2>4, <2>5, <3>2, <3>5
    <3>. QED  BY <3>4, <3>5
  <2>6. Reporter!Telling'
    <3>1. SUFFICES ASSUME x3 = "ask"
                   PROVE  Reporter!Telling'
      BY <2>3 DEF Reporter!Telling
    <3>2. Reporter!Now' = Reporter!Now /\ x4' = x4 /\ x5' = x5 /\ x6' = x6
      BY <2>3 DEF Reporter!Now
    <3>3. ASSUME NEW k \in 1 .. x4 - 1, x9'[ReporterMachines[k]] = {x1'[ReporterMachines[k]]}
          PROVE  x6[ReporterMachines[k]] = x1'[ReporterMachines[k]]
      <4>1. k \in 1 .. Len(ReporterMachines)
        BY <1>1, <1>2, <3>3
      <4>2. ReporterMachines[k] \in Reporter!Watched
        BY <1>2, <4>1
      <4>3. x9[ReporterMachines[k]] = {x1[ReporterMachines[k]]} /\
            x1'[ReporterMachines[k]] = x1[ReporterMachines[k]]
        BY <2>5, <3>1, <3>3, <4>2
      <4>. QED  BY <1>1, <3>1, <3>3, <4>3 DEF Reporter!Telling, Reporter!Still
    <3>4. ASSUME x9'[Reporter!Now] = {x1'[Reporter!Now]}, NEW q \in 1 .. x5 - 1
          PROVE  Reporter!Asked[Reporter!Now][q] # x1'[Reporter!Now]
      <4>1. x9[Reporter!Now] = {x1[Reporter!Now]} /\ x1'[Reporter!Now] = x1[Reporter!Now]
        BY <1>4, <2>5, <3>1, <3>4
      <4>. QED  BY <1>1, <3>1, <3>4, <4>1 DEF Reporter!Telling, Reporter!Still
    <3>5. \A n \in Reporter!Watched : x1'[n] \in x9'[n] /\ Reporter!IsFiniteSet(x9'[n])
      BY <2>5, <3>1
    <3>. QED  BY <3>2, <3>3, <3>4, <3>5 DEF Reporter!Telling, Reporter!Still
  <2>7. \A n \in Reporter!Watched : x1'[n] \in Reporter!Range(Reporter!Asked[n])
    BY <1>1, <2>2, <2>4
  <2>8. Reporter!IInv'
    BY <1>1, <2>3, <2>4, <2>6, <2>7 DEF Reporter!IInv, Reporter!Now
  <2>. QED  BY <2>3, <2>8 DEF Reporter!StillIsReported
<1>7. CASE Reporter!notifyJoin \/ UNCHANGED Reporter!vars
  <2>1. UNCHANGED <<x1, x3, x4, x5, x6, x9>>
    BY <1>7 DEF Reporter!notifyJoin, Reporter!vars
  <2>2. Reporter!Telling'
    BY <1>1, <2>1 DEF Reporter!Telling, Reporter!Still, Reporter!Now
  <2>. QED  BY <1>1, <2>1, <2>2 DEF Reporter!IInv, Reporter!Now, Reporter!StillIsReported
\* After its last question a machine that has stayed as it is has been found so.
<1>8. CASE Reporter!Ask
  <2>1. x3 = "ask" /\ UNCHANGED <<x1, x9>>
    BY <1>8 DEF Reporter!Ask
  <2>2. /\ \A m \in Reporter!Watched : x1[m] \in x9[m] /\ Reporter!IsFiniteSet(x9[m])
        /\ \A k \in 1 .. x4 - 1 : Reporter!Still(ReporterMachines[k])
                                 => x6[ReporterMachines[k]] = x1[ReporterMachines[k]]
        /\ Reporter!Still(Reporter!Now) =>
           \A q \in 1 .. x5 - 1 : Reporter!Asked[Reporter!Now][q] # x1[Reporter!Now]
    BY <1>1, <2>1 DEF Reporter!Telling
  <2>3. DOMAIN x6' = Reporter!Watched /\ (Reporter!Found => x6'[Reporter!Now] = x1[Reporter!Now])
        /\ \A m \in Reporter!Watched : x6'[m] = x6[m] \/ x6'[m] = x1[m]
    <3>1. x6' = IF Reporter!Found THEN [x6 EXCEPT ![Reporter!Now] = x1[Reporter!Now]] ELSE x6
      BY <1>8 DEF Reporter!Ask
    <3>. QED  BY <1>1, <1>4, <3>1
  <2>4. \A k \in 1 .. x4 - 1 : Reporter!Still(ReporterMachines[k])
                               => x6'[ReporterMachines[k]] = x1[ReporterMachines[k]]
    BY <1>1, <1>2, <2>2, <2>3
  <2>5. Reporter!Still(Reporter!Now) /\ (Reporter!Found \/ x5 = Len(Reporter!Asked[Reporter!Now])) =>
        x6'[Reporter!Now] = x1[Reporter!Now]
    <3>1. SUFFICES ASSUME Reporter!Still(Reporter!Now), x5 = Len(Reporter!Asked[Reporter!Now]), ~Reporter!Found
                   PROVE  FALSE
      BY <2>3
    <3>2. \A q \in 1 .. x5 : Reporter!Asked[Reporter!Now][q] # x1[Reporter!Now]
      BY <1>1, <1>2, <1>3, <1>4, <2>2, <3>1 DEF Reporter!Found
    <3>3. DOMAIN Reporter!Asked[Reporter!Now] = 1 .. x5
      BY <1>2, <1>4, <3>1, ReporterAsked
    <3>4. x1[Reporter!Now] \in Reporter!Range(Reporter!Asked[Reporter!Now])
      BY <1>1, <1>4
    <3>. QED  BY <3>2, <3>3, <3>4 DEF Reporter!Range
  <2>6. CASE ~(Reporter!Found \/ x5 = Len(Reporter!Asked[Reporter!Now]))
    <3>1. x5' = x5 + 1 /\ UNCHANGED <<x3, x4>>
      BY <1>8, <2>6 DEF Reporter!Ask
    <3>2. Reporter!Now' = Reporter!Now
      BY <3>1 DEF Reporter!Now
    <3>3. x5' \in 1 .. Len(Reporter!Asked[Reporter!Now])
      BY <1>1, <1>2, <1>3, <1>4, <2>6, <3>1
    <3>4. Reporter!Telling'
      <4>1. Reporter!Still(Reporter!Now) =>
            \A q \in 1 .. x5' - 1 : Reporter!Asked[Reporter!Now][q] # x1[Reporter!Now]
        BY <1>1, <1>2, <1>3, <1>4, <2>2, <2>6, <3>1 DEF Reporter!Found
      <4>. QED  BY <2>1, <2>2, <2>4, <3>1, <3>2, <4>1 DEF Reporter!Telling, Reporter!Still
    <3>5. Reporter!IInv'
      BY <1>1, <2>1, <2>3, <3>1, <3>2, <3>3, <3>4 DEF Reporter!IInv
    <3>. QED  BY <3>1, <3>5 DEF Reporter!StillIsReported
  <2>7. CASE Reporter!Found \/ x5 = Len(Reporter!Asked[Reporter!Now])
    <3>1. x5' = 1 /\ Reporter!OnToNext
      BY <1>8, <2>7 DEF Reporter!Ask
    <3>2. \A k \in 1 .. x4 : Reporter!Still(ReporterMachines[k])
                             => x6'[ReporterMachines[k]] = x1[ReporterMachines[k]]
      BY <1>1, <1>2, <1>4, <2>4, <2>5, <2>7
    <3>3. CASE x4 < Len(ReporterMachines)
      <4>1. x4' = x4 + 1 /\ x3' = x3
        BY <3>1, <3>3 DEF Reporter!OnToNext
      <4>2. Reporter!Now' = ReporterMachines[x4 + 1] /\ x4' \in 1 .. Len(ReporterMachines) /\ x4' - 1 = x4
        BY <1>1, <1>2, <3>3, <4>1 DEF Reporter!Now
      <4>3. x5' \in 1 .. Len(Reporter!Asked[Reporter!Now'])
        BY <1>3, <3>1, <4>1, <4>2
      <4>4. Reporter!Telling'
        <5>1. \A q \in 1 .. x5' - 1 : FALSE
          BY <3>1
        <5>2. \A k \in 1 .. x4' - 1 : Reporter!Still(ReporterMachines[k])'
                                      => x6'[ReporterMachines[k]] = x1'[ReporterMachines[k]]
          BY <2>1, <3>2, <4>2 DEF Reporter!Still
        <5>. QED  BY <2>1, <2>2, <5>1, <5>2 DEF Reporter!Telling
      <4>5. Reporter!IInv'
        BY <1>1, <2>1, <2>3, <4>2, <4>3, <4>4 DEF Reporter!IInv
      <4>. QED  BY <4>1, <4>5 DEF Reporter!StillIsReported
    <3>4. CASE ~(x4 < Len(ReporterMachines))
      <4>1. x4' = 1 /\ x3' # "ask" /\ x4 = Len(ReporterMachines)
        BY <1>1, <1>2, <3>1, <3>4 DEF Reporter!OnToNext
      <4>2. Reporter!Now' = ReporterMachines[1] /\ x4' \in 1 .. Len(ReporterMachines)
        BY <1>1, <1>2, <4>1 DEF Reporter!Now
      <4>3. x5' \in 1 .. Len(Reporter!Asked[Reporter!Now'])
        BY <1>3, <3>1, <4>1, <4>2
      <4>4. Reporter!Telling'
        BY <4>1 DEF Reporter!Telling
      <4>5. Reporter!IInv'
        BY <1>1, <2>1, <2>3, <4>2, <4>3, <4>4 DEF Reporter!IInv
      <4>6. ASSUME NEW m \in Reporter!Watched, Reporter!Cardinality(x9[m]) = 1
            PROVE  x6'[m] \in x9[m]
        <5>1. PICK k \in 1 .. x4 : m = ReporterMachines[k]
          BY <4>1 DEF Reporter!Listed, Reporter!Watched, Reporter!Range
        <5>2. IsFiniteSet(x9[m]) /\ Cardinality(x9[m]) = 1 /\ x1[m] \in x9[m]
          BY <2>2, <4>6, ReporterSets
        <5>3. Reporter!Still(m)
          <6>1. PICK s : x9[m] = {s}
            BY <5>2, FS_Singleton
          <6>. QED  BY <5>2, <6>1 DEF Reporter!Still
        <5>. QED  BY <3>2, <5>1, <5>2, <5>3
      <4>. QED  BY <4>5, <4>6 DEF Reporter!StillIsReported
    <3>. QED  BY <3>3, <3>4
  <2>. QED  BY <2>6, <2>7
<1>. QED  BY <1>5, <1>6, <1>7, <1>8 DEF Reporter!Next

(* --- RunNumber: x1 is its disk, x2 its at, x3 its run_type, x4 its number,   *)
(* x5 its runNums, x6 its output, x8 its overwritten and x9 its torn ---------- *)
\* There are four types; no file is a file.
RunFiles == [1 .. 4 -> Nat]
RunAssumptions == RunKinds \subseteq 1 .. 4 /\ RunGarbage \subseteq Nat /\ NoValue \notin {<<>>} \cup RunFiles

LEMMA RunFilesDiffer ==
  ASSUME RunAssumptions
  PROVE  <<>> \notin RunFiles /\ NoValue \notin RunFiles /\ NoValue # <<>>
<1>1. \A f \in RunFiles : 1 \in DOMAIN f
  BY DEF RunFiles
<1>. QED  BY <1>1 DEF RunAssumptions

LEMMA RunInit == RunAssumptions /\ RunNumber!Init => RunNumber!IInv
<1>. SUFFICES ASSUME RunAssumptions, RunNumber!Init PROVE RunNumber!IInv
  OBVIOUS
<1>1. /\ x1 = NoValue /\ x2 = "idle" /\ x3 \in RunKinds /\ x4 = 0 /\ x5 \in RunFiles
      /\ x6 = <<>> /\ x8 = {}
  BY DEF RunNumber!Init, RunNumber!Lines, RunNumber!NUMRUNTYPES, RunFiles
<1>2. DOMAIN x6 = {}
  BY <1>1
<1>. QED
  BY <1>1, <1>2, RunFilesDiffer DEF RunNumber!IInv, RunNumber!FileAgrees, RunNumber!StepAgrees,
     RunNumber!Lines, RunNumber!NUMRUNTYPES, RunFiles

LEMMA RunNext ==
  ASSUME RunAssumptions, RunNumber!IInv, [RunNumber!Next]_(RunNumber!vars)
  PROVE  RunNumber!IInv'
<1>. USE DEF RunNumber!Lines, RunNumber!NUMRUNTYPES
<1>. DEFINE Types == /\ x3 \in RunKinds /\ x4 \in Nat /\ x5 \in RunFiles
                     /\ x1 \in {NoValue, <<>>} \cup RunFiles
                     /\ DOMAIN x6 \subseteq (1 .. 4) \X Nat
            Agree == RunNumber!FileAgrees /\ RunNumber!StepAgrees /\ x8 = {}
<1>1. Types /\ (~x9 => Agree) /\ x3 \in 1 .. 4
  BY DEF RunNumber!IInv, RunFiles, RunAssumptions
<1>2. Types' /\ (~x9' => Agree') => RunNumber!IInv'
  BY DEF RunNumber!IInv, RunFiles
<1>3. <<>> \notin RunFiles /\ NoValue \notin RunFiles /\ NoValue # <<>>
  BY RunFilesDiffer
<1>. USE DEF RunNumber!Kept
<1>4. CASE RunNumber!Begin
  BY <1>1, <1>2, <1>4 DEF RunNumber!Begin, RunNumber!FileAgrees, RunNumber!StepAgrees, RunNumber!Beyond
<1>5. CASE RunNumber!NoFile \/ RunNumber!Create
  BY <1>1, <1>2, <1>3, <1>5 DEF RunNumber!NoFile, RunNumber!Create, RunNumber!FileAgrees,
     RunNumber!StepAgrees, RunNumber!Beyond
<1>6. CASE RunNumber!WriteNew
  <2>1. x1' \in RunFiles /\ \A i \in 1 .. 4 : x1'[i] \in Nat \ {0}
    BY <1>6 DEF RunNumber!WriteNew, RunFiles
  <2>. QED
    BY <1>1, <1>2, <1>3, <1>6, <2>1 DEF RunNumber!WriteNew, RunNumber!FileAgrees, RunNumber!StepAgrees,
       RunNumber!Beyond, RunNumber!Name, RunFiles
<1>7. CASE RunNumber!Read
  <2>1. PICK m \in IF x1 = <<>> THEN [1 .. 4 -> RunGarbage] ELSE {x1} :
          x5' = [i \in 1 .. 4 |-> RunNumber!AtLeastOne(m[i])]
    BY <1>7 DEF RunNumber!Read
  <2>2. x1 # NoValue /\ x4' = x5'[x3] /\ x2' = "update" /\ x2 = "look" /\ UNCHANGED <<x1, x3, x6, x8, x9>>
    BY <1>7 DEF RunNumber!Read
  <2>3. m \in RunFiles
    BY <1>1, <2>1, <2>2 DEF RunFiles, RunAssumptions
  <2>4. x5' \in RunFiles /\ \A i \in 1 .. 4 : x5'[i] \in Nat \ {0} /\ x5'[i] >= m[i]
    BY <2>1, <2>3 DEF RunFiles, RunNumber!AtLeastOne
  <2>5. ASSUME ~x9 PROVE Agree'
    <3>1. x1 = m /\ x1 # <<>> /\ RunNumber!Beyond(x1)
      BY <1>1, <2>1, <2>2, <2>5 DEF RunNumber!FileAgrees
    <3>2. RunNumber!Beyond(x5)' /\ RunNumber!Beyond(x1)'
      <4>1. x1' = m /\ x6' = x6 /\ x1 \in [1 .. 4 -> Nat \ {0}] /\ x5' \in [1 .. 4 -> Nat \ {0}]
        BY <2>2, <2>4, <3>1 DEF RunNumber!Beyond, RunFiles
      <4>2. \A n \in DOMAIN x6 : n[1] \in 1 .. 4 /\ n[2] < m[n[1]] /\ n[2] \in Nat
        BY <1>1, <3>1 DEF RunNumber!Beyond
      <4>3. \A n \in DOMAIN x6 : n[2] < x5'[n[1]]
        BY <2>3, <2>4, <4>2 DEF RunFiles
      <4>. QED  BY <4>1, <4>2, <4>3 DEF RunNumber!Beyond
    <3>. QED  BY <1>1, <2>2, <2>5, <3>1, <3>2 DEF RunNumber!FileAgrees, RunNumber!StepAgrees
  <2>6. Types'
    BY <1>1, <2>2, <2>4 DEF RunFiles
  <2>. QED  BY <1>2, <2>2, <2>5, <2>6
<1>8. CASE RunNumber!Truncate
  BY <1>1, <1>2, <1>3, <1>8 DEF RunNumber!Truncate, RunNumber!FileAgrees, RunNumber!StepAgrees, RunNumber!Beyond
<1>9. CASE RunNumber!WriteUpdated
  <2>1. /\ x2 = "truncated" /\ x2' = "named" /\ UNCHANGED <<x3, x4, x5, x6, x8, x9>>
        /\ x1' = [i \in 1 .. 4 |-> IF x3 = i THEN x5[i] + 1 ELSE x5[i]]
    BY <1>9 DEF RunNumber!WriteUpdated, RunNumber!UpdatedLine
  <2>2. /\ x1' \in RunFiles /\ x1'[x3] = x5[x3] + 1
        /\ \A i \in 1 .. 4 : x1'[i] \in Nat /\ x1'[i] >= x5[i]
    <3>1. x3 \in 1 .. 4 /\ \A i \in 1 .. 4 : x5[i] \in Nat
      BY <1>1 DEF RunFiles
    <3>2. \A i \in 1 .. 4 : x1'[i] = IF x3 = i THEN x5[i] + 1 ELSE x5[i]
      BY <2>1
    <3>3. \A i \in 1 .. 4 : x1'[i] \in Nat /\ x1'[i] >= x5[i]
      BY <3>1, <3>2
    <3>4. x1' \in RunFiles
      BY <2>1, <3>1 DEF RunFiles
    <3>. QED  BY <3>1, <3>2, <3>3, <3>4
  <2>3. ASSUME ~x9 PROVE Agree'
    <3>1. RunNumber!Beyond(x5) /\ x4 = x5[x3] /\ x8 = {}
      BY <1>1, <2>1, <2>3 DEF RunNumber!StepAgrees
    <3>2. RunNumber!Beyond(x1)'
      BY <1>1, <2>1, <2>2, <3>1 DEF RunNumber!Beyond, RunFiles
    <3>3. RunNumber!Name' \notin DOMAIN x6' /\ x4' < x1'[x3']
      BY <1>1, <2>1, <2>2, <3>1 DEF RunNumber!Beyond, RunNumber!Name
    <3>. QED
      BY <1>3, <2>1, <2>2, <3>1, <3>2, <3>3 DEF RunNumber!FileAgrees, RunNumber!StepAgrees
  <2>. QED  BY <1>1, <1>2, <2>1, <2>2, <2>3
<1>10. CASE RunNumber!CannotWrite
  BY <1>1, <1>2, <1>10 DEF RunNumber!CannotWrite, RunNumber!FileAgrees, RunNumber!StepAgrees, RunNumber!Beyond
<1>11. CASE RunNumber!Start
  <2>1. /\ x2 = "named" /\ x2' = "running" /\ x8' = x8 \cup RunNumber!Replaced
        /\ UNCHANGED <<x1, x3, x4, x5, x9>> /\ DOMAIN x6' = DOMAIN x6 \cup {<<x3, x4>>}
    BY <1>11 DEF RunNumber!Start, RunNumber!Name
  <2>2. ASSUME ~x9 PROVE Agree'
    <3>1. /\ x1 \notin {NoValue, <<>>} /\ x4 < x1[x3] /\ <<x3, x4>> \notin DOMAIN x6
          /\ RunNumber!Beyond(x1) /\ x8 = {}
      BY <1>1, <2>1, <2>2 DEF RunNumber!StepAgrees, RunNumber!FileAgrees, RunNumber!Name
    <3>2. RunNumber!Beyond(x1)' /\ x8' = {}
      BY <1>1, <2>1, <3>1 DEF RunNumber!Beyond, RunNumber!Replaced, RunNumber!Name
    <3>. QED  BY <2>1, <3>1, <3>2 DEF RunNumber!FileAgrees, RunNumber!StepAgrees
  <2>. QED  BY <1>1, <1>2, <2>1, <2>2
<1>12. CASE RunNumber!Stop \/ RunNumber!Close
  BY <1>1, <1>2, <1>12 DEF RunNumber!Stop, RunNumber!Close, RunNumber!FileAgrees, RunNumber!StepAgrees,
     RunNumber!Beyond
<1>13. CASE RunNumber!Crash
  <2>1. /\ x2' = "idle" /\ UNCHANGED <<x1, x3, x4, x5, x6, x8>>
        /\ ~x9' => ~x9 /\ x2 \notin {"created", "truncated"}
    BY <1>13 DEF RunNumber!Crash
  <2>. QED
    BY <1>1, <1>2, <2>1 DEF RunNumber!FileAgrees, RunNumber!StepAgrees, RunNumber!Beyond
<1>14. CASE UNCHANGED RunNumber!vars
  BY <1>1, <1>2, <1>14 DEF RunNumber!vars, RunNumber!FileAgrees, RunNumber!StepAgrees, RunNumber!Beyond,
     RunNumber!Name
<1>. QED
  BY <1>4, <1>5, <1>6, <1>7, <1>8, <1>9, <1>10, <1>11, <1>12, <1>13, <1>14 DEF RunNumber!Next

(* --- NumiWatcher: x1 is its step, x2 its data, x3 its admsg, x4 its           *)
(* last_admsg, x5 its bulk, x6 its posted -------------------------------------- *)
\* A message added to those offered follows only the last of them.
LEMMA NumiAdded ==
  ASSUME NEW s \in Seq(NumiWatcher!Features), NEW m \in NumiWatcher!Features, ~NumiWatcher!InRow(s),
         s # <<>> => ~NumiWatcher!Same(s[Len(s)], m)
  PROVE  Append(s, m) \in Seq(NumiWatcher!Features) /\ ~NumiWatcher!InRow(Append(s, m))
<1>1. Append(s, m) \in Seq(NumiWatcher!Features)
  OBVIOUS
<1>. SUFFICES ASSUME NEW i \in 1 .. Len(Append(s, m)) - 1,
                     NumiWatcher!Words(Append(s, m)[i]) = NumiWatcher!Words(Append(s, m)[i + 1])
              PROVE  FALSE
  BY <1>1 DEF NumiWatcher!InRow
<1>2. Len(Append(s, m)) = Len(s) + 1 /\ i \in 1 .. Len(s) /\ Append(s, m)[i] = s[i]
  OBVIOUS
<1>3. CASE i = Len(s)
  <2>1. s # <<>> /\ Append(s, m)[i + 1] = m
    BY <1>2, <1>3
  <2>. QED  BY <1>2, <1>3, <2>1 DEF NumiWatcher!Same
<1>4. CASE i # Len(s)
  <2>1. i \in 1 .. Len(s) - 1 /\ Append(s, m)[i + 1] = s[i + 1]
    BY <1>2, <1>4
  <2>. QED  BY <1>2, <2>1 DEF NumiWatcher!InRow
<1>. QED  BY <1>2, <1>3, <1>4

LEMMA NumiInit == NumiWatcher!Init => NumiWatcher!IInv
<1>. SUFFICES ASSUME NumiWatcher!Init PROVE NumiWatcher!IInv
  OBVIOUS
<1>1. x1 = "request" /\ x4 = NumiWatcher!NoMessage /\ x6 = <<>>
  BY DEF NumiWatcher!Init
<1>2. x6 \in Seq(NumiWatcher!Features) /\ ~NumiWatcher!InRow(x6)
  BY <1>1 DEF NumiWatcher!InRow
<1>. QED  BY <1>1, <1>2 DEF NumiWatcher!IInv, NumiWatcher!NoneOffered, NumiWatcher!OfferedOnce

\* Messages are the same when none of their parts differs, unless one is missing from both.
LEMMA NumiSame ==
  ASSUME NEW m \in NumiWatcher!Features, NEW n \in NumiWatcher!Features
  PROVE  NumiWatcher!Same(m, n) <=>
           \A k \in NumiWatcher!Sensitive : NumiWatcher!Words(m)[k] = NumiWatcher!Words(n)[k]
  BY DEF NumiWatcher!Same, NumiWatcher!Words

LEMMA NumiNext ==
  ASSUME NumiWatcher!IInv, [NumiWatcher!Next]_(NumiWatcher!vars)
  PROVE  NumiWatcher!IInv'
<1>1. /\ x6 \in Seq(NumiWatcher!Features) /\ ~NumiWatcher!InRow(x6)
      /\ x1 = "extract" => x2 \in NumiWatcher!Page
      /\ x1 = "compare" => x3 \in NumiWatcher!Features
      /\ x1 \in {"request", "extract", "compare", "sleep"} => NumiWatcher!NoneOffered \/ NumiWatcher!Following
      /\ x1 = "index" => \/ x5 = "message" /\ NumiWatcher!Offering
                         \/ x5 = "state" /\ NumiWatcher!Following
  BY DEF NumiWatcher!IInv, NumiWatcher!OfferedOnce
<1>. DEFINE Offered == x6 \in Seq(NumiWatcher!Features) /\ ~NumiWatcher!InRow(x6)
<1>. USE DEF NumiWatcher!NoneOffered, NumiWatcher!Following, NumiWatcher!LastOffered
<1>2. CASE \E o \in {"page", "http", "other"} : NumiWatcher!Request(o)
  BY <1>1, <1>2 DEF NumiWatcher!Request, NumiWatcher!IInv, NumiWatcher!OfferedOnce
<1>3. CASE NumiWatcher!Extract
  <2>1. /\ x1 = "extract" /\ UNCHANGED <<x4, x6>> /\ x1' \in {"compare", "died"}
        /\ x1' = "compare" => x3' = [message |-> x2.message, importantMessage |-> x2.importantMessage]
    BY <1>3 DEF NumiWatcher!Extract
  <2>2. x1' = "compare" => x3' \in NumiWatcher!Features
    BY <1>1, <2>1 DEF NumiWatcher!Page, NumiWatcher!Features
  <2>. QED  BY <1>1, <2>1, <2>2 DEF NumiWatcher!IInv, NumiWatcher!OfferedOnce
<1>4. CASE NumiWatcher!Compare
  <2>1. x1 = "compare" /\ UNCHANGED <<x3, x6>> /\ x3 \in NumiWatcher!Features
    BY <1>1, <1>4 DEF NumiWatcher!Compare
  <2>2. CASE NumiWatcher!Raises
    <3>1. x1' = "died" /\ UNCHANGED x4
      BY <1>4, <2>2 DEF NumiWatcher!Compare
    <3>. QED  BY <1>1, <2>1, <3>1 DEF NumiWatcher!IInv, NumiWatcher!OfferedOnce
  <2>3. CASE ~NumiWatcher!Raises
    <3>1. /\ x1' = "index" /\ x4' = x3
          /\ x5' = IF NumiWatcher!is_msg_new THEN "message" ELSE "state"
      BY <1>4, <2>3 DEF NumiWatcher!Compare
    <3>2. CASE NumiWatcher!NoneOffered
      <4>1. NumiWatcher!is_msg_new /\ x6 = <<>>
        BY <3>2 DEF NumiWatcher!is_msg_new, NumiWatcher!First
      <4>2. x5' = "message" /\ NumiWatcher!Offering'
        BY <2>1, <3>1, <4>1 DEF NumiWatcher!Offering
      <4>. QED  BY <1>1, <2>1, <3>1, <4>2 DEF NumiWatcher!IInv, NumiWatcher!OfferedOnce
    <3>3. CASE NumiWatcher!Following
      <4>1. x4 \in NumiWatcher!Features /\ x6 # <<>> /\ NumiWatcher!Same(x6[Len(x6)], x4)
        BY <3>3
      <4>2. x6[Len(x6)] \in NumiWatcher!Features
        BY <1>1, <4>1
      <4>3. ~NumiWatcher!First
        BY <4>1 DEF NumiWatcher!First, NumiWatcher!NoMessage, NumiWatcher!Features
      <4>4. /\ NumiWatcher!Some("message")
            /\ NumiWatcher!Differ("message") \/ NumiWatcher!Some("importantMessage")
        BY <2>3, <4>3 DEF NumiWatcher!Raises
      <4>5. NumiWatcher!is_msg_new <=> ~NumiWatcher!Same(x4, x3)
        <5>1. NumiWatcher!Words(x3)["message"] = NumiWatcher!lower(x3["message"]) /\
              NumiWatcher!Words(x4)["message"] = NumiWatcher!lower(x4["message"])
          BY <4>4 DEF NumiWatcher!Words, NumiWatcher!Some, NumiWatcher!Sensitive
        <5>2. NumiWatcher!Differ("message") <=>
              NumiWatcher!Words(x4)["message"] # NumiWatcher!Words(x3)["message"]
          BY <5>1, Zenon DEF NumiWatcher!Differ
        <5>3. NumiWatcher!Some("importantMessage") =>
                (NumiWatcher!Differ("importantMessage") <=>
                 NumiWatcher!Words(x4)["importantMessage"] # NumiWatcher!Words(x3)["importantMessage"])
          BY DEF NumiWatcher!Words, NumiWatcher!Some, NumiWatcher!Sensitive, NumiWatcher!Differ
        <5>4. NumiWatcher!Sensitive = {"message", "importantMessage"}
          BY DEF NumiWatcher!Sensitive
        <5>. QED
          BY <2>1, <4>1, <4>3, <4>4, <5>2, <5>3, <5>4, NumiSame DEF NumiWatcher!is_msg_new
      <4>6. CASE NumiWatcher!is_msg_new
        <5>1. x5' = "message" /\ ~NumiWatcher!Same(x6[Len(x6)], x3)
          BY <3>1, <4>1, <4>5, <4>6, Zenon DEF NumiWatcher!Same
        <5>2. NumiWatcher!Offering'
          BY <2>1, <3>1, <5>1 DEF NumiWatcher!Offering, NumiWatcher!Same, NumiWatcher!Words
        <5>. QED  BY <1>1, <2>1, <3>1, <5>1, <5>2 DEF NumiWatcher!IInv, NumiWatcher!OfferedOnce
      <4>7. CASE ~NumiWatcher!is_msg_new
        <5>1. x5' = "state" /\ NumiWatcher!Same(x6[Len(x6)], x3)
          BY <3>1, <4>1, <4>5, <4>7, Zenon DEF NumiWatcher!Same
        <5>2. NumiWatcher!Following'
          BY <2>1, <3>1, <4>1, <5>1 DEF NumiWatcher!Same, NumiWatcher!Words
        <5>. QED  BY <1>1, <2>1, <3>1, <5>1, <5>2 DEF NumiWatcher!IInv, NumiWatcher!OfferedOnce
      <4>. QED  BY <4>6, <4>7
    <3>. QED  BY <1>1, <2>1, <3>2, <3>3
  <2>. QED  BY <2>2, <2>3
<1>5. CASE \E b \in BOOLEAN : NumiWatcher!Index(b)
  <2>1. /\ x1 = "index" /\ x1' = "sleep" /\ UNCHANGED <<x3, x4>>
        /\ x6' = IF x5 = "message" THEN Append(x6, x3) ELSE x6
    BY <1>5 DEF NumiWatcher!Index
  <2>2. CASE x5 = "message" /\ NumiWatcher!Offering
    <3>1. x6' = Append(x6, x3) /\ x3 = x4 /\ x3 \in NumiWatcher!Features
      BY <2>1, <2>2 DEF NumiWatcher!Offering
    <3>2. x6' \in Seq(NumiWatcher!Features) /\ ~NumiWatcher!InRow(x6')
      BY <1>1, <2>2, <3>1, NumiAdded DEF NumiWatcher!Offering
    <3>3. x6' # <<>> /\ x6'[Len(x6')] = x4'
      BY <1>1, <2>1, <3>1
    <3>4. NumiWatcher!Same(x6'[Len(x6')], x4')
      BY <3>3, Zenon DEF NumiWatcher!Same
    <3>5. NumiWatcher!Following'
      BY <2>1, <3>1, <3>3, <3>4 DEF NumiWatcher!Same, NumiWatcher!Words
    <3>6. ~NumiWatcher!InRow(x6)'
      BY <3>2 DEF NumiWatcher!InRow, NumiWatcher!Words
    <3>. QED  BY <2>1, <3>2, <3>5, <3>6 DEF NumiWatcher!IInv, NumiWatcher!OfferedOnce
  <2>3. CASE x5 = "state" /\ NumiWatcher!Following
    BY <1>1, <2>1, <2>3 DEF NumiWatcher!IInv, NumiWatcher!OfferedOnce
  <2>. QED  BY <1>1, <2>1, <2>2, <2>3
<1>6. CASE NumiWatcher!Sleep \/ NumiWatcher!Interrupt \/ UNCHANGED NumiWatcher!vars
  BY <1>1, <1>6 DEF NumiWatcher!Sleep, NumiWatcher!Interrupt, NumiWatcher!vars, NumiWatcher!IInv,
     NumiWatcher!OfferedOnce, NumiWatcher!Offering
<1>. QED  BY <1>2, <1>3, <1>4, <1>5, <1>6 DEF NumiWatcher!Next

(* --- SpillRpc: x1 is its sender, x2 its spill, x3 its results, x4 its          *)
(* connectionState, x5 its eof, x6 its sendAttempts, x7 its conn, x8 its conns  *)
(* and x11 its received -------------------------------------------------------- *)
\* How often a spill has been received.
RpcCount(s, i) == Cardinality({k \in DOMAIN s : s[k] = i})
RpcSoFar ==
  /\ x11 \in Seq(1 .. x2)
  /\ x1 # "work" => \A k \in DOMAIN x11 : x11[k] < x2
  /\ x1 = "work" => /\ x6 \in {0, 1}
                    /\ RpcCount(x11, x2) <= x6 + (IF SpillRpc!Pending THEN 0 ELSE 1)
  /\ \A i \in 1 .. x2 : RpcCount(x11, i) <= 2

LEMMA RpcTimes ==
  /\ SpillRpc!ReceivedSoFar <=> RpcSoFar
  /\ SpillRpc!ReceivedSoFar' <=> RpcSoFar'
  /\ SpillRpc!AtMostTwice <=> \A i \in 1 .. RpcSpills : RpcCount(x11, i) <= 2
  BY Zenon DEF RpcSoFar, RpcCount, SpillRpc!ReceivedSoFar, SpillRpc!AtMostTwice, SpillRpc!Times,
     SpillRpc!Cardinality, Cardinality

LEMMA RpcAppended ==
  ASSUME NEW S, NEW s \in Seq(S), NEW v \in S
  PROVE  /\ DOMAIN Append(s, v) = DOMAIN s \cup {Len(s) + 1} /\ Len(s) + 1 \notin DOMAIN s
         /\ \A k \in DOMAIN s : Append(s, v)[k] = s[k]
         /\ Append(s, v)[Len(s) + 1] = v
  OBVIOUS

\* A spill more is received once more, and the others as often as before.
LEMMA RpcCounted ==
  ASSUME NEW s \in Seq(Nat), NEW v \in Nat, NEW i
  PROVE  /\ RpcCount(s, i) \in Nat
         /\ RpcCount(Append(s, v), i) = RpcCount(s, i) + (IF i = v THEN 1 ELSE 0)
<1>. USE DEF RpcCount
<1>. DEFINE A == {k \in DOMAIN s : s[k] = i}
            B == {k \in DOMAIN Append(s, v) : Append(s, v)[k] = i}
<1>1. IsFiniteSet(A) /\ Cardinality(A) \in Nat
  <2>1. IsFiniteSet(DOMAIN s)
    <3>1. DOMAIN s = 1 .. Len(s) /\ Len(s) \in Int /\ 1 \in Int
      OBVIOUS
    <3>. QED  BY <3>1, FS_Interval, Zenon
  <2>2. A \subseteq DOMAIN s
    OBVIOUS
  <2>. QED  BY <2>1, <2>2, FS_Subset, FS_CardinalityType, Zenon
<1>4. /\ DOMAIN Append(s, v) = DOMAIN s \cup {Len(s) + 1} /\ Len(s) + 1 \notin DOMAIN s
      /\ \A k \in DOMAIN s : Append(s, v)[k] = s[k]
      /\ Append(s, v)[Len(s) + 1] = v
  BY RpcAppended
<1>2. ASSUME i = v PROVE Cardinality(B) = Cardinality(A) + (IF i = v THEN 1 ELSE 0)
  <2>1. B = A \cup {Len(s) + 1} /\ Len(s) + 1 \notin A
    BY <1>2, <1>4, Zenon
  <2>2. Cardinality(B) = Cardinality(A) + 1
    BY <1>1, <2>1, FS_AddElement, Zenon
  <2>. HIDE DEF A, B
  <2>. QED  BY <1>1, <1>2, <2>2
<1>3. ASSUME i # v PROVE Cardinality(B) = Cardinality(A) + (IF i = v THEN 1 ELSE 0)
  <2>1. \A k \in DOMAIN Append(s, v) : Append(s, v)[k] = i => k \in DOMAIN s /\ s[k] = i
    <3>1. TAKE k \in DOMAIN Append(s, v)
    <3>2. k \in DOMAIN s \/ k = Len(s) + 1
      BY <1>4, <3>1, Zenon
    <3>. QED  BY <1>3, <1>4, <3>2, Zenon
  <2>2. \A k \in DOMAIN s : s[k] = i => k \in DOMAIN Append(s, v) /\ Append(s, v)[k] = i
    BY <1>4, Zenon
  <2>3. B \subseteq A
    BY <2>1, Zenon
  <2>4. A \subseteq B
    BY <2>2, Zenon
  <2>5. IsFiniteSet(B)
    BY <1>1, <2>3, FS_Subset, Zenon
  <2>6. Cardinality(B) <= Cardinality(A) /\ Cardinality(A) <= Cardinality(B)
    BY <1>1, <2>3, <2>4, <2>5, FS_Subset, Zenon
  <2>7. Cardinality(B) \in Nat
    BY <2>5, FS_CardinalityType, Zenon
  <2>8. \A n, m \in Nat : n <= m /\ m <= n => n = m
    OBVIOUS
  <2>9. Cardinality(B) = Cardinality(A)
    BY <1>1, <2>6, <2>7, <2>8, Zenon
  <2>. HIDE DEF A, B
  <2>. QED  BY <1>1, <1>3, <2>9
<1>5. Cardinality(B) = Cardinality(A) + (IF i = v THEN 1 ELSE 0)
  BY <1>2, <1>3, Zenon
<1>. QED  BY <1>1, <1>5, Zenon

LEMMA RpcNone ==
  ASSUME NEW s, NEW i, \A k \in DOMAIN s : s[k] # i
  PROVE  RpcCount(s, i) = 0
<1>1. {k \in DOMAIN s : s[k] = i} = {}
  OBVIOUS
<1>. QED  BY <1>1, FS_EmptySet, Zenon DEF RpcCount

\* A connection is as it was but for some of its fields.
RpcAs(y, x, request, executed, answer, open) ==
  /\ y \in SpillRpc!ConnectionType /\ y.server = x.server /\ y.open = open
  /\ y.request = request /\ y.executed = executed /\ y.answer = answer

LEMMA RpcFields ==
  ASSUME NEW x \in SpillRpc!ConnectionType, NEW n \in Nat, NEW m \in Nat, NEW a \in SpillRpc!Answers
  PROVE  /\ x.answer \in SpillRpc!Answers /\ x.request \in Nat /\ x.executed \in Nat /\ x.open \in BOOLEAN
         /\ RpcAs([x EXCEPT !.request = n], x, n, x.executed, x.answer, x.open)
         /\ RpcAs([x EXCEPT !.executed = m, !.request = n], x, n, m, x.answer, x.open)
         /\ RpcAs([x EXCEPT !.answer = a, !.executed = m], x, x.request, m, a, x.open)
         /\ RpcAs([x EXCEPT !.answer = a], x, x.request, x.executed, a, x.open)
         /\ RpcAs([x EXCEPT !.open = FALSE, !.request = 0, !.executed = 0], x, 0, 0, x.answer, FALSE)
<1>. HIDE DEF SpillRpc!Answers
<1>. QED  BY DEF SpillRpc!ConnectionType, RpcAs

LEMMA RpcNothing ==
  /\ <<>> \in SpillRpc!Answers /\ <<"header">> \in SpillRpc!Answers /\ 0 \in Nat
  /\ \A a \in SpillRpc!Answers : Len(a) = 2 => a[2] \in Nat \X {"Ok", "fault"}
  BY DEF SpillRpc!Answers

LEMMA RpcReplaced ==
  ASSUME x8 \in Seq(SpillRpc!ConnectionType),
         NEW i \in DOMAIN x8, NEW y \in SpillRpc!ConnectionType, x8' = [x8 EXCEPT ![i] = y]
  PROVE  /\ x8' \in Seq(SpillRpc!ConnectionType) /\ Len(x8') = Len(x8) /\ DOMAIN x8' = DOMAIN x8
         /\ x8'[i] = y /\ \A k \in DOMAIN x8 : k # i => x8'[k] = x8[k]
<1>. HIDE DEF SpillRpc!ConnectionType
<1>. QED  OBVIOUS

LEMMA RpcInit ==
  ASSUME SpillRpc!Init
  PROVE  SpillRpc!IInv
<1>1. /\ x1 = "call" /\ x2 = 1 /\ x3 = <<>> /\ x4 = "none" /\ x6 = 0 /\ x7 = 0 /\ x8 = <<>> /\ x11 = <<>>
  BY DEF SpillRpc!Init
<1>2. /\ x8 \in Seq(SpillRpc!ConnectionType) /\ Len(x8) = 0 /\ DOMAIN x8 = {}
      /\ x3 \in Seq((Nat \X {"Ok", "fault"}) \cup {SpillRpc!Error}) /\ Len(x3) = 0
      /\ x11 \in Seq(1 .. 1) /\ DOMAIN x11 = {}
  BY <1>1
<1>3. \A i : RpcCount(x11, i) = 0
  BY <1>2, RpcNone, Zenon
<1>4. SpillRpc!Latest /\ SpillRpc!MineAgrees
  BY <1>1, <1>2 DEF SpillRpc!Latest, SpillRpc!MineAgrees, SpillRpc!Reusable
<1>5. SpillRpc!ReceivedSoFar
  BY <1>1, <1>2, <1>3, RpcTimes DEF RpcSoFar
<1>. QED
  BY <1>1, <1>2, <1>4, <1>5 DEF SpillRpc!IInv, SpillRpc!AnswersItsOwn, SpillRpc!OkIsReceived,
     SpillRpc!ReceivedInOrder

\* What is known of the client and its connections before a step.
RpcTypes == /\ x2 \in Nat \ {0} /\ x8 \in Seq(SpillRpc!ConnectionType) /\ x1 \in {"call", "work", "done"}
            /\ SpillRpc!Latest /\ SpillRpc!MineAgrees

\* A server works only on the client's latest connection, while the client waits for it.
LEMMA RpcServed ==
  ASSUME RpcTypes, NEW c \in DOMAIN x8, x8[c].open, x8[c].request # 0 \/ x8[c].executed # 0
  PROVE  /\ c = x7 /\ x1 = "work" /\ x4 \in {"header", "response"}
         /\ \/ SpillRpc!Requested(x8[c]) /\ x8[c].request = x2 /\ x8[c].executed = 0
            \/ SpillRpc!Executed(x8[c]) /\ x8[c].executed = x2 /\ x8[c].request = 0
  BY DEF RpcTypes, SpillRpc!Latest, SpillRpc!MineAgrees, SpillRpc!Mine, SpillRpc!Over, SpillRpc!Quiet,
         SpillRpc!Requested, SpillRpc!Executed, SpillRpc!Answered

\* A new connection follows those that are over.
LEMMA RpcConnects ==
  ASSUME RpcTypes,
         SpillRpc!setupConnection(FALSE), x7 = 0 \/ SpillRpc!Over(x8[x7])
  PROVE  /\ x8' \in Seq(SpillRpc!ConnectionType) /\ SpillRpc!Latest' /\ x7' # 0 /\ x4' = "write"
         /\ SpillRpc!Quiet(x8'[x7'])
<1>1. /\ x4' = "write" /\ x8' = Append(x8, SpillRpc!Connection) /\ x7' = Len(x8) + 1
  BY DEF SpillRpc!setupConnection
<1>2. /\ SpillRpc!Connection \in SpillRpc!ConnectionType /\ SpillRpc!Quiet(SpillRpc!Connection)
      /\ ~SpillRpc!Connection.open => SpillRpc!Over(SpillRpc!Connection)
  <2>1. SpillRpc!Serving \subseteq RpcServers
    BY DEF SpillRpc!Serving
  <2>2. (IF SpillRpc!Serving = {} THEN NoValue ELSE CHOOSE s \in SpillRpc!Serving : TRUE) \in RpcServers \cup {NoValue}
    BY <2>1
  <2>3. <<>> \in SpillRpc!Answers
    BY DEF SpillRpc!Answers
  <2>. HIDE DEF SpillRpc!Answers
  <2>. QED
    BY <2>2, <2>3 DEF SpillRpc!Connection, SpillRpc!ConnectionType, SpillRpc!Quiet, SpillRpc!Over
<1>. HIDE DEF SpillRpc!Connection, SpillRpc!ConnectionType
<1>3. x8' \in Seq(SpillRpc!ConnectionType) /\ Len(x8') = Len(x8) + 1 /\ x8'[x7'] = SpillRpc!Connection
  BY <1>1, <1>2 DEF RpcTypes
<1>4. \A c \in DOMAIN x8' : c = x7' \/ (c \in DOMAIN x8 /\ x8'[c] = x8[c])
  BY <1>1, <1>2 DEF RpcTypes
<1>5. \A c \in DOMAIN x8 : SpillRpc!Over(x8[c])
  BY DEF RpcTypes, SpillRpc!Latest
<1>6. SpillRpc!Latest'
  BY <1>1, <1>2, <1>3, <1>4, <1>5 DEF SpillRpc!Latest, SpillRpc!Over
<1>7. x7' # 0
  BY <1>1 DEF RpcTypes
<1>. QED  BY <1>1, <1>2, <1>3, <1>6, <1>7

\* A client that does not change goes on with a connection that agrees.
LEMMA RpcClientSame ==
  ASSUME RpcTypes, UNCHANGED <<x1, x2, x4, x5, x6, x7>>, x7 # 0,
         x8' \in Seq(SpillRpc!ConnectionType), Len(x8') = Len(x8),
         \A c \in DOMAIN x8 : c # x7 => SpillRpc!Over(x8'[c]),
         ~x8'[x7].open => SpillRpc!Over(x8'[x7]),
         SpillRpc!Quiet(x8[x7]) => SpillRpc!Quiet(x8'[x7]),
         SpillRpc!Over(x8[x7]) => SpillRpc!Over(x8'[x7]),
         x1 = "work" /\ x4 \in {"header", "response"} =>
           (SpillRpc!Over(x8[x7]) \/ SpillRpc!Requested(x8[x7]) \/ SpillRpc!Executed(x8[x7]) \/ SpillRpc!Answered(x8[x7]) =>
              SpillRpc!Over(x8'[x7]) \/ SpillRpc!Requested(x8[x7])' \/ SpillRpc!Executed(x8[x7])' \/ SpillRpc!Answered(x8[x7])'),
         x1 = "work" /\ x4 \in {"header", "response"} /\ Len(x8'[x7].answer) = 2 => SpillRpc!Answered(x8[x7])'
  PROVE  RpcTypes'
<1>. USE DEF SpillRpc!Mine, SpillRpc!Reusable
<1>1. /\ x2' \in Nat \ {0} /\ x8' \in Seq(SpillRpc!ConnectionType) /\ x1' \in {"call", "work", "done"}
  BY DEF RpcTypes
<1>2. SpillRpc!Latest'
  BY DEF RpcTypes, SpillRpc!Latest, SpillRpc!Over
<1>3. SpillRpc!MineAgrees'
  BY DEF RpcTypes, SpillRpc!MineAgrees, SpillRpc!Over, SpillRpc!Quiet
<1>. QED  BY <1>1, <1>2, <1>3 DEF RpcTypes

\* The end of a call, with whatever result.
LEMMA RpcReturns ==
  ASSUME RpcTypes, x1' = "call", x2' = x2 + 1, x7' = x7,
         x8' \in Seq(SpillRpc!ConnectionType), SpillRpc!Latest',
         SpillRpc!Over(x8'[x7]) \/ (x4' = "idle" /\ ~x5' /\ x7 # 0),
         x4' = "idle" /\ ~x5' => SpillRpc!Quiet(x8'[x7]) /\ x7 # 0
  PROVE  RpcTypes'
<1>1. SpillRpc!MineAgrees'
  BY DEF RpcTypes, SpillRpc!MineAgrees, SpillRpc!Over, SpillRpc!Quiet, SpillRpc!Mine, SpillRpc!Reusable
<1>. QED  BY <1>1 DEF RpcTypes

LEMMA RpcClient ==
  ASSUME RpcTypes, SpillRpc!Client
  PROVE  RpcTypes'
<1>. USE DEF SpillRpc!Mine
<1>1. /\ x2 \in Nat \ {0} /\ x8 \in Seq(SpillRpc!ConnectionType) /\ x1 \in {"call", "work", "done"}
      /\ SpillRpc!Latest /\ SpillRpc!MineAgrees /\ x7 = Len(x8)
  BY DEF RpcTypes, SpillRpc!Latest
<1>2. x7 # 0 => x7 \in DOMAIN x8 /\ x8[x7] \in SpillRpc!ConnectionType
  BY <1>1
<1>3. x1 = "work" => x7 # 0 /\ x4 \in {"write", "header", "response"}
  BY <1>1 DEF SpillRpc!MineAgrees
<1>4. x7 # 0 /\ ~x8[x7].open => SpillRpc!Over(x8[x7])
  BY <1>1, <1>2 DEF SpillRpc!Latest
<1>5. CASE SpillRpc!execute
  <2>1. x1 = "call" /\ x1' = "work" /\ x2' = x2 /\ SpillRpc!setupConnection(SpillRpc!Reusable)
    BY <1>5 DEF SpillRpc!execute
  <2>2. CASE SpillRpc!Reusable
    <3>1. UNCHANGED <<x7, x8>> /\ x4' = "write"
      BY <2>1, <2>2 DEF SpillRpc!setupConnection
    <3>2. x7 # 0 /\ SpillRpc!Quiet(x8[x7])
      BY <1>1, <2>1, <2>2 DEF SpillRpc!MineAgrees
    <3>3. SpillRpc!Latest' /\ SpillRpc!MineAgrees'
      BY <1>1, <2>1, <3>1, <3>2 DEF SpillRpc!Latest, SpillRpc!MineAgrees, SpillRpc!Over, SpillRpc!Quiet
    <3>. QED  BY <1>1, <2>1, <3>1, <3>3 DEF RpcTypes
  <2>3. CASE ~SpillRpc!Reusable
    <3>1. SpillRpc!setupConnection(FALSE)
      BY <2>1, <2>3 DEF SpillRpc!setupConnection
    <3>2. x7 = 0 \/ SpillRpc!Over(x8[x7])
      BY <1>1, <2>1, <2>3 DEF SpillRpc!MineAgrees
    <3>3. /\ x8' \in Seq(SpillRpc!ConnectionType) /\ SpillRpc!Latest' /\ x7' # 0 /\ x4' = "write"
          /\ SpillRpc!Quiet(x8'[x7'])
      BY <3>1, <3>2, RpcConnects
    <3>4. SpillRpc!MineAgrees'
      BY <2>1, <3>3 DEF SpillRpc!MineAgrees, SpillRpc!Quiet
    <3>. QED  BY <1>1, <2>1, <3>3, <3>4 DEF RpcTypes
  <2>. QED  BY <2>2, <2>3
<1>6. CASE SpillRpc!writeRequest
  <2>1. x1 = "work" /\ x4 = "write" /\ UNCHANGED <<x5, x6, x7>>
    BY <1>6 DEF SpillRpc!writeRequest
  <2>2. SpillRpc!Quiet(x8[x7])
    BY <1>1, <2>1 DEF SpillRpc!MineAgrees
  <2>3. CASE x4' = "header"
    <3>. DEFINE r == IF x8[x7].open THEN x2 ELSE 0
                y == [x8[x7] EXCEPT !.request = r]
    <3>1. x8' = [x8 EXCEPT ![x7] = y] /\ UNCHANGED <<x1, x2, x11>>
      BY <1>2, <1>3, <1>6, <2>1, <2>3 DEF SpillRpc!writeRequest, SpillRpc!Return, SpillRpc!ConnectionType
    <3>2. r \in Nat
      BY <1>1
    <3>3. /\ y \in SpillRpc!ConnectionType
          /\ y.request = r /\ y.executed = 0 /\ y.answer = <<>> /\ y.open = x8[x7].open
      <4>1. RpcAs(y, x8[x7], r, x8[x7].executed, x8[x7].answer, x8[x7].open)
        BY <1>2, <1>3, <2>1, <3>2, RpcNothing, RpcFields, Zenon
      <4>. HIDE DEF y, r
      <4>. QED  BY <2>2, <4>1, Zenon DEF SpillRpc!Quiet, RpcAs
    <3>. HIDE DEF y
    <3>4. /\ x8' \in Seq(SpillRpc!ConnectionType) /\ Len(x8') = Len(x8) /\ DOMAIN x8' = DOMAIN x8
          /\ x8'[x7] = y /\ \A c \in DOMAIN x8 : c # x7 => x8'[c] = x8[c]
      <4>1. x7 \in DOMAIN x8
        BY <1>2, <1>3, <2>1
      <4>. QED  BY <1>1, <3>1, <3>3, <4>1, RpcReplaced, Zenon
    <3>5. SpillRpc!Latest'
      BY <1>1, <1>4, <2>1, <3>3, <3>4 DEF SpillRpc!Latest, SpillRpc!Over
    <3>6. x8[x7].open => SpillRpc!Requested(x8[x7])'
      BY <2>1, <3>1, <3>3, <3>4 DEF SpillRpc!Requested
    <3>7. ~x8[x7].open => SpillRpc!Over(x8'[x7])
      BY <3>3, <3>4 DEF SpillRpc!Over
    <3>8. SpillRpc!MineAgrees'
      <4>1. x1' = "work" /\ x7' # 0 /\ x4' = "header" /\ Len(x8'[x7].answer) = 0
        BY <1>3, <2>1, <2>3, <3>1, <3>3, <3>4
      <4>. QED  BY <2>1, <3>6, <3>7, <4>1 DEF SpillRpc!MineAgrees
    <3>. QED  BY <1>1, <3>1, <3>4, <3>5, <3>8 DEF RpcTypes
  <2>4. CASE x4' # "header"
    <3>1. /\ ~x8[x7].open /\ x1' = "call" /\ x2' = x2 + 1 /\ x4' = "write" /\ UNCHANGED x8
      BY <1>6, <2>1, <2>4 DEF SpillRpc!writeRequest, SpillRpc!Return
    <3>2. SpillRpc!Latest' /\ SpillRpc!Over(x8'[x7])
      BY <1>1, <1>3, <1>4, <2>1, <3>1 DEF SpillRpc!Latest
    <3>. QED  BY <1>1, <2>1, <3>1, <3>2, RpcReturns
  <2>. QED  BY <2>3, <2>4
<1>7. CASE SpillRpc!Retry
  <2>1. /\ x1 = "work" /\ x1' = "work" /\ x2' = x2 /\ ~x8[x7].open /\ SpillRpc!setupConnection(FALSE)
    BY <1>7 DEF SpillRpc!Retry, SpillRpc!Nothing
  <2>2. /\ x8' \in Seq(SpillRpc!ConnectionType) /\ SpillRpc!Latest' /\ x7' # 0 /\ x4' = "write"
        /\ SpillRpc!Quiet(x8'[x7'])
    BY <1>3, <1>4, <2>1, RpcConnects
  <2>3. SpillRpc!MineAgrees'
    BY <2>1, <2>2 DEF SpillRpc!MineAgrees, SpillRpc!Quiet
  <2>. QED  BY <1>1, <2>1, <2>2, <2>3 DEF RpcTypes
<1>8. CASE SpillRpc!GiveUp
  <2>1. /\ x1 = "work" /\ x1' = "call" /\ x2' = x2 + 1 /\ ~x8[x7].open /\ x5' /\ UNCHANGED <<x4, x7, x8>>
    BY <1>8 DEF SpillRpc!GiveUp, SpillRpc!Nothing, SpillRpc!Return
  <2>2. SpillRpc!Latest' /\ SpillRpc!Over(x8'[x7])
    BY <1>1, <1>3, <1>4, <2>1 DEF SpillRpc!Latest
  <2>. QED  BY <1>1, <2>1, <2>2, RpcReturns
<1>9. CASE SpillRpc!readHeader
  BY <1>1, <1>9 DEF SpillRpc!readHeader, RpcTypes, SpillRpc!Latest, SpillRpc!MineAgrees, SpillRpc!Reusable,
     SpillRpc!Requested, SpillRpc!Executed, SpillRpc!Answered, SpillRpc!Had
<1>10. CASE SpillRpc!readResponse
  <2>1. x1 = "work" /\ x4 = "response" /\ x1' = "call" /\ x2' = x2 + 1 /\ x7' = x7 /\ x5' = ~x8[x7].open
    BY <1>10 DEF SpillRpc!readResponse, SpillRpc!Return
  <2>2. CASE SpillRpc!Whole
    <3>. DEFINE y == [x8[x7] EXCEPT !.answer = <<>>]
    <3>1. x4' = "idle" /\ x8' = [x8 EXCEPT ![x7] = y]
      BY <1>2, <1>3, <1>10, <2>1, <2>2 DEF SpillRpc!readResponse, SpillRpc!ConnectionType
    <3>2. x8[x7].request = 0 /\ x8[x7].executed = 0
      BY <1>1, <2>1, <2>2 DEF SpillRpc!Whole, SpillRpc!MineAgrees, SpillRpc!Answered
    <3>4. /\ y \in SpillRpc!ConnectionType
          /\ y.request = 0 /\ y.executed = 0 /\ y.answer = <<>> /\ y.open = x8[x7].open
      <4>1. RpcAs(y, x8[x7], x8[x7].request, x8[x7].executed, <<>>, x8[x7].open)
        BY <1>2, <1>3, <2>1, RpcNothing, RpcFields, Zenon
      <4>. HIDE DEF y
      <4>. QED  BY <3>2, <4>1, Zenon DEF RpcAs
    <3>. HIDE DEF y
    <3>5. /\ x8' \in Seq(SpillRpc!ConnectionType) /\ Len(x8') = Len(x8) /\ DOMAIN x8' = DOMAIN x8
          /\ x8'[x7] = y /\ \A c \in DOMAIN x8 : c # x7 => x8'[c] = x8[c]
      <4>1. x7 \in DOMAIN x8
        BY <1>2, <1>3, <2>1
      <4>. QED  BY <1>1, <3>1, <3>4, <4>1, RpcReplaced, Zenon
    <3>6. SpillRpc!Latest'
      BY <1>1, <1>4, <2>1, <3>4, <3>5 DEF SpillRpc!Latest, SpillRpc!Over
    <3>7. SpillRpc!Quiet(x8'[x7]) /\ (~y.open => SpillRpc!Over(x8'[x7]))
      BY <3>4, <3>5 DEF SpillRpc!Quiet, SpillRpc!Over
    <3>. QED  BY <1>3, <2>1, <3>1, <3>4, <3>5, <3>6, <3>7, RpcReturns
  <2>3. CASE ~SpillRpc!Whole
    <3>1. ~x8[x7].open /\ UNCHANGED <<x4, x8>>
      BY <1>10, <2>3 DEF SpillRpc!readResponse
    <3>2. SpillRpc!Latest' /\ SpillRpc!Over(x8'[x7])
      BY <1>1, <1>3, <1>4, <2>1, <3>1 DEF SpillRpc!Latest
    <3>. QED  BY <1>1, <2>1, <3>1, <3>2, RpcReturns
  <2>. QED  BY <2>2, <2>3
<1>11. CASE SpillRpc!End
  BY <1>1, <1>11 DEF SpillRpc!End, RpcTypes, SpillRpc!Latest, SpillRpc!MineAgrees, SpillRpc!Reusable
<1>. QED  BY <1>5, <1>6, <1>7, <1>8, <1>9, <1>10, <1>11 DEF SpillRpc!Client

\* A request that is executed, and received if its server knows spills.
LEMMA RpcExecutes ==
  ASSUME RpcTypes, NEW c \in DOMAIN x8, SpillRpc!executeRequest(c), x11 \in Seq(Nat)
  PROVE  /\ RpcTypes' /\ UNCHANGED <<x1, x2, x3, x4, x5, x6, x7>> /\ x7 # 0 /\ x1 = "work"
         /\ x4 \in {"header", "response"} /\ x8[x7].request = x2 /\ x8'[x7].request = 0
         /\ x11' \in {x11, Append(x11, x2)}
<1>1. /\ x8[c].open /\ x8[c].request # 0 /\ UNCHANGED <<x1, x2, x3, x4, x5, x6, x7>>
      /\ x11' = IF x8[c].server \in RpcKnows THEN Append(x11, x8[c].request) ELSE x11
  BY DEF SpillRpc!executeRequest, SpillRpc!ServerOnly, SpillRpc!clientVars
<1>2. x8 \in Seq(SpillRpc!ConnectionType) /\ x8[c] \in SpillRpc!ConnectionType /\ x2 \in Nat \ {0}
  BY DEF RpcTypes
<1>3. /\ c = x7 /\ x1 = "work" /\ x4 \in {"header", "response"} /\ SpillRpc!Requested(x8[c])
      /\ x8[c].request = x2 /\ x8[c].executed = 0
  BY <1>1, RpcServed DEF SpillRpc!Executed
<1>. DEFINE y == [x8[c] EXCEPT !.executed = x2, !.request = 0]
<1>4. x8' = [x8 EXCEPT ![c] = y]
  BY <1>2, <1>3 DEF SpillRpc!executeRequest
<1>5. RpcAs(y, x8[c], 0, x2, x8[c].answer, x8[c].open)
  BY <1>2, RpcFields, RpcNothing
<1>. HIDE DEF y
<1>6. /\ x8' \in Seq(SpillRpc!ConnectionType) /\ Len(x8') = Len(x8) /\ DOMAIN x8' = DOMAIN x8
      /\ x8'[c] = y /\ \A k \in DOMAIN x8 : k # c => x8'[k] = x8[k]
  BY <1>2, <1>4, <1>5, RpcReplaced, Zenon DEF RpcAs
<1>7. x8[c].server \in RpcKnows => SpillRpc!Had'
  <2>1. ASSUME x8[c].server \in RpcKnows
        PROVE  Len(x11) + 1 \in DOMAIN x11' /\ x11'[Len(x11) + 1] = x2
    BY <1>1, <1>2, <1>3, <2>1
  <2>. QED  BY <1>1, <2>1 DEF SpillRpc!Had
<1>8. SpillRpc!Executed(x8[c])'
  BY <1>1, <1>3, <1>5, <1>6, <1>7, Zenon DEF RpcAs, SpillRpc!Executed, SpillRpc!Requested
<1>9. /\ y.open /\ y.executed = x2 /\ y.answer = <<>> /\ x2 # 0 /\ x8[x7].open /\ x7 # 0
  <2>1. x7 # 0
    BY <1>2, <1>3
  <2>. QED  BY <1>1, <1>2, <1>3, <1>5, <2>1, Zenon DEF RpcAs, SpillRpc!Requested
<1>10. RpcTypes'
  <2>1. /\ x8'[x7].open /\ Len(x8'[x7].answer) = 0 /\ ~SpillRpc!Quiet(x8[x7]) /\ ~SpillRpc!Over(x8[x7])
    BY <1>1, <1>3, <1>6, <1>9 DEF SpillRpc!Quiet, SpillRpc!Over
  <2>2. \A k \in DOMAIN x8 : k # x7 => SpillRpc!Over(x8'[k])
    BY <1>3, <1>6 DEF RpcTypes, SpillRpc!Latest
  <2>. QED  BY <1>1, <1>3, <1>6, <1>8, <1>9, <2>1, <2>2, RpcClientSame
<1>. QED  BY <1>1, <1>3, <1>5, <1>6, <1>9, <1>10 DEF RpcAs

LEMMA RpcOne ==
  ASSUME NEW S, NEW t \in Seq(S), Len(t) = 1
  PROVE  t = <<t[1]>>
  OBVIOUS

LEMMA RpcParts ==
  ASSUME NEW r
  PROVE  /\ SubSeq(<<"header", r>>, 1, 1) = <<"header">> /\ SubSeq(<<"header", r>>, 1, 2) = <<"header", r>>
         /\ Len(<<>>) = 0 /\ Len(<<"header">>) = 1 /\ <<"header">> # <<>>
<1>1. ASSUME NEW s, s = <<"header", r>>
      PROVE  SubSeq(s, 1, 1) = <<"header">> /\ SubSeq(s, 1, 2) = s
  <2>1. s \in Seq({"header", r}) /\ Len(s) = 2 /\ s[1] = "header"
    BY <1>1
  <2>2. /\ SubSeq(s, 1, 1) \in Seq({"header", r}) /\ Len(SubSeq(s, 1, 1)) = 1
        /\ SubSeq(s, 1, 1)[1] = "header"
    BY <2>1
  <2>3. SubSeq(s, 1, 1) = <<"header">>
    BY <2>2, RpcOne
  <2>4. SubSeq(s, 1, 2) = s
    BY <2>1
  <2>. QED  BY <2>3, <2>4
<1>2. Len(<<>>) = 0 /\ Len(<<"header">>) = 1 /\ <<"header">> # <<>>
  OBVIOUS
<1>. QED  BY <1>1, <1>2, Zenon

\* An answer is written in two parts.
LEMMA RpcAnswers ==
  ASSUME RpcTypes, NEW c \in DOMAIN x8, SpillRpc!writeResponse(c)
  PROVE  /\ RpcTypes' /\ UNCHANGED <<x1, x2, x3, x4, x5, x6, x7, x11>> /\ x7 # 0
         /\ x8'[x7].request = x8[x7].request
<1>1. x8[c].open /\ x8[c].executed # 0 /\ UNCHANGED <<x1, x2, x3, x4, x5, x6, x7, x11>>
  BY DEF SpillRpc!writeResponse, SpillRpc!ServerOnly, SpillRpc!clientVars
<1>2. x8 \in Seq(SpillRpc!ConnectionType) /\ x8[c] \in SpillRpc!ConnectionType /\ x2 \in Nat \ {0}
  BY DEF RpcTypes
<1>3. /\ c = x7 /\ x1 = "work" /\ x4 \in {"header", "response"} /\ SpillRpc!Executed(x8[c])
      /\ x8[c].request = 0 /\ x8[c].executed = x2 /\ x7 # 0
  <2>1. x7 # 0 \/ c # x7
    BY <1>2
  <2>. QED  BY <1>1, <2>1, RpcServed DEF SpillRpc!Requested
<1>. DEFINE result == <<x2, IF x8[c].server \in RpcKnows THEN "Ok" ELSE "fault">>
            whole == <<"header", result>>
            a == SubSeq(whole, 1, Len(x8[c].answer) + 1)
            m == IF x8[c].answer = <<>> THEN x8[c].executed ELSE 0
            y == [x8[c] EXCEPT !.answer = a, !.executed = m]
<1>4. x8' = [x8 EXCEPT ![c] = y]
  BY <1>2, <1>3 DEF SpillRpc!writeResponse, SpillRpc!Result, SpillRpc!ConnectionType
<1>5. /\ x8[c].answer = <<>> => a = <<"header">> /\ m = x2
      /\ x8[c].answer # <<>> => a = whole /\ m = 0
  <2>1. x8[c].answer \in {<<>>, <<"header">>} /\ 0 + 1 = 1 /\ 1 + 1 = 2
    BY <1>3 DEF SpillRpc!Executed
  <2>2. x8[c].answer = <<>> => a = <<"header">> /\ m = x2
    BY <1>3, <2>1, RpcParts, Zenon
  <2>3. x8[c].answer # <<>> => a = whole /\ m = 0
    BY <1>3, <2>1, RpcParts, Zenon
  <2>. QED  BY <2>2, <2>3
<1>6. m \in Nat /\ a \in SpillRpc!Answers
  <2>1. result \in Nat \X {"Ok", "fault"}
    BY <1>2
  <2>. HIDE DEF result
  <2>2. whole \in SpillRpc!Answers /\ <<"header">> \in SpillRpc!Answers
    BY <2>1 DEF SpillRpc!Answers
  <2>. HIDE DEF whole, SpillRpc!Answers, a, m
  <2>. QED  BY <1>2, <1>5, <2>2
<1>7. RpcAs(y, x8[c], 0, m, a, x8[c].open)
  <2>. HIDE DEF a, m
  <2>. QED  BY <1>2, <1>3, <1>6, RpcFields
<1>. HIDE DEF y
<1>8. /\ x8' \in Seq(SpillRpc!ConnectionType) /\ Len(x8') = Len(x8) /\ DOMAIN x8' = DOMAIN x8
      /\ x8'[c] = y /\ \A k \in DOMAIN x8 : k # c => x8'[k] = x8[k]
  BY <1>2, <1>4, <1>7, RpcReplaced, Zenon DEF RpcAs
<1>9. SpillRpc!Had' <=> SpillRpc!Had
  BY <1>1 DEF SpillRpc!Had
<1>10. x8[c].answer = <<>> => SpillRpc!Executed(x8[c])' /\ Len(x8'[x7].answer) = 1
  <2>. HIDE DEF a, m
  <2>1. x8[c].answer = <<>> => y.answer = <<"header">> /\ y.executed = x2 /\ y.request = 0
        /\ y.server = x8[c].server
    BY <1>5, <1>7, Zenon DEF RpcAs
  <2>2. x8[c].answer = <<>> => Len(y.answer) = 1
    BY <2>1, RpcParts, Zenon
  <2>3. x8[c].answer = <<>> => SpillRpc!Executed(x8[c])'
    BY <1>1, <1>3, <1>8, <1>9, <2>1, Zenon DEF SpillRpc!Executed
  <2>. QED  BY <1>3, <1>8, <2>2, <2>3
<1>11. x8[c].answer # <<>> => SpillRpc!Answered(x8[c])'
  <2>1. Len(whole) = 2 /\ whole[2] = result /\ result[1] = x2 /\ (result[2] = "Ok" => x8[c].server \in RpcKnows)
    OBVIOUS
  <2>. HIDE DEF a, m, whole, result
  <2>2. x8[c].answer # <<>> => y.answer = whole /\ y.executed = 0 /\ y.request = 0
    BY <1>5, <1>7, Zenon DEF RpcAs
  <2>. QED  BY <1>1, <1>3, <1>8, <1>9, <2>1, <2>2 DEF SpillRpc!Answered, SpillRpc!Executed
<1>12. RpcTypes'
  <2>1. /\ x8'[x7].open /\ ~SpillRpc!Quiet(x8[x7]) /\ ~SpillRpc!Over(x8[x7])
    BY <1>1, <1>3, <1>7, <1>8 DEF RpcAs, SpillRpc!Quiet, SpillRpc!Over
  <2>2. \A k \in DOMAIN x8 : k # x7 => SpillRpc!Over(x8'[k])
    BY <1>3, <1>8 DEF RpcTypes, SpillRpc!Latest
  <2>3. /\ SpillRpc!Executed(x8[x7])' \/ SpillRpc!Answered(x8[x7])'
        /\ Len(x8'[x7].answer) = 2 => SpillRpc!Answered(x8[x7])'
    BY <1>1, <1>3, <1>10, <1>11
  <2>. QED  BY <1>1, <1>3, <1>8, <2>1, <2>2, <2>3, RpcClientSame
<1>. QED  BY <1>1, <1>3, <1>7, <1>8, <1>12 DEF RpcAs

\* A process that ends closes its connections.
LEMMA RpcEnds ==
  ASSUME RpcTypes, NEW s \in RpcServers, SpillRpc!EndServer(s)
  PROVE  /\ RpcTypes' /\ UNCHANGED <<x1, x2, x3, x4, x5, x6, x7, x11>>
         /\ x7 # 0 => x8'[x7].request \in {0, x8[x7].request}
<1>. DEFINE y(c) == [x8[c] EXCEPT !.open = FALSE, !.request = 0, !.executed = 0]
<1>1. /\ UNCHANGED <<x1, x2, x3, x4, x5, x6, x7, x11>>
      /\ x8' = [c \in DOMAIN x8 |-> IF x8[c].server = s THEN y(c) ELSE x8[c]]
  BY DEF SpillRpc!EndServer, SpillRpc!ServerOnly, SpillRpc!clientVars
<1>2. x8 \in Seq(SpillRpc!ConnectionType) /\ x2 \in Nat \ {0} /\ x7 = Len(x8)
  BY DEF RpcTypes, SpillRpc!Latest
<1>3. \A c \in DOMAIN x8 : x8[c] \in SpillRpc!ConnectionType /\ RpcAs(y(c), x8[c], 0, 0, x8[c].answer, FALSE)
  <2>1. TAKE c \in DOMAIN x8
  <2>2. x8[c] \in SpillRpc!ConnectionType
    BY <1>2, <2>1
  <2>. QED  BY <2>2, RpcFields, RpcNothing
<1>. HIDE DEF y
<1>4. /\ DOMAIN x8' = DOMAIN x8
      /\ \A c \in DOMAIN x8 : \/ x8'[c] = x8[c]
                              \/ /\ RpcAs(x8'[c], x8[c], 0, 0, x8[c].answer, FALSE)
                                 /\ SpillRpc!Over(x8'[c])
  BY <1>1, <1>3, Zenon DEF RpcAs, SpillRpc!Over
<1>5. x8' \in Seq(SpillRpc!ConnectionType) /\ Len(x8') = Len(x8)
  <2>1. \A c \in DOMAIN x8 : x8'[c] \in SpillRpc!ConnectionType
    BY <1>3, <1>4, Zenon DEF RpcAs
  <2>. HIDE DEF SpillRpc!ConnectionType
  <2>2. x8' = [c \in 1 .. Len(x8) |-> x8'[c]] /\ Len(x8) \in Nat
    BY <1>1, <1>2
  <2>. QED  BY <1>2, <1>4, <2>1, <2>2
<1>6. SpillRpc!Had' <=> SpillRpc!Had
  BY <1>1 DEF SpillRpc!Had
<1>7. CASE x7 = 0
  <2>1. DOMAIN x8' = {} /\ Len(x8') = 0 /\ x1 # "work" /\ ~SpillRpc!Reusable
    BY <1>2, <1>4, <1>5, <1>7 DEF RpcTypes, SpillRpc!MineAgrees
  <2>. QED
    BY <1>1, <1>2, <1>5, <1>7, <2>1 DEF RpcTypes, SpillRpc!Latest, SpillRpc!MineAgrees, SpillRpc!Reusable
<1>8. CASE x7 # 0
  <2>1. x7 \in DOMAIN x8
    BY <1>2, <1>8
  <2>2. CASE x8'[x7] = x8[x7]
    <3>1. \A k \in DOMAIN x8 : k # x7 => SpillRpc!Over(x8'[k])
      BY <1>4 DEF RpcTypes, SpillRpc!Latest, SpillRpc!Over
    <3>2. ~x8[x7].open => SpillRpc!Over(x8[x7])
      BY <2>1 DEF RpcTypes, SpillRpc!Latest
    <3>3. /\ SpillRpc!Requested(x8[x7])' <=> SpillRpc!Requested(x8[x7])
          /\ SpillRpc!Executed(x8[x7])' <=> SpillRpc!Executed(x8[x7])
          /\ SpillRpc!Answered(x8[x7])' <=> SpillRpc!Answered(x8[x7])
      BY <1>1, <1>6, <2>2 DEF SpillRpc!Requested, SpillRpc!Executed, SpillRpc!Answered
    <3>4. x1 = "work" /\ x4 \in {"header", "response"} /\ Len(x8'[x7].answer) = 2 => SpillRpc!Answered(x8[x7])'
      BY <2>2, <3>3 DEF RpcTypes, SpillRpc!MineAgrees, SpillRpc!Mine
    <3>. QED  BY <1>1, <1>5, <1>8, <2>2, <3>1, <3>2, <3>3, <3>4, RpcClientSame
  <2>3. CASE x8'[x7] # x8[x7]
    <3>1. \A k \in DOMAIN x8 : k # x7 => SpillRpc!Over(x8'[k])
      BY <1>4 DEF RpcTypes, SpillRpc!Latest, SpillRpc!Over
    <3>2. RpcAs(x8'[x7], x8[x7], 0, 0, x8[x7].answer, FALSE) /\ SpillRpc!Over(x8'[x7])
      BY <1>4, <2>1, <2>3
    <3>3. SpillRpc!Quiet(x8[x7]) => SpillRpc!Quiet(x8'[x7])
      BY <3>2 DEF RpcAs, SpillRpc!Quiet
    <3>4. SpillRpc!Answered(x8[x7]) => SpillRpc!Answered(x8[x7])'
      BY <1>1, <1>6, <3>2 DEF RpcAs, SpillRpc!Answered
    <3>5. x1 = "work" /\ x4 \in {"header", "response"} /\ Len(x8'[x7].answer) = 2 => SpillRpc!Answered(x8[x7])'
      BY <3>2, <3>4 DEF RpcAs, RpcTypes, SpillRpc!MineAgrees, SpillRpc!Mine
    <3>6. x8'[x7].request = 0
      BY <3>2 DEF RpcAs
    <3>. QED  BY <1>1, <1>5, <1>8, <3>1, <3>2, <3>3, <3>5, <3>6, RpcClientSame
  <2>. QED  BY <2>2, <2>3
<1>. QED  BY <1>7, <1>8

\* What a step may do to what has been received: nothing but add the spill whose request is executed.
RpcReceives == /\ x1 = "work" /\ x4 \in {"header", "response"} /\ x7 # 0 /\ x8[x7].request = x2
               /\ UNCHANGED <<x1, x2, x4, x6, x7>> /\ x8'[x7].request = 0 /\ x11' = Append(x11, x2)
RpcKeeps == /\ x11' = x11
            /\ \/ x1' # "work" /\ x2' = x2 /\ x1 # "work"
               \/ x1' # "work" /\ x2' = x2 + 1
               \/ x1 # "work" /\ x2' = x2 /\ x1' = "work" /\ x6' = 0 /\ x4' = "write"
               \/ x1 = "work" /\ x2' = x2 /\ x1' = "work" /\ x6 = 0 /\ x6' = 1
               \/ x1 = "work" /\ x2' = x2 /\ x1' = "work" /\ x6' = x6 /\ x4 = "write"
               \/ /\ x1 = "work" /\ UNCHANGED <<x1, x2, x6, x7>> /\ x4' # "write"
                  /\ x8'[x7].request \in {0, x8[x7].request}

LEMMA RpcSteps ==
  ASSUME RpcTypes, SpillRpc!Next, x11 \in Seq(Nat)
  PROVE  RpcTypes' /\ (RpcReceives \/ RpcKeeps)
<1>. USE DEF SpillRpc!Mine
<1>1. CASE SpillRpc!Client
  <2>1. RpcTypes'
    BY <1>1, RpcClient
  <2>2. x1 = "work" => x4 \in {"write", "header", "response"}
    BY DEF RpcTypes, SpillRpc!MineAgrees
  <2>3. ASSUME SpillRpc!execute PROVE RpcKeeps
    BY <2>3 DEF SpillRpc!execute, SpillRpc!setupConnection, RpcKeeps
  <2>4. ASSUME SpillRpc!writeRequest PROVE RpcKeeps
    BY <2>4 DEF SpillRpc!writeRequest, SpillRpc!Return, RpcKeeps
  <2>5. ASSUME SpillRpc!Retry PROVE RpcKeeps
    BY <2>5 DEF SpillRpc!Retry, RpcKeeps
  <2>6. ASSUME SpillRpc!GiveUp PROVE RpcKeeps
    BY <2>6 DEF SpillRpc!GiveUp, SpillRpc!Return, RpcKeeps
  <2>7. ASSUME SpillRpc!readHeader PROVE RpcKeeps
    BY <2>7 DEF SpillRpc!readHeader, RpcKeeps
  <2>8. ASSUME SpillRpc!readResponse PROVE RpcKeeps
    BY <2>8 DEF SpillRpc!readResponse, SpillRpc!Return, RpcKeeps
  <2>9. ASSUME SpillRpc!End PROVE RpcKeeps
    BY <2>9 DEF SpillRpc!End, RpcKeeps
  <2>. QED  BY <1>1, <2>1, <2>3, <2>4, <2>5, <2>6, <2>7, <2>8, <2>9 DEF SpillRpc!Client
<1>. DEFINE Same == UNCHANGED <<x1, x2, x3, x4, x5, x6, x7, x11>> /\ (x7 # 0 => x8'[x7].request \in {0,
      x8[x7].request})
<1>2. ASSUME Same PROVE RpcKeeps
  <2>1. x1 = "work" => x7 # 0
    BY DEF RpcTypes, SpillRpc!MineAgrees
  <2>2. CASE x1 = "work"
    BY <1>2, <2>1, <2>2 DEF RpcKeeps
  <2>3. CASE x1 # "work"
    BY <1>2, <2>3 DEF RpcKeeps
  <2>. QED  BY <2>2, <2>3
<1>3. ASSUME NEW c \in DOMAIN x8, SpillRpc!executeRequest(c)
      PROVE  RpcTypes' /\ (RpcReceives \/ RpcKeeps)
  <2>1. /\ RpcTypes' /\ UNCHANGED <<x1, x2, x3, x4, x5, x6, x7>> /\ x7 # 0 /\ x1 = "work"
        /\ x4 \in {"header", "response"} /\ x8[x7].request = x2 /\ x8'[x7].request = 0
        /\ x11' \in {x11, Append(x11, x2)}
    BY <1>3, RpcExecutes
  <2>2. CASE x11' = x11
    BY <1>2, <2>1, <2>2
  <2>3. CASE x11' = Append(x11, x2)
    BY <2>1, <2>3 DEF RpcReceives
  <2>. QED  BY <2>1, <2>2, <2>3
<1>4. ASSUME NEW c \in DOMAIN x8, SpillRpc!writeResponse(c)
      PROVE  RpcTypes' /\ RpcKeeps
  <2>1. RpcTypes' /\ Same
    BY <1>4, RpcAnswers
  <2>. QED  BY <1>2, <2>1
<1>5. ASSUME NEW s \in RpcServers, SpillRpc!Start(s)
      PROVE  RpcTypes' /\ RpcKeeps
  <2>1. UNCHANGED <<x1, x2, x3, x4, x5, x6, x7, x8, x11>>
    BY <1>5 DEF SpillRpc!Start, SpillRpc!clientVars
  <2>2. RpcTypes'
    BY <2>1 DEF RpcTypes, SpillRpc!Latest, SpillRpc!MineAgrees, SpillRpc!Reusable, SpillRpc!Requested,
       SpillRpc!Executed, SpillRpc!Answered, SpillRpc!Had
  <2>. QED  BY <1>2, <2>1, <2>2
<1>6. ASSUME NEW s \in RpcServers, SpillRpc!EndServer(s)
      PROVE  RpcTypes' /\ RpcKeeps
  <2>1. RpcTypes' /\ Same
    BY <1>6, RpcEnds
  <2>. QED  BY <1>2, <2>1
<1>. QED  BY <1>1, <1>3, <1>4, <1>5, <1>6 DEF SpillRpc!Next

LEMMA RpcReceivedSoFar ==
  ASSUME RpcTypes, RpcSoFar, RpcTypes', RpcReceives \/ RpcKeeps
  PROVE  RpcSoFar'
<1>1. /\ x2 \in Nat \ {0} /\ x11 \in Seq(1 .. x2) /\ x11 \in Seq(Nat)
      /\ x1 # "work" => \A k \in DOMAIN x11 : x11[k] < x2
      /\ x1 = "work" => /\ x6 \in {0, 1}
                        /\ RpcCount(x11, x2) <= x6 + (IF SpillRpc!Pending THEN 0 ELSE 1)
      /\ \A i \in 1 .. x2 : RpcCount(x11, i) <= 2
  BY DEF RpcTypes, RpcSoFar
<1>2. \A i : RpcCount(x11, i) \in Nat
  BY <1>1, RpcCounted
<1>3. CASE RpcReceives
  <2>1. /\ x1 = "work" /\ SpillRpc!Pending /\ ~SpillRpc!Pending' /\ UNCHANGED <<x1, x2, x6>>
        /\ x11' = Append(x11, x2)
    BY <1>3 DEF RpcReceives, RpcTypes, SpillRpc!Pending, SpillRpc!Mine
  <2>2. x11' \in Seq(1 .. x2)
    BY <1>1, <2>1
  <2>. DEFINE u == Append(x11, x2)
  <2>3. ASSUME NEW i
        PROVE  RpcCount(u, i) = RpcCount(x11, i) + (IF i = x2 THEN 1 ELSE 0)
    <3>1. x2 \in Nat
      BY <1>1
    <3>2. RpcCount(Append(x11, x2), i) = RpcCount(x11, i) + (IF i = x2 THEN 1 ELSE 0)
      BY <1>1, <3>1, RpcCounted
    <3>. QED  BY <3>2
  <2>. HIDE DEF u
  <2>4. RpcCount(x11, x2) <= x6 /\ x6 \in {0, 1}
    BY <1>1, <1>2, <2>1
  <2>5. RpcCount(u, x2) <= x6 + 1 /\ \A i \in 1 .. x2 : RpcCount(u, i) <= 2
    <3>1. RpcCount(u, x2) = RpcCount(x11, x2) + 1
      BY <2>3
    <3>2. RpcCount(x11, x2) \in Nat
      BY <1>2, Zenon
    <3>3. RpcCount(u, x2) <= x6 + 1 /\ RpcCount(u, x2) <= 2
      BY <2>4, <3>1, <3>2
    <3>4. \A i \in 1 .. x2 : i # x2 => RpcCount(u, i) = RpcCount(x11, i) + 0
      BY <2>3, Zenon
    <3>5. \A i \in 1 .. x2 : RpcCount(x11, i) <= 2 /\ RpcCount(x11, i) \in Nat
      BY <1>1, <1>2, Zenon
    <3>6. \A i \in 1 .. x2 : i # x2 => RpcCount(u, i) <= 2
      BY <3>4, <3>5
    <3>. QED  BY <3>3, <3>6, Zenon
  <2>6. RpcCount(x11', x2') <= x6' + 1 /\ \A i \in 1 .. x2' : RpcCount(x11', i) <= 2
    BY <2>1, <2>5, Zenon DEF u
  <2>. QED  BY <1>1, <2>1, <2>2, <2>4, <2>6 DEF RpcSoFar
<1>4. CASE RpcKeeps
  <2>1. x11' = x11
    BY <1>4 DEF RpcKeeps
  <2>3. CASE x1' # "work" /\ x2' = x2 /\ x1 # "work"
    BY <1>1, <2>1, <2>3 DEF RpcSoFar
  <2>4. CASE x1' # "work" /\ x2' = x2 + 1
    <3>1. x11 \in Seq(1 .. x2 + 1) /\ \A k \in DOMAIN x11 : x11[k] < x2 + 1 /\ x11[k] # x2 + 1
      BY <1>1
    <3>2. \A i \in 1 .. x2 + 1 : RpcCount(x11, i) <= 2
      <4>1. RpcCount(x11, x2 + 1) = 0
        BY <3>1, RpcNone, Zenon
      <4>. QED  BY <1>1, <4>1
    <3>. QED  BY <2>1, <2>4, <3>1, <3>2 DEF RpcSoFar
  <2>5. CASE x1 # "work" /\ x2' = x2 /\ x1' = "work" /\ x6' = 0 /\ x4' = "write"
    <3>1. \A k \in DOMAIN x11 : x11[k] # x2
      BY <1>1, <2>5
    <3>2. RpcCount(x11, x2) = 0
      BY <3>1, RpcNone, Zenon
    <3>. QED  BY <1>1, <2>1, <2>5, <3>2 DEF RpcSoFar, SpillRpc!Pending
  <2>6. CASE x1 = "work" /\ x2' = x2 /\ x1' = "work" /\ x6 = 0 /\ x6' = 1
    BY <1>1, <1>2, <2>1, <2>6 DEF RpcSoFar
  <2>7. CASE x1 = "work" /\ x2' = x2 /\ x1' = "work" /\ x6' = x6 /\ x4 = "write"
    BY <1>1, <1>2, <2>1, <2>7 DEF RpcSoFar, SpillRpc!Pending
  <2>8. CASE /\ x1 = "work" /\ UNCHANGED <<x1, x2, x6, x7>> /\ x4' # "write"
             /\ x8'[x7].request \in {0, x8[x7].request}
    BY <1>1, <1>2, <2>1, <2>8 DEF RpcSoFar, SpillRpc!Pending, SpillRpc!Mine
  <2>. QED  BY <1>4, <2>3, <2>4, <2>5, <2>6, <2>7, <2>8 DEF RpcKeeps
<1>. QED  BY <1>3, <1>4

LEMMA RpcInOrder ==
  ASSUME RpcTypes, RpcSoFar, SpillRpc!ReceivedInOrder, RpcReceives \/ RpcKeeps
  PROVE  SpillRpc!ReceivedInOrder'
<1>1. x2 \in Nat \ {0} /\ x11 \in Seq(1 .. x2)
  BY DEF RpcTypes, RpcSoFar
<1>2. CASE x11' = x11
  BY <1>2 DEF SpillRpc!ReceivedInOrder
<1>3. CASE x11' = Append(x11, x2)
  <2>1. /\ DOMAIN x11' = DOMAIN x11 \cup {Len(x11) + 1} /\ Len(x11) + 1 \notin DOMAIN x11
        /\ \A k \in DOMAIN x11 : x11'[k] = x11[k] /\ x11[k] <= x2 /\ k < Len(x11) + 1
        /\ x11'[Len(x11) + 1] = x2
    BY <1>1, <1>3
  <2>2. \A k \in DOMAIN x11 : k \in Nat
    BY <1>1
  <2>. QED  BY <1>1, <2>1, <2>2 DEF SpillRpc!ReceivedInOrder
<1>. QED  BY <1>2, <1>3 DEF RpcReceives, RpcKeeps

\* The results of the calls.
RpcResults == /\ x3 \in Seq((Nat \X {"Ok", "fault"}) \cup {SpillRpc!Error}) /\ Len(x3) = x2 - 1
              /\ SpillRpc!AnswersItsOwn /\ SpillRpc!OkIsReceived

\* A result is an error, or the answer to the spill, which has been received if it says so.
LEMMA RpcReturned ==
  ASSUME RpcTypes, SpillRpc!Next
  PROVE  \/ UNCHANGED <<x2, x3>>
         \/ /\ x11' = x11 /\ x2' = x2 + 1
            /\ \E r : /\ x3' = Append(x3, r)
                      /\ \/ r = SpillRpc!Error
                         \/ r \in Nat \X {"Ok", "fault"} /\ r[1] = x2 /\ (r[2] = "Ok" => SpillRpc!Had)
<1>. USE DEF SpillRpc!Return
<1>1. CASE SpillRpc!execute
  BY <1>1 DEF SpillRpc!execute
<1>2. CASE SpillRpc!writeRequest
  <2>1. UNCHANGED <<x2, x3>> \/ (x11' = x11 /\ x2' = x2 + 1 /\ x3' = Append(x3, SpillRpc!Error))
    BY <1>2, Zenon DEF SpillRpc!writeRequest
  <2>. QED  BY <2>1, Zenon
<1>3. CASE SpillRpc!Retry
  BY <1>3 DEF SpillRpc!Retry
<1>4. CASE SpillRpc!GiveUp
  <2>1. x11' = x11 /\ x2' = x2 + 1 /\ x3' = Append(x3, SpillRpc!Error)
    BY <1>4, Zenon DEF SpillRpc!GiveUp
  <2>. QED  BY <2>1, Zenon
<1>5. CASE SpillRpc!readHeader
  BY <1>5 DEF SpillRpc!readHeader
<1>6. CASE SpillRpc!readResponse
  <2>1. CASE SpillRpc!Whole
    <3>1. x11' = x11 /\ x2' = x2 + 1 /\ x3' = Append(x3, x8[x7].answer[2])
      BY <1>6, <2>1, Zenon DEF SpillRpc!readResponse, SpillRpc!Mine
    <3>2. x1 = "work" /\ x4 = "response" /\ Len(x8[x7].answer) = 2
      BY <1>6, <2>1 DEF SpillRpc!readResponse, SpillRpc!Whole, SpillRpc!Mine
    <3>3. SpillRpc!Answered(x8[x7]) /\ x7 \in DOMAIN x8
      BY <3>2 DEF RpcTypes, SpillRpc!Latest, SpillRpc!MineAgrees, SpillRpc!Mine
    <3>4. x8[x7].answer \in SpillRpc!Answers
      <4>1. x8[x7] \in SpillRpc!ConnectionType
        BY <3>3 DEF RpcTypes
      <4>. QED  BY <4>1, RpcFields, RpcNothing
    <3>5. x8[x7].answer[2] \in Nat \X {"Ok", "fault"}
      BY <3>2, <3>4, RpcNothing
    <3>. QED  BY <3>1, <3>3, <3>5, Zenon DEF SpillRpc!Answered
  <2>2. CASE ~SpillRpc!Whole
    <3>1. x11' = x11 /\ x2' = x2 + 1 /\ x3' = Append(x3, SpillRpc!Error)
      BY <1>6, <2>2, Zenon DEF SpillRpc!readResponse
    <3>. QED  BY <3>1, Zenon
  <2>. QED  BY <2>1, <2>2
<1>7. CASE SpillRpc!End
  BY <1>7 DEF SpillRpc!End
<1>8. CASE \E c \in DOMAIN x8 : SpillRpc!executeRequest(c) \/ SpillRpc!writeResponse(c)
  BY <1>8 DEF SpillRpc!executeRequest, SpillRpc!writeResponse, SpillRpc!ServerOnly, SpillRpc!clientVars
<1>9. CASE \E s \in RpcServers : SpillRpc!Start(s) \/ SpillRpc!EndServer(s)
  BY <1>9 DEF SpillRpc!Start, SpillRpc!EndServer, SpillRpc!ServerOnly, SpillRpc!clientVars
<1>. QED  BY <1>1, <1>2, <1>3, <1>4, <1>5, <1>6, <1>7, <1>8, <1>9 DEF SpillRpc!Next, SpillRpc!Client

LEMMA RpcResultsStep ==
  ASSUME RpcTypes, RpcResults, SpillRpc!Next, RpcReceives \/ RpcKeeps, x11 \in Seq(Nat)
  PROVE  RpcResults'
<1>. DEFINE R == (Nat \X {"Ok", "fault"}) \cup {SpillRpc!Error}
<1>1. /\ x2 \in Nat \ {0} /\ x3 \in Seq(R) /\ Len(x3) = x2 - 1
      /\ \A i \in 1 .. Len(x3) : x3[i] = SpillRpc!Error \/ x3[i][1] = i
      /\ \A i \in 1 .. Len(x3) : x3[i][2] = "Ok" => i \in SpillRpc!Range(x11)
  BY DEF RpcTypes, RpcResults, SpillRpc!AnswersItsOwn, SpillRpc!OkIsReceived
<1>2. \A i : i \in SpillRpc!Range(x11) => (i \in SpillRpc!Range(x11))'
  <2>1. x11' = x11 \/ x11' = Append(x11, x2)
    BY DEF RpcReceives, RpcKeeps
  <2>2. ASSUME NEW i, i \in SpillRpc!Range(x11)
        PROVE  (i \in SpillRpc!Range(x11))'
    <3>1. PICK k \in 1 .. Len(x11) : x11[k] = i
      BY <1>1, <2>2 DEF SpillRpc!Range
    <3>. DEFINE u == Append(x11, x2)
    <3>2. x11 \in Seq(Nat) /\ x2 \in Nat
      BY <1>1
    <3>3. Len(u) = Len(x11) + 1 /\ u[k] = i
      BY <3>1, <3>2
    <3>4. k \in 1 .. Len(u)
      BY <3>1, <3>2, <3>3
    <3>. HIDE DEF u
    <3>5. k \in 1 .. Len(x11') /\ x11'[k] = i
      BY <2>1, <3>1, <3>3, <3>4, Zenon DEF u
    <3>6. DOMAIN x11' = 1 .. Len(x11')
      BY <2>1, <1>1
    <3>. QED  BY <3>5, <3>6, Zenon DEF SpillRpc!Range
  <2>. QED  BY <2>2
<1>3. SpillRpc!Had => x2 \in SpillRpc!Range(x11)
  BY DEF SpillRpc!Had, SpillRpc!Range
<1>4. CASE UNCHANGED <<x2, x3>>
  BY <1>1, <1>2, <1>4 DEF RpcResults, SpillRpc!AnswersItsOwn, SpillRpc!OkIsReceived
<1>5. CASE ~UNCHANGED <<x2, x3>>
  <2>1. PICK r : /\ x11' = x11 /\ x2' = x2 + 1 /\ x3' = Append(x3, r)
                 /\ \/ r = SpillRpc!Error
                    \/ r \in Nat \X {"Ok", "fault"} /\ r[1] = x2 /\ (r[2] = "Ok" => SpillRpc!Had)
    BY <1>5, RpcReturned
  <2>2. r \in R /\ (r = SpillRpc!Error \/ r[1] = x2) /\ (r[2] = "Ok" => SpillRpc!Had)
    BY <2>1 DEF SpillRpc!Error
  <2>. HIDE DEF R
  <2>3. /\ x3' \in Seq(R) /\ Len(x3') = x2 /\ x3'[x2] = r
        /\ \A i \in 1 .. Len(x3') : i = x2 \/ (i \in 1 .. Len(x3) /\ x3'[i] = x3[i])
    BY <1>1, <2>1, <2>2
  <2>4. \A i \in 1 .. Len(x3') : x3'[i] = SpillRpc!Error \/ x3'[i][1] = i
    BY <1>1, <2>2, <2>3
  <2>5. \A i \in 1 .. Len(x3') : x3'[i][2] = "Ok" => (i \in SpillRpc!Range(x11))'
    BY <1>1, <1>2, <1>3, <2>2, <2>3
  <2>6. x3' \in Seq((Nat \X {"Ok", "fault"}) \cup {SpillRpc!Error}) /\ Len(x3') = x2' - 1
    BY <1>1, <2>1, <2>3 DEF R
  <2>. QED  BY <2>4, <2>5, <2>6 DEF RpcResults, SpillRpc!AnswersItsOwn, SpillRpc!OkIsReceived, SpillRpc!Error
<1>. QED  BY <1>4, <1>5

LEMMA RpcNext ==
  ASSUME SpillRpc!IInv, [SpillRpc!Next]_(SpillRpc!vars)
  PROVE  SpillRpc!IInv'
<1>1. RpcTypes /\ RpcResults /\ RpcSoFar /\ SpillRpc!ReceivedInOrder /\ x11 \in Seq(Nat)
  BY RpcTimes DEF SpillRpc!IInv, RpcTypes, RpcResults, RpcSoFar
<1>2. ASSUME SpillRpc!Next
      PROVE  RpcTypes' /\ RpcResults' /\ RpcSoFar' /\ SpillRpc!ReceivedInOrder'
  <2>1. RpcTypes' /\ (RpcReceives \/ RpcKeeps)
    BY <1>1, <1>2, RpcSteps
  <2>. QED  BY <1>1, <1>2, <2>1, RpcReceivedSoFar, RpcInOrder, RpcResultsStep
<1>3. ASSUME UNCHANGED SpillRpc!vars
      PROVE  SpillRpc!IInv'
  <2>1. UNCHANGED <<x1, x2, x3, x4, x5, x6, x7, x8, x11>>
    BY <1>3 DEF SpillRpc!vars, SpillRpc!clientVars
  <2>2. RpcTypes'
    BY <1>1, <2>1 DEF RpcTypes, SpillRpc!Latest, SpillRpc!MineAgrees, SpillRpc!Reusable, SpillRpc!Requested,
       SpillRpc!Executed, SpillRpc!Answered, SpillRpc!Had, SpillRpc!Mine
  <2>3. RpcResults'
    BY <1>1, <2>1 DEF RpcResults, SpillRpc!AnswersItsOwn, SpillRpc!OkIsReceived, SpillRpc!Range
  <2>5. RpcSoFar' /\ SpillRpc!ReceivedInOrder'
    BY <1>1, <2>1 DEF RpcSoFar, SpillRpc!ReceivedInOrder, SpillRpc!Pending, SpillRpc!Mine
  <2>. QED  BY <2>2, <2>3, <2>5, RpcTimes DEF RpcTypes, RpcResults, SpillRpc!IInv
<1>4. SpillRpc!IInv' <=> RpcTypes' /\ RpcResults' /\ RpcSoFar' /\ SpillRpc!ReceivedInOrder'
  BY RpcTimes DEF SpillRpc!IInv, RpcTypes, RpcResults
<1>. QED  BY <1>2, <1>3, <1>4

\* What the invariant says of how often a spill is received.
LEMMA RpcTwice ==
  ASSUME SpillRpc!IInv, RpcSpills \in Nat
  PROVE  SpillRpc!AtMostTwice
<1>1. x2 \in Nat \ {0} /\ x11 \in Seq(1 .. x2) /\ \A i \in 1 .. x2 : RpcCount(x11, i) <= 2
  BY RpcTimes DEF SpillRpc!IInv, RpcSoFar
<1>2. ASSUME NEW i \in 1 .. RpcSpills
      PROVE  RpcCount(x11, i) <= 2
  <2>1. CASE i \in 1 .. x2
    BY <1>1, <2>1
  <2>2. CASE i \notin 1 .. x2
    <3>1. \A k \in DOMAIN x11 : x11[k] # i
      BY <1>1, <2>2
    <3>2. RpcCount(x11, i) = 0
      BY <3>1, RpcNone, Zenon
    <3>. QED  BY <3>2
  <2>. QED  BY <2>1, <2>2
<1>. QED  BY <1>2, RpcTimes

(* --- Badgerboard: x1 is its running, x5 its state, x6 its op, x7 its at, x8 its *)
(* seq, x9 its reply, x10 its status, x11 its acked, x12 its board, x13 its       *)
(* accepted, x14 its air, x15 its carried and x16 its ops ------------------------ *)
BoardStates == [connection : {"Offline", "Connecting", "Online"}, hub : Badgerboard!Config,
                run : Badgerboard!Config, channels : Badgerboard!Channels]
BoardSteps == {"idle", "send", "answer", "connected", "wait"}

\* What a board, or a heartbeat, or the host says of it, has been carried out.
BoardHas(x, done) == /\ x.hub = "Configured" => "ConfigureHub" \in done
                     /\ x.run = "Configured" => "ConfigureRun" \in done
                     /\ x.channels = "Started" => "SetPowerState" \in done

\* What the invariant says of the host's thread and the board, of the operation, and of replies.
BoardData == /\ x12 \in Badgerboard!BoardType /\ x14 \in Seq(Badgerboard!Heartbeat) /\ x5 \in BoardStates
             /\ BoardHas(x12, x15) /\ BoardHas(x5, x15)
             /\ \A i \in DOMAIN x14 : ~x14[i].odd => BoardHas(x14[i], x15)
BoardCall == /\ x16 \in Nat /\ x8 \in Nat /\ x6 \in {"configure", "startData", "stopData", "none"}
             /\ x7 \in Nat \X BoardSteps
             /\ x6 # "none" => x7[1] \in 1 .. Len(Badgerboard!Requests[x6]) + 1
             /\ Badgerboard!Waited
BoardReply == /\ x9 = NoValue \/ (x9.kind = "Ack" /\ x9.seq = x8 => x8 \in x13)
              /\ x11 \subseteq x13

LEMMA BoardHeld ==
  ASSUME NEW x, NEW done
  PROVE  Badgerboard!Held(x) \subseteq done <=> BoardHas(x, done)
  BY DEF Badgerboard!Held, BoardHas

LEMMA BoardParts ==
  /\ Badgerboard!IInv <=> BoardData /\ BoardCall /\ BoardReply
  /\ Badgerboard!IInv' <=> BoardData' /\ BoardCall' /\ BoardReply'
<1>1. DOMAIN Badgerboard!Requests \cup {"none"} = {"configure", "startData", "stopData", "none"}
  BY DEF Badgerboard!Requests
<1>2. \A x, done : Badgerboard!Held(x) \subseteq done <=> BoardHas(x, done)
  BY BoardHeld
<1>. QED
  BY <1>1, <1>2, Zenon DEF Badgerboard!IInv, BoardData, BoardCall, BoardReply, BoardStates, BoardSteps,
     Badgerboard!AckedIsAccepted, Badgerboard!AllCarriedOut, Badgerboard!CarriedOut

LEMMA BoardRequests ==
  /\ DOMAIN Badgerboard!Requests = {"configure", "startData", "stopData"}
  /\ Len(Badgerboard!Requests["configure"]) = 4 /\ Len(Badgerboard!Requests["startData"]) = 1
  /\ Len(Badgerboard!Requests["stopData"]) = 0
  /\ Badgerboard!Type("configure", 1) = "ResetConfiguration"
  /\ Badgerboard!Type("configure", 2) = "ConfigureHub" /\ Badgerboard!Type("configure", 3) = "ConfigureRun"
  /\ Badgerboard!Type("configure", 4) = "SetPowerState" /\ Badgerboard!Type("startData", 1) = "BeginDataRun"
  BY DEF Badgerboard!Requests, Badgerboard!Type

\* The request that an operation has come to.
LEMMA BoardNow ==
  ASSUME BoardCall, Badgerboard!Left
  PROVE  /\ \/ x6 = "configure" /\ x7[1] \in 1 .. 4
            \/ x6 = "startData" /\ x7[1] = 1
         /\ Badgerboard!Now \in Badgerboard!Named
         /\ x7[1] + 1 \in 1 .. Len(Badgerboard!Requests[x6]) + 1
         /\ x6 = "configure" /\ x7[1] = 2 => Badgerboard!Now = "ConfigureHub"
         /\ x6 = "configure" /\ x7[1] = 3 => Badgerboard!Now = "ConfigureRun"
         /\ x6 = "configure" /\ x7[1] = 4 => Badgerboard!Now = "SetPowerState"
<1>1. /\ \/ x6 = "configure" /\ x7[1] \in 1 .. 4
         \/ x6 = "startData" /\ x7[1] = 1
  <2>1. /\ x6 \in {"configure", "startData", "stopData"} /\ x7[1] \in Nat /\ x7[1] >= 1
        /\ x7[1] <= Len(Badgerboard!Requests[x6])
    <3>1. x6 \in {"configure", "startData", "stopData"} /\ x7[1] <= Len(Badgerboard!Requests[x6])
      BY DEF BoardCall, Badgerboard!Left
    <3>2. x7[1] \in Nat /\ x7[1] >= 1
      BY <3>1 DEF BoardCall
    <3>. QED  BY <3>1, <3>2
  <2>2. CASE x6 = "configure"
    <3>1. Len(Badgerboard!Requests[x6]) = 4
      BY <2>2, BoardRequests, Zenon
    <3>. QED  BY <2>1, <2>2, <3>1
  <2>3. CASE x6 = "startData"
    <3>1. Len(Badgerboard!Requests[x6]) = 1
      BY <2>3, BoardRequests, Zenon
    <3>. QED  BY <2>1, <2>3, <3>1
  <2>4. CASE x6 = "stopData"
    <3>1. Len(Badgerboard!Requests[x6]) = 0
      BY <2>4, BoardRequests, Zenon
    <3>. QED  BY <2>1, <3>1
  <2>. QED  BY <2>1, <2>2, <2>3, <2>4
<1>2. x7[1] + 1 \in 1 .. Len(Badgerboard!Requests[x6]) + 1
  <2>1. CASE x6 = "configure" /\ x7[1] \in 1 .. 4
    <3>1. Len(Badgerboard!Requests[x6]) = 4
      BY <2>1, BoardRequests, Zenon
    <3>. QED  BY <2>1, <3>1
  <2>2. CASE x6 = "startData" /\ x7[1] = 1
    <3>1. Len(Badgerboard!Requests[x6]) = 1
      BY <2>2, BoardRequests, Zenon
    <3>. QED  BY <2>2, <3>1
  <2>. QED  BY <1>1, <2>1, <2>2
<1>3. x6 = "configure" => \/ x7[1] = 1 \/ x7[1] = 2 \/ x7[1] = 3 \/ x7[1] = 4
  BY <1>1
<1>. QED  BY <1>1, <1>2, <1>3, BoardRequests, Zenon DEF Badgerboard!Now, Badgerboard!Named

\* Whatever the board is when the controller is made.
LEMMA BoardInit ==
  ASSUME BoardFound \subseteq Badgerboard!BoardType, Badgerboard!Init
  PROVE  Badgerboard!IInv
<1>1. BoardData
  <2>1. x12 \in Badgerboard!BoardType
    BY DEF Badgerboard!Init
  <2>2. x5 \in BoardStates
    BY DEF Badgerboard!Init, BoardStates, Badgerboard!Config, Badgerboard!Channels
  <2>3. x14 \in Seq(Badgerboard!Heartbeat) /\ DOMAIN x14 = {}
    BY DEF Badgerboard!Init
  <2>4. BoardHas(x12, x15) /\ BoardHas(x5, x15)
    BY BoardHeld DEF Badgerboard!Init, BoardHas
  <2>. QED  BY <2>1, <2>2, <2>3, <2>4 DEF BoardData
<1>2. BoardCall /\ BoardReply
  BY DEF Badgerboard!Init, BoardCall, BoardReply, BoardSteps, Badgerboard!Waited
<1>. QED  BY <1>1, <1>2, BoardParts

\* The thread of the heartbeats: what it knows of the board it has heard.
LEMMA BoardHeartbeat ==
  ASSUME BoardData, Badgerboard!Run \/ Badgerboard!Fails
  PROVE  BoardData' /\ UNCHANGED <<x6, x7, x8, x9, x10, x11, x12, x13, x15, x16>>
<1>1. UNCHANGED <<x6, x7, x8, x9, x10, x11, x12, x13, x15, x16>>
  BY DEF Badgerboard!Run, Badgerboard!Fails, Badgerboard!HeartbeatOnly, Badgerboard!callVars
<1>2. /\ x14' \in {x14, <<>>} \/ (x14 # <<>> /\ x14' = Tail(x14))
      /\ \/ x5' = x5
         \/ \E c \in {"Offline", "Connecting", "Online"} : x5' = [x5 EXCEPT !.connection = c]
         \/ x14 # <<>> /\ ~Head(x14).odd /\ x5' = Badgerboard!ProcessHeartbeat(Head(x14))
  <2>. USE DEF Badgerboard!ModifyConnection, Badgerboard!Dead
  <2>1. CASE Badgerboard!Started
    BY <2>1 DEF Badgerboard!Started
  <2>2. CASE Badgerboard!Dial
    BY <2>2 DEF Badgerboard!Dial
  <2>3. CASE Badgerboard!NetworkError
    BY <2>3 DEF Badgerboard!NetworkError
  <2>4. CASE Badgerboard!HeldOff
    BY <2>4 DEF Badgerboard!HeldOff
  <2>5. CASE Badgerboard!TimedOut
    BY <2>5 DEF Badgerboard!TimedOut
  <2>6. CASE Badgerboard!Skip
    BY <2>6 DEF Badgerboard!Skip
  <2>7. CASE Badgerboard!Beat
    BY <2>7, Zenon DEF Badgerboard!Beat, Badgerboard!Passed
  <2>8. CASE Badgerboard!End
    BY <2>8 DEF Badgerboard!End
  <2>. QED
    BY <2>1, <2>2, <2>3, <2>4, <2>5, <2>6, <2>7, <2>8 DEF Badgerboard!Run, Badgerboard!Fails
<1>. DEFINE Good(h) == h \in Badgerboard!Heartbeat /\ (~h.odd => BoardHas(h, x15))
<1>3. \A i \in DOMAIN x14 : Good(x14[i])
  <2>. HIDE DEF Badgerboard!Heartbeat
  <2>. QED  BY DEF BoardData
<1>4. x14' \in Seq(Badgerboard!Heartbeat) /\ \A i \in DOMAIN x14' : Good(x14'[i])
  <2>1. x14 \in Seq(Badgerboard!Heartbeat)
    BY DEF BoardData
  <2>. HIDE DEF Good, Badgerboard!Heartbeat
  <2>2. CASE x14' = x14
    BY <1>3, <2>1, <2>2
  <2>3. CASE x14' = <<>>
    BY <2>3
  <2>4. CASE x14 # <<>> /\ x14' = Tail(x14)
    BY <1>3, <2>1, <2>4
  <2>. QED  BY <1>2, <2>2, <2>3, <2>4
<1>5. x5' \in BoardStates /\ BoardHas(x5', x15')
  <2>1. x5 \in BoardStates /\ BoardHas(x5, x15)
    BY DEF BoardData
  <2>2. CASE x5' = x5
    BY <1>1, <2>1, <2>2 DEF BoardHas
  <2>3. CASE \E c \in {"Offline", "Connecting", "Online"} : x5' = [x5 EXCEPT !.connection = c]
    BY <1>1, <2>1, <2>3 DEF BoardHas, BoardStates
  <2>4. CASE x14 # <<>> /\ ~Head(x14).odd /\ x5' = Badgerboard!ProcessHeartbeat(Head(x14))
    <3>1. Good(Head(x14)) /\ ~Head(x14).odd
      <4>1. x14 \in Seq(Badgerboard!Heartbeat)
        BY DEF BoardData
      <4>2. 1 \in DOMAIN x14 /\ Head(x14) = x14[1]
        BY <2>4, <4>1
      <4>. QED  BY <1>3, <2>4, <4>2, Zenon
    <3>2. /\ Head(x14).hub \in Badgerboard!Config /\ Head(x14).run \in Badgerboard!Config
          /\ Head(x14).channels \in Badgerboard!Channels
      BY <3>1 DEF Badgerboard!Heartbeat
    <3>. QED
      BY <1>1, <2>4, <3>1, <3>2 DEF Badgerboard!ProcessHeartbeat, BoardStates, BoardHas
  <2>. QED  BY <1>2, <2>2, <2>3, <2>4
<1>6. BoardHas(x12', x15') /\ \A i \in DOMAIN x14' : ~x14'[i].odd => BoardHas(x14'[i], x15')
  BY <1>1, <1>4 DEF BoardData, BoardHas
<1>. QED  BY <1>1, <1>4, <1>5, <1>6 DEF BoardData

\* The controller's thread: what it waited for has been carried out.
LEMMA BoardWorks ==
  ASSUME BoardData, BoardCall, BoardReply, Badgerboard!Works
  PROVE  BoardCall' /\ BoardReply' /\ UNCHANGED <<x5, x12, x14, x15>>
<1>1. UNCHANGED <<x5, x12, x14, x15>>
  BY DEF Badgerboard!Works, Badgerboard!CallOnly
<1>2. /\ x16 \in Nat /\ x8 \in Nat /\ x6 \in {"configure", "startData", "stopData", "none"}
      /\ x7 \in Nat \X BoardSteps /\ Badgerboard!Waited
      /\ x6 # "none" => x7[1] \in 1 .. Len(Badgerboard!Requests[x6]) + 1
  BY DEF BoardCall
<1>3. Badgerboard!Left => /\ x6 \in {"configure", "startData"}
                          /\ x7[1] + 1 \in 1 .. Len(Badgerboard!Requests[x6]) + 1
  BY BoardNow
<1>. HIDE DEF Badgerboard!Requests
<1>. USE DEF Badgerboard!Waited
<1>4. CASE Badgerboard!Send
  <2>1. /\ Badgerboard!Left /\ x8' = x8 + 1 /\ x7' = <<x7[1], "answer">> /\ x9' = NoValue
        /\ UNCHANGED <<x6, x10, x11, x13, x16>>
    BY <1>4 DEF Badgerboard!Send
  <2>2. BoardCall'
    BY <1>1, <1>2, <1>3, <2>1 DEF BoardCall, BoardSteps
  <2>. QED  BY <1>1, <2>1, <2>2 DEF BoardReply
<1>5. ASSUME x7' = <<x7[1] + 1, "send">>, Badgerboard!Left, UNCHANGED <<x6, x8, x10, x16>>,
             x6 = "configure" => /\ x7[1] = 2 => "ConfigureHub" \in x15
                                 /\ x7[1] = 3 => "ConfigureRun" \in x15
                                 /\ x7[1] = 4 => "SetPowerState" \in x15
      PROVE  BoardCall'
  BY <1>1, <1>2, <1>3, <1>5, BoardRequests DEF BoardCall, BoardSteps
<1>6. ASSUME NEW w \in BoardSteps, x7' = <<x7[1], w>>, Badgerboard!Left, UNCHANGED <<x6, x8, x10, x16>>
      PROVE  BoardCall'
  BY <1>1, <1>2, <1>3, <1>6 DEF BoardCall
<1>7. CASE Badgerboard!Answered
  <2>1. /\ Badgerboard!Left /\ x9 # NoValue /\ x9' = NoValue /\ UNCHANGED <<x6, x8, x10, x13, x16>>
        /\ x11' = (IF Badgerboard!Believes(x9) THEN x11 \cup {x8} ELSE x11)
        /\ IF Badgerboard!Now \in DOMAIN Badgerboard!AwaitedPart
           THEN x7' = <<x7[1], "connected">> ELSE x7' = <<x7[1] + 1, "send">>
    BY <1>7, Zenon DEF Badgerboard!Answered, Badgerboard!NextRequest
  <2>2. BoardReply'
    BY <2>1 DEF BoardReply, Badgerboard!Believes
  <2>3. CASE Badgerboard!Now \in DOMAIN Badgerboard!AwaitedPart
    BY <1>1, <1>6, <2>1, <2>2, <2>3 DEF BoardSteps
  <2>4. CASE Badgerboard!Now \notin DOMAIN Badgerboard!AwaitedPart
    <3>1. x6 = "configure" => x7[1] \notin {2, 3, 4}
      BY <2>1, <2>4, BoardNow DEF Badgerboard!AwaitedPart
    <3>. QED  BY <1>1, <1>5, <2>1, <2>2, <2>4, <3>1
  <2>. QED  BY <2>3, <2>4
<1>8. CASE Badgerboard!Connected
  <2>1. Badgerboard!Left /\ x7' = <<x7[1], "wait">> /\ UNCHANGED <<x6, x8, x9, x10, x11, x13, x16>>
    BY <1>8 DEF Badgerboard!Connected
  <2>. QED  BY <1>1, <1>6, <2>1 DEF BoardReply, BoardSteps
<1>9. CASE Badgerboard!StateChanged
  <2>1. /\ Badgerboard!Left /\ Badgerboard!AsWanted /\ x7' = <<x7[1] + 1, "send">>
        /\ UNCHANGED <<x6, x8, x9, x10, x11, x13, x16>>
    BY <1>9 DEF Badgerboard!StateChanged, Badgerboard!NextRequest
  <2>2. /\ Badgerboard!Now = "ConfigureHub" => x5.hub = "Configured"
        /\ Badgerboard!Now = "ConfigureRun" => x5.run = "Configured"
        /\ Badgerboard!Now = "SetPowerState" => x5.channels = "Started"
    BY <2>1 DEF Badgerboard!AsWanted, Badgerboard!AwaitedPart, Badgerboard!Wanted
  <2>3. BoardHas(x5, x15)
    BY DEF BoardData
  <2>4. x6 = "configure" => /\ x7[1] = 2 => "ConfigureHub" \in x15
                            /\ x7[1] = 3 => "ConfigureRun" \in x15
                            /\ x7[1] = 4 => "SetPowerState" \in x15
    BY <2>1, <2>2, <2>3, BoardNow DEF BoardHas
  <2>. QED  BY <1>1, <1>5, <2>1, <2>4 DEF BoardReply
<1>10. CASE Badgerboard!Throws
  <2>1. /\ Badgerboard!Left /\ x10' = "dead" /\ x6' = "none" /\ x7' = <<0, "idle">>
        /\ UNCHANGED <<x8, x9, x11, x13, x16>>
    BY <1>10 DEF Badgerboard!Throws
  <2>. QED  BY <1>1, <1>2, <1>3, <2>1 DEF BoardCall, BoardReply, BoardSteps
<1>11. CASE Badgerboard!Done
  <2>1. /\ x6 # "none" /\ ~Badgerboard!Left /\ x6' = "none" /\ x7' = <<0, "idle">>
        /\ UNCHANGED <<x8, x9, x11, x13, x16>>
    BY <1>11 DEF Badgerboard!Done
  <2>. QED  BY <1>1, <1>2, <2>1 DEF BoardCall, BoardReply, BoardSteps
<1>. QED  BY <1>1, <1>4, <1>7, <1>8, <1>9, <1>10, <1>11 DEF Badgerboard!Works

LEMMA BoardBegins ==
  ASSUME BoardCall, BoardReply, Badgerboard!Begin /\ Badgerboard!CallOnly
  PROVE  BoardCall' /\ BoardReply' /\ UNCHANGED <<x5, x12, x14, x15>>
<1>1. /\ x6 = "none" /\ x6' \in {"configure", "startData", "stopData"} /\ x16' = x16 + 1
      /\ x6' = "startData" => x10 = "Configured"
      /\ x7' = <<1, "send">> /\ UNCHANGED <<x5, x8, x9, x10, x11, x12, x13, x14, x15>>
  BY BoardRequests DEF Badgerboard!Begin, Badgerboard!CallOnly
<1>2. 1 \in 1 .. Len(Badgerboard!Requests[x6']) + 1
  BY <1>1, BoardRequests
<1>3. BoardCall'
  <2>. HIDE DEF Badgerboard!Requests
  <2>. QED
    BY <1>1, <1>2 DEF BoardCall, BoardSteps, Badgerboard!Waited
<1>. QED  BY <1>1, <1>3 DEF BoardReply

\* The board answers and takes on requests.
LEMMA BoardAnswers ==
  ASSUME BoardData, BoardCall, BoardReply, Badgerboard!Answers
  PROVE  BoardData' /\ BoardCall' /\ BoardReply'
<1>1. UNCHANGED <<x5, x6, x7, x8, x10, x11, x14, x15, x16>>
  BY DEF Badgerboard!Answers, Badgerboard!BoardOnly, Badgerboard!hostVars, Badgerboard!callVars,
     Badgerboard!Accept, Badgerboard!Late, Badgerboard!Lost, Badgerboard!Refuse
<1>2. x8 \in Nat /\ Badgerboard!Asked /\ Badgerboard!Now \in Badgerboard!Named
  BY BoardNow DEF BoardCall, Badgerboard!Answers, Badgerboard!Accept, Badgerboard!Late, Badgerboard!Lost,
     Badgerboard!Refuse, Badgerboard!Asked
<1>3. /\ x12' \in {x12, [x12 EXCEPT !.todo = @ \cup {Badgerboard!Now}]} /\ x13' \in {x13, x13 \cup {x8}}
      /\ \/ x9' = Badgerboard!Reply("Ack", Badgerboard!Now, x8) /\ x8 \in x13'
         \/ \E s \in 1 .. x8 - 1 : \E t : x9' = Badgerboard!Reply("Ack", t, s)
         \/ \E k \in {"Nak", "error"} : x9' = Badgerboard!Reply(k, Badgerboard!Now, x8)
  <2>1. CASE Badgerboard!Accept
    BY <2>1, Zenon DEF Badgerboard!Accept
  <2>2. CASE Badgerboard!Late
    BY <2>2, Zenon DEF Badgerboard!Late
  <2>3. CASE Badgerboard!Lost
    BY <2>3, Zenon DEF Badgerboard!Lost
  <2>4. CASE Badgerboard!Refuse
    BY <2>4, Zenon DEF Badgerboard!Refuse
  <2>. QED  BY <2>1, <2>2, <2>3, <2>4 DEF Badgerboard!Answers
<1>4. BoardReply'
  BY <1>1, <1>2, <1>3 DEF BoardReply, Badgerboard!Reply
<1>5. BoardCall'
  BY <1>1 DEF BoardCall, Badgerboard!Waited
<1>6. x12' \in Badgerboard!BoardType /\ BoardHas(x12', x15')
  BY <1>1, <1>2, <1>3 DEF BoardData, Badgerboard!Named, Badgerboard!BoardType,
     BoardHas
<1>7. BoardData'
  BY <1>1, <1>6 DEF BoardData, BoardHas
<1>. QED  BY <1>4, <1>5, <1>7

\* The board goes on by itself.
LEMMA BoardActs ==
  ASSUME BoardNumbers \in Nat \ {0}, BoardData, BoardCall, BoardReply,
         (Badgerboard!CarryOut \/ Badgerboard!Publish \/ Badgerboard!Restart) /\ Badgerboard!BoardOnly
  PROVE  BoardData' /\ BoardCall' /\ BoardReply'
<1>1. UNCHANGED <<x5, x6, x7, x8, x9, x10, x11, x13, x16>> /\ x15 \subseteq x15'
  BY DEF Badgerboard!BoardOnly, Badgerboard!hostVars, Badgerboard!callVars, Badgerboard!CarryOut,
     Badgerboard!Publish, Badgerboard!Restart
<1>2. BoardCall' /\ BoardReply'
  BY <1>1 DEF BoardCall, BoardReply, Badgerboard!Waited
<1>3. /\ x12 \in Badgerboard!BoardType /\ x14 \in Seq(Badgerboard!Heartbeat) /\ x5 \in BoardStates
      /\ BoardHas(x12, x15) /\ BoardHas(x5, x15)
      /\ \A i \in DOMAIN x14 : ~x14[i].odd => BoardHas(x14[i], x15)
  BY DEF BoardData
<1>4. BoardHas(x5', x15') /\ x5' \in BoardStates
  BY <1>1, <1>3 DEF BoardHas
<1>5. ASSUME x14' = x14
      PROVE  /\ x14' \in Seq(Badgerboard!Heartbeat)
             /\ \A i \in DOMAIN x14' : ~x14'[i].odd => BoardHas(x14'[i], x15')
  BY <1>1, <1>3, <1>5 DEF BoardHas
<1>6. CASE Badgerboard!CarryOut
  <2>1. PICK t \in x12.todo : x12' = [Badgerboard!After(t) EXCEPT !.todo = @ \ {t}] /\ x15' = x15 \cup {t}
    BY <1>6 DEF Badgerboard!CarryOut
  <2>2. x14' = x14
    BY <1>6 DEF Badgerboard!CarryOut
  <2>3. Badgerboard!After(t) \in Badgerboard!BoardType /\ BoardHas(Badgerboard!After(t), x15')
    <3>1. t \in Badgerboard!Named
      BY <1>3 DEF Badgerboard!BoardType, Badgerboard!Named
    <3>. QED
      BY <1>1, <1>3, <2>1, <3>1 DEF Badgerboard!After, Badgerboard!BoardType, BoardHas,
         Badgerboard!Config, Badgerboard!Channels, Badgerboard!Named
  <2>. DEFINE b == Badgerboard!After(t)
  <2>. HIDE DEF b
  <2>4. x12' \in Badgerboard!BoardType /\ BoardHas(x12', x15')
    <3>1. b \in Badgerboard!BoardType /\ BoardHas(b, x15')
      BY <2>1, <2>3 DEF b
    <3>2. x12' = [b EXCEPT !.todo = @ \ {t}]
      BY <2>1 DEF b
    <3>. QED  BY <3>1, <3>2 DEF Badgerboard!BoardType, BoardHas
  <2>. QED  BY <1>2, <1>4, <1>5, <2>2, <2>4 DEF BoardData
<1>7. CASE Badgerboard!Publish
  <2>1. x12' = [x12 EXCEPT !.seq = (@ + 1) % BoardNumbers] /\ x15' = x15
    BY <1>7 DEF Badgerboard!Publish
  <2>2. x12.seq \in Nat /\ (x12.seq + 1) % BoardNumbers \in Nat
    BY <1>3 DEF Badgerboard!BoardType
  <2>3. x12' \in Badgerboard!BoardType /\ BoardHas(x12', x15')
    BY <1>3, <2>1, <2>2 DEF Badgerboard!BoardType, BoardHas
  <2>. DEFINE h == [odd |-> FALSE, seq |-> x12.seq, hub |-> x12.hub, run |-> x12.run, channels |-> x12.channels]
              o == [odd |-> TRUE, seq |-> x12.seq]
  <2>4. x14' \in {x14, Append(x14, h), Append(x14, o)}
    BY <1>7 DEF Badgerboard!Publish
  <2>5. /\ h \in Badgerboard!Heartbeat /\ BoardHas(h, x15') /\ o \in Badgerboard!Heartbeat /\ o.odd
    BY <1>3, <2>1 DEF Badgerboard!BoardType, Badgerboard!Heartbeat, BoardHas
  <2>6. \A i \in DOMAIN x14 : ~x14[i].odd => BoardHas(x14[i], x15')
    BY <1>3, <2>1 DEF BoardHas
  <2>. DEFINE Good(y) == ~y.odd => BoardHas(y, x15')
  <2>7. Good(h) /\ Good(o) /\ \A i \in DOMAIN x14 : Good(x14[i])
    BY <2>5, <2>6
  <2>. HIDE DEF h, o, Good, Badgerboard!Heartbeat
  <2>8. x14' \in Seq(Badgerboard!Heartbeat) /\ \A i \in DOMAIN x14' : Good(x14'[i])
    BY <1>3, <2>4, <2>5, <2>7
  <2>9. \A i \in DOMAIN x14' : ~x14'[i].odd => BoardHas(x14'[i], x15')
    BY <2>1, <2>8 DEF Good, BoardHas
  <2>. QED  BY <1>2, <1>4, <2>3, <2>8, <2>9 DEF BoardData
<1>8. CASE Badgerboard!Restart
  <2>1. x12' = Badgerboard!Fresh /\ x14' = <<>> /\ x15' = x15
    BY <1>8 DEF Badgerboard!Restart
  <2>2. x12' \in Badgerboard!BoardType /\ BoardHas(x12', x15')
    BY <2>1 DEF Badgerboard!Fresh, Badgerboard!BoardType, BoardHas, Badgerboard!Config,
       Badgerboard!Channels
  <2>3. x14' \in Seq(Badgerboard!Heartbeat) /\ DOMAIN x14' = {}
    BY <2>1
  <2>. QED  BY <1>2, <1>4, <2>2, <2>3 DEF BoardData
<1>. QED  BY <1>6, <1>7, <1>8

LEMMA BoardNext ==
  ASSUME BoardNumbers \in Nat \ {0}, Badgerboard!IInv, [Badgerboard!Next]_(Badgerboard!vars)
  PROVE  Badgerboard!IInv'
<1>1. BoardData /\ BoardCall /\ BoardReply
  BY BoardParts
<1>2. ASSUME UNCHANGED <<x5, x12, x14, x15>>
      PROVE  BoardData'
  BY <1>1, <1>2 DEF BoardData, BoardHas
<1>3. ASSUME UNCHANGED <<x6, x7, x8, x9, x10, x11, x13, x15, x16>>
      PROVE  BoardCall' /\ BoardReply'
  BY <1>1, <1>3 DEF BoardCall, BoardReply, Badgerboard!Waited
<1>4. CASE Badgerboard!Run \/ Badgerboard!Fails
  BY <1>1, <1>3, <1>4, BoardHeartbeat, BoardParts
<1>5. CASE Badgerboard!Begin /\ Badgerboard!CallOnly
  BY <1>1, <1>2, <1>5, BoardBegins, BoardParts
<1>6. CASE Badgerboard!Works
  BY <1>1, <1>2, <1>6, BoardWorks, BoardParts
<1>7. CASE Badgerboard!Destroy
  <2>1. UNCHANGED <<x5, x6, x7, x8, x9, x10, x11, x12, x13, x14, x15, x16>>
    BY <1>7 DEF Badgerboard!Destroy, Badgerboard!callVars
  <2>. QED  BY <1>2, <1>3, <2>1, BoardParts
<1>8. CASE Badgerboard!Board
  BY <1>1, <1>8, BoardAnswers, BoardActs, BoardParts DEF Badgerboard!Board
<1>9. CASE UNCHANGED Badgerboard!vars
  <2>1. UNCHANGED <<x5, x6, x7, x8, x9, x10, x11, x12, x13, x14, x15, x16>>
    BY <1>9 DEF Badgerboard!vars
  <2>. QED  BY <1>2, <1>3, <2>1, BoardParts
<1>. QED  BY <1>4, <1>5, <1>6, <1>7, <1>8, <1>9 DEF Badgerboard!Next

\* When its waits are over, all that they were for has been reached.
LEMMA BoardReached ==
  ASSUME Badgerboard!IInv
  PROVE  Badgerboard!ConfiguredWasReached
<1>. SUFFICES ASSUME x6 = "configure", ~Badgerboard!Left
              PROVE  {"ConfigureHub", "ConfigureRun", "SetPowerState"} \subseteq x15
  BY DEF Badgerboard!ConfiguredWasReached
<1>1. BoardCall
  BY BoardParts
<1>2. Len(Badgerboard!Requests[x6]) = 4
  BY BoardRequests, Zenon
<1>3. x7[1] \in 1 .. Len(Badgerboard!Requests[x6]) + 1 /\ ~(x7[1] <= Len(Badgerboard!Requests[x6]))
  BY <1>1 DEF BoardCall, Badgerboard!Left
<1>4. x7[1] = 5
  BY <1>2, <1>3
<1>. QED  BY <1>1, <1>4 DEF BoardCall, Badgerboard!Waited

(* --- AppMain: x1 is its mainAt, x2 its handlerRuns, x3 its phase, x6 its signals, *)
(* x7 its cmdAt, x9 its inbox, x10 its sigAt, x13 its pending, x14 its todo, x15    *)
(* its run and x16 its crashed ---------------------------------------------------- *)
AppMessage == {"StartRun", "StopRun", "Exit"}
AppStep == {"test", "stop", "receivers", "serialiser", "reset", "start", "end"}
AppStopRun == <<"test", "stop", "receivers", "serialiser", "reset">>
AppSteps(m) == CASE m = "StartRun" -> Append(AppStopRun, "start") [] m = "StopRun" -> AppStopRun
                 [] m = "Exit" -> Append(AppStopRun, "end")
AppLeft(m, k) == SubSeq(AppSteps(m), k, Len(AppSteps(m)))

\* What the inductive invariant says of the types, of the one thread that handles, and of the end.
AppTypes == /\ x6 \in Nat /\ x9 \in Seq(AppMessage) /\ x2 \in BOOLEAN /\ x16 \in BOOLEAN
            /\ x14 \in [{"cmd", "sig"} -> Seq(AppStep)]
            /\ x1 \notin {"arm", "handler"} => ~x2
            /\ x1 = "arm" => x7 = "unborn"
AppAt(m, k) == /\ x14["cmd"] = AppLeft(m, k)
               /\ k \in 2 .. 5 => x15 # "none"
               /\ k = 6 /\ k <= Len(AppSteps(m)) => x15 = "none"
               /\ m = "Exit" /\ k <= Len(AppSteps(m)) => x9 = <<>> /\ x3 = "Over"
AppSomewhere == \E m \in AppMessage : \E k \in 1 .. Len(AppSteps(m)) + 1 : AppAt(m, k)
AppOneByOne == /\ ~x16 /\ ~x13 /\ x10 # "handle" /\ x14["sig"] = <<>>
               /\ x14["cmd"] # <<>> => x7 = "handle"
               /\ AppSomewhere
AppExitLast == /\ \A i \in DOMAIN x9 : x9[i] = "Exit" => i = Len(x9) /\ x3 = "Over"
               /\ ~x2 => x15 = "none" /\ x14["cmd"] = <<>> /\ x9 = <<>> /\ x3 = "Over"
AppInv == AppTypes /\ (x6 = 0 => AppOneByOne /\ AppExitLast)

LEMMA AppIs ==
  ASSUME NEW CONSTANT C, NEW CONSTANT F, NEW CONSTANT S, NEW CONSTANT Q
  PROVE  /\ App(C, F, S, Q)!IInv <=> AppInv
         /\ App(C, F, S, Q)!IInv' <=> AppInv'
         /\ \A m \in AppMessage : App(C, F, S, Q)!Steps(m) = AppSteps(m)
<1>1. \A m \in AppMessage : App(C, F, S, Q)!Steps(m) = AppSteps(m)
  BY Zenon DEF App!Steps, App!StopRun, AppSteps, AppStopRun
<1>2. \A m \in AppMessage : \A k : App(C, F, S, Q)!Left(m, k) = AppLeft(m, k)
  BY <1>1, Zenon DEF App!Left, AppLeft
<1>3. /\ \A m \in AppMessage : \A k : App(C, F, S, Q)!At(m, k) <=> AppAt(m, k)
      /\ \A m \in AppMessage : \A k : (App(C, F, S, Q)!At(m, k))' <=> AppAt(m, k)'
  BY <1>1, <1>2, Zenon DEF App!At, AppAt
<1>. QED
  BY <1>1, <1>3, Zenon DEF App!IInv, App!OneByOne, App!ExitLast, App!Message, App!Receiver, AppInv,
     AppTypes, AppOneByOne, AppExitLast, AppSomewhere, AppMessage, AppStep

\* The steps of a command, and what is left of them.
LEMMA AppStepsType ==
  ASSUME NEW m \in AppMessage
  PROVE  /\ AppSteps(m) \in Seq(AppStep) /\ Len(AppSteps(m)) \in {5, 6}
         /\ AppSteps(m)[1] = "test" /\ AppSteps(m)[2] = "stop" /\ AppSteps(m)[3] = "receivers"
         /\ AppSteps(m)[4] = "serialiser" /\ AppSteps(m)[5] = "reset"
         /\ Len(AppSteps(m)) = 6 => AppSteps(m)[6] \in {"start", "end"}
         /\ Len(AppSteps(m)) = 6 /\ AppSteps(m)[6] = "end" => m = "Exit"
<1>1. /\ AppStopRun \in Seq(AppStep) /\ Len(AppStopRun) = 5
      /\ AppStopRun[1] = "test" /\ AppStopRun[2] = "stop" /\ AppStopRun[3] = "receivers"
      /\ AppStopRun[4] = "serialiser" /\ AppStopRun[5] = "reset"
  BY DEF AppStopRun, AppStep
<1>2. ASSUME NEW last \in {"start", "end"}
      PROVE  LET s == Append(AppStopRun, last) IN
             /\ s \in Seq(AppStep) /\ Len(s) = 6 /\ s[6] = last
             /\ s[1] = "test" /\ s[2] = "stop" /\ s[3] = "receivers" /\ s[4] = "serialiser" /\ s[5] = "reset"
  <2>1. last \in AppStep
    BY DEF AppStep
  <2>2. ASSUME NEW seq \in Seq(AppStep), Len(seq) = 5, NEW x \in AppStep
        PROVE  /\ Append(seq, x) \in Seq(AppStep) /\ Len(Append(seq, x)) = 6 /\ Append(seq, x)[6] = x
               /\ Append(seq, x)[1] = seq[1] /\ Append(seq, x)[2] = seq[2] /\ Append(seq, x)[3] = seq[3]
               /\ Append(seq, x)[4] = seq[4] /\ Append(seq, x)[5] = seq[5]
    <3>. DEFINE t == Append(seq, x)
    <3>1. Append(seq, x) \in Seq(AppStep)
      BY AppendProperties
    <3>2. Len(t) = Len(seq) + 1 
      OBVIOUS
    <3>3. t[Len(seq) + 1] = x
      OBVIOUS
    <3>4. \A i \in 1 .. Len(seq) : t[i] = seq[i]
      OBVIOUS
    <3>. HIDE DEF t
    <3>5. Len(t) = 6 /\ t[6] = x /\ t[1] = seq[1] /\ t[2] = seq[2] /\ t[3] = seq[3] /\ t[4] = seq[4]
          /\ t[5] = seq[5]
      BY <2>2, <3>2, <3>3, <3>4
    <3>. QED  BY <3>1, <3>5 DEF t
  <2>. HIDE DEF AppStopRun
  <2>. QED  BY <1>1, <2>1, <2>2, Zenon
<1>3. CASE m = "StartRun"
  BY <1>2, <1>3 DEF AppSteps
<1>4. CASE m = "StopRun"
  BY <1>1, <1>4 DEF AppSteps
<1>5. CASE m = "Exit"
  BY <1>2, <1>5 DEF AppSteps
<1>. QED  BY <1>3, <1>4, <1>5 DEF AppMessage
LEMMA AppLeftIs ==
  ASSUME NEW m \in AppMessage, NEW k \in 1 .. Len(AppSteps(m)) + 1
  PROVE  /\ k <= Len(AppSteps(m)) => /\ AppLeft(m, k) # <<>>
                                     /\ Head(AppLeft(m, k)) = AppSteps(m)[k]
                                     /\ Tail(AppLeft(m, k)) = AppLeft(m, k + 1)
         /\ k > Len(AppSteps(m)) => AppLeft(m, k) = <<>>
         /\ AppLeft(m, k) \in Seq(AppStep)
         /\ Len(AppLeft(m, k)) = Len(AppSteps(m)) - k + 1
<1>. DEFINE s == AppSteps(m)
            n == Len(s)
<1>1. s \in Seq(AppStep) /\ n \in Nat /\ k \in Int /\ k \in 1 .. n + 1
  BY AppStepsType
<1>2. \A i \in k .. n : s[i] \in AppStep
  BY <1>1
<1>3. SubSeq(s, k, n) \in Seq(AppStep) /\ Len(SubSeq(s, k, n)) = IF k <= n THEN n - k + 1 ELSE 0
  <2>. HIDE DEF s, n
  <2>. QED  BY <1>1, <1>2, SubSeqProperties
<1>4. k <= n => Head(SubSeq(s, k, n)) = s[k] /\ Tail(SubSeq(s, k, n)) = SubSeq(s, k + 1, n)
  <2>1. ASSUME k <= n PROVE k \in 1 .. Len(s) /\ n \in k .. Len(s)
    BY <1>1, <2>1
  <2>. HIDE DEF s, n
  <2>. QED  BY <1>1, <2>1, HeadTailOfSubSeq
<1>5. k > n => SubSeq(s, k, n) = <<>>
  <2>. HIDE DEF s, n
  <2>. QED  BY <1>1, SubSeqEmpty
<1>6. AppLeft(m, k) = SubSeq(s, k, n) /\ AppLeft(m, k + 1) = SubSeq(s, k + 1, n)
  BY Zenon DEF AppLeft
<1>. HIDE DEF s, n
<1>8. Len(SubSeq(s, k, n)) = n - k + 1
  BY <1>1, <1>3
<1>9. k <= n => SubSeq(s, k, n) # <<>>
  <2>1. Len(<<>>) = 0
    OBVIOUS
  <2>2. k <= n => Len(SubSeq(s, k, n)) # 0
    BY <1>1, <1>8
  <2>. QED  BY <2>1, <2>2, Zenon
<1>10. n = Len(AppSteps(m)) /\ s = AppSteps(m)
  BY DEF n, s
<1>. QED  BY <1>3, <1>4, <1>5, <1>6, <1>8, <1>9, <1>10
LEMMA AppNoRun ==
  ASSUME NEW m \in AppMessage
  PROVE  SubSeq(AppLeft(m, 1), 6, Len(AppLeft(m, 1))) = AppLeft(m, 6) /\ AppLeft(m, 1) = AppSteps(m)
<1>. DEFINE s == AppSteps(m)
<1>1. s \in Seq(AppStep) /\ Len(s) \in {5, 6}
  BY AppStepsType
<1>. HIDE DEF s
<1>2. SubSeq(s, 1, Len(s)) = s
  BY <1>1
<1>. QED  BY <1>2, Zenon DEF s, AppLeft

\* Where a command has come to stays so as long as nothing it speaks of changes.
LEMMA AppStays ==
  UNCHANGED <<x3, x9, x14, x15>> => (AppSomewhere' <=> AppSomewhere)
<1>1. ASSUME UNCHANGED <<x3, x9, x14, x15>>
      PROVE  \A m, k : AppAt(m, k)' <=> AppAt(m, k)
  BY <1>1, Zenon DEF AppAt
<1>. QED  BY <1>1, Zenon DEF AppSomewhere
\* Nobody handles anything.
LEMMA AppIdle ==
  /\ x14["cmd"] = <<>> => AppSomewhere
  /\ x14'["cmd"] = <<>> => AppSomewhere'
<1>1. /\ Len(AppSteps("StopRun")) = 5 /\ "StopRun" \in AppMessage
      /\ 6 \in 1 .. Len(AppSteps("StopRun")) + 1 /\ ~(6 <= Len(AppSteps("StopRun"))) /\ 6 \notin 2 .. 5
      /\ AppLeft("StopRun", 6) = <<>>
  <2>1. Len(AppSteps("StopRun")) = 5 /\ "StopRun" \in AppMessage
    BY DEF AppSteps, AppStopRun, AppMessage
  <2>2. 6 \in 1 .. 5 + 1 /\ 6 > 5 /\ ~(6 <= 5) /\ 6 \notin 2 .. 5
    OBVIOUS
  <2>3. AppLeft("StopRun", 6) = <<>>
    BY <2>1, <2>2, AppLeftIs, Zenon
  <2>. QED  BY <2>1, <2>2, <2>3, Zenon
<1>2. /\ x14["cmd"] = <<>> => AppAt("StopRun", 6)
      /\ x14'["cmd"] = <<>> => AppAt("StopRun", 6)'
  BY <1>1, Zenon DEF AppAt
<1>. QED  BY <1>1, <1>2, Zenon DEF AppSomewhere

LEMMA AppInit ==
  ASSUME NEW CONSTANT C, NEW CONSTANT F, NEW CONSTANT S, NEW CONSTANT Q,
         App(C, F, S, Q)!Init
  PROVE  App(C, F, S, Q)!IInv
<1>1. AppTypes
  <2>1. x6 \in Nat /\ x9 \in Seq(AppMessage) /\ x14 \in [{"cmd", "sig"} -> Seq(AppStep)]
    BY DEF App!Init, App!Receiver, AppMessage, AppStep
  <2>2. x2 \in BOOLEAN /\ x16 \in BOOLEAN /\ x1 = "arm" /\ x7 = "unborn"
    BY Zenon DEF App!Init
  <2>. QED  BY <2>1, <2>2 DEF AppTypes
<1>2. ~x16 /\ ~x13 /\ x10 # "handle" /\ x14["sig"] = <<>> /\ x14["cmd"] = <<>> /\ x9 = <<>> /\ x2
  BY DEF App!Init, App!Receiver
<1>3. AppOneByOne
  BY <1>2, AppIdle, Zenon DEF AppOneByOne
<1>4. AppExitLast
  BY <1>2 DEF AppExitLast
<1>. QED  BY <1>1, <1>3, <1>4, AppIs, Zenon DEF AppInv

LEMMA AppPublish ==
  ASSUME NEW CONSTANT C, NEW CONSTANT F, NEW CONSTANT S, NEW CONSTANT Q,
         AppInv, App(C, F, S, Q)!Publish
  PROVE  AppInv'
<1>. PICK m \in AppMessage : /\ App(C, F, S, Q)!May(m)
                             /\ x3' = CASE m = "StartRun" -> "Running" [] m = "StopRun" -> "Started" [] OTHER -> "Over"
                             /\ x9' = IF x7 \in {"recv", "handle"} THEN Append(x9, m) ELSE x9
  BY Zenon DEF App!Publish, AppMessage
<1>1. x3 # "Over" /\ (m = "Exit" => x3' = "Over")
  BY DEF App!May, AppMessage
<1>2. UNCHANGED <<x1, x2, x6, x7, x10, x13, x14, x15, x16>>
  BY DEF App!Publish, App!signalVars, App!flags, App!busVars
<1>3. AppTypes'
  BY <1>2 DEF AppInv, AppTypes
<1>4. ASSUME x6' = 0
      PROVE  AppOneByOne' /\ AppExitLast'
  <2>1. AppOneByOne /\ AppExitLast /\ x9 \in Seq(AppMessage)
    BY <1>2, <1>4 DEF AppInv, AppTypes
  <2>2. x2 /\ \A i \in DOMAIN x9 : x9[i] # "Exit"
    BY <1>1, <2>1 DEF AppExitLast
  <2>3. \A i \in DOMAIN x9' : x9'[i] = "Exit" => i = Len(x9') /\ x3' = "Over"
    BY <1>1, <2>1, <2>2
  <2>4. AppExitLast'
    BY <1>2, <2>2, <2>3, Zenon DEF AppExitLast
  <2>5. PICK n \in AppMessage : \E k \in 1 .. Len(AppSteps(n)) + 1 : AppAt(n, k)
    BY <2>1, Zenon DEF AppOneByOne, AppSomewhere
  <2>6. PICK k \in 1 .. Len(AppSteps(n)) + 1 : AppAt(n, k)
    BY <2>5
  <2>7. AppAt(n, k)'
    BY <1>1, <1>2, <2>6, Zenon DEF AppAt
  <2>8. AppSomewhere'
    BY <2>7, Zenon DEF AppSomewhere
  <2>. QED  BY <1>2, <2>1, <2>4, <2>8, Zenon DEF AppOneByOne
<1>. QED  BY <1>3, <1>4, Zenon DEF AppInv

\* What neither publishes, handles nor receives leaves the invariant's variables, but for some, as they are.
LEMMA AppElsewhere ==
  ASSUME AppInv, UNCHANGED <<x3, x6, x14, x15>>, AppTypes',
         x6 = 0 /\ AppOneByOne =>
           /\ ~x16' /\ ~x13' /\ x10' # "handle" /\ (x2 => x2')
           /\ x14["cmd"] # <<>> => x7' = "handle"
           /\ x9' = x9 \/ (x9' = <<>> /\ x14["cmd"] = <<>>)
  PROVE  AppInv'
<1>. SUFFICES ASSUME x6 = 0
              PROVE  AppOneByOne' /\ AppExitLast'
  BY Zenon DEF AppInv
<1>1. AppOneByOne /\ AppExitLast
  BY Zenon DEF AppInv
<1>2. x14'["cmd"] = x14["cmd"] /\ x14'["sig"] = <<>>
  BY <1>1, Zenon DEF AppOneByOne
<1>3. AppSomewhere'
  <2>1. CASE x9' = x9
    BY <1>1, <2>1, AppStays, Zenon DEF AppOneByOne
  <2>2. CASE x14["cmd"] = <<>>
    BY <1>2, <2>2, AppIdle, Zenon
  <2>. QED  BY <1>1, <2>1, <2>2
<1>4. AppOneByOne'
  BY <1>1, <1>2, <1>3, Zenon DEF AppOneByOne
<1>5. AppExitLast'
  <2>1. CASE x9' = x9
    BY <1>1, <1>2, <2>1, Zenon DEF AppExitLast
  <2>2. CASE x9' = <<>> /\ x14["cmd"] = <<>>
    <3>1. DOMAIN x9' = {}
      BY <2>2
    <3>. QED  BY <1>1, <1>2, <2>2, <3>1, Zenon DEF AppExitLast
  <2>. QED  BY <1>1, <2>1, <2>2
<1>. QED  BY <1>4, <1>5

LEMMA AppInterrupted ==
  ASSUME NEW CONSTANT C, NEW CONSTANT F, NEW CONSTANT S, NEW CONSTANT Q,
         AppInv, App(C, F, S, Q)!Interrupt
  PROVE  AppInv'
<1>1. x6' = x6 + 1 /\ UNCHANGED <<x1, x2, x7, x9, x14, x16>>
  BY DEF App!Interrupt, App!commandVars, App!flags, App!busVars
<1>2. AppTypes' /\ x6' # 0
  BY <1>1 DEF AppInv, AppTypes
<1>. QED  BY <1>2, Zenon DEF AppInv

\* The thread of the commands handles a step of one.
LEMMA AppHandleCommand ==
  ASSUME NEW CONSTANT C, NEW CONSTANT F, NEW CONSTANT S, NEW CONSTANT Q,
         AppInv, App(C, F, S, Q)!Handle("cmd"), x6 = 0, AppTypes'
  PROVE  AppOneByOne' /\ AppExitLast'
<1>. DEFINE step == Head(x14["cmd"])
<1>1. /\ x14["cmd"] # <<>>
      /\ x14' = [x14 EXCEPT !["cmd"] = IF step = "test" /\ x15 = "none" THEN SubSeq(@, 6, Len(@)) ELSE Tail(@)]
      /\ x16' = (step \in {"stop", "serialiser"} /\ x15 = "none")
      /\ x15' = CASE step = "stop" /\ x15 # "none" -> "Stopped" [] step = "reset" -> "none"
                  [] step = "start" -> "Running" [] OTHER -> x15
      /\ x2' = (x2 /\ step # "end")
  BY Zenon DEF App!Handle
<1>2. UNCHANGED <<x1, x3, x6, x7, x9, x10, x13>>
  BY DEF App!Handle, App!commandVars, App!signalVars, App!flags, App!busVars, App!bounds
<1>3. AppOneByOne /\ AppExitLast /\ AppTypes
  BY Zenon DEF AppInv
<1>4. x2
  BY <1>1, <1>3, Zenon DEF AppExitLast
<1>5. PICK m \in AppMessage : \E k \in 1 .. Len(AppSteps(m)) + 1 : AppAt(m, k)
  BY <1>3, Zenon DEF AppOneByOne, AppSomewhere
<1>6. PICK k \in 1 .. Len(AppSteps(m)) + 1 : AppAt(m, k)
  BY <1>5
<1>7. x14["cmd"] = AppLeft(m, k)
  BY <1>6, Zenon DEF AppAt
<1>8. ~(k > Len(AppSteps(m)))
  BY <1>1, <1>7, AppLeftIs, Zenon
<1>. DEFINE n == Len(AppSteps(m))
<1>9. n \in {5, 6} /\ k \in 1 .. n /\ k <= n /\ k \in 1 .. n + 1
  <2>1. n \in {5, 6} /\ k \in 1 .. n + 1 /\ ~(k > n)
    BY <1>8, AppStepsType
  <2>. HIDE DEF n
  <2>. QED  BY <2>1
<1>10. step = AppSteps(m)[k] /\ Tail(x14["cmd"]) = AppLeft(m, k + 1)
  BY <1>7, <1>9, AppLeftIs, Zenon
<1>14. /\ k \in 2 .. 5 => x15 # "none"
       /\ k = 6 => x15 = "none"
       /\ m = "Exit" => x9 = <<>> /\ x3 = "Over"
  BY <1>6, <1>9, Zenon DEF AppAt
<1>11. \/ k = 1 /\ step = "test"
       \/ k = 2 /\ step = "stop" /\ x15 # "none"
       \/ k = 3 /\ step = "receivers" /\ x15 # "none"
       \/ k = 4 /\ step = "serialiser" /\ x15 # "none"
       \/ k = 5 /\ step = "reset" /\ x15 # "none"
       \/ k = 6 /\ step = "start" /\ n = 6 /\ x15 = "none"
       \/ k = 6 /\ step = "end" /\ n = 6 /\ x15 = "none" /\ m = "Exit"
  <2>. HIDE DEF n
  <2>1. k \in {1, 2, 3, 4, 5, 6} /\ (k = 6 => n = 6) /\ 2 \in 2 .. 5 /\ 3 \in 2 .. 5 /\ 4 \in 2 .. 5
        /\ 5 \in 2 .. 5
    BY <1>9
  <2>2. /\ AppSteps(m)[1] = "test" /\ AppSteps(m)[2] = "stop" /\ AppSteps(m)[3] = "receivers"
        /\ AppSteps(m)[4] = "serialiser" /\ AppSteps(m)[5] = "reset"
        /\ n = 6 => AppSteps(m)[6] \in {"start", "end"} /\ (AppSteps(m)[6] = "end" => m = "Exit")
    BY AppStepsType DEF n
  <2>. HIDE DEF step
  <2>3. k = 1 => step = "test"
    BY <1>10, <2>2, Zenon
  <2>4. k = 2 => step = "stop" /\ x15 # "none"
    BY <1>10, <1>14, <2>1, <2>2, Zenon
  <2>5. k = 3 => step = "receivers" /\ x15 # "none"
    BY <1>10, <1>14, <2>1, <2>2, Zenon
  <2>6. k = 4 => step = "serialiser" /\ x15 # "none"
    BY <1>10, <1>14, <2>1, <2>2, Zenon
  <2>7. k = 5 => step = "reset" /\ x15 # "none"
    BY <1>10, <1>14, <2>1, <2>2, Zenon
  <2>8. k = 6 => n = 6 /\ x15 = "none" /\ step \in {"start", "end"} /\ (step = "end" => m = "Exit")
    BY <1>10, <1>14, <2>1, <2>2, Zenon
  <2>. QED  BY <2>1, <2>2, <2>3, <2>4, <2>5, <2>6, <2>7, <2>8
<1>12. \/ step = "test" /\ x15 = "none" /\ k = 1 /\ x14'["cmd"] = AppLeft(m, 6)
       \/ ~(step = "test" /\ x15 = "none") /\ x14'["cmd"] = AppLeft(m, k + 1)
  <2>. DEFINE sq == IF step = "test" /\ x15 = "none" THEN SubSeq(x14["cmd"], 6,
        Len(x14["cmd"])) ELSE Tail(x14["cmd"])
  <2>1. x14'["cmd"] = sq
    BY <1>1, <1>3, Zenon DEF AppTypes
  <2>2. CASE step = "test" /\ x15 = "none"
    <3>1. k = 1
      BY <1>11, <2>2, Zenon
    <3>. QED  BY <1>7, <2>1, <2>2, <3>1, AppNoRun, Zenon
  <2>3. CASE ~(step = "test" /\ x15 = "none")
    BY <1>10, <2>1, <2>3, Zenon
  <2>. QED  BY <2>2, <2>3
<1>13. x14'["sig"] = <<>>
  BY <1>1, <1>3, Zenon DEF AppOneByOne, AppTypes
<1>. HIDE DEF step, n
<1>15. ~x16'
  BY <1>1, <1>11, Zenon
<1>16. /\ k \in 1 .. 4 /\ ~(step = "test" /\ x15 = "none") => x15' # "none"
       /\ k = 5 => x15' = "none"
       /\ k = 1 => x15' = x15
       /\ step = "end" => x15' = "none"
  <2>1. k \in 1 .. 4 => k # 5 /\ k # 6
    OBVIOUS
  <2>2. 1 # 5
    OBVIOUS
  <2>. QED  BY <1>1, <1>11, <2>1, <2>2
<1>17. AppSomewhere'
  <2>1. CASE step = "test" /\ x15 = "none" /\ k = 1 /\ x14'["cmd"] = AppLeft(m, 6)
    <3>1. 6 \in 1 .. n + 1 /\ 6 \notin 2 .. 5
      BY <1>9
    <3>2. AppAt(m, 6)'
      BY <1>2, <1>9, <1>14, <1>16, <2>1, <3>1, Zenon DEF AppAt, n
    <3>. QED  BY <3>1, <3>2, Zenon DEF AppSomewhere, n
  <2>2. CASE ~(step = "test" /\ x15 = "none") /\ x14'["cmd"] = AppLeft(m, k + 1)
    <3>1. k + 1 \in 1 .. n + 1
      BY <1>9
    <3>2. (k + 1 \in 2 .. 5 => x15' # "none") /\ (k + 1 = 6 => x15' = "none")
      <4>1. (k + 1 \in 2 .. 5 => k \in 1 .. 4) /\ (k + 1 = 6 => k = 5)
        BY <1>9
      <4>. QED  BY <1>16, <2>2, <4>1, Zenon
    <3>3. AppAt(m, k + 1)'
      BY <1>2, <1>9, <1>14, <2>2, <3>2, Zenon DEF AppAt, n
    <3>. QED  BY <3>1, <3>3, Zenon DEF AppSomewhere, n
  <2>. QED  BY <1>12, <2>1, <2>2, Zenon
<1>18. AppOneByOne'
  BY <1>2, <1>3, <1>13, <1>15, <1>17, <1>1, Zenon DEF AppOneByOne
<1>19. AppExitLast'
  <2>1. ASSUME ~x2'
        PROVE  x15' = "none" /\ x14'["cmd"] = <<>> /\ x9' = <<>> /\ x3' = "Over"
    <3>1. step = "end"
      BY <1>1, <1>4, <2>1, Zenon
    <3>2. k = 6 /\ m = "Exit" /\ n = 6
      BY <1>11, <3>1, Zenon
    <3>3. x14'["cmd"] = AppLeft(m, k + 1)
      BY <1>12, <3>1, Zenon
    <3>4. k + 1 \in 1 .. n + 1 /\ k + 1 > n
      BY <3>2
    <3>5. AppLeft(m, k + 1) = <<>>
      BY <3>4, AppLeftIs, Zenon DEF n
    <3>. QED  BY <1>2, <1>14, <1>16, <3>1, <3>2, <3>3, <3>5, Zenon
  <2>2. \A i \in DOMAIN x9' : x9'[i] = "Exit" => i = Len(x9') /\ x3' = "Over"
    BY <1>2, <1>3, Zenon DEF AppExitLast
  <2>. QED  BY <2>1, <2>2, Zenon DEF AppExitLast
<1>. QED  BY <1>18, <1>19

LEMMA AppHandle ==
  ASSUME NEW CONSTANT C, NEW CONSTANT F, NEW CONSTANT S, NEW CONSTANT Q,
         NEW r \in {"cmd", "sig"}, AppInv, App(C, F, S, Q)!Handle(r)
  PROVE  AppInv'
<1>1. AppTypes'
  <2>1. UNCHANGED <<x1, x6, x7, x9>>
    BY DEF App!Handle, App!commandVars, App!signalVars, App!flags, App!busVars, App!bounds
  <2>2. x16' \in BOOLEAN
    BY Zenon DEF App!Handle
  <2>3. x2' = (x2 /\ Head(x14[r]) # "end")
    BY Zenon DEF App!Handle
  <2>4. x2' \in BOOLEAN /\ (x1' \notin {"arm", "handler"} => ~x2')
    BY <2>1, <2>3, Zenon DEF AppInv, AppTypes
  <2>5. x14' \in [{"cmd", "sig"} -> Seq(AppStep)]
    <3>. DEFINE sq == IF Head(x14[r]) = "test" /\ x15 = "none" THEN SubSeq(x14[r], 6,
          Len(x14[r])) ELSE Tail(x14[r])
    <3>1. x14[r] \in Seq(AppStep) /\ x14[r] # <<>> /\ x14 \in [{"cmd", "sig"} -> Seq(AppStep)]
      BY DEF AppInv, AppTypes, App!Handle
    <3>2. sq \in Seq(AppStep)
      BY <3>1
    <3>3. x14' = [x14 EXCEPT ![r] = sq]
      BY Zenon DEF App!Handle
    <3>. HIDE DEF sq
    <3>. QED  BY <3>1, <3>2, <3>3, Zenon
  <2>6. AppTypes
    BY DEF AppInv
  <2>. QED  BY <2>1, <2>2, <2>4, <2>5, <2>6, Zenon DEF AppTypes
<1>2. ASSUME x6' = 0
      PROVE  AppOneByOne' /\ AppExitLast'
  <2>1. x6 = 0
    BY <1>2 DEF App!Handle, App!bounds
  <2>2. CASE r = "cmd"
    BY <1>1, <2>1, <2>2, AppHandleCommand, Zenon
  <2>3. CASE r = "sig"
    BY <2>1, <2>3, Zenon DEF AppInv, AppOneByOne, App!Handle
  <2>. QED  BY <2>2, <2>3, Zenon
<1>. QED  BY <1>1, <1>2, Zenon DEF AppInv

LEMMA AppCommandThread ==
  ASSUME NEW CONSTANT C, NEW CONSTANT F, NEW CONSTANT S, NEW CONSTANT Q,
         AppInv, App(C, F, S, Q)!CommandThread
  PROVE  AppInv'
<1>1. UNCHANGED <<x1, x2, x3, x6, x10, x13, x15, x16>>
  BY DEF App!CommandThread, App!Commands, App!signalVars, App!flags, App!busVars
<1>2. CASE App(C, F, S, Q)!Recv
  <2>. PICK m : m = Head(x9)
    OBVIOUS
  <2>1. /\ x7 = "recv" /\ x9 # <<>> /\ x9' = Tail(x9) /\ x7' = "handle"
        /\ x14' = [x14 EXCEPT !["cmd"] = AppSteps(m)] /\ m \in AppMessage
    <3>1. m \in AppMessage
      BY <1>2 DEF AppInv, AppTypes, App!Recv
    <3>. QED  BY <1>2, <3>1, AppIs, Zenon DEF App!Recv
  <2>2. AppLeft(m, 1) = AppSteps(m) /\ AppSteps(m) \in Seq(AppStep)
    <3>1. m \in AppMessage
      BY <2>1, Zenon
    <3>2. AppLeft(m, 1) = AppSteps(m)
      BY <3>1, AppNoRun, Zenon
    <3>3. AppSteps(m) \in Seq(AppStep)
      BY <3>1, AppStepsType, Zenon
    <3>. QED  BY <3>2, <3>3, Zenon
  <2>3. AppTypes'
    <3>1. x9' \in Seq(AppMessage) /\ x6' \in Nat
      BY <1>1, <2>1 DEF AppInv, AppTypes
    <3>2. x14' \in [{"cmd", "sig"} -> Seq(AppStep)]
      BY <2>1, <2>2, Zenon DEF AppInv, AppTypes
    <3>3. x1 # "arm"
      BY <2>1 DEF AppInv, AppTypes
    <3>. QED  BY <1>1, <3>1, <3>2, <3>3, Zenon DEF AppInv, AppTypes
  <2>4. ASSUME x6' = 0
        PROVE  AppOneByOne' /\ AppExitLast'
    <3>1. AppOneByOne /\ AppExitLast /\ AppTypes /\ x2
      BY <1>1, <2>1, <2>4, Zenon DEF AppInv, AppExitLast
    <3>2. x9 \in Seq(AppMessage) /\ \A i \in DOMAIN x9 : x9[i] = "Exit" => i = Len(x9) /\ x3 = "Over"
      BY <3>1, Zenon DEF AppTypes, AppExitLast
    <3>3. m = "Exit" => x9' = <<>> /\ x3' = "Over"
      <4>1. 1 \in DOMAIN x9 /\ m = x9[1]
        BY <2>1, <3>2
      <4>2. m = "Exit" => 1 = Len(x9) /\ x3 = "Over"
        BY <3>2, <4>1, Zenon
      <4>. QED  BY <1>1, <2>1, <3>2, <4>2
    <3>4. \A i \in DOMAIN x9' : x9'[i] = "Exit" => i = Len(x9') /\ x3' = "Over"
      BY <1>1, <2>1, <3>2
    <3>5. 1 \in 1 .. Len(AppSteps(m)) + 1 /\ 1 \notin 2 .. 5 /\ 1 # 6
      <4>. DEFINE n == Len(AppSteps(m))
      <4>1. n \in {5, 6}
        BY <2>1, AppStepsType, Zenon
      <4>. HIDE DEF n
      <4>2. 1 \in 1 .. n + 1 /\ 1 \notin 2 .. 5 /\ 1 # 6
        BY <4>1
      <4>. QED  BY <4>2, Zenon DEF n
    <3>6. x14'["cmd"] = AppLeft(m, 1) /\ x14'["sig"] = <<>>
      BY <2>1, <2>2, <3>1, Zenon DEF AppTypes, AppOneByOne
    <3>7. \E n \in AppMessage : \E k \in 1 .. Len(AppSteps(n)) + 1 : AppAt(n, k)'
      <4>1. AppAt(m, 1)'
        BY <3>3, <3>5, <3>6, Zenon DEF AppAt
      <4>. QED  BY <2>1, <3>5, <4>1, Zenon
    <3>8. AppSomewhere'
      BY <3>7, Zenon DEF AppSomewhere
    <3>. QED  BY <1>1, <2>1, <3>1, <3>4, <3>6, <3>8, Zenon DEF AppOneByOne, AppExitLast
  <2>. QED  BY <2>3, <2>4, Zenon DEF AppInv
<1>3. CASE ~App(C, F, S, Q)!Recv
  <2>1. /\ UNCHANGED x14 /\ x7 # "unborn"
        /\ x14["cmd"] # <<>> => x7 # "handle"
        /\ x9' = x9 \/ (x9' = <<>> /\ x7 # "handle")
    BY <1>3 DEF App!CommandThread, App!Dial, App!Handled, App!Finished, App!RecvFails, App!Reconnect
  <2>2. AppTypes'
    <3>1. x9 \in Seq(AppMessage) /\ <<>> \in Seq(AppMessage)
      BY DEF AppInv, AppTypes
    <3>. QED  BY <1>1, <2>1, <3>1, Zenon DEF AppInv, AppTypes
  <2>3. x6 = 0 /\ AppOneByOne => ~x16' /\ ~x13' /\ x10' # "handle" /\ x14["cmd"] = <<>>
    BY <1>1, <2>1, Zenon DEF AppOneByOne
  <2>. QED  BY <1>1, <2>1, <2>2, <2>3, AppElsewhere, Zenon
<1>. QED  BY <1>2, <1>3, Zenon

LEMMA AppSignalThread ==
  ASSUME NEW CONSTANT C, NEW CONSTANT F, NEW CONSTANT S, NEW CONSTANT Q,
         AppInv, App(C, F, S, Q)!SignalThread
  PROVE  AppInv'
<1>1. UNCHANGED <<x1, x2, x3, x6, x7, x9, x15, x16>>
  BY DEF App!SignalThread, App!Signals, App!commandVars, App!flags, App!busVars, App!bounds
<1>2. CASE App(C, F, S, Q)!Signalled
  <2>1. x13 /\ x14' = [x14 EXCEPT !["sig"] = AppSteps("Exit")]
    <3>1. "Exit" \in AppMessage
      BY DEF AppMessage
    <3>. QED  BY <1>2, <3>1, AppIs, Zenon DEF App!Signalled
  <2>2. AppSteps("Exit") \in Seq(AppStep)
    BY AppStepsType, Zenon DEF AppMessage
  <2>3. AppTypes'
    BY <1>1, <2>1, <2>2, Zenon DEF AppInv, AppTypes
  <2>. QED  BY <1>1, <2>1, <2>3, Zenon DEF AppInv, AppOneByOne
<1>3. CASE ~App(C, F, S, Q)!Signalled
  <2>1. UNCHANGED <<x13, x14>> /\ x10' # "handle"
    BY <1>3 DEF App!SignalThread, App!RunSignals, App!SignalsStop
  <2>2. AppTypes'
    BY <1>1, <2>1, Zenon DEF AppInv, AppTypes
  <2>3. x6 = 0 /\ AppOneByOne => ~x16' /\ ~x13' /\ (x14["cmd"] # <<>> => x7' = "handle")
    BY <1>1, <2>1, Zenon DEF AppOneByOne
  <2>. QED  BY <1>1, <2>1, <2>2, <2>3, AppElsewhere, Zenon
<1>. QED  BY <1>2, <1>3, Zenon

LEMMA AppMainThread ==
  ASSUME NEW CONSTANT C, NEW CONSTANT F, NEW CONSTANT S, NEW CONSTANT Q,
         AppInv, App(C, F, S, Q)!MainThread
  PROVE  AppInv'
<1>1. UNCHANGED <<x2, x3, x6, x9, x10, x13, x14, x15, x16>>
  BY DEF App!MainThread, App!Main, App!bounds
<1>2. /\ x1' # "arm"
      /\ x1' \notin {"arm", "handler"} => ~x2
      /\ x7' = x7 \/ x7 = "unborn"
  BY DEF App!MainThread, App!Arm, App!JoinBus, App!JoinStatus, App!JoinComm, App!JoinCmd, App!JoinSig,
     AppInv, AppTypes
<1>3. AppTypes'
  BY <1>1, <1>2, Zenon DEF AppInv, AppTypes
<1>4. x6 = 0 /\ AppOneByOne => ~x16' /\ ~x13' /\ x10' # "handle" /\ (x14["cmd"] # <<>> => x7' = "handle")
  BY <1>1, <1>2, Zenon DEF AppOneByOne
<1>. QED  BY <1>1, <1>3, <1>4, AppElsewhere, Zenon

LEMMA AppBus ==
  ASSUME NEW CONSTANT C, NEW CONSTANT F, NEW CONSTANT S, NEW CONSTANT Q,
         AppInv, \/ App(C, F, S, Q)!StatusThread
                 \/ App(C, F, S, Q)!CommThread
                 \/ UNCHANGED App(C, F, S, Q)!vars
  PROVE  AppInv'
<1>1. UNCHANGED <<x1, x2, x3, x6, x7, x9, x10, x13, x14, x15, x16>>
  BY DEF App!StatusThread, App!CommThread, App!Status, App!Bus, App!commandVars, App!signalVars, App!flags,
     App!bounds, App!vars, App!busVars
<1>2. AppTypes'
  BY <1>1, Zenon DEF AppInv, AppTypes
<1>3. x6 = 0 /\ AppOneByOne => ~x16' /\ ~x13' /\ x10' # "handle" /\ (x14["cmd"] # <<>> => x7' = "handle")
  BY <1>1, Zenon DEF AppOneByOne
<1>. QED  BY <1>1, <1>2, <1>3, AppElsewhere, Zenon

LEMMA AppNext ==
  ASSUME NEW CONSTANT C, NEW CONSTANT F, NEW CONSTANT S, NEW CONSTANT Q,
         App(C, F, S, Q)!IInv, [App(C, F, S, Q)!Next]_(App(C, F, S, Q)!vars)
  PROVE  App(C, F, S, Q)!IInv'
<1>1. AppInv
  BY AppIs, Zenon
<1>2. AppInv'
  BY <1>1, AppPublish, AppInterrupted, AppHandle, AppCommandThread, AppSignalThread, AppMainThread, AppBus,
     Zenon DEF App!Next, App!Threads, App!Receiver
<1>. QED  BY <1>2, AppIs, Zenon

\* Without an interrupt the run is closed when the process ends, and nobody finds it gone.
LEMMA AppEnds ==
  ASSUME NEW CONSTANT C, NEW CONSTANT F, NEW CONSTANT S, NEW CONSTANT Q,
         App(C, F, S, Q)!IInv
  PROVE  App(C, F, S, Q)!RunClosedAtExit /\ App(C, F, S, Q)!OneHandler
<1>1. AppInv
  BY AppIs, Zenon
<1>2. x1 = "done" /\ x6 = 0 => x15 = "none"
  <2>1. x1 = "done" => x1 \notin {"arm", "handler"}
    OBVIOUS
  <2>. QED  BY <1>1, <2>1, Zenon DEF AppInv, AppTypes, AppExitLast
<1>3. x16 => x6 > 0
  <2>1. x16 => x6 # 0
    BY <1>1, Zenon DEF AppInv, AppOneByOne
  <2>2. x6 \in Nat
    BY <1>1, Zenon DEF AppInv, AppTypes
  <2>3. x6 # 0 => x6 > 0
    BY <2>2
  <2>. QED  BY <2>1, <2>3, Zenon
<1>. QED  BY <1>2, <1>3, Zenon DEF App!RunClosedAtExit, App!OneHandler

(* --- System: x1 is its exp, x2 its app, x3 its last, x4 its inbox, x6 its outbox, x7  *)
(* its mode, x8 its target and x9 its resetting ------------------------------------------ *)
SysApps == {"Daqonite", "Daqontrol", "Daqsitter"}
SysModes == {"Ready", "Configured", "Started", "Running"}
SysSeen == {"Offline", "Unknown", "Initialising", "Ready", "Configured", "Started", "Running"}
SysCommand == {"Config", "StartData", "StopData", "StartRun", "StopRun", "Exit"}
SysStates == {"Configuring", "StartingData", "StoppingData", "StartingRun", "StoppingRun",
              "Init", "Ready", "Configured", "Started", "Running", "Error", "Exit"}
SysUnseen == {"Offline", "Unknown"}
SysLow == {"Ready", "Configured"}
SysRun == {"StartRun", "StopRun"}
SysData == {"StartData", "StopData"}
SysControl == {"Config", "StartData", "StopData"}

\* What System's invariant is made of, for an application in mode m that the Experiment sees in p, with
\* the statuses ob and the commands ib on their way.
SysSays(m, p, ob, s) == m = s /\ p \in SysUnseen \cup {s} /\ \A i \in DOMAIN ob : ob[i] = s
SysNone(ib, K) == \A i \in DOMAIN ib : ib[i] \notin K
SysLast(ib, K, k) == \A i \in DOMAIN ib : ib[i] \in K =>
                       ib[i] = k /\ \A j \in DOMAIN ib : i < j => ib[j] \notin K
SysTurns(m, p, ob, From, s) ==
  /\ m \in From \cup {s} /\ p \in SysUnseen \cup From \cup {s}
  /\ \A i \in DOMAIN ob : ob[i] \in From \cup {s}
  /\ \A i \in DOMAIN ob : ob[i] = s => m = s /\ \A j \in DOMAIN ob : i < j => ob[j] = s
  /\ p = s => m = s /\ \A i \in DOMAIN ob : ob[i] = s
SysStartsLast(ib) == \A i \in DOMAIN ib : ib[i] \in SysData =>
                       ib[i] = "StartData" /\ \A j \in DOMAIN ib : i < j => ib[j] \notin SysControl
SysLowOut(m, p, ob) == m \in SysLow /\ p \in SysUnseen \cup SysLow /\ \A i \in DOMAIN ob : ob[i] \in SysLow

\* It is seen otherwise, or heard, or lost, or says its mode; commands to it are lost.
SysHeard(m, p, ob, q, oc) == \/ oc = ob /\ q \in {p} \cup SysUnseen
                             \/ ob # <<>> /\ oc = Tail(ob) /\ q \in {p, Head(ob)}
                             \/ oc = <<>> /\ q = "Offline"
                             \/ oc = Append(ob, m) /\ q = p

LEMMA SysSaysStays ==
  ASSUME NEW m \in SysModes, NEW p \in SysSeen, NEW ob \in Seq(SysModes), NEW q, NEW oc, NEW s,
         SysHeard(m, p, ob, q, oc), SysSays(m, p, ob, s)
  PROVE  SysSays(m, q, oc, s)
<1>1. CASE oc = ob /\ q \in {p} \cup SysUnseen
  BY <1>1 DEF SysSays
<1>2. CASE ob # <<>> /\ oc = Tail(ob) /\ q \in {p, Head(ob)}
  BY <1>2 DEF SysSays
<1>3. CASE oc = <<>> /\ q = "Offline"
  BY <1>3 DEF SysSays, SysUnseen
<1>4. CASE oc = Append(ob, m) /\ q = p
  BY <1>4 DEF SysSays
<1>. QED  BY <1>1, <1>2, <1>3, <1>4, Zenon DEF SysHeard
LEMMA SysTurnsStays ==
  ASSUME NEW m \in SysModes, NEW p \in SysSeen, NEW ob \in Seq(SysModes), NEW q, NEW oc, NEW From, NEW s,
         s \notin SysUnseen,
         SysHeard(m, p, ob, q, oc), SysTurns(m, p, ob, From, s)
  PROVE  SysTurns(m, q, oc, From, s)
<1>1. CASE oc = ob /\ q \in {p} \cup SysUnseen
  BY <1>1 DEF SysTurns, SysUnseen
<1>2. CASE ob # <<>> /\ oc = Tail(ob) /\ q \in {p, Head(ob)}
  BY <1>2 DEF SysTurns
<1>3. CASE oc = <<>> /\ q = "Offline"
  BY <1>3 DEF SysTurns, SysUnseen
<1>4. CASE oc = Append(ob, m) /\ q = p
  BY <1>4 DEF SysTurns
<1>. QED  BY <1>1, <1>2, <1>3, <1>4, Zenon DEF SysHeard
LEMMA SysLowStays ==
  ASSUME NEW m \in SysModes, NEW p \in SysSeen, NEW ob \in Seq(SysModes), NEW q, NEW oc,
         SysHeard(m, p, ob, q, oc), SysLowOut(m, p, ob)
  PROVE  SysLowOut(m, q, oc)
<1>1. CASE oc = ob /\ q \in {p} \cup SysUnseen
  BY <1>1 DEF SysLowOut
<1>2. CASE ob # <<>> /\ oc = Tail(ob) /\ q \in {p, Head(ob)}
  BY <1>2 DEF SysLowOut
<1>3. CASE oc = <<>> /\ q = "Offline"
  BY <1>3 DEF SysLowOut, SysUnseen
<1>4. CASE oc = Append(ob, m) /\ q = p
  BY <1>4 DEF SysLowOut
<1>. QED  BY <1>1, <1>2, <1>3, <1>4, Zenon DEF SysHeard

\* Commands that are lost, taken or sent.
LEMMA SysNoCommands ==
  ASSUME NEW K, NEW k
  PROVE  SysNone(<<>>, K) /\ SysLast(<<>>, K, k) /\ SysStartsLast(<<>>)
  BY DEF SysNone, SysLast, SysStartsLast
LEMMA SysTaken ==
  ASSUME NEW ib \in Seq(SysCommand), ib # <<>>, NEW K, NEW k
  PROVE  /\ SysNone(ib, K) => SysNone(Tail(ib), K) /\ Head(ib) \notin K
         /\ SysLast(ib, K, k) => SysLast(Tail(ib), K, k)
         /\ SysLast(ib, K, k) /\ Head(ib) \in K => Head(ib) = k /\ SysNone(Tail(ib), K)
         /\ SysStartsLast(ib) => SysStartsLast(Tail(ib))
         /\ SysStartsLast(ib) /\ Head(ib) \in SysData =>
              Head(ib) = "StartData" /\ SysNone(Tail(ib), SysControl)
<1>1. SysNone(ib, K) => SysNone(Tail(ib), K) /\ Head(ib) \notin K
  BY DEF SysNone
<1>2. SysLast(ib, K, k) => SysLast(Tail(ib), K, k)
  BY DEF SysLast
<1>3. SysLast(ib, K, k) /\ Head(ib) \in K => Head(ib) = k /\ SysNone(Tail(ib), K)
  BY DEF SysLast, SysNone
<1>4. SysStartsLast(ib) => SysStartsLast(Tail(ib))
  BY DEF SysStartsLast
<1>5. SysStartsLast(ib) /\ Head(ib) \in SysData => Head(ib) = "StartData" /\ SysNone(Tail(ib), SysControl)
  BY DEF SysStartsLast, SysNone
<1>. QED  BY <1>1, <1>2, <1>3, <1>4, <1>5
LEMMA SysSent ==
  ASSUME NEW ib \in Seq(SysCommand), NEW c \in SysCommand, NEW K, NEW k, NEW ic,
         ic = ib \/ ic = Append(ib, c)
  PROVE  /\ ic \in Seq(SysCommand)
         /\ SysNone(ib, K) /\ c \notin K => SysNone(ic, K)
         /\ SysNone(ib, K) /\ c = k => SysLast(ic, K, k)
         /\ SysNone(ib, SysData) /\ c = "StartData" => SysStartsLast(ic)
<1>1. CASE ic = ib
  BY <1>1 DEF SysNone, SysLast, SysStartsLast
<1>2. CASE ic = Append(ib, c)
  <2>1. ic \in Seq(SysCommand)
    BY <1>2
  <2>2. SysNone(ib, K) /\ c \notin K => SysNone(ic, K)
    BY <1>2 DEF SysNone
  <2>3. SysNone(ib, K) /\ c = k => SysLast(ic, K, k)
    BY <1>2 DEF SysNone, SysLast
  <2>4. SysNone(ib, SysData) /\ c = "StartData" => SysStartsLast(ic)
    BY <1>2 DEF SysNone, SysStartsLast
  <2>. QED  BY <2>1, <2>2, <2>3, <2>4
<1>. QED  BY <1>1, <1>2

\* An application rests in mode s, or goes from s to t when told k; DAQontrol is below Started, takes data
\* or goes to its target g.
SysRests(m, p, ob, ib, s, K) == SysSays(m, p, ob, s) /\ SysNone(ib, K)
SysFollows(m, p, ob, ib, s, t, K, k) == \/ SysSays(m, p, ob, s) /\ SysLast(ib, K, k)
                                        \/ SysTurns(m, p, ob, {s}, t) /\ m = t /\ SysNone(ib, K)
SysStaysLow(m, p, ob, g) == g \in SysLow /\ SysLowOut(m, p, ob)
SysTakes(m, p, ob, g, r) == g = "Started" /\ ~r /\ SysSays(m, p, ob, "Started")
SysGoes(m, p, ob, ib, g, r, From, s) == g = s /\ ~r /\ SysTurns(m, p, ob, From, s) /\ SysNone(ib, SysControl)

\* What agrees with the state e of the Experiment.
SysTaking == {"Started", "StartingRun", "Running", "StoppingRun"}
SysOnite(e, m, p, ob, ib) ==
  /\ e = "StartingRun" => SysFollows(m, p, ob, ib, "Ready", "Running", SysRun, "StartRun")
  /\ e = "Running" => SysRests(m, p, ob, ib, "Running", SysRun)
  /\ e = "StoppingRun" => SysFollows(m, p, ob, ib, "Running", "Ready", SysRun, "StopRun")
  /\ e \notin {"Error", "Exit", "StartingRun", "Running", "StoppingRun"} => SysRests(m, p, ob, ib, "Ready",
        SysRun)
SysSitter(e, m, p, ob, ib) ==
  /\ e = "StartingData" => SysFollows(m, p, ob, ib, "Ready", "Started", SysData, "StartData")
  /\ e \in SysTaking => SysRests(m, p, ob, ib, "Started", SysData)
  /\ e = "StoppingData" => SysFollows(m, p, ob, ib, "Started", "Ready", SysData, "StopData")
  /\ e \notin SysTaking \cup {"Error", "Exit", "StartingData", "StoppingData"} =>
       SysRests(m, p, ob, ib, "Ready", SysData)
SysTrol(e, m, p, ob, ib, g, r) ==
  /\ e = "StartingData" => \/ SysStaysLow(m, p, ob, g) /\ SysStartsLast(ib)
                           \/ SysGoes(m, p, ob, ib, g, r, SysLow, "Started")
  /\ e \in SysTaking => SysTakes(m, p, ob, g, r) /\ SysNone(ib, SysControl)
  /\ e = "StoppingData" => \/ SysTakes(m, p, ob, g, r) /\ SysLast(ib, SysControl, "StopData")
                           \/ SysGoes(m, p, ob, ib, g, r, {"Started"}, "Configured")
  /\ e \notin SysTaking \cup {"Error", "Exit", "StartingData", "StoppingData"} =>
       SysStaysLow(m, p, ob, g) /\ SysNone(ib, SysData)

\* What the invariant says, of the variables.
SysAgree(e, app, ib, ob, mo, g, r) ==
  /\ SysOnite(e, mo["Daqonite"], app["Daqonite"], ob["Daqonite"], ib["Daqonite"])
  /\ SysSitter(e, mo["Daqsitter"], app["Daqsitter"], ob["Daqsitter"], ib["Daqsitter"])
  /\ SysTrol(e, mo["Daqontrol"], app["Daqontrol"], ob["Daqontrol"], ib["Daqontrol"], g, r)
SysToldOnite == x3 \notin {"StartRun", "StopRun", "Exit"} =>
                  x7["Daqonite"] = "Ready" /\ SysNone(x4["Daqonite"], {"StartRun"})
SysToldSitter == x3 \in {"none", "Config"} =>
                   x7["Daqsitter"] = "Ready" /\ SysNone(x4["Daqsitter"], {"StartData"})
SysTypes == /\ x1 \in SysStates /\ x9 \in BOOLEAN /\ x8 \in {"Ready", "Configured", "Started"}
      /\ x2 \in [SysApps -> SysSeen]
            /\ x7 \in [SysApps -> SysModes]
            /\ x4 \in [SysApps -> Seq(SysCommand)] /\ x6 \in [SysApps -> Seq(SysModes)]
SysInv == SysTypes /\ SysAgree(x1, x2, x4, x6, x7, x8, x9) /\ SysToldOnite /\ SysToldSitter

LEMMA SysPieces ==
  /\ \A a, s : System!Says(a, s) <=> SysSays(x7[a], x2[a], x6[a], s)
  /\ \A a, K : System!NoneOf(a, K) <=> SysNone(x4[a], K)
  /\ \A a, K, k : System!OnlyLast(a, K, k) <=> SysLast(x4[a], K, k)
  /\ \A a, F, s : System!Turns(a, F, s) <=> SysTurns(x7[a], x2[a], x6[a], F, s)
  /\ System!StaysLow <=> SysStaysLow(x7["Daqontrol"], x2["Daqontrol"], x6["Daqontrol"], x8)
  /\ System!StartsLast <=> SysStartsLast(x4["Daqontrol"])
<1>1. \A a, s : System!Says(a, s) <=> SysSays(x7[a], x2[a], x6[a], s)
  BY Zenon DEF System!Says, SysSays, System!Unseen, SysUnseen
<1>2. \A a, K : System!NoneOf(a, K) <=> SysNone(x4[a], K)
  BY Zenon DEF System!NoneOf, SysNone
<1>3. \A a, K, k : System!OnlyLast(a, K, k) <=> SysLast(x4[a], K, k)
  BY Zenon DEF System!OnlyLast, SysLast
<1>4. \A a, F, s : System!Turns(a, F, s) <=> SysTurns(x7[a], x2[a], x6[a], F, s)
  BY Zenon DEF System!Turns, SysTurns, System!Unseen, SysUnseen
<1>5. System!StaysLow <=> SysStaysLow(x7["Daqontrol"], x2["Daqontrol"], x6["Daqontrol"], x8)
  BY Zenon DEF System!StaysLow, SysStaysLow, SysLowOut, System!Unseen, SysUnseen, System!Low, SysLow
<1>6. System!StartsLast <=> SysStartsLast(x4["Daqontrol"])
  BY Zenon DEF System!StartsLast, SysStartsLast, System!DataCommands, SysData, System!ControlCommands,
         SysControl
<1>. QED  BY <1>1, <1>2, <1>3, <1>4, <1>5, <1>6, Zenon
LEMMA SysResting ==
  \A a, s, K : System!Rests(a, s, K) <=> SysRests(x7[a], x2[a], x6[a], x4[a], s, K)
<1>. TAKE a, s, K
<1>1. (System!Says(a, s) <=> SysSays(x7[a], x2[a], x6[a], s)) /\ (System!NoneOf(a, K) <=> SysNone(x4[a], K))
  BY SysPieces, Zenon
<1>. QED  BY <1>1, Zenon DEF System!Rests, SysRests
LEMMA SysFollowing ==
  \A a, s, u, K, k : System!Follows(a, s, u, K, k) <=> SysFollows(x7[a], x2[a], x6[a], x4[a], s, u, K, k)
<1>. TAKE a, s, u, K, k
<1>1. System!Says(a, s) <=> SysSays(x7[a], x2[a], x6[a], s)
  BY SysPieces, Zenon
<1>2. System!NoneOf(a, K) <=> SysNone(x4[a], K)
  BY SysPieces, Zenon
<1>3. System!OnlyLast(a, K, k) <=> SysLast(x4[a], K, k)
  BY SysPieces, Zenon
<1>4. System!Turns(a, {s}, u) <=> SysTurns(x7[a], x2[a], x6[a], {s}, u)
  BY SysPieces, Zenon
<1>. QED  BY <1>1, <1>2, <1>3, <1>4, Zenon DEF System!Follows, SysFollows
LEMMA SysAgreesIs ==
  ASSUME NEW CONSTANT e
  PROVE  System!Agrees(e) <=> SysAgree(e, x2, x4, x6, x7, x8, x9)
<1>. DEFINE n == "Daqonite"
            t == "Daqontrol"
            d == "Daqsitter"
<1>1. System!DaqoniteAgrees(e) <=> SysOnite(e, x7[n], x2[n], x6[n], x4[n])
  <2>1. /\ \A a, s, K : System!Rests(a, s, K) <=> SysRests(x7[a], x2[a], x6[a], x4[a], s, K)
        /\ \A a, s, u, K, k : System!Follows(a, s, u, K, k) <=> SysFollows(x7[a], x2[a], x6[a], x4[a], s,
              u, K, k)
    BY SysResting, SysFollowing, Zenon
  <2>2. SysRun = System!RunCommands
    BY Zenon DEF SysRun, System!RunCommands
  <2>. QED  BY <2>1, <2>2 DEF System!DaqoniteAgrees, SysOnite
<1>2. System!DaqsitterAgrees(e) <=> SysSitter(e, x7[d], x2[d], x6[d], x4[d])
  <2>1. /\ \A a, s, K : System!Rests(a, s, K) <=> SysRests(x7[a], x2[a], x6[a], x4[a], s, K)
        /\ \A a, s, u, K, k : System!Follows(a, s, u, K, k) <=> SysFollows(x7[a], x2[a], x6[a], x4[a], s,
              u, K, k)
    BY SysResting, SysFollowing, Zenon
  <2>2. SysData = System!DataCommands
    BY Zenon DEF SysData, System!DataCommands
  <2>. QED  BY <2>1, <2>2 DEF System!DaqsitterAgrees, SysSitter, System!TakingData, SysTaking
<1>3. System!DaqontrolAgrees(e) <=> SysTrol(e, x7[t], x2[t], x6[t], x4[t], x8, x9)
  <2>1. System!TakesData <=> SysTakes(x7[t], x2[t], x6[t], x8, x9)
    BY SysPieces, Zenon DEF System!TakesData, SysTakes
  <2>2. SysData = System!DataCommands /\ SysControl = System!ControlCommands /\ SysLow = System!Low
    BY Zenon DEF SysData, System!DataCommands, SysControl, System!ControlCommands, SysLow, System!Low
  <2>3. \A F, s : System!GoesTo(F, s) <=> SysGoes(x7[t], x2[t], x6[t], x4[t], x8, x9, F, s)
    BY SysPieces, <2>2, Zenon DEF System!GoesTo, SysGoes
  <2>. HIDE DEF t
  <2>. QED
    BY <2>1, <2>2, <2>3, SysPieces DEF t, System!DaqontrolAgrees, SysTrol, System!TakingData, SysTaking
<1>. QED  BY <1>1, <1>2, <1>3, Zenon DEF System!Agrees, SysAgree
LEMMA SysNames ==
  /\ System!Application = SysApps /\ System!Fsm!Command = SysCommand /\ System!Fsm!Experiment = SysStates
  /\ System!Unseen \cup {"Initialising", "Ready", "Configured", "Started", "Running"} = SysSeen
  /\ {"Ready", "Configured", "Started", "Running"} = SysModes
<1>1. System!Application = SysApps /\ System!Fsm!Command = SysCommand /\ {"Ready", "Configured", "Started",
      "Running"} = SysModes
  BY Zenon DEF System!Application, System!Fsm!Application, SysApps, System!Fsm!Command, SysCommand, SysModes
<1>2. System!Fsm!Experiment = SysStates
  BY DEF System!Fsm!Experiment, System!Fsm!Transitional, SysStates
<1>3. System!Unseen \cup {"Initialising", "Ready", "Configured", "Started", "Running"} = SysSeen
  BY DEF System!Unseen, SysSeen
<1>. QED  BY <1>1, <1>2, <1>3
LEMMA SysIs ==
  /\ System!IInv <=> SysInv
  /\ System!IInv' <=> SysInv'
<1>1. \A e : System!Agrees(e) <=> SysAgree(e, x2, x4, x6, x7, x8, x9)
  BY SysAgreesIs
<1>2. System!LastAgrees <=> SysToldOnite /\ SysToldSitter
  BY SysPieces, Zenon DEF System!LastAgrees, SysToldOnite, SysToldSitter
<1>3. System!IInv <=> SysInv
  BY <1>1, <1>2, SysNames, Zenon DEF System!IInv, SysInv, SysTypes
<1>. QED  BY <1>3, PTL

\* A state that is left for another without a command: what the applications are seen to do is what the
\* new state says.
LEMMA SysGoal ==
  ASSUME NEW m, NEW p, NEW ob, NEW ib, NEW s, NEW t, NEW K, NEW k, NEW F, NEW g, NEW r
  PROVE  /\ SysFollows(m, p, ob, ib, s, t, K, k) /\ p = t /\ s # t /\ t \notin SysUnseen =>
              SysRests(m, p, ob, ib, t, K)
         /\ SysGoes(m, p, ob, ib, g, r, F, "Started") /\ p = "Started" =>
              SysTakes(m, p, ob, g, r) /\ SysNone(ib, SysControl)
         /\ SysGoes(m, p, ob, ib, g, r, F, "Configured") /\ p = "Configured" =>
              SysStaysLow(m, p, ob, g) /\ SysNone(ib, SysData)
         /\ SysStaysLow(m, p, ob, g) => p # "Started"
         /\ SysTakes(m, p, ob, g, r) => p # "Configured"
<1>1. SysFollows(m, p, ob, ib, s, t, K, k) /\ p = t /\ s # t /\ t \notin SysUnseen => SysRests(m, p, ob,
      ib, t, K)
  BY Zenon DEF SysFollows, SysSays, SysTurns, SysRests
<1>2. SysGoes(m, p, ob, ib, g, r, F, "Started") /\ p = "Started" =>
        SysTakes(m, p, ob, g, r) /\ SysNone(ib, SysControl)
  BY Zenon DEF SysGoes, SysTurns, SysTakes, SysSays
<1>3. SysGoes(m, p, ob, ib, g, r, F, "Configured") /\ p = "Configured" =>
        SysStaysLow(m, p, ob, g) /\ SysNone(ib, SysData)
  <2>1. ASSUME SysGoes(m, p, ob, ib, g, r, F, "Configured"), p = "Configured"
        PROVE  SysStaysLow(m, p, ob, g)
    BY <2>1, Zenon DEF SysGoes, SysTurns, SysStaysLow, SysLowOut, SysLow
  <2>2. SysNone(ib, SysControl) => SysNone(ib, SysData)
    BY DEF SysNone, SysControl, SysData
  <2>. QED  BY <2>1, <2>2, Zenon DEF SysGoes
<1>4. (SysStaysLow(m, p, ob, g) => p # "Started") /\ (SysTakes(m, p, ob, g, r) => p # "Configured")
  BY DEF SysStaysLow, SysLowOut, SysLow, SysUnseen, SysTakes, SysSays
<1>. QED  BY <1>1, <1>2, <1>3, <1>4, Zenon

LEMMA SysReacts ==
  ASSUME NEW e \in SysStates, NEW p, NEW ib, NEW ob, NEW mo, NEW g, NEW r,
         SysAgree(e, p, ib, ob, mo, g, r)
  PROVE  /\ SysAgree(System!Fsm!React(e, "Online", p), p, ib, ob, mo, g, r)
         /\ System!Fsm!React(e, "Online", p) \in SysStates
<1>. DEFINE R == System!Fsm!React(e, "Online", p)
            n == "Daqonite"
            t == "Daqontrol"
            d == "Daqsitter"
<1>1. SysAgree("Error", p, ib, ob, mo, g, r)
  BY DEF SysAgree, SysOnite, SysSitter, SysTrol, SysTaking
<1>2. SysAgree("Init", p, ib, ob, mo, g, r) => SysAgree("Ready", p, ib, ob, mo, g, r)
  BY DEF SysAgree, SysOnite, SysSitter, SysTrol, SysTaking
<1>3. SysAgree("Configuring", p, ib, ob, mo, g, r) => SysAgree("Configured", p, ib, ob, mo, g, r)
  BY DEF SysAgree, SysOnite, SysSitter, SysTrol, SysTaking
<1>4. ASSUME e \in {"StoppingData"}, p[n] = "Ready", p[t] = "Configured", p[d] = "Ready"
      PROVE  SysAgree("Configured", p, ib, ob, mo, g, r)
  <2>1. SysRests(mo[d], p[d], ob[d], ib[d], "Ready", SysData)
    BY <1>4, SysGoal DEF SysAgree, SysSitter, SysUnseen
  <2>2. SysStaysLow(mo[t], p[t], ob[t], g) /\ SysNone(ib[t], SysData)
    BY <1>4, SysGoal DEF SysAgree, SysTrol
  <2>. QED  BY <1>4, <2>1, <2>2 DEF SysAgree, SysOnite, SysSitter, SysTrol, SysTaking
<1>5. ASSUME e = "StartingData", p[n] = "Ready", p[t] = "Started", p[d] = "Started"
      PROVE  SysAgree("Started", p, ib, ob, mo, g, r)
  <2>1. SysRests(mo[d], p[d], ob[d], ib[d], "Started", SysData)
    BY <1>5, SysGoal DEF SysAgree, SysSitter, SysUnseen
  <2>2. SysTakes(mo[t], p[t], ob[t], g, r) /\ SysNone(ib[t], SysControl)
    BY <1>5, SysGoal DEF SysAgree, SysTrol
  <2>. QED  BY <1>5, <2>1, <2>2 DEF SysAgree, SysOnite, SysSitter, SysTrol, SysTaking
<1>6. ASSUME e = "StoppingRun", p[n] = "Ready"
      PROVE  SysAgree("Started", p, ib, ob, mo, g, r)
  <2>1. SysRests(mo[n], p[n], ob[n], ib[n], "Ready", SysRun)
    BY <1>6, SysGoal DEF SysAgree, SysOnite, SysUnseen
  <2>. QED  BY <1>6, <2>1 DEF SysAgree, SysOnite, SysSitter, SysTrol, SysTaking
<1>7. ASSUME e = "StartingRun", p[n] = "Running"
      PROVE  SysAgree("Running", p, ib, ob, mo, g, r)
  <2>1. SysRests(mo[n], p[n], ob[n], ib[n], "Running", SysRun)
    BY <1>7, SysGoal DEF SysAgree, SysOnite, SysUnseen
  <2>. QED  BY <1>7, <2>1 DEF SysAgree, SysOnite, SysSitter, SysTrol, SysTaking
<1>8. \/ R = "Error"
      \/ R = e
      \/ e = "Init" /\ R = "Ready"
      \/ e = "Configuring" /\ R = "Configured"
      \/ e = "StoppingData" /\ R = "Configured" /\ p[n] = "Ready" /\ p[t] = "Configured" /\ p[d] = "Ready"
      \/ e = "StartingData" /\ R = "Started" /\ p[n] = "Ready" /\ p[t] = "Started" /\ p[d] = "Started"
      \/ e = "StoppingRun" /\ R = "Started" /\ p[n] = "Ready"
      \/ e = "StartingRun" /\ R = "Running" /\ p[n] = "Running"
  BY DEF System!Fsm!React, System!Fsm!GoalReached, System!Fsm!Goal, System!Fsm!AppsAre, SysStates,
     System!Fsm!Transitional
<1>. HIDE DEF R
<1>9. SysAgree(R, p, ib, ob, mo, g, r) /\ R \in SysStates
  <2>1. "Error" \in SysStates /\ "Ready" \in SysStates /\ "Configured" \in SysStates /\ "Started" \in SysStates
        /\ "Running" \in SysStates
    BY DEF SysStates
  <2>. QED  BY <1>1, <1>2, <1>3, <1>4, <1>5, <1>6, <1>7, <1>8, <2>1
<1>. QED  BY <1>9 DEF R
LEMMA SysSettles ==
  ASSUME NEW e \in SysStates, NEW p, NEW ib, NEW ob, NEW mo, NEW g, NEW r,
         SysAgree(e, p, ib, ob, mo, g, r)
  PROVE  /\ SysAgree(System!Fsm!Settle(e, "Online", p), p, ib, ob, mo, g, r)
         /\ System!Fsm!Settle(e, "Online", p) \in SysStates
<1>. DEFINE f == System!Fsm!React(e, "Online", p)
<1>1. SysAgree(f, p, ib, ob, mo, g, r) /\ f \in SysStates
  BY SysReacts
<1>. HIDE DEF f
<1>2. /\ SysAgree(System!Fsm!React(f, "Online", p), p, ib, ob, mo, g, r)
      /\ System!Fsm!React(f, "Online", p) \in SysStates
  BY <1>1, SysReacts
<1>. QED  BY <1>2, Zenon DEF f, System!Fsm!Settle

SysAllHeard(p, ib, ob, mo, q, ic, oc) ==
  \A a \in SysApps : SysHeard(mo[a], p[a], ob[a], q[a], oc[a]) /\ (ic[a] = ib[a] \/ ic[a] = <<>>)
\* What leaves the modes, the target and the commands that are not lost as they are, leaves them agreeing
\* with the state e.
LEMMA SysHeardAgrees ==
  ASSUME NEW e \in SysStates, NEW g, NEW r,
         NEW p \in [SysApps -> SysSeen], NEW ib, NEW ob \in [SysApps -> Seq(SysModes)],
               NEW mo \in [SysApps -> SysModes],
         SysAgree(e, p, ib, ob, mo, g, r),
         NEW q, NEW ic, NEW oc, SysAllHeard(p, ib, ob, mo, q, ic, oc)
  PROVE  SysAgree(e, q, ic, oc, mo, g, r)
<1>1. ASSUME NEW a \in SysApps, NEW s \in SysModes, NEW t \in SysModes, NEW K, NEW k
      PROVE  /\ SysRests(mo[a], p[a], ob[a], ib[a], s, K) => SysRests(mo[a], q[a], oc[a], ic[a], s, K)
             /\ SysFollows(mo[a], p[a], ob[a], ib[a], s, t, K, k) => SysFollows(mo[a], q[a], oc[a], ic[a],
                   s, t, K, k)
             /\ SysStaysLow(mo[a], p[a], ob[a], g) => SysStaysLow(mo[a], q[a], oc[a], g)
             /\ SysStartsLast(ib[a]) => SysStartsLast(ic[a])
             /\ SysTakes(mo[a], p[a], ob[a], g, r) => SysTakes(mo[a], q[a], oc[a], g, r)
             /\ SysNone(ib[a], K) => SysNone(ic[a], K)
             /\ SysLast(ib[a], K, k) => SysLast(ic[a], K, k)
  <2>1. /\ mo[a] \in SysModes /\ p[a] \in SysSeen /\ ob[a] \in Seq(SysModes)
        /\ SysHeard(mo[a], p[a], ob[a], q[a], oc[a]) /\ (ic[a] = ib[a] \/ ic[a] = <<>>)
    BY DEF SysAllHeard
  <2>2. s \notin SysUnseen /\ t \notin SysUnseen /\ "Started" \in SysModes /\ "Started" \notin SysUnseen
    BY DEF SysModes, SysUnseen
  <2>3. /\ SysSays(mo[a], p[a], ob[a], s) => SysSays(mo[a], q[a], oc[a], s)
        /\ SysSays(mo[a], p[a], ob[a], "Started") => SysSays(mo[a], q[a], oc[a], "Started")
    BY <2>1, SysSaysStays, Zenon
  <2>4. SysTurns(mo[a], p[a], ob[a], {s}, t) => SysTurns(mo[a], q[a], oc[a], {s}, t)
    BY <2>1, <2>2, SysTurnsStays, Zenon
  <2>5. SysLowOut(mo[a], p[a], ob[a]) => SysLowOut(mo[a], q[a], oc[a])
    BY <2>1, SysLowStays, Zenon
  <2>6. /\ SysNone(ib[a], K) => SysNone(ic[a], K)
        /\ SysLast(ib[a], K, k) => SysLast(ic[a], K, k)
        /\ SysStartsLast(ib[a]) => SysStartsLast(ic[a])
    BY <2>1, SysNoCommands, Zenon
  <2>. QED
    BY <2>3, <2>4, <2>5, <2>6, Zenon DEF SysRests, SysFollows, SysStaysLow, SysTakes
<1>2. ASSUME NEW F, NEW s \in SysModes
      PROVE  SysGoes(mo["Daqontrol"], p["Daqontrol"], ob["Daqontrol"], ib["Daqontrol"], g, r, F, s) =>
             SysGoes(mo["Daqontrol"], q["Daqontrol"], oc["Daqontrol"], ic["Daqontrol"], g, r, F, s)
  <2>1. "Daqontrol" \in SysApps /\ s \notin SysUnseen
    BY DEF SysApps, SysModes, SysUnseen
  <2>2. mo["Daqontrol"] \in SysModes /\ p["Daqontrol"] \in SysSeen /\ ob["Daqontrol"] \in Seq(SysModes)
    BY <2>1
  <2>3. /\ SysHeard(mo["Daqontrol"], p["Daqontrol"], ob["Daqontrol"], q["Daqontrol"], oc["Daqontrol"])
        /\ SysNone(ib["Daqontrol"], SysControl) => SysNone(ic["Daqontrol"], SysControl)
    BY <2>1, SysNoCommands, Zenon DEF SysAllHeard
  <2>4. SysTurns(mo["Daqontrol"], p["Daqontrol"], ob["Daqontrol"], F, s) =>
        SysTurns(mo["Daqontrol"], q["Daqontrol"], oc["Daqontrol"], F, s)
    BY <2>1, <2>2, <2>3, SysTurnsStays, Zenon
  <2>. QED  BY <2>3, <2>4, Zenon DEF SysGoes
<1>3. "Daqonite" \in SysApps /\ "Daqsitter" \in SysApps /\ "Daqontrol" \in SysApps
      /\ "Ready" \in SysModes /\ "Started" \in SysModes /\ "Running" \in SysModes /\ "Configured" \in SysModes
  BY DEF SysApps, SysModes
<1>4. SysOnite(e, mo["Daqonite"], q["Daqonite"], oc["Daqonite"], ic["Daqonite"])
  BY <1>1, <1>3, Zenon DEF SysAgree, SysOnite
<1>5. SysSitter(e, mo["Daqsitter"], q["Daqsitter"], oc["Daqsitter"], ic["Daqsitter"])
  BY <1>1, <1>3, Zenon DEF SysAgree, SysSitter
<1>6. SysTrol(e, mo["Daqontrol"], q["Daqontrol"], oc["Daqontrol"], ic["Daqontrol"], g, r)
  BY <1>1, <1>2, <1>3, Zenon DEF SysAgree, SysTrol
<1>. QED  BY <1>4, <1>5, <1>6, Zenon DEF SysAgree

LEMMA SysToldStays ==
  ASSUME SysTypes, SysToldOnite, SysToldSitter, x3' = x3, x7' = x7,
         \A a \in SysApps : x4'[a] = x4[a] \/ x4'[a] = <<>>
  PROVE  SysToldOnite' /\ SysToldSitter'
<1>1. "Daqonite" \in SysApps /\ "Daqsitter" \in SysApps
  BY DEF SysApps
<1>2. /\ SysNone(x4["Daqonite"], {"StartRun"}) => SysNone(x4'["Daqonite"], {"StartRun"})
      /\ SysNone(x4["Daqsitter"], {"StartData"}) => SysNone(x4'["Daqsitter"], {"StartData"})
  BY <1>1, SysNoCommands, Zenon
<1>. QED  BY <1>2, Zenon DEF SysToldOnite, SysToldSitter

LEMMA SysQuiet ==
  ASSUME SysInv, UNCHANGED <<x3, x7, x8, x9>>,
         x2' \in [SysApps -> SysSeen], x4' \in [SysApps -> Seq(SysCommand)], x6' \in [SysApps -> Seq(SysModes)],
         \A a \in SysApps : SysHeard(x7[a], x2[a], x6[a], x2'[a], x6'[a]) /\ (x4'[a] = x4[a] \/ x4'[a] = <<>>),
         x1' = x1 \/ x1' = System!Fsm!Settle(x1, "Online", x2')
  PROVE  SysInv'
<1>1. SysAgree(x1, x2', x4', x6', x7, x8, x9) /\ x1 \in SysStates
  <2>1. /\ SysAgree(x1, x2, x4, x6, x7, x8, x9) /\ x1 \in SysStates /\ x2 \in [SysApps -> SysSeen]
        /\ x6 \in [SysApps -> Seq(SysModes)] /\ x7 \in [SysApps -> SysModes]
    BY Zenon DEF SysInv, SysTypes
  <2>2. SysAllHeard(x2, x4, x6, x7, x2', x4', x6')
    BY Zenon DEF SysAllHeard
  <2>. QED  BY <2>1, <2>2, SysHeardAgrees, Zenon
<1>2. SysAgree(x1', x2', x4', x6', x7', x8', x9') /\ x1' \in SysStates
  BY <1>1, SysSettles, Zenon
<1>3. SysTypes'
  BY <1>2, Zenon DEF SysInv, SysTypes
<1>4. SysToldOnite' /\ SysToldSitter'
  BY SysToldStays, Zenon DEF SysInv
<1>. QED  BY <1>2, <1>3, <1>4, Zenon DEF SysInv

\* Observers and statuses, lost commands, and the controllers that are dropped.
LEMMA SysObserved ==
  ASSUME SysInv, NEW a \in SysApps,
         System!Dial(a) \/ System!Hear(a) \/ System!Lose(a) \/ System!Report(a)
  PROVE  SysInv'
<1>1. UNCHANGED <<x3, x4, x7, x8, x9>>
  BY DEF System!Dial, System!Hear, System!Lose, System!Report, System!Applications, System!Away, System!control,
     System!AppBecomes, System!fsmVars
<1>2. x1 \in SysStates /\ x2 \in [SysApps -> SysSeen] /\ x4 \in [SysApps -> Seq(SysCommand)]
      /\ x6 \in [SysApps -> Seq(SysModes)] /\ x7 \in [SysApps -> SysModes]
  BY Zenon DEF SysInv, SysTypes
<1>3. SysModes \subseteq SysSeen /\ SysUnseen \subseteq SysSeen /\ "Offline" \in SysUnseen
      /\ "Unknown" \in SysUnseen
  BY DEF SysModes, SysSeen, SysUnseen
<1>4. \A q : System!AppBecomes(a, q) =>
        x2' = [x2 EXCEPT ![a] = q] /\ x1' = System!Fsm!Settle(x1, "Online", x2')
  BY Zenon DEF System!AppBecomes
<1>5. \E q, oc : /\ SysHeard(x7[a], x2[a], x6[a], q, oc)
                 /\ q \in SysSeen /\ oc \in Seq(SysModes)
                 /\ x2' = [x2 EXCEPT ![a] = q] /\ x6' = [x6 EXCEPT ![a] = oc]
                 /\ x1' = x1 \/ x1' = System!Fsm!Settle(x1, "Online", x2')
  <2>1. CASE System!Dial(a)
    <3>1. /\ x2' = [x2 EXCEPT ![a] = "Unknown"] /\ x6' = [x6 EXCEPT ![a] = x6[a]]
          /\ x1' = System!Fsm!Settle(x1, "Online", x2')
      <4>1. x6' = x6 /\ System!AppBecomes(a, "Unknown")
        BY <2>1, Zenon DEF System!Dial
      <4>. QED  BY <1>2, <1>4, <4>1
    <3>2. SysHeard(x7[a], x2[a], x6[a], "Unknown", x6[a])
      BY <1>3 DEF SysHeard
    <3>. QED  BY <1>2, <1>3, <3>1, <3>2
  <2>2. CASE System!Hear(a)
    <3>1. x6[a] # <<>> /\ x6' = [x6 EXCEPT ![a] = Tail(x6[a])] /\ Head(x6[a]) \in SysModes
          /\ Tail(x6[a]) \in Seq(SysModes)
      BY <1>2, <2>2 DEF System!Hear
    <3>2. \/ System!AppBecomes(a, Head(x6[a]))
          \/ x1' = x1 /\ x2' = x2
      BY <2>2 DEF System!Hear, System!fsmVars
    <3>3. \/ x2' = [x2 EXCEPT ![a] = Head(x6[a])] /\ x1' = System!Fsm!Settle(x1, "Online", x2')
          \/ x2' = [x2 EXCEPT ![a] = x2[a]] /\ x1' = x1
      BY <1>2, <1>4, <3>2
    <3>4. /\ SysHeard(x7[a], x2[a], x6[a], Head(x6[a]), Tail(x6[a]))
          /\ SysHeard(x7[a], x2[a], x6[a], x2[a], Tail(x6[a]))
      BY <3>1 DEF SysHeard
    <3>5. x2[a] \in SysSeen /\ Head(x6[a]) \in SysSeen
      BY <1>2, <1>3, <3>1
    <3>. QED  BY <3>1, <3>3, <3>4, <3>5, Zenon
  <2>3. CASE System!Lose(a)
    <3>1. x6' = [x6 EXCEPT ![a] = <<>>] /\ System!AppBecomes(a, "Offline")
      BY <2>3, Zenon DEF System!Lose
    <3>2. SysHeard(x7[a], x2[a], x6[a], "Offline", <<>>) /\ <<>> \in Seq(SysModes) /\ "Offline" \in SysSeen
      BY <1>3 DEF SysHeard
    <3>. QED  BY <1>4, <3>1, <3>2, Zenon
  <2>4. CASE System!Report(a)
    <3>1. x6' = [x6 EXCEPT ![a] = Append(x6[a], x7[a])] /\ x1' = x1 /\ x2' = [x2 EXCEPT ![a] = x2[a]]
      BY <1>2, <2>4 DEF System!Report, System!Away, System!fsmVars
    <3>2. SysHeard(x7[a], x2[a], x6[a], x2[a], Append(x6[a], x7[a])) /\ Append(x6[a], x7[a]) \in Seq(SysModes)
          /\ x2[a] \in SysSeen
      BY <1>2 DEF SysHeard
    <3>. QED  BY <3>1, <3>2, Zenon
  <2>. QED  BY <2>1, <2>2, <2>3, <2>4
<1>6. PICK q, oc : /\ SysHeard(x7[a], x2[a], x6[a], q, oc)
                   /\ q \in SysSeen /\ oc \in Seq(SysModes)
                   /\ x2' = [x2 EXCEPT ![a] = q] /\ x6' = [x6 EXCEPT ![a] = oc]
                   /\ x1' = x1 \/ x1' = System!Fsm!Settle(x1, "Online", x2')
  BY <1>5
<1>7. x2' \in [SysApps -> SysSeen] /\ x6' \in [SysApps -> Seq(SysModes)]
  BY <1>2, <1>6
<1>8. ASSUME NEW b \in SysApps
      PROVE  SysHeard(x7[b], x2[b], x6[b], x2'[b], x6'[b])
  <2>1. CASE b = a
    <3>1. x2'[a] = q /\ x6'[a] = oc
      BY <1>2, <1>6, Zenon
    <3>. QED  BY <1>6, <2>1, <3>1, Zenon
  <2>2. CASE b # a
    <3>1. x2'[b] = x2[b] /\ x6'[b] = x6[b]
      BY <1>2, <1>6, <2>2, Zenon
    <3>. QED  BY <3>1, Zenon DEF SysHeard
  <2>. QED  BY <2>1, <2>2
<1>. QED  BY <1>1, <1>2, <1>6, <1>7, <1>8, SysQuiet, Zenon

LEMMA SysLinks ==
  ASSUME SysInv, \/ \E a \in SysApps : System!Unlink(a) \/ System!Relink(a)
                 \/ System!DropAll
                 \/ UNCHANGED System!vars
  PROVE  SysInv'
<1>1. UNCHANGED <<x1, x2, x3, x6, x7, x8, x9>>
  BY DEF System!Unlink, System!Relink, System!DropAll, System!vars, System!Away, System!fsmVars, System!control
<1>2. x4' = x4 \/ \E a \in SysApps : x4' = [x4 EXCEPT ![a] = <<>>]
  BY DEF System!Unlink, System!Relink, System!DropAll, System!vars
<1>3. /\ x2 \in [SysApps -> SysSeen] /\ x4 \in [SysApps -> Seq(SysCommand)] /\ x6 \in [SysApps -> Seq(SysModes)]
      /\ <<>> \in Seq(SysCommand)
  BY DEF SysInv, SysTypes
<1>4. x4' \in [SysApps -> Seq(SysCommand)] /\ \A a \in SysApps : x4'[a] = x4[a] \/ x4'[a] = <<>>
  BY <1>2, <1>3
<1>5. \A a \in SysApps : SysHeard(x7[a], x2[a], x6[a], x2'[a], x6'[a])
  BY <1>1, Zenon DEF SysHeard
<1>. QED  BY <1>1, <1>3, <1>4, <1>5, SysQuiet, Zenon

\* What one application is told or does leaves the others as they are.
LEMMA SysOnlyOnite ==
  ASSUME SysInv, UNCHANGED <<x1, x2, x3, x6, x8, x9>>, x7' \in [SysApps -> SysModes],
         x4' \in [SysApps -> Seq(SysCommand)],
         \A b \in SysApps : b # "Daqonite" => x7'[b] = x7[b] /\ x4'[b] = x4[b],
         SysOnite(x1, x7'["Daqonite"], x2["Daqonite"], x6["Daqonite"], x4'["Daqonite"]), SysToldOnite'
  PROVE  SysInv'
<1>1. "Daqontrol" \in SysApps /\ "Daqsitter" \in SysApps /\ "Daqontrol" # "Daqonite" /\ "Daqsitter" # "Daqonite"
  BY DEF SysApps
<1>2. SysToldSitter'
  BY <1>1, Zenon DEF SysInv, SysToldSitter
<1>. QED  BY <1>1, <1>2, Zenon DEF SysInv, SysAgree, SysTypes
LEMMA SysOnlySitter ==
  ASSUME SysInv, UNCHANGED <<x1, x2, x3, x6, x8, x9>>, x7' \in [SysApps -> SysModes],
         x4' \in [SysApps -> Seq(SysCommand)],
         \A b \in SysApps : b # "Daqsitter" => x7'[b] = x7[b] /\ x4'[b] = x4[b],
         SysSitter(x1, x7'["Daqsitter"], x2["Daqsitter"], x6["Daqsitter"], x4'["Daqsitter"]), SysToldSitter'
  PROVE  SysInv'
<1>1. "Daqontrol" \in SysApps /\ "Daqonite" \in SysApps /\ "Daqontrol" # "Daqsitter" /\ "Daqonite" # "Daqsitter"
  BY DEF SysApps
<1>2. SysToldOnite'
  BY <1>1, Zenon DEF SysInv, SysToldOnite
<1>. QED  BY <1>1, <1>2, Zenon DEF SysInv, SysAgree, SysTypes
LEMMA SysOnlyTrol ==
  ASSUME SysInv, UNCHANGED <<x1, x2, x3, x6>>, x7' \in [SysApps -> SysModes],
         x4' \in [SysApps -> Seq(SysCommand)],
         x8' \in {"Ready", "Configured", "Started"}, x9' \in BOOLEAN,
         \A b \in SysApps : b # "Daqontrol" => x7'[b] = x7[b] /\ x4'[b] = x4[b],
         SysTrol(x1, x7'["Daqontrol"], x2["Daqontrol"], x6["Daqontrol"], x4'["Daqontrol"], x8', x9')
  PROVE  SysInv'
<1>1. "Daqsitter" \in SysApps /\ "Daqonite" \in SysApps /\ "Daqsitter" # "Daqontrol" /\ "Daqonite" # "Daqontrol"
  BY DEF SysApps
<1>2. SysToldOnite' /\ SysToldSitter'
  BY <1>1, Zenon DEF SysInv, SysToldOnite, SysToldSitter
<1>. QED  BY <1>1, <1>2, Zenon DEF SysInv, SysAgree, SysTypes

\* An application that is told to go from s to t, by the command k that comes first in ib.
LEMMA SysObeys ==
  ASSUME NEW s, NEW t, s # t, t \notin SysUnseen, NEW m, NEW p, NEW ob, NEW ib \in Seq(SysCommand),
         ib # <<>>, NEW K, NEW k, k \in K
  PROVE  /\ SysFollows(m, p, ob, ib, s, t, K, k) /\ Head(ib) \in K =>
              /\ Head(ib) = k /\ SysFollows(t, p, ob, Tail(ib), s, t, K, k)
         /\ SysFollows(m, p, ob, ib, s, t, K, k) /\ Head(ib) \notin K =>
              SysFollows(m, p, ob, Tail(ib), s, t, K, k)
         /\ SysRests(m, p, ob, ib, s, K) => Head(ib) \notin K /\ SysRests(m, p, ob, Tail(ib), s, K)
<1>1. SysSays(m, p, ob, s) => SysTurns(t, p, ob, {s}, t)
  BY Zenon DEF SysSays, SysTurns
<1>. QED  BY <1>1, SysTaken, Zenon DEF SysFollows, SysRests

LEMMA SysHandleOnite ==
  ASSUME SysInv, System!Handle("Daqonite")
  PROVE  SysInv'
<1>. DEFINE n == "Daqonite"
            c == Head(x4[n])
            m == IF c = "StartRun" THEN "Running" ELSE IF c = "StopRun" THEN "Ready" ELSE x7[n]
<1>1. /\ x4[n] # <<>> /\ x4' = [x4 EXCEPT ![n] = Tail(@)] /\ UNCHANGED <<x1, x2, x3, x6, x8, x9>>
      /\ x7' = [x7 EXCEPT ![n] = m]
  BY DEF System!Handle, System!After, System!Away, System!fsmVars
<1>2. n \in SysApps /\ x4 \in [SysApps -> Seq(SysCommand)] /\ x7 \in [SysApps -> SysModes]
      /\ x4[n] \in Seq(SysCommand)
  BY DEF SysInv, SysTypes, SysApps
<1>3. m \in SysModes /\ Tail(x4[n]) \in Seq(SysCommand)
  BY <1>1, <1>2 DEF SysModes
<1>. HIDE DEF m
<1>4. /\ x7' \in [SysApps -> SysModes] /\ x4' \in [SysApps -> Seq(SysCommand)]
      /\ \A b \in SysApps : b # n => x7'[b] = x7[b] /\ x4'[b] = x4[b]
      /\ x7'[n] = m /\ x4'[n] = Tail(x4[n])
  BY <1>1, <1>2, <1>3, Zenon
<1>. DEFINE p == x2[n]
            ob == x6[n]
            ib == x4[n]
<1>5. SysOnite(x1, x7[n], p, ob, ib)
  BY Zenon DEF SysInv, SysAgree
<1>6. SysOnite(x1, m, p, ob, Tail(ib))
  <2>. HIDE DEF p, ob
  <2>0. /\ c \in SysRun <=> c = "StartRun" \/ c = "StopRun"
        /\ "StartRun" \in SysRun /\ "StopRun" \in SysRun /\ "Ready" # "Running" /\ "StartRun" # "StopRun"
        /\ "Ready" \notin SysUnseen /\ "Running" \notin SysUnseen
    BY DEF SysRun, SysUnseen
  <2>1. ASSUME x1 = "StartingRun"
        PROVE  SysFollows(m, p, ob, Tail(ib), "Ready", "Running", SysRun, "StartRun")
    <3>1. SysFollows(x7[n], p, ob, ib, "Ready", "Running", SysRun, "StartRun")
      BY <1>5, <2>1, Zenon DEF SysOnite
    <3>2. CASE c \in SysRun
      <4>1. c = "StartRun" /\ SysFollows("Running", p, ob, Tail(ib), "Ready", "Running", SysRun, "StartRun")
        BY <1>1, <1>2, <2>0, <3>1, <3>2, SysObeys, Zenon
      <4>2. m = "Running"
        BY <2>0, <4>1, Zenon DEF m
      <4>. QED  BY <4>1, <4>2, Zenon
    <3>3. CASE c \notin SysRun
      <4>1. SysFollows(x7[n], p, ob, Tail(ib), "Ready", "Running", SysRun, "StartRun")
        BY <1>1, <1>2, <2>0, <3>1, <3>3, SysObeys, Zenon
      <4>2. m = x7[n]
        BY <2>0, <3>3, Zenon DEF m
      <4>. QED  BY <4>1, <4>2, Zenon
    <3>. QED  BY <3>2, <3>3
  <2>2. ASSUME x1 = "StoppingRun"
        PROVE  SysFollows(m, p, ob, Tail(ib), "Running", "Ready", SysRun, "StopRun")
    <3>1. SysFollows(x7[n], p, ob, ib, "Running", "Ready", SysRun, "StopRun")
      BY <1>5, <2>2, Zenon DEF SysOnite
    <3>2. CASE c \in SysRun
      <4>1. c = "StopRun" /\ SysFollows("Ready", p, ob, Tail(ib), "Running", "Ready", SysRun, "StopRun")
        BY <1>1, <1>2, <2>0, <3>1, <3>2, SysObeys, Zenon
      <4>2. m = "Ready"
        BY <2>0, <4>1, Zenon DEF m
      <4>. QED  BY <4>1, <4>2, Zenon
    <3>3. CASE c \notin SysRun
      <4>1. SysFollows(x7[n], p, ob, Tail(ib), "Running", "Ready", SysRun, "StopRun")
        BY <1>1, <1>2, <2>0, <3>1, <3>3, SysObeys, Zenon
      <4>2. m = x7[n]
        BY <2>0, <3>3, Zenon DEF m
      <4>. QED  BY <4>1, <4>2, Zenon
    <3>. QED  BY <3>2, <3>3
  <2>3. ASSUME NEW s \in SysModes, SysRests(x7[n], p, ob, ib, s, SysRun)
        PROVE  SysRests(m, p, ob, Tail(ib), s, SysRun)
    <3>1. c \notin SysRun /\ SysRests(x7[n], p, ob, Tail(ib), s, SysRun)
      <4>1. s # "none" /\ "none" \notin SysUnseen
        BY DEF SysModes, SysUnseen
      <4>. QED  BY <1>1, <1>2, <2>0, <2>3, <4>1, SysObeys, Zenon
    <3>. QED  BY <2>0, <3>1, Zenon DEF m
  <2>4. "Ready" \in SysModes /\ "Running" \in SysModes
    BY DEF SysModes
  <2>. HIDE DEF ib
  <2>. QED  BY <1>5, <2>1, <2>2, <2>3, <2>4, Zenon DEF SysOnite
<1>7. SysToldOnite'
  <2>1. ASSUME x3 \notin {"StartRun", "StopRun", "Exit"}
        PROVE  m = "Ready" /\ SysNone(Tail(x4[n]), {"StartRun"})
    <3>1. x7[n] = "Ready" /\ SysNone(x4[n], {"StartRun"})
      BY <2>1, Zenon DEF SysInv, SysToldOnite
    <3>2. SysNone(Tail(x4[n]), {"StartRun"}) /\ c \notin {"StartRun"}
      BY <1>1, <1>2, <3>1, SysTaken, Zenon
    <3>. QED  BY <3>1, <3>2, Zenon DEF m
  <2>. QED  BY <1>1, <1>4, <2>1, Zenon DEF SysToldOnite
<1>. QED  BY <1>1, <1>4, <1>6, <1>7, SysOnlyOnite, Zenon

LEMMA SysHandleSitter ==
  ASSUME SysInv, System!Handle("Daqsitter")
  PROVE  SysInv'
<1>. DEFINE d == "Daqsitter"
            c == Head(x4[d])
            m == IF c = "StartData" THEN "Started" ELSE IF c = "StopData" THEN "Ready" ELSE x7[d]
<1>1. /\ x4[d] # <<>> /\ x4' = [x4 EXCEPT ![d] = Tail(@)] /\ UNCHANGED <<x1, x2, x3, x6, x8, x9>>
      /\ x7' = [x7 EXCEPT ![d] = m]
  BY DEF System!Handle, System!After, System!Away, System!fsmVars
<1>2. d \in SysApps /\ x4 \in [SysApps -> Seq(SysCommand)] /\ x7 \in [SysApps -> SysModes]
      /\ x4[d] \in Seq(SysCommand)
  BY DEF SysInv, SysTypes, SysApps
<1>3. m \in SysModes /\ Tail(x4[d]) \in Seq(SysCommand)
  BY <1>1, <1>2 DEF SysModes
<1>. HIDE DEF m
<1>4. /\ x7' \in [SysApps -> SysModes] /\ x4' \in [SysApps -> Seq(SysCommand)]
      /\ \A b \in SysApps : b # d => x7'[b] = x7[b] /\ x4'[b] = x4[b]
      /\ x7'[d] = m /\ x4'[d] = Tail(x4[d])
  BY <1>1, <1>2, <1>3, Zenon
<1>. DEFINE p == x2[d]
            ob == x6[d]
            ib == x4[d]
<1>5. SysSitter(x1, x7[d], p, ob, ib)
  BY Zenon DEF SysInv, SysAgree
<1>6. SysSitter(x1, m, p, ob, Tail(ib))
  <2>. HIDE DEF p, ob
  <2>0. /\ c \in SysData <=> c = "StartData" \/ c = "StopData"
        /\ "StartData" \in SysData /\ "StopData" \in SysData /\ "Ready" # "Started" /\ "StartData" # "StopData"
        /\ "Ready" \notin SysUnseen /\ "Started" \notin SysUnseen
    BY DEF SysData, SysUnseen
  <2>1. ASSUME x1 = "StartingData"
        PROVE  SysFollows(m, p, ob, Tail(ib), "Ready", "Started", SysData, "StartData")
    <3>1. SysFollows(x7[d], p, ob, ib, "Ready", "Started", SysData, "StartData")
      BY <1>5, <2>1, Zenon DEF SysSitter
    <3>2. CASE c \in SysData
      <4>1. c = "StartData" /\ SysFollows("Started", p, ob, Tail(ib), "Ready", "Started", SysData, "StartData")
        BY <1>1, <1>2, <2>0, <3>1, <3>2, SysObeys, Zenon
      <4>2. m = "Started"
        BY <2>0, <4>1, Zenon DEF m
      <4>. QED  BY <4>1, <4>2, Zenon
    <3>3. CASE c \notin SysData
      <4>1. SysFollows(x7[d], p, ob, Tail(ib), "Ready", "Started", SysData, "StartData")
        BY <1>1, <1>2, <2>0, <3>1, <3>3, SysObeys, Zenon
      <4>2. m = x7[d]
        BY <2>0, <3>3, Zenon DEF m
      <4>. QED  BY <4>1, <4>2, Zenon
    <3>. QED  BY <3>2, <3>3
  <2>2. ASSUME x1 = "StoppingData"
        PROVE  SysFollows(m, p, ob, Tail(ib), "Started", "Ready", SysData, "StopData")
    <3>1. SysFollows(x7[d], p, ob, ib, "Started", "Ready", SysData, "StopData")
      BY <1>5, <2>2, Zenon DEF SysSitter
    <3>2. CASE c \in SysData
      <4>1. c = "StopData" /\ SysFollows("Ready", p, ob, Tail(ib), "Started", "Ready", SysData, "StopData")
        BY <1>1, <1>2, <2>0, <3>1, <3>2, SysObeys, Zenon
      <4>2. m = "Ready"
        BY <2>0, <4>1, Zenon DEF m
      <4>. QED  BY <4>1, <4>2, Zenon
    <3>3. CASE c \notin SysData
      <4>1. SysFollows(x7[d], p, ob, Tail(ib), "Started", "Ready", SysData, "StopData")
        BY <1>1, <1>2, <2>0, <3>1, <3>3, SysObeys, Zenon
      <4>2. m = x7[d]
        BY <2>0, <3>3, Zenon DEF m
      <4>. QED  BY <4>1, <4>2, Zenon
    <3>. QED  BY <3>2, <3>3
  <2>3. ASSUME NEW s \in SysModes, SysRests(x7[d], p, ob, ib, s, SysData)
        PROVE  SysRests(m, p, ob, Tail(ib), s, SysData)
    <3>1. c \notin SysData /\ SysRests(x7[d], p, ob, Tail(ib), s, SysData)
      <4>1. s # "none" /\ "none" \notin SysUnseen
        BY DEF SysModes, SysUnseen
      <4>. QED  BY <1>1, <1>2, <2>0, <2>3, <4>1, SysObeys, Zenon
    <3>. QED  BY <2>0, <3>1, Zenon DEF m
  <2>4. "Ready" \in SysModes /\ "Started" \in SysModes
    BY DEF SysModes
  <2>. HIDE DEF ib
  <2>. QED  BY <1>5, <2>1, <2>2, <2>3, <2>4, Zenon DEF SysSitter
<1>7. SysToldSitter'
  <2>1. ASSUME x3 \in {"none", "Config"}
        PROVE  m = "Ready" /\ SysNone(Tail(x4[d]), {"StartData"})
    <3>1. x7[d] = "Ready" /\ SysNone(x4[d], {"StartData"})
      BY <2>1, Zenon DEF SysInv, SysToldSitter
    <3>2. SysNone(Tail(x4[d]), {"StartData"}) /\ c \notin {"StartData"}
      BY <1>1, <1>2, <3>1, SysTaken, Zenon
    <3>. QED  BY <3>1, <3>2, Zenon DEF m
  <2>. QED  BY <1>1, <1>4, <2>1, Zenon DEF SysToldSitter
<1>. QED  BY <1>1, <1>4, <1>6, <1>7, SysOnlySitter, Zenon

\* DAQontrol turns to a target while it is below Started, or takes data.
LEMMA SysStartsToTurn ==
  ASSUME NEW m, NEW p, NEW ob
  PROVE  /\ SysLowOut(m, p, ob) => SysTurns(m, p, ob, SysLow, "Started")
         /\ SysSays(m, p, ob, "Started") => SysTurns(m, p, ob, {"Started"}, "Configured")
         /\ SysLowOut(m, p, ob) => m # "Started"
<1>1. "Started" \notin SysLow \cup SysUnseen /\ "Configured" \notin {"Started"} \cup SysUnseen
  BY DEF SysLow, SysUnseen
<1>2. SysLowOut(m, p, ob) => SysTurns(m, p, ob, SysLow, "Started")
  BY <1>1 DEF SysLowOut, SysTurns
<1>3. SysSays(m, p, ob, "Started") => SysTurns(m, p, ob, {"Started"}, "Configured")
  BY <1>1 DEF SysSays, SysTurns
<1>4. SysLowOut(m, p, ob) => m # "Started"
  BY <1>1, Zenon DEF SysLowOut
<1>. QED  BY <1>2, <1>3, <1>4

LEMMA SysHandleTrol ==
  ASSUME SysInv, System!Handle("Daqontrol")
  PROVE  SysInv'
<1>. DEFINE t == "Daqontrol"
            c == Head(x4[t])
            m == x7[t]
            p == x2[t]
            ob == x6[t]
            ib == x4[t]
<1>1. /\ ib # <<>> /\ x4' = [x4 EXCEPT ![t] = Tail(ib)] /\ ~x9 /\ UNCHANGED <<x1, x2, x3, x6>>
      /\ x7' = [x7 EXCEPT ![t] = m] /\ x8' = System!TargetAfter(c) /\ x9' = (c = "Config")
  <2>1. /\ x4[t] # <<>> /\ x4' = [x4 EXCEPT ![t] = Tail(@)] /\ ~x9 /\ UNCHANGED <<x1, x2, x3, x6>>
        /\ x7' = [x7 EXCEPT ![t] = System!After(t, @, c)] /\ x8' = System!TargetAfter(c) /\ x9' = (c = "Config")
    BY Zenon DEF System!Handle, System!Away, System!fsmVars
  <2>2. System!After(t, m, c) = m
    BY DEF System!After
  <2>. QED  BY <2>1, <2>2, Zenon
<1>2. t \in SysApps /\ x4 \in [SysApps -> Seq(SysCommand)] /\ x7 \in [SysApps -> SysModes]
      /\ ib \in Seq(SysCommand)
  BY DEF SysInv, SysTypes, SysApps
<1>3. m \in SysModes /\ Tail(ib) \in Seq(SysCommand)
  BY <1>1, <1>2
<1>4. /\ x7' \in [SysApps -> SysModes] /\ x4' \in [SysApps -> Seq(SysCommand)]
      /\ \A b \in SysApps : b # t => x7'[b] = x7[b] /\ x4'[b] = x4[b]
      /\ x7'[t] = m /\ x4'[t] = Tail(ib)
  BY <1>1, <1>2, <1>3, Zenon
<1>5. /\ c = "StartData" /\ m # "Started" => x8' = "Started"
      /\ c = "StopData" /\ m # "Configured" => x8' = "Configured"
      /\ c \notin SysData => x8' = x8
  BY <1>1 DEF System!TargetAfter, SysData
<1>6. x9' \in BOOLEAN /\ (c # "Config" => ~x9')
  BY <1>1, Zenon
<1>9. x8' \in {"Ready", "Configured", "Started"}
  BY <1>1 DEF System!TargetAfter, SysInv, SysTypes
<1>7. SysTrol(x1, m, p, ob, ib, x8, x9)
  BY Zenon DEF SysInv, SysAgree
<1>8. SysTrol(x1, m, p, ob, Tail(ib), x8', x9')
  <2>1. /\ "Config" \in SysControl /\ "Config" \notin SysData /\ "StartData" # "Config" /\ "StopData" # "Config"
        /\ SysData \subseteq SysControl /\ "Started" # "Configured"
    BY DEF SysControl, SysData
  <2>. HIDE DEF m, p, ob
  <2>2. ASSUME SysStaysLow(m, p, ob, x8), SysStartsLast(ib)
        PROVE  \/ SysStaysLow(m, p, ob, x8') /\ SysStartsLast(Tail(ib))
               \/ SysGoes(m, p, ob, Tail(ib), x8', x9', SysLow, "Started")
    <3>1. CASE c \in SysData
      <4>1. c = "StartData" /\ SysNone(Tail(ib), SysControl)
        BY <1>1, <1>2, <2>2, <3>1, SysTaken, Zenon
      <4>. QED  BY <1>5, <1>6, <2>1, <2>2, <4>1, SysStartsToTurn, Zenon DEF SysStaysLow, SysGoes
    <3>2. CASE c \notin SysData
      BY <1>1, <1>2, <1>5, <2>2, <3>2, SysTaken, Zenon DEF SysStaysLow
    <3>. QED  BY <3>1, <3>2
  <2>3. ASSUME NEW F, NEW s, SysGoes(m, p, ob, ib, x8, x9, F, s)
        PROVE  SysGoes(m, p, ob, Tail(ib), x8', x9', F, s)
    <3>1. c \notin SysControl /\ SysNone(Tail(ib), SysControl)
      BY <1>1, <1>2, <2>3, SysTaken, Zenon DEF SysGoes
    <3>2. c \notin SysData /\ c # "Config"
      BY <2>1, <3>1
    <3>. QED  BY <1>5, <1>6, <2>3, <3>1, <3>2, Zenon DEF SysGoes
  <2>4. ASSUME SysTakes(m, p, ob, x8, x9), c \notin SysControl
        PROVE  SysTakes(m, p, ob, x8', x9')
    <3>1. c \notin SysData /\ c # "Config"
      BY <2>1, <2>4
    <3>. QED  BY <1>5, <1>6, <2>4, <3>1, Zenon DEF SysTakes
  <2>5. ASSUME SysTakes(m, p, ob, x8, x9), SysNone(ib, SysControl)
        PROVE  SysTakes(m, p, ob, x8', x9') /\ SysNone(Tail(ib), SysControl)
    BY <1>1, <1>2, <2>4, <2>5, SysTaken, Zenon
  <2>6. ASSUME SysTakes(m, p, ob, x8, x9), SysLast(ib, SysControl, "StopData")
        PROVE  \/ SysTakes(m, p, ob, x8', x9') /\ SysLast(Tail(ib), SysControl, "StopData")
               \/ SysGoes(m, p, ob, Tail(ib), x8', x9', {"Started"}, "Configured")
    <3>1. CASE c \in SysControl
      <4>1. c = "StopData" /\ SysNone(Tail(ib), SysControl)
        BY <1>1, <1>2, <2>6, <3>1, SysTaken, Zenon
      <4>2. SysSays(m, p, ob, "Started") /\ m # "Configured"
        BY <2>1, <2>6, Zenon DEF SysTakes, SysSays
      <4>. QED  BY <1>5, <1>6, <2>1, <4>1, <4>2, SysStartsToTurn, Zenon DEF SysGoes
    <3>2. CASE c \notin SysControl
      BY <1>1, <1>2, <2>4, <2>6, <3>2, SysTaken, Zenon
    <3>. QED  BY <3>1, <3>2
  <2>7. ASSUME SysStaysLow(m, p, ob, x8), SysNone(ib, SysData)
        PROVE  SysStaysLow(m, p, ob, x8') /\ SysNone(Tail(ib), SysData)
    BY <1>1, <1>2, <1>5, <2>7, SysTaken, Zenon DEF SysStaysLow
  <2>. HIDE DEF ib
  <2>. QED  BY <1>7, <2>2, <2>3, <2>5, <2>6, <2>7, Zenon DEF SysTrol
<1>. QED  BY <1>1, <1>4, <1>6, <1>8, <1>9, SysOnlyTrol, Zenon

\* DAQontrol has new controllers, or has got to its target.
LEMMA SysUpdates ==
  ASSUME SysInv, System!Build \/ System!StateUpdate
  PROVE  SysInv'
<1>. DEFINE t == "Daqontrol"
            m == x7[t]
            p == x2[t]
            ob == x6[t]
            ib == x4[t]
            n == x7'[t]
<1>1. /\ x4' = x4 /\ UNCHANGED <<x1, x2, x3, x6>>
      /\ \/ x9 /\ ~x9' /\ x9' \in BOOLEAN /\ x8' = "Configured" /\ x7' = [x7 EXCEPT ![t] = "Ready"]
         \/ ~x9 /\ x9' = x9 /\ x8' = x8 /\ m # x8 /\ x7' = [x7 EXCEPT ![t] = x8]
  <2>1. CASE System!Build
    BY <2>1, Zenon DEF System!Build, System!Away, System!fsmVars
  <2>2. CASE System!StateUpdate
    BY <2>2, Zenon DEF System!StateUpdate, System!Away, System!fsmVars, System!control
  <2>. QED  BY <2>1, <2>2
<1>2. t \in SysApps /\ x7 \in [SysApps -> SysModes] /\ x4 \in [SysApps -> Seq(SysCommand)] /\ x9 \in BOOLEAN
  BY DEF SysInv, SysTypes, SysApps
<1>3. SysTrol(x1, m, p, ob, ib, x8, x9)
  BY Zenon DEF SysInv, SysAgree
<1>4. /\ \/ x9 /\ ~x9' /\ x8' = "Configured" /\ n = "Ready"
         \/ ~x9 /\ ~x9' /\ x8' = x8 /\ m # x8 /\ n = x8
      /\ \A b \in SysApps : b # t => x7'[b] = x7[b] /\ x4'[b] = x4[b]
  BY <1>1, <1>2
<1>. HIDE DEF m, p, ob, ib, n
<1>5. "Ready" \in SysLow /\ "Configured" \in SysLow /\ "Started" \in SysModes /\ "Configured" \in SysModes
      /\ SysLow \subseteq SysModes
  BY DEF SysLow, SysModes
<1>6. ASSUME SysStaysLow(m, p, ob, x8)
      PROVE  SysStaysLow(n, p, ob, x8')
  BY <1>4, <1>5, <1>6, Zenon DEF SysStaysLow, SysLowOut
<1>7. ASSUME NEW F, NEW s, SysGoes(m, p, ob, ib, x8, x9, F, s)
      PROVE  SysGoes(n, p, ob, ib, x8', x9', F, s)
  <2>1. n = s /\ x8' = s /\ ~x9' /\ SysTurns(m, p, ob, F, s) /\ SysNone(ib, SysControl)
    BY <1>4, <1>7, Zenon DEF SysGoes
  <2>2. SysTurns(s, p, ob, F, s)
    BY <2>1, Zenon DEF SysTurns
  <2>. QED  BY <2>1, <2>2, Zenon DEF SysGoes
<1>8. ~SysTakes(m, p, ob, x8, x9)
  BY <1>4, Zenon DEF SysTakes, SysSays
<1>9. SysTrol(x1, n, p, ob, ib, x8', x9')
  BY <1>3, <1>6, <1>7, <1>8, Zenon DEF SysTrol
<1>10. x7' \in [SysApps -> SysModes] /\ x9' \in BOOLEAN /\ x8' \in {"Ready", "Configured", "Started"}
  <2>1. x8 \in {"Ready", "Configured", "Started"} /\ {"Ready", "Configured", "Started"} \subseteq SysModes
    BY DEF SysInv, SysTypes, SysModes
  <2>. QED  BY <1>1, <1>2, <2>1
<1>11. x4' \in [SysApps -> Seq(SysCommand)]
  BY <1>1, <1>2
<1>. QED  BY <1>1, <1>4, <1>9, <1>10, <1>11, SysOnlyTrol, Zenon DEF m, p, ob, ib, n

\* A command that the Experiment takes is told to those that are connected.
LEMMA SysOperates ==
  ASSUME SysInv, NEW k \in SysCommand, System!Operate(k)
  PROVE  SysInv'
<1>. DEFINE e == System!Fsm!Target(x1, k)
            n == "Daqonite"
            t == "Daqontrol"
            d == "Daqsitter"
<1>1. /\ e # x1 /\ x1' = System!Fsm!Settle(e, "Online", x2) /\ x3' = k /\ UNCHANGED <<x2, x6, x7, x8, x9>>
      /\ x4' = [a \in SysApps |-> IF a \in x5 THEN Append(x4[a], k) ELSE x4[a]]
  BY SysNames, Zenon DEF System!Operate, System!Applications, System!control
<1>2. x4 \in [SysApps -> Seq(SysCommand)] /\ n \in SysApps /\ t \in SysApps /\ d \in SysApps
  BY DEF SysInv, SysTypes, SysApps
<1>3. ASSUME NEW a \in SysApps
      PROVE  x4'[a] = x4[a] \/ x4'[a] = Append(x4[a], k)
  BY <1>1
<1>4. ASSUME NEW a \in SysApps, NEW K
      PROVE  /\ x4'[a] \in Seq(SysCommand)
             /\ SysNone(x4[a], K) /\ k \notin K => SysNone(x4'[a], K)
             /\ SysNone(x4[a], K) => SysLast(x4'[a], K, k)
             /\ SysNone(x4[a], SysData) /\ k = "StartData" => SysStartsLast(x4'[a])
  <2>1. x4[a] \in Seq(SysCommand)
    BY <1>2
  <2>. QED  BY <1>3, <2>1, SysSent, Zenon
<1>5. x4' \in [SysApps -> Seq(SysCommand)]
  <2>. DEFINE f(a) == IF a \in x5 THEN Append(x4[a], k) ELSE x4[a]
  <2>1. \A a \in SysApps : f(a) \in Seq(SysCommand)
    BY <1>2
  <2>2. x4' = [a \in SysApps |-> f(a)]
    BY <1>1, Zenon
  <2>. HIDE DEF f
  <2>. QED  BY <2>1, <2>2, Zenon
<1>6. \/ k = "Config" /\ x1 \in {"Ready", "Configured"} /\ e = "Configuring"
      \/ k = "StartData" /\ x1 = "Configured" /\ e = "StartingData"
      \/ k = "StopData" /\ x1 = "Started" /\ e = "StoppingData"
      \/ k = "StartRun" /\ x1 = "Started" /\ e = "StartingRun"
      \/ k = "StopRun" /\ x1 = "Running" /\ e = "StoppingRun"
      \/ k = "Exit" /\ e = "Exit"
  BY <1>1 DEF System!Fsm!Target
<1>7. e \in SysStates
  BY <1>6 DEF SysStates
<1>. HIDE DEF e
<1>8. /\ SysOnite(x1, x7[n], x2[n], x6[n], x4[n])
      /\ SysSitter(x1, x7[d], x2[d], x6[d], x4[d])
      /\ SysTrol(x1, x7[t], x2[t], x6[t], x4[t], x8, x9)
  BY Zenon DEF SysInv, SysAgree
<1>9. /\ k \in {"Config", "StartData", "StopData"} => k \notin SysRun
      /\ k = "Config" \/ k \in SysRun => k \notin SysData
      /\ k \in SysRun => k \notin SysControl
  BY DEF SysRun, SysData, SysControl
<1>10. SysOnite(e, x7[n], x2[n], x6[n], x4'[n])
  <2>1. ASSUME NEW s, SysRests(x7[n], x2[n], x6[n], x4[n], s, SysRun)
        PROVE  /\ SysFollows(x7[n], x2[n], x6[n], x4'[n], s, "Ready", SysRun, k)
               /\ SysFollows(x7[n], x2[n], x6[n], x4'[n], s, "Running", SysRun, k)
               /\ k \notin SysRun => SysRests(x7[n], x2[n], x6[n], x4'[n], s, SysRun)
    BY <1>2, <1>4, <2>1, Zenon DEF SysRests, SysFollows
  <2>2. CASE k \in {"Config", "StartData", "StopData"}
    <3>1. SysRests(x7[n], x2[n], x6[n], x4[n], "Ready", SysRun)
      BY <1>6, <1>8, <2>2 DEF SysOnite
    <3>2. SysRests(x7[n], x2[n], x6[n], x4'[n], "Ready", SysRun)
      BY <1>9, <2>1, <2>2, <3>1, Zenon
    <3>. QED  BY <1>6, <2>2, <3>2 DEF SysOnite
  <2>3. CASE k = "StartRun"
    BY <1>6, <1>8, <2>1, <2>3 DEF SysOnite
  <2>4. CASE k = "StopRun"
    BY <1>6, <1>8, <2>1, <2>4 DEF SysOnite
  <2>5. CASE k = "Exit"
    BY <1>6, <2>5 DEF SysOnite
  <2>. QED  BY <1>6, <2>2, <2>3, <2>4, <2>5
<1>11. SysSitter(e, x7[d], x2[d], x6[d], x4'[d])
  <2>1. ASSUME NEW s, SysRests(x7[d], x2[d], x6[d], x4[d], s, SysData)
        PROVE  /\ SysFollows(x7[d], x2[d], x6[d], x4'[d], s, "Ready", SysData, k)
               /\ SysFollows(x7[d], x2[d], x6[d], x4'[d], s, "Started", SysData, k)
               /\ k \notin SysData => SysRests(x7[d], x2[d], x6[d], x4'[d], s, SysData)
    BY <1>2, <1>4, <2>1, Zenon DEF SysRests, SysFollows
  <2>2. CASE k = "Config"
    BY <1>6, <1>8, <1>9, <2>1, <2>2 DEF SysSitter, SysTaking
  <2>3. CASE k = "StartData"
    BY <1>6, <1>8, <2>1, <2>3 DEF SysSitter, SysTaking
  <2>4. CASE k = "StopData"
    BY <1>6, <1>8, <2>1, <2>4 DEF SysSitter, SysTaking
  <2>5. CASE k = "StartRun" \/ k = "StopRun"
    <3>1. k \notin SysData
      BY <2>5 DEF SysData
    <3>. QED  BY <1>6, <1>8, <2>1, <2>5, <3>1 DEF SysSitter, SysTaking
  <2>6. CASE k = "Exit"
    BY <1>6, <2>6 DEF SysSitter, SysTaking
  <2>. QED  BY <1>6, <2>2, <2>3, <2>4, <2>5, <2>6
<1>12. SysTrol(e, x7[t], x2[t], x6[t], x4'[t], x8, x9)
  <2>1. /\ SysNone(x4[t], SysData) /\ k \notin SysData => SysNone(x4'[t], SysData)
        /\ SysNone(x4[t], SysControl) /\ k \notin SysControl => SysNone(x4'[t], SysControl)
        /\ SysNone(x4[t], SysControl) => SysLast(x4'[t], SysControl, k)
        /\ SysNone(x4[t], SysData) /\ k = "StartData" => SysStartsLast(x4'[t])
    BY <1>2, <1>4, Zenon
  <2>2. CASE k = "Config"
    BY <1>6, <1>8, <1>9, <2>1, <2>2 DEF SysTrol, SysTaking
  <2>3. CASE k = "StartData"
    BY <1>6, <1>8, <2>1, <2>3 DEF SysTrol, SysTaking
  <2>4. CASE k = "StopData"
    BY <1>6, <1>8, <2>1, <2>4 DEF SysTrol, SysTaking
  <2>5. CASE k = "StartRun" \/ k = "StopRun"
    <3>1. k \notin SysControl
      BY <2>5 DEF SysControl
    <3>. QED  BY <1>6, <1>8, <2>1, <2>5, <3>1 DEF SysTrol, SysTaking
  <2>6. CASE k = "Exit"
    BY <1>6, <2>6 DEF SysTrol, SysTaking
  <2>. QED  BY <1>6, <2>2, <2>3, <2>4, <2>5, <2>6
<1>13. SysAgree(x1', x2', x4', x6', x7', x8', x9') /\ x1' \in SysStates
  <2>1. SysAgree(e, x2, x4', x6, x7, x8, x9)
    BY <1>10, <1>11, <1>12, Zenon DEF SysAgree
  <2>. QED  BY <1>1, <1>7, <2>1, SysSettles, Zenon DEF e
<1>14. SysToldOnite'
  <2>1. ASSUME k \notin {"StartRun", "StopRun", "Exit"}
        PROVE  x7[n] = "Ready" /\ SysNone(x4[n], {"StartRun"})
    <3>1. SysRests(x7[n], x2[n], x6[n], x4[n], "Ready", SysRun)
      BY <1>6, <1>8, <2>1 DEF SysOnite
    <3>2. SysNone(x4[n], SysRun) => SysNone(x4[n], {"StartRun"})
      BY DEF SysNone, SysRun
    <3>. QED  BY <3>1, <3>2, Zenon DEF SysRests, SysSays
  <2>. QED  BY <1>1, <1>2, <1>4, <2>1, Zenon DEF SysToldOnite
<1>15. SysToldSitter'
  <2>1. ASSUME k \in {"none", "Config"}
        PROVE  k # "StartData" /\ x7[d] = "Ready" /\ SysNone(x4[d], {"StartData"})
    <3>1. k = "Config"
      BY <2>1 DEF SysCommand
    <3>2. SysRests(x7[d], x2[d], x6[d], x4[d], "Ready", SysData)
      BY <1>6, <1>8, <3>1 DEF SysSitter, SysTaking
    <3>3. SysNone(x4[d], SysData) => SysNone(x4[d], {"StartData"})
      BY DEF SysNone, SysData
    <3>. QED  BY <3>1, <3>2, <3>3, Zenon DEF SysRests, SysSays
  <2>. QED  BY <1>1, <1>2, <1>4, <2>1, Zenon DEF SysToldSitter
<1>. QED  BY <1>1, <1>5, <1>13, <1>14, <1>15, Zenon DEF SysInv, SysTypes

LEMMA SystemInit ==
  ASSUME System!Init
  PROVE  System!IInv
<1>1. /\ x1 = "Init" /\ x3 = "none" /\ x2 = [a \in SysApps |-> "Offline"] /\ x4 = [a \in SysApps |-> <<>>]
      /\ x6 = [a \in SysApps |-> <<>>] /\ x7 = [a \in SysApps |-> "Ready"] /\ x8 = "Ready" /\ x9 = FALSE
  BY SysNames, Zenon DEF System!Init
<1>2. SysTypes
  <2>1. /\ x1 \in SysStates /\ x8 \in {"Ready", "Configured", "Started"} /\ "Offline" \in SysSeen
        /\ "Ready" \in SysModes /\ <<>> \in Seq(SysCommand) /\ <<>> \in Seq(SysModes)
    BY <1>1 DEF SysStates, SysSeen, SysModes
  <2>2. x9 \in BOOLEAN
    BY <1>1, Zenon
  <2>. QED  BY <1>1, <2>1, <2>2, Zenon DEF SysTypes
<1>3. ASSUME NEW a \in SysApps, NEW K
      PROVE  SysRests(x7[a], x2[a], x6[a], x4[a], "Ready", K) /\ SysLowOut(x7[a], x2[a], x6[a])
  <2>1. x7[a] = "Ready" /\ x2[a] = "Offline" /\ x6[a] = <<>> /\ x4[a] = <<>>
    BY <1>1
  <2>2. SysNone(<<>>, K)
    BY SysNoCommands
  <2>. QED  BY <2>1, <2>2 DEF SysRests, SysSays, SysLowOut, SysUnseen, SysLow
<1>4. SysAgree(x1, x2, x4, x6, x7, x8, x9) /\ SysToldOnite /\ SysToldSitter
  <2>1. "Daqonite" \in SysApps /\ "Daqontrol" \in SysApps /\ "Daqsitter" \in SysApps /\ x8 \in SysLow
    BY <1>1 DEF SysApps, SysLow
  <2>2. /\ SysOnite(x1, x7["Daqonite"], x2["Daqonite"], x6["Daqonite"], x4["Daqonite"])
        /\ SysSitter(x1, x7["Daqsitter"], x2["Daqsitter"], x6["Daqsitter"], x4["Daqsitter"])
        /\ SysTrol(x1, x7["Daqontrol"], x2["Daqontrol"], x6["Daqontrol"], x4["Daqontrol"], x8, x9)
    <3>1. SysNone(x4["Daqontrol"], SysData)
      BY <1>3, <2>1, Zenon DEF SysRests
    <3>. QED
      BY <1>1, <1>3, <2>1, <3>1 DEF SysOnite, SysSitter, SysTrol, SysTaking, SysStaysLow
  <2>. QED  BY <1>3, <2>1, <2>2, Zenon DEF SysAgree, SysToldOnite, SysToldSitter, SysRests, SysSays
<1>. QED  BY <1>2, <1>4, SysIs, Zenon DEF SysInv

\* No application is started again behind its observer's back.
LEMMA SystemNext ==
  ASSUME "restart" \notin SystemFaults, System!IInv, [System!Next]_(System!vars)
  PROVE  System!IInv'
<1>1. SysInv
  BY SysIs, Zenon
<1>2. \A a : ~System!Restart(a)
  BY Zenon DEF System!Restart, System!Fault
<1>3. ASSUME System!Next
      PROVE  SysInv'
  <2>1. \/ \E k \in SysCommand : System!Operate(k)
        \/ \E a \in SysApps : \/ System!Dial(a) \/ System!Hear(a) \/ System!Lose(a) \/ System!Report(a)
                              \/ System!Handle(a)
                              \/ System!Unlink(a) \/ System!Relink(a)
        \/ System!Build \/ System!StateUpdate \/ System!DropAll
    BY <1>2, <1>3, SysNames, Zenon DEF System!Next
  <2>2. ASSUME NEW a \in SysApps, System!Handle(a)
        PROVE  SysInv'
    <3>1. a = "Daqonite" \/ a = "Daqontrol" \/ a = "Daqsitter"
      BY DEF SysApps
    <3>. QED  BY <1>1, <2>2, <3>1, SysHandleOnite, SysHandleSitter, SysHandleTrol, Zenon
  <2>. QED  BY <1>1, <2>1, <2>2, SysOperates, SysObserved, SysLinks, SysUpdates, Zenon
<1>4. ASSUME UNCHANGED System!vars
      PROVE  SysInv'
  BY <1>1, <1>4, SysLinks, Zenon
<1>. QED  BY <1>3, <1>4, SysIs, Zenon

\* What the Experiment reports is so, and no application goes ahead of it.
LEMMA SystemReports ==
  ASSUME System!IInv
  PROVE  System!ReportedIsTrue /\ System!NeverAhead
<1>1. SysInv
  BY SysIs, Zenon
<1>2. /\ SysOnite(x1, x7["Daqonite"], x2["Daqonite"], x6["Daqonite"], x4["Daqonite"])
      /\ SysSitter(x1, x7["Daqsitter"], x2["Daqsitter"], x6["Daqsitter"], x4["Daqsitter"])
      /\ SysTrol(x1, x7["Daqontrol"], x2["Daqontrol"], x6["Daqontrol"], x4["Daqontrol"], x8, x9)
  BY <1>1, Zenon DEF SysInv, SysAgree
<1>3. x1 = "Running" => x7["Daqonite"] = "Running"
  BY <1>2 DEF SysOnite, SysRests, SysSays
<1>4. x1 = "Started" => x7["Daqonite"] = "Ready"
  BY <1>2 DEF SysOnite, SysRests, SysSays
<1>5. x1 \in {"Started", "Running"} => x7["Daqontrol"] = "Started" /\ x7["Daqsitter"] = "Started"
  BY <1>2 DEF SysSitter, SysTrol, SysTaking, SysRests, SysSays, SysTakes
<1>6. System!ReportedIsTrue
  BY <1>3, <1>4, <1>5, Zenon DEF System!ReportedIsTrue
<1>7. /\ x7["Daqonite"] = "Running" => x3 \in {"StartRun", "StopRun", "Exit"}
      /\ x7["Daqsitter"] = "Started" => x3 # "Config"
  <2>1. "Running" # "Ready" /\ "Started" # "Ready"
    OBVIOUS
  <2>. QED  BY <1>1, <2>1, Zenon DEF SysInv, SysToldOnite, SysToldSitter
<1>. QED  BY <1>6, <1>7, Zenon DEF System!NeverAhead

(* --- HitSequence: x1 is its sent, x2 its air, x3 its next, x4 its kept, x5   *)
(* its bad and x6 its gaps ---------------------------------------------------- *)
\* Without faults, and with one datagram under way at a time, what arrives is the last one sent.
LEMMA OrderedInit ==
  ASSUME NEW CONSTANT P, NEW CONSTANT N, NEW CONSTANT B, NEW CONSTANT T,
         Numbering(P, N, B, T)!NumbersFollow, Numbering(P, N, B, T)!Init
  PROVE  Numbering(P, N, B, T)!OrderedIInv
<1>1. HitModulus \in Nat \ {0} /\ Len(N) \in Nat
  BY DEF Numbering!NumbersFollow, Numbering!Numbered
<1>2. x5 = {} /\ x2 = {} /\ x3 = [p \in P |-> -1] /\ x1 = [p \in P |-> 0]
  BY DEF Numbering!Init, Numbering!Unseen
<1>. QED  BY <1>1, <1>2 DEF Numbering!OrderedIInv

LEMMA NumberingSets ==
  ASSUME NEW CONSTANT P, NEW CONSTANT N, NEW CONSTANT B, NEW CONSTANT T, NEW S
  PROVE  Numbering(P, N, B, T)!Cardinality(S) = Cardinality(S)
BY Zenon DEF Numbering!Cardinality, Cardinality

LEMMA OrderedNext ==
  ASSUME NEW CONSTANT P, NEW CONSTANT N, NEW CONSTANT B, NEW CONSTANT T,
         Numbering(P, N, B, T)!NumbersFollow, Numbering(P, N, B, T)!OrderedIInv,
         [Numbering(P, N, B, T)!Next]_(Numbering(P, N, B, T)!vars)
  PROVE  Numbering(P, N, B, T)!OrderedIInv'
<1>. DEFINE Arrived(p) == IF \E d \in x2 : d.plane = p THEN x1[p] - 1 ELSE x1[p]
            After(p) == x3[p] = -1 \/ (Arrived(p) >= 1 /\ x3[p] = (1 + N[Arrived(p)]) % HitModulus)
            Data == Numbering(P, N, B, T)!Datagrams
            Air == (x2 = {} \/ \E d \in Data : x2 = {d}) /\ \A d \in x2 : d.index = x1[d.plane]
<1>1. /\ HitModulus \in Nat \ {0} /\ N \in Seq(0 .. HitModulus - 1) /\ Len(N) \in Nat
      /\ DOMAIN N = 1 .. Len(N) /\ \A i \in 1 .. Len(N) : N[i] \in 0 .. HitModulus - 1
      /\ \A i \in 1 .. Len(N) - 1 : \/ N[i + 1] = (1 + N[i]) % HitModulus
                                    \/ T /\ N[i + 1] = 0
  BY DEF Numbering!NumbersFollow, Numbering!Numbered
<1>2. /\ x5 = {} /\ x3 \in [P -> -1 .. HitModulus - 1] /\ x1 \in [P -> 0 .. Len(N)]
      /\ Air /\ \A p \in P : After(p)
  BY DEF Numbering!OrderedIInv, Numbering!Arrived
<1>3. ASSUME x5' = {}, x3' \in [P -> -1 .. HitModulus - 1], x1' \in [P -> 0 .. Len(N)], Air',
             \A p \in P : After(p)'
      PROVE  Numbering(P, N, B, T)!OrderedIInv'
  BY <1>3 DEF Numbering!OrderedIInv, Numbering!Arrived
<1>4. \A d \in Data : d.plane \in P /\ d.index \in 1 .. Len(N) /\ d.form = "good"
  BY <1>1 DEF Numbering!Datagrams, Numbering!Forms
<1>5. \A d \in x2 : d \in Data /\ x2 = {d} /\ d.plane \in P /\ d.index \in 1 .. Len(N) /\ d.form = "good"
                    /\ x1[d.plane] = d.index
  BY <1>2, <1>4
<1>. HIDE DEF Data
\* A datagram under way is expected.
<1>6. ASSUME NEW d \in x2
      PROVE  Numbering(P, N, B, T)!WellFormed(d) /\ ~Numbering(P, N, B, T)!Late(d)
  <2>. DEFINE p == d.plane
              k == d.index
  <2>1. /\ p \in P /\ k \in 1 .. Len(N) /\ x1[p] = k /\ Arrived(p) = k - 1
    BY <1>5
  <2>2. CASE x3[p] = -1
    <3>1. N[k] \in Int
      BY <1>1, <2>1
    <3>2. ~Numbering(P, N, B, T)!Late(d)
      BY <2>2, <3>1 DEF Numbering!Late, Numbering!NextNumber, Numbering!Number
    <3>. QED  BY <1>5, <3>2 DEF Numbering!WellFormed
  <2>3. CASE x3[p] # -1
    <3>1. k - 1 >= 1 /\ x3[p] = (1 + N[k - 1]) % HitModulus
      BY <1>2, <2>1, <2>3
    <3>2. N[k] = x3[p] \/ (T /\ N[k] = 0)
      <4>1. k \in 1 .. Len(N) /\ k - 1 >= 1 /\ Len(N) \in Nat
        BY <1>1, <2>1, <3>1, Zenon
      <4>. HIDE DEF k
      <4>2. k - 1 \in 1 .. Len(N) - 1 /\ (k - 1) + 1 = k
        BY <4>1
      <4>3. N[(k - 1) + 1] = (1 + N[k - 1]) % HitModulus \/ (T /\ N[(k - 1) + 1] = 0)
        BY <1>1, <4>2, Zenon
      <4>. QED  BY <3>1, <4>2, <4>3, Zenon
    <3>3. x3[p] \in Int /\ N[k] \in Int
      BY <1>1, <1>2, <2>1
    <3>4. ~Numbering(P, N, B, T)!Late(d)
      BY <2>3, <3>2, <3>3 DEF Numbering!Late, Numbering!NextNumber, Numbering!Number
    <3>. QED  BY <1>5, <3>4 DEF Numbering!WellFormed
  <2>. QED  BY <2>2, <2>3
<1>7. CASE Numbering(P, N, B, T)!startData
  <2>1. x3' = [p \in P |-> -1] /\ x5' = {} /\ UNCHANGED <<x1, x2>>
    BY <1>7 DEF Numbering!startData, Numbering!Unseen
  <2>. QED  BY <1>1, <1>2, <1>3, <2>1
<1>8. CASE Numbering(P, N, B, T)!Send
  <2>1. PICK p \in P, f \in Numbering(P, N, B, T)!Forms, b \in B :
          /\ x1[p] < Len(N) /\ Numbering(P, N, B, T)!Cardinality(x2) < 1
          /\ x1' = [x1 EXCEPT ![p] = @ + 1]
          /\ x2' = x2 \cup {[plane |-> p, index |-> x1[p] + 1, form |-> f, byte |-> b]}
          /\ UNCHANGED <<x3, x5>>
    BY <1>8 DEF Numbering!Send
  <2>. DEFINE e == [plane |-> p, index |-> x1[p] + 1, form |-> f, byte |-> b]
  <2>2. x2 = {}
    <3>1. ASSUME NEW d, x2 = {d} PROVE FALSE
      <4>1. Cardinality(x2) = 1
        BY <3>1, FS_Singleton
      <4>2. Numbering(P, N, B, T)!Cardinality(x2) = 1
        BY <4>1, NumberingSets, Zenon
      <4>3. ~(1 < 1)
        OBVIOUS
      <4>. QED  BY <2>1, <4>2, <4>3, Zenon
    <3>. QED  BY <1>2, <3>1
  <2>3. x1[p] \in 0 .. Len(N) - 1 /\ x1[p] + 1 \in 1 .. Len(N)
    BY <1>1, <1>2, <2>1
  <2>4. e \in Data /\ x2' = {e} /\ e.plane = p /\ e.index = x1[p] + 1
    BY <1>1, <2>1, <2>2, <2>3 DEF Data, Numbering!Datagrams
  <2>5. x1' \in [P -> 0 .. Len(N)] /\ x1'[p] = x1[p] + 1 /\ \A q \in P : q # p => x1'[q] = x1[q]
    BY <1>1, <1>2, <2>1, <2>3
  <2>. HIDE DEF e
  <2>6. Air'
    BY <2>4, <2>5
  <2>7. ASSUME NEW q \in P PROVE Arrived(q)' = Arrived(q)
    BY <1>2, <2>2, <2>3, <2>4, <2>5
  <2>8. ASSUME NEW q \in P PROVE After(q)'
    <3>. HIDE DEF Arrived
    <3>. QED  BY <1>2, <2>1, <2>7
  <2>. QED  BY <1>2, <1>3, <2>1, <2>5, <2>6, <2>8
<1>9. CASE Numbering(P, N, B, T)!Lose
  BY <1>9 DEF Numbering!Lose
<1>10. CASE Numbering(P, N, B, T)!Keep
  <2>1. PICK d \in x2 : /\ x2' = x2 \ {d} /\ UNCHANGED <<x1, x5>>
                        /\ x3' = [x3 EXCEPT ![d.plane] = Numbering(P, N, B, T)!Following(d)]
    BY <1>10 DEF Numbering!Keep
  <2>. DEFINE p == d.plane
              k == d.index
  <2>2. x2 = {d} /\ x2' = {} /\ p \in P /\ k \in 1 .. Len(N) /\ x1[p] = k
    BY <1>5, <2>1
  <2>3. (1 + N[k]) % HitModulus \in 0 .. HitModulus - 1
    BY <1>1, <2>2
  <2>4. x3' = [x3 EXCEPT ![p] = (1 + N[k]) % HitModulus]
    BY <2>1 DEF Numbering!Following, Numbering!Number
  <2>. HIDE DEF p, k
  <2>5. /\ x3' \in [P -> -1 .. HitModulus - 1] /\ x3'[p] = (1 + N[k]) % HitModulus
        /\ \A q \in P : q # p => x3'[q] = x3[q]
    <3>. DEFINE v == (1 + N[k]) % HitModulus
                R == -1 .. HitModulus - 1
    <3>1. v \in R
      BY <1>1, <2>3
    <3>. HIDE DEF v, R
    <3>2. x3 \in [P -> R] /\ x3' = [x3 EXCEPT ![p] = v] /\ p \in P
      BY <1>2, <2>2, <2>4, Zenon DEF v, R
    <3>3. x3' \in [P -> R] /\ x3'[p] = v /\ \A q \in P : q # p => x3'[q] = x3[q]
      BY <3>1, <3>2
    <3>. QED  BY <3>3, Zenon DEF v, R
  <2>6. ASSUME NEW q \in P PROVE After(q)'
    <3>1. Arrived(q)' = x1[q]
      BY <2>1, <2>2
    <3>2. q # p => Arrived(q) = x1[q]
      BY <2>2 DEF p
    <3>. HIDE DEF Arrived
    <3>. QED  BY <1>2, <2>2, <2>5, <3>1, <3>2
  <2>. QED  BY <1>2, <1>3, <2>1, <2>2, <2>5, <2>6
<1>11. CASE Numbering(P, N, B, T)!KeepDuplicate
  BY <1>11 DEF Numbering!KeepDuplicate
<1>12. CASE Numbering(P, N, B, T)!reportBadDatagram
  BY <1>6, <1>12 DEF Numbering!reportBadDatagram
<1>13. CASE UNCHANGED Numbering(P, N, B, T)!vars
  <2>1. UNCHANGED <<x1, x2, x3, x5>>
    BY <1>13 DEF Numbering!vars
  <2>. QED  BY <1>2, <1>3, <2>1
<1>. QED  BY <1>7, <1>8, <1>9, <1>10, <1>11, <1>12, <1>13 DEF Numbering!Next

\* With whatever faults, the hits of a plane are kept in order, and its gaps are those between them.
LEMMA LossyHits ==
  LET H == LossySequence!Hits
  IN  /\ \A h \in H : h.plane \in LossyPlanes /\ h.index \in DOMAIN LossyNumbers
      /\ \A d \in LossySequence!Datagrams : /\ d.plane \in LossyPlanes /\ d.index \in DOMAIN LossyNumbers
                                            /\ LossySequence!Hit(d) \in H
                                            /\ LossySequence!Hit(d).plane = d.plane
                                            /\ LossySequence!Hit(d).index = d.index
<1>1. \A d \in LossySequence!Datagrams : d.plane \in LossyPlanes /\ d.index \in DOMAIN LossyNumbers
  BY DEF LossySequence!Datagrams
<1>2. \A d : LossySequence!Hit(d).plane = d.plane /\ LossySequence!Hit(d).index = d.index
  BY DEF LossySequence!Hit
<1>. QED  BY <1>1, <1>2, Zenon DEF LossySequence!Hits

LEMMA LossyInit == LossySequence!NumbersCountOn /\ LossySequence!Init => LossySequence!LossyIInv
<1>. SUFFICES ASSUME LossySequence!NumbersCountOn, LossySequence!Init
              PROVE  LossySequence!LossyIInv
  OBVIOUS
<1>1. HitModulus \in Nat \ {0} /\ Len(LossyNumbers) \in Nat
  BY DEF LossySequence!NumbersCountOn, LossySequence!Numbered
<1>2. x2 = {} /\ x3 = [p \in LossyPlanes |-> -1] /\ x1 = [p \in LossyPlanes |-> 0] /\ x4 = <<>> /\ x6 = {}
  BY DEF LossySequence!Init, LossySequence!Unseen
<1>3. LossySequence!KeptInOrder /\ LossySequence!GapsReported
  BY <1>2 DEF LossySequence!KeptInOrder, LossySequence!GapsReported
<1>4. \A p \in LossyPlanes : LossySequence!Expected(p)
  BY <1>2 DEF LossySequence!Expected
<1>5. /\ x1 \in [LossyPlanes -> 0 .. Len(LossyNumbers)] /\ x3 \in [LossyPlanes -> -1 .. HitModulus - 1]
      /\ x4 \in Seq(LossySequence!Hits)
  BY <1>1, <1>2
<1>. QED  BY <1>2, <1>3, <1>4, <1>5 DEF LossySequence!LossyIInv

\* A hit that is not late is kept, and what is expected and reported follows.
LEMMA LossyKeeps ==
  ASSUME LossySequence!NumbersCountOn, LossySequence!LossyIInv,
         NEW d \in LossySequence!Datagrams, ~LossySequence!Late(d),
         x3' = [x3 EXCEPT ![d.plane] = LossySequence!Following(d)],
         x6' = IF LossySequence!Gap(d) THEN x6 \cup {<<d.plane, d.index>>} ELSE x6,
         x4' = Append(x4, LossySequence!Hit(d))
  PROVE  /\ x4' \in Seq(LossySequence!Hits) /\ x3' \in [LossyPlanes -> -1 .. HitModulus - 1]
         /\ \A p \in LossyPlanes : LossySequence!Expected(p)'
         /\ LossySequence!KeptInOrder' /\ LossySequence!GapsReported'
<1>. DEFINE N == LossyNumbers
            D == DOMAIN LossyNumbers
            p == d.plane
            x == d.index
            n == Len(x4)
            h == LossySequence!Hit(d)
            H == LossySequence!Hits
<1>1. /\ \A i \in D : N[i] \in 0 .. HitModulus - 1 /\ 1 + N[i] < HitModulus /\ i \in Int
      /\ \A i, j \in D : N[i] - N[j] = i - j
      /\ HitModulus \in Nat \ {0}
  <2>1. /\ HitModulus \in Nat \ {0} /\ N \in Seq(0 .. HitModulus - 1) /\ \A i \in D : 1 + N[i] < HitModulus
        /\ \A i, j \in D : N[i] - N[j] = i - j
    BY DEF LossySequence!NumbersCountOn, LossySequence!Numbered
  <2>2. \A i \in D : N[i] \in 0 .. HitModulus - 1 /\ i \in Int
    <3>. DEFINE S == 0 .. HitModulus - 1
    <3>1. N \in Seq(S)
      BY <2>1, Zenon
    <3>. HIDE DEF S
    <3>2. \A i \in D : N[i] \in S /\ i \in Int
      BY <3>1
    <3>. QED  BY <3>2 DEF S
  <2>. QED  BY <2>1, <2>2
<1>2. /\ x4 \in Seq(H) /\ x3 \in [LossyPlanes -> -1 .. HitModulus - 1]
      /\ \A q \in LossyPlanes : LossySequence!Expected(q)
      /\ LossySequence!KeptInOrder /\ LossySequence!GapsReported
  BY Zenon DEF LossySequence!LossyIInv
<1>3. p \in LossyPlanes /\ x \in D /\ h \in H /\ h.plane = p /\ h.index = x
  BY LossyHits, Zenon
<1>4. \A k \in H : k.plane \in LossyPlanes /\ k.index \in D
  BY LossyHits, Zenon
<1>. HIDE DEF N, D, p, x, n, h, H
<1>5. /\ n \in Nat /\ DOMAIN x4 = 1 .. n /\ \A i \in 1 .. n : x4[i] \in H
      /\ x4' \in Seq(H) /\ DOMAIN x4' = 1 .. n + 1 /\ x4'[n + 1] = h
      /\ \A i \in 1 .. n : x4'[i] = x4[i]
  BY <1>2, <1>3 DEF n, h
<1>6. /\ N[x] \in 0 .. HitModulus - 1 /\ x3[p] \in -1 .. HitModulus - 1
      /\ LossySequence!Following(d) = 1 + N[x] /\ 1 + N[x] \in 0 .. HitModulus - 1
  <2>. DEFINE m == 1 + N[x]
  <2>1. m \in 0 .. HitModulus - 1 /\ N[x] \in 0 .. HitModulus - 1 /\ HitModulus \in Nat \ {0}
    BY <1>1, <1>3
  <2>2. m % HitModulus = m
    <3>. HIDE DEF m
    <3>. QED  BY <2>1
  <2>3. LossySequence!Following(d) = m
    BY <2>2 DEF LossySequence!Following, LossySequence!Number, N, x
  <2>. QED  BY <1>2, <1>3, <2>1, <2>3
<1>7. /\ x3[p] # -1 => N[x] >= x3[p]
      /\ LossySequence!Gap(d) <=> x3[p] # -1 /\ N[x] > x3[p]
  BY <1>6 DEF LossySequence!Late, LossySequence!Gap, LossySequence!NextNumber, LossySequence!Number, N, x, p
<1>8. /\ x3' \in [LossyPlanes -> -1 .. HitModulus - 1] /\ x3'[p] = 1 + N[x]
      /\ \A q \in LossyPlanes : q # p => x3'[q] = x3[q]
  BY <1>2, <1>3, <1>6 DEF p
\* The last hit of the plane, if it has one.
<1>9. \/ x3[p] = -1 /\ \A i \in 1 .. n : x4[i].plane # p
      \/ \E l \in 1 .. n : /\ x4[l].plane = p /\ x3[p] = 1 + N[x4[l].index] /\ x4[l].index \in D
                           /\ x4[l].index < x
                           /\ LossySequence!Gap(d) <=> x4[l].index < x - 1
                           /\ \A j \in 1 .. n : x4[j].plane = p => j <= l
  <2>1. CASE x3[p] = -1 /\ \A i \in DOMAIN x4 : x4[i].plane # p
    BY <1>5, <2>1
  <2>2. ASSUME NEW l \in DOMAIN x4, x4[l].plane = p, x3[p] = 1 + N[x4[l].index],
               \A j \in DOMAIN x4 : x4[j].plane = p => j <= l
        PROVE  /\ l \in 1 .. n /\ x4[l].index \in D /\ x4[l].index < x
               /\ LossySequence!Gap(d) <=> x4[l].index < x - 1
    <3>. DEFINE y == x4[l].index
    <3>1. l \in 1 .. n /\ y \in D
      BY <1>4, <1>5
    <3>2. x3[p] = 1 + N[y]
      BY <2>2
    <3>. HIDE DEF y
    <3>3. N[x] - N[y] = x - y /\ x \in Int /\ y \in Int /\ N[x] \in Nat /\ N[y] \in Nat
      BY <1>1, <1>3, <3>1
    <3>4. y < x /\ (LossySequence!Gap(d) <=> y < x - 1)
      BY <1>7, <3>2, <3>3
    <3>. QED  BY <3>1, <3>4 DEF y
  <2>. QED  BY <1>2, <1>3, <1>5, <2>1, <2>2 DEF LossySequence!Expected, N
<1>10. LossySequence!KeptInOrder'
  <2>1. ASSUME NEW i \in 1 .. n, x4[i].plane = p
        PROVE  x4[i].index < x
    <3>1. PICK l \in 1 .. n : /\ x4[l].plane = p /\ x4[l].index \in D /\ x4[l].index < x
                              /\ \A j \in 1 .. n : x4[j].plane = p => j <= l
      BY <1>9, <2>1
    <3>2. i = l \/ i < l
      BY <2>1, <3>1
    <3>3. i < l => x4[i].index < x4[l].index
      BY <1>2, <1>5, <2>1, <3>1 DEF LossySequence!KeptInOrder
    <3>4. x4[i].index \in Int /\ x4[l].index \in Int /\ x \in Int
      BY <1>1, <1>3, <1>4, <1>5
    <3>. QED  BY <3>1, <3>2, <3>3, <3>4
  <2>2. ASSUME NEW i \in 1 .. n + 1, NEW j \in 1 .. n + 1, i < j, x4'[i].plane = x4'[j].plane
        PROVE  x4'[i].index < x4'[j].index
    <3>1. i \in 1 .. n /\ x4'[i] = x4[i]
      BY <1>5, <2>2
    <3>2. CASE j = n + 1
      BY <1>3, <1>5, <2>1, <2>2, <3>1, <3>2
    <3>3. CASE j \in 1 .. n
      BY <1>2, <1>5, <2>2, <3>1, <3>3 DEF LossySequence!KeptInOrder
    <3>. QED  BY <1>5, <3>2, <3>3
  <2>. QED  BY <1>5, <2>2 DEF LossySequence!KeptInOrder
<1>11. ASSUME NEW q \in LossyPlanes
       PROVE  LossySequence!Expected(q)'
  <2>1. CASE q = p
    BY <1>3, <1>5, <1>8, <2>1 DEF LossySequence!Expected, N
  <2>2. CASE q # p
    <3>1. CASE x3[q] = -1 /\ \A i \in DOMAIN x4 : x4[i].plane # q
      BY <1>3, <1>5, <1>8, <2>2, <3>1 DEF LossySequence!Expected
    <3>2. ASSUME NEW i \in DOMAIN x4, x4[i].plane = q, x3[q] = 1 + N[x4[i].index],
                 \A j \in DOMAIN x4 : x4[j].plane = q => j <= i
          PROVE  LossySequence!Expected(q)'
      <4>1. i \in DOMAIN x4' /\ x4'[i] = x4[i] /\ x3'[q] = 1 + N[x4'[i].index]
        BY <1>5, <1>8, <2>2, <3>2
      <4>2. \A j \in DOMAIN x4' : x4'[j].plane = q => j <= i
        BY <1>3, <1>5, <2>2, <3>2
      <4>. QED  BY <3>2, <4>1, <4>2 DEF LossySequence!Expected, N
    <3>. QED  BY <1>2, <3>1, <3>2 DEF LossySequence!Expected, N
  <2>. QED  BY <2>1, <2>2
\* Two hits of a plane are successive as they were, and the new one follows the last.
<1>12. LossySequence!GapsReported'
  <2>. DEFINE Apart(q, z) == \E i, j \in DOMAIN x4 : /\ LossySequence!Successive(q, i, j) /\ x4[j].index = z
                                                     /\ x4[i].index < z - 1
              S(q, i, j) == LossySequence!Successive(q, i, j)
  <2>1. ASSUME NEW q, NEW i \in 1 .. n, NEW j \in 1 .. n
        PROVE  S(q, i, j)' <=> S(q, i, j)
    <3>1. \A k \in i + 1 .. j - 1 : k \in 1 .. n /\ x4'[k] = x4[k]
      BY <1>5
    <3>. QED  BY <1>5, <3>1 DEF LossySequence!Successive
  <2>2. ASSUME NEW q, NEW z, Apart(q, z) PROVE Apart(q, z)'
    <3>1. PICK i, j \in 1 .. n : S(q, i, j) /\ x4[j].index = z /\ x4[i].index < z - 1
      BY <1>5, <2>2
    <3>2. S(q, i, j)' /\ x4'[j].index = z /\ x4'[i].index < z - 1 /\ i \in DOMAIN x4' /\ j \in DOMAIN x4'
      BY <1>5, <2>1, <3>1
    <3>. QED  BY <3>2
  <2>3. ASSUME LossySequence!Gap(d) PROVE Apart(p, x)'
    <3>1. PICK l \in 1 .. n : /\ x4[l].plane = p /\ x4[l].index < x - 1
                              /\ \A j \in 1 .. n : x4[j].plane = p => j <= l
      BY <1>7, <1>9, <2>3
    <3>2. PICK e : e = n + 1
      OBVIOUS
    <3>3. S(p, l, e)'
      <4>1. ASSUME NEW k \in l + 1 .. e - 1
            PROVE  x4'[k].plane # p
        <5>1. k \in 1 .. n /\ l < k /\ x4'[k] = x4[k]
          BY <1>5, <3>2, <4>1
        <5>2. ~(k <= l)
          BY <5>1
        <5>. QED  BY <3>1, <5>1, <5>2
      <4>2. l < e /\ x4'[l].plane = p /\ x4'[e].plane = p
        BY <1>3, <1>5, <3>1, <3>2
      <4>. QED  BY <4>1, <4>2 DEF LossySequence!Successive
    <3>4. l \in DOMAIN x4' /\ e \in DOMAIN x4' /\ x4'[e].index = x /\ x4'[l].index < x - 1
      BY <1>3, <1>5, <3>1, <3>2
    <3>. QED  BY <3>3, <3>4
  <2>4. ASSUME NEW q, NEW z, Apart(q, z)'
        PROVE  Apart(q, z) \/ (LossySequence!Gap(d) /\ q = p /\ z = x)
    <3>1. PICK i, j \in 1 .. n + 1 : S(q, i, j)' /\ x4'[j].index = z /\ x4'[i].index < z - 1
      BY <1>5, <2>4
    <3>2. i < j /\ i \in 1 .. n /\ x4'[i] = x4[i] /\ x4'[i].plane = q /\ x4'[j].plane = q
      BY <1>5, <3>1 DEF LossySequence!Successive
    <3>3. CASE j \in 1 .. n
      BY <1>5, <2>1, <3>1, <3>2, <3>3
    <3>4. CASE j = n + 1
      <4>1. q = p /\ z = x /\ x4[i].plane = p
        BY <1>3, <1>5, <3>1, <3>2, <3>4
      <4>2. PICK l \in 1 .. n : /\ x4[l].plane = p
                                /\ LossySequence!Gap(d) <=> x4[l].index < x - 1
                                /\ \A k \in 1 .. n : x4[k].plane = p => k <= l
        BY <1>9, <3>2, <4>1
      <4>3. \A k \in i + 1 .. n : x4[k].plane # p
        BY <1>5, <3>1, <3>4, <4>1 DEF LossySequence!Successive
      <4>4. i = l
        <5>1. i <= l
          BY <3>2, <4>1, <4>2
        <5>2. l \notin i + 1 .. n
          BY <4>2, <4>3
        <5>. QED  BY <1>5, <3>2, <4>2, <5>1, <5>2
      <4>. QED  BY <3>1, <3>2, <4>1, <4>2, <4>4
    <3>. QED  BY <1>5, <3>3, <3>4
  <2>5. x6 = {g \in LossyPlanes \X D : Apart(g[1], g[2])}
    BY <1>2 DEF LossySequence!GapsReported, D
  <2>. HIDE DEF Apart
  <2>6. x6' = {g \in LossyPlanes \X D : Apart(g[1], g[2])'}
    <3>1. \A q \in LossyPlanes, z \in D : <<q, z>> \in x6 <=> Apart(q, z)
      BY <2>5
    <3>2. x6' = IF LossySequence!Gap(d) THEN x6 \cup {<<p, x>>} ELSE x6
      BY Zenon DEF p, x
    <3>3. \A q \in LossyPlanes, z \in D :
            Apart(q, z)' <=> Apart(q, z) \/ (LossySequence!Gap(d) /\ q = p /\ z = x)
      BY <2>2, <2>3, <2>4, Zenon
    <3>4. x6 \subseteq LossyPlanes \X D /\ x6' \subseteq LossyPlanes \X D
      BY <1>3, <2>5, <3>2
    <3>5. \A q \in LossyPlanes, z \in D : <<q, z>> \in x6' <=> Apart(q, z)'
      BY <3>1, <3>2, <3>3
    <3>. QED  BY <3>4, <3>5
  <2>. QED  BY <2>6 DEF Apart, LossySequence!GapsReported, D
<1>. QED  BY <1>5, <1>8, <1>10, <1>11, <1>12, Zenon DEF H

LEMMA LossyNext ==
  ASSUME LossySequence!NumbersCountOn, LossySequence!LossyIInv,
         [LossySequence!Next]_(LossySequence!vars)
  PROVE  LossySequence!LossyIInv'
<1>. DEFINE Sent == x1 \in [LossyPlanes -> 0 .. Len(LossyNumbers)]
            Air == x2 \subseteq LossySequence!Datagrams
            Mined == /\ x4 \in Seq(LossySequence!Hits) /\ x3 \in [LossyPlanes -> -1 .. HitModulus - 1]
                     /\ \A p \in LossyPlanes : LossySequence!Expected(p)
                     /\ LossySequence!KeptInOrder /\ LossySequence!GapsReported
<1>1. Sent /\ Air /\ Mined
  BY Zenon DEF LossySequence!LossyIInv
<1>2. Sent' /\ Air' /\ Mined' => LossySequence!LossyIInv'
  BY Zenon DEF LossySequence!LossyIInv
<1>3. HitModulus \in Nat \ {0} /\ Len(LossyNumbers) \in Nat /\ DOMAIN LossyNumbers = 1 .. Len(LossyNumbers)
  BY DEF LossySequence!NumbersCountOn, LossySequence!Numbered
<1>4. UNCHANGED <<x3, x4, x6>> => Mined'
  <2>. SUFFICES ASSUME x3' = x3, x4' = x4, x6' = x6 PROVE Mined'
    BY Zenon
  <2>1. LossySequence!KeptInOrder'
    BY <1>1, Zenon DEF LossySequence!KeptInOrder
  <2>2. \A p \in LossyPlanes : LossySequence!Expected(p)'
    BY <1>1, Zenon DEF LossySequence!Expected
  <2>3. LossySequence!GapsReported'
    BY <1>1, ZenonT(40) DEF LossySequence!GapsReported, LossySequence!Successive
  <2>. QED  BY <1>1, <2>1, <2>2, <2>3, Zenon
<1>5. CASE LossySequence!startData
  <2>1. /\ x3' = [p \in LossyPlanes |-> -1] /\ x4' = <<>> /\ x6' = {} /\ UNCHANGED <<x1, x2>>
    BY <1>5 DEF LossySequence!startData, LossySequence!Unseen
  <2>2. LossySequence!KeptInOrder' /\ LossySequence!GapsReported'
    BY <2>1 DEF LossySequence!KeptInOrder, LossySequence!GapsReported
  <2>3. \A p \in LossyPlanes : LossySequence!Expected(p)'
    BY <2>1 DEF LossySequence!Expected
  <2>4. x4' \in Seq(LossySequence!Hits) /\ x3' \in [LossyPlanes -> -1 .. HitModulus - 1]
    BY <1>3, <2>1
  <2>. QED  BY <1>1, <1>2, <2>1, <2>2, <2>3, <2>4, Zenon
<1>6. CASE LossySequence!Send
  <2>1. PICK p \in LossyPlanes, f \in LossySequence!Forms, b \in LossyBytes :
          /\ x1[p] < Len(LossyNumbers) /\ x1' = [x1 EXCEPT ![p] = @ + 1]
          /\ x2' = x2 \cup {[plane |-> p, index |-> x1[p] + 1, form |-> f, byte |-> b]}
          /\ UNCHANGED <<x3, x4, x6>>
    BY <1>6 DEF LossySequence!Send
  <2>2. x1[p] + 1 \in DOMAIN LossyNumbers
    BY <1>1, <1>3, <2>1
  <2>3. Sent'
    BY <1>1, <1>3, <2>1, <2>2
  <2>4. [plane |-> p, index |-> x1[p] + 1, form |-> f, byte |-> b] \in LossySequence!Datagrams
    BY <2>2 DEF LossySequence!Datagrams
  <2>5. Air'
    BY <1>1, <2>1, <2>4, Zenon
  <2>. QED  BY <1>2, <1>4, <2>1, <2>3, <2>5, Zenon
<1>7. CASE LossySequence!Lose
  <2>1. x2' \subseteq x2 /\ UNCHANGED <<x1, x3, x4, x6>>
    BY <1>7 DEF LossySequence!Lose
  <2>. QED  BY <1>1, <1>2, <1>4, <2>1, Zenon
<1>8. CASE LossySequence!Keep \/ LossySequence!KeepDuplicate
  <2>1. PICK d \in x2 :
          /\ ~LossySequence!Late(d) /\ x2' \subseteq x2 /\ x1' = x1
          /\ x3' = [x3 EXCEPT ![d.plane] = LossySequence!Following(d)]
          /\ x6' = IF LossySequence!Gap(d) THEN x6 \cup {<<d.plane, d.index>>} ELSE x6
          /\ x4' = Append(x4, LossySequence!Hit(d))
    <3>1. CASE LossySequence!Keep
      BY <3>1 DEF LossySequence!Keep
    <3>2. CASE LossySequence!KeepDuplicate
      BY <3>2 DEF LossySequence!KeepDuplicate
    <3>. QED  BY <1>8, <3>1, <3>2
  <2>2. d \in LossySequence!Datagrams
    BY <1>1
  <2>3. Mined'
    BY <2>1, <2>2, LossyKeeps, Zenon
  <2>. QED  BY <1>1, <1>2, <2>1, <2>3, Zenon
<1>9. CASE LossySequence!reportBadDatagram
  <2>1. x2' \subseteq x2 /\ UNCHANGED <<x1, x3, x4, x6>>
    BY <1>9 DEF LossySequence!reportBadDatagram
  <2>. QED  BY <1>1, <1>2, <1>4, <2>1, Zenon
<1>10. CASE UNCHANGED LossySequence!vars
  <2>1. UNCHANGED <<x1, x2, x3, x4, x6>>
    BY <1>10 DEF LossySequence!vars
  <2>. QED  BY <1>1, <1>2, <1>4, <2>1, Zenon
<1>. QED  BY <1>5, <1>6, <1>7, <1>8, <1>9, <1>10, Zenon DEF LossySequence!Next

(* --- Daqsitter: x1 is its arrived, x2 its received, x3 its clb_buffer, x4 its *)
(* clb, x6 its file and x7 its elastic ------------------------------------------ *)
LEMMA SitterSets ==
  ASSUME NEW S
  PROVE  Daqsitter!Cardinality(S) = Cardinality(S)
BY Zenon DEF Daqsitter!Cardinality, Cardinality

\* How many are accepted of one more.
LEMMA SitterRank ==
  ASSUME NEW CONSTANT n \in Nat
  PROVE  /\ IsFiniteSet(Daqsitter!AcceptedOf(n)) /\ Cardinality(Daqsitter!AcceptedOf(n)) \in Nat
         /\ Daqsitter!Accepted(x1[n + 1]) =>
              /\ Daqsitter!AcceptedOf(n + 1) = Daqsitter!AcceptedOf(n) \cup {n + 1}
              /\ Cardinality(Daqsitter!AcceptedOf(n + 1)) = Cardinality(Daqsitter!AcceptedOf(n)) + 1
         /\ ~Daqsitter!Accepted(x1[n + 1]) => Daqsitter!AcceptedOf(n + 1) = Daqsitter!AcceptedOf(n)
         /\ \A i \in Daqsitter!AcceptedOf(n) :
              Cardinality(Daqsitter!AcceptedOf(i)) \in 1 .. Cardinality(Daqsitter!AcceptedOf(n))
<1>. DEFINE A(m) == Daqsitter!AcceptedOf(m)
<1>1. ASSUME NEW m \in Nat PROVE IsFiniteSet(A(m)) /\ Cardinality(A(m)) \in Nat
  <2>1. A(m) \subseteq 1 .. m
    BY DEF Daqsitter!AcceptedOf
  <2>2. IsFiniteSet(1 .. m)
    BY FS_Interval
  <2>3. IsFiniteSet(A(m))
    BY <2>1, <2>2, FS_Subset
  <2>. QED  BY <2>3, FS_CardinalityType
<1>2. ASSUME Daqsitter!Accepted(x1[n + 1])
      PROVE  A(n + 1) = A(n) \cup {n + 1} /\ Cardinality(A(n + 1)) = Cardinality(A(n)) + 1
  <2>1. A(n + 1) = A(n) \cup {n + 1} /\ n + 1 \notin A(n)
    BY <1>2 DEF Daqsitter!AcceptedOf
  <2>. HIDE DEF A
  <2>. QED  BY <1>1, <2>1, FS_AddElement
<1>3. ~Daqsitter!Accepted(x1[n + 1]) => A(n + 1) = A(n)
  BY DEF Daqsitter!AcceptedOf
<1>4. ASSUME NEW i \in A(n)
      PROVE  Cardinality(A(i)) \in 1 .. Cardinality(A(n))
  <2>1. i \in Nat /\ A(i) \subseteq A(n) /\ {i} \subseteq A(i)
    BY DEF Daqsitter!AcceptedOf
  <2>. HIDE DEF A
  <2>2. Cardinality(A(i)) <= Cardinality(A(n))
    BY <1>1, <2>1, FS_Subset
  <2>3. Cardinality({i}) <= Cardinality(A(i))
    BY <1>1, <2>1, FS_Subset
  <2>4. Cardinality({i}) = 1
    BY FS_Singleton
  <2>. QED  BY <1>1, <2>1, <2>2, <2>3, <2>4
<1>. QED  BY <1>1, <1>2, <1>3, <1>4, Zenon DEF A

LEMMA SitterInit == Daqsitter!Init => Daqsitter!IInv
<1>. SUFFICES ASSUME Daqsitter!Init PROVE Daqsitter!IInv
  OBVIOUS
<1>1. x1 = <<>> /\ x2 = 0 /\ x3 = <<>> /\ x4 = Daqsitter!Asked /\ x6 = <<>> /\ x7 = <<>>
  BY DEF Daqsitter!Init
<1>2. Daqsitter!Done = 0
  BY <1>1 DEF Daqsitter!Done, Daqsitter!Asked
<1>3. Daqsitter!AcceptedOf(0) = {}
  BY DEF Daqsitter!AcceptedOf
<1>4. Daqsitter!RecordedUpTo(0)
  <2>1. Daqsitter!Cardinality({}) = 0
    BY SitterSets, FS_EmptySet
  <2>. QED  BY <1>1, <1>3, <2>1 DEF Daqsitter!RecordedUpTo
<1>. QED  BY <1>1, <1>2, <1>4 DEF Daqsitter!IInv

\* What is recorded stays as long as what is received does; the next one is recorded if accepted.
LEMMA SitterRecords ==
  ASSUME NEW CONSTANT n \in Nat, Daqsitter!RecordedUpTo(n)
  PROVE  /\ (\A i \in 1 .. n : x1'[i] = x1[i]) /\ x7' = x7 => Daqsitter!RecordedUpTo(n)'
         /\ ~Daqsitter!Accepted(x1[n + 1]) /\ x1' = x1 /\ x7' = x7 => Daqsitter!RecordedUpTo(n + 1)'
         /\ \A S : Daqsitter!Accepted(x1[n + 1]) /\ x1' = x1 /\ x7 \in Seq(S)
                   /\ x1[n + 1].sc.duration # 0
                   /\ Daqsitter!Record(x1[n + 1]) \in S /\ x7' = Append(x7, Daqsitter!Record(x1[n + 1])) =>
                     Daqsitter!RecordedUpTo(n + 1)'
<1>. DEFINE A(m) == Daqsitter!AcceptedOf(m)
            Rank(m) == Cardinality(A(m))
<1>1. ASSUME NEW m \in Nat, \A i \in 1 .. m : x1'[i] = x1[i]
      PROVE  Daqsitter!AcceptedOf(m)' = A(m)
  BY <1>1, Zenon DEF Daqsitter!AcceptedOf, Daqsitter!Accepted
<1>2. Len(x7) = Rank(n) /\ \A i \in A(n) : Daqsitter!Recorded(x7[Rank(i)], x1[i])
  BY SitterSets, Zenon DEF Daqsitter!RecordedUpTo
<1>3. \A m \in Nat : \A i \in A(m) : i \in Nat /\ i \in 1 .. m /\ 1 .. i \subseteq 1 .. m
  BY DEF Daqsitter!AcceptedOf
<1>4. ASSUME NEW m \in Nat, \A i \in 1 .. m : x1'[i] = x1[i],
             Len(x7') = Rank(m), \A i \in A(m) : Daqsitter!Recorded(x7'[Rank(i)], x1[i])
      PROVE  Daqsitter!RecordedUpTo(m)'
  <2>1. Daqsitter!AcceptedOf(m)' = A(m) /\ \A i \in A(m) : Daqsitter!AcceptedOf(i)' = A(i)
    <3>1. Daqsitter!AcceptedOf(m)' = A(m)
      BY <1>1, <1>4
    <3>2. ASSUME NEW i \in A(m) PROVE Daqsitter!AcceptedOf(i)' = A(i)
      <4>1. i \in Nat /\ \A j \in 1 .. i : x1'[j] = x1[j]
        BY <1>3, <1>4, <3>2, Zenon
      <4>. QED  BY <1>1, <4>1, Zenon
    <3>. QED  BY <3>1, <3>2, Zenon
  <2>2. Len(x7') = Daqsitter!Cardinality(Daqsitter!AcceptedOf(m)')
    BY <1>4, <2>1, SitterSets, Zenon
  <2>3. ASSUME NEW i \in A(m)
        PROVE  Daqsitter!Recorded(x7'[Daqsitter!Cardinality(Daqsitter!AcceptedOf(i)')], x1'[i])
    <3>1. x1'[i] = x1[i]
      BY <1>3, <1>4, <2>3, Zenon
    <3>. QED  BY <1>4, <2>1, <2>3, <3>1, SitterSets, Zenon
  <2>. QED  BY <2>1, <2>2, <2>3, Zenon DEF Daqsitter!RecordedUpTo, Daqsitter!Recorded
<1>5. /\ IsFiniteSet(A(n)) /\ Rank(n) \in Nat
      /\ Daqsitter!Accepted(x1[n + 1]) => A(n + 1) = A(n) \cup {n + 1} /\ Rank(n + 1) = Rank(n) + 1
      /\ ~Daqsitter!Accepted(x1[n + 1]) => A(n + 1) = A(n)
      /\ \A i \in A(n) : Rank(i) \in 1 .. Rank(n)
  BY SitterRank, Zenon
<1>6. n + 1 \in Nat
  OBVIOUS
<1>. HIDE DEF A
<1>7. ASSUME \A i \in 1 .. n : x1'[i] = x1[i], x7' = x7
      PROVE  Daqsitter!RecordedUpTo(n)'
  BY <1>2, <1>4, <1>7, Zenon
<1>8. ASSUME ~Daqsitter!Accepted(x1[n + 1]), x1' = x1, x7' = x7
      PROVE  Daqsitter!RecordedUpTo(n + 1)'
  <2>1. A(n + 1) = A(n) /\ \A i \in 1 .. n + 1 : x1'[i] = x1[i]
    BY <1>5, <1>8, Zenon
  <2>. QED  BY <1>2, <1>4, <1>6, <1>8, <2>1, Zenon
<1>9. ASSUME NEW S, Daqsitter!Accepted(x1[n + 1]), x1' = x1, x7 \in Seq(S),
             x1[n + 1].sc.duration # 0, Daqsitter!Record(x1[n + 1]) \in S, x7' = Append(x7, Daqsitter!Record(x1[n + 1]))
      PROVE  Daqsitter!RecordedUpTo(n + 1)'
  <2>. DEFINE R == Daqsitter!Record(x1[n + 1])
  <2>1. A(n + 1) = A(n) \cup {n + 1} /\ Rank(n + 1) = Rank(n) + 1 /\ \A i \in 1 .. n + 1 : x1'[i] = x1[i]
    BY <1>5, <1>9, Zenon
  <2>2. R \in S /\ x7' = Append(x7, R)
    BY <1>9
  <2>. HIDE DEF R
  <2>3. /\ Len(x7') = Len(x7) + 1 /\ x7'[Len(x7) + 1] = R
        /\ \A k \in 1 .. Len(x7) : x7'[k] = x7[k]
    BY <1>9, <2>2
  <2>4. Len(x7') = Rank(n + 1)
    BY <1>2, <2>1, <2>3, Zenon
  <2>5. ASSUME NEW i \in A(n + 1) PROVE Daqsitter!Recorded(x7'[Rank(i)], x1[i])
    <3>1. CASE i \in A(n)
      BY <1>2, <1>5, <2>3, <3>1, Zenon
    <3>2. CASE i = n + 1
      <4>1. x7'[Rank(n + 1)] = R
        BY <1>2, <2>1, <2>3, Zenon
      <4>. QED  BY <1>9, <3>2, <4>1, Zenon DEF R, Daqsitter!Recorded
    <3>. QED  BY <2>1, <3>1, <3>2, Zenon
  <2>. QED  BY <1>4, <1>6, <2>1, <2>4, <2>5, Zenon
<1>. QED  BY <1>7, <1>8, <1>9, Zenon

\* A step that leaves what is recorded, and the datagrams dealt with, keeps the invariant.
LEMMA SitterKeeps ==
  ASSUME Daqsitter!IInv, x6' = x6, x7' = x7, Daqsitter!Done' = Daqsitter!Done,
         x1' \in Seq(SitterDatagrams), x2' \in 0 .. Len(x1'),
         x4' \in {Daqsitter!Asked, [requests |-> 0, handlers |-> 1]},
         x3' = <<>> \/ (x2' > 0 /\ x3' = <<x1'[x2']>>),
         \A i \in 1 .. x2 : x1'[i] = x1[i]
  PROVE  Daqsitter!IInv'
<1>1. Daqsitter!Done \in Nat /\ 1 .. Daqsitter!Done \subseteq 1 .. x2
  BY DEF Daqsitter!IInv, Daqsitter!Done
<1>2. PICK n \in Nat : n = Daqsitter!Done
  BY <1>1
<1>3. (SitterElastic /\ SitterSampled => Daqsitter!RecordedUpTo(Daqsitter!Done))'
  <2>. SUFFICES ASSUME SitterElastic, SitterSampled PROVE Daqsitter!RecordedUpTo(Daqsitter!Done)'
    BY Zenon
  <2>1. Daqsitter!RecordedUpTo(n)
    BY <1>2, Zenon DEF Daqsitter!IInv
  <2>2. \A i \in 1 .. n : x1'[i] = x1[i]
    BY <1>1, <1>2, Zenon
  <2>3. Daqsitter!RecordedUpTo(n)'
    BY <2>1, <2>2, SitterRecords, Zenon
  <2>4. Daqsitter!Done' = n
    BY <1>2, Zenon
  <2>. QED  BY <2>3, <2>4, Zenon DEF Daqsitter!RecordedUpTo, Daqsitter!AcceptedOf, Daqsitter!Recorded
<1>4. /\ x7' \in Seq(Daqsitter!Records) /\ (~SitterElastic => x7' = <<>>)
      /\ SitterElastic /\ SitterFile => x6' = x7'
  BY Zenon DEF Daqsitter!IInv
<1>5. (Daqsitter!Records)' = Daqsitter!Records /\ (Daqsitter!Asked)' = Daqsitter!Asked
  BY Zenon DEF Daqsitter!Records, Daqsitter!Accepted, Daqsitter!Record, Daqsitter!pom_data, Daqsitter!channel_data,
               Daqsitter!Asked
<1>. QED  BY <1>3, <1>4, <1>5, Zenon DEF Daqsitter!IInv

\* The one in the handler is dealt with: recorded if the sample has it and it is accepted.
LEMMA SitterHandles ==
  ASSUME Daqsitter!IInv, Daqsitter!HandleRefused \/ Daqsitter!HandleAccepted
  PROVE  Daqsitter!IInv'
<1>1. /\ x1 \in Seq(SitterDatagrams) /\ x2 \in 0 .. Len(x1)
      /\ x4 \in {Daqsitter!Asked, [requests |-> 0, handlers |-> 1]}
      /\ x3 = <<>> \/ (x2 > 0 /\ x3 = <<x1[x2]>>)
      /\ x7 \in Seq(Daqsitter!Records) /\ (~SitterElastic => x7 = <<>>)
      /\ SitterElastic /\ SitterFile => x6 = x7
  BY Zenon DEF Daqsitter!IInv
<1>2. x4.handlers > 0 /\ x4' = Daqsitter!Ended(x4) /\ x1' = x1 /\ x2' = x2 /\ x3' = x3
  BY DEF Daqsitter!HandleRefused, Daqsitter!HandleAccepted
<1>3. x4 = [requests |-> 0, handlers |-> 1] /\ x4' = Daqsitter!Asked
  BY <1>1, <1>2 DEF Daqsitter!Asked, Daqsitter!Ended
<1>4. Daqsitter!Done' = x2 /\ (x3 = <<>> => Daqsitter!Done = x2)
  BY <1>2, <1>3 DEF Daqsitter!Done, Daqsitter!Asked
<1>5. (Daqsitter!Records)' = Daqsitter!Records /\ (Daqsitter!Asked)' = Daqsitter!Asked
  BY Zenon DEF Daqsitter!Records, Daqsitter!Accepted, Daqsitter!Record, Daqsitter!pom_data, Daqsitter!channel_data,
               Daqsitter!Asked
<1>6. CASE x3 = <<>>
  <2>1. x6' = x6 /\ x7' = x7
    BY <1>6 DEF Daqsitter!HandleRefused, Daqsitter!HandleAccepted
  <2>2. Daqsitter!Done' = Daqsitter!Done
    BY <1>4, <1>6, Zenon
  <2>3. x4' \in {Daqsitter!Asked, [requests |-> 0, handlers |-> 1]}
    BY <1>3, Zenon
  <2>. QED  BY <1>1, <1>2, <2>1, <2>2, <2>3, SitterKeeps, Zenon
<1>7. CASE x3 # <<>>
  <2>1. x2 > 0 /\ x3 = <<x1[x2]>> /\ x2 \in Nat /\ x1[x2] \in SitterDatagrams
    BY <1>1, <1>7
  <2>2. PICK n \in Nat : x2 = n + 1
    BY <2>1
  <2>3. Daqsitter!Done = n
    BY <1>3, <1>7, <2>2 DEF Daqsitter!Done
  <2>4. x3 = <<x1[n + 1]>> /\ x1[n + 1] \in SitterDatagrams
    BY <2>1, <2>2, Zenon
  <2>5. SitterElastic /\ SitterSampled => Daqsitter!RecordedUpTo(n)
    BY <2>3, Zenon DEF Daqsitter!IInv
  <2>. DEFINE Ok == Daqsitter!Accepted(x1[n + 1])
              R == Daqsitter!Record(x1[n + 1])
  <2>6. \/ x6' = x6 /\ x7' = x7 /\ (SitterSampled => ~Ok)
        \/ /\ Ok /\ R \in Daqsitter!Records /\ x1[n + 1].sc.duration # 0
           /\ x6' = (IF SitterFile THEN Append(x6, R) ELSE x6)
           /\ x7' = (IF SitterElastic THEN Append(x7, R) ELSE x7)
    <3>1. DOMAIN x3 = {1} /\ x3[1] = x1[n + 1]
      BY <2>4
    <3>2. CASE Daqsitter!HandleRefused
      <4>1. x6' = x6 /\ x7' = x7 /\ ~\E i \in DOMAIN x3 : SitterSampled /\ Daqsitter!Accepted(x3[i])
        BY <3>2, Zenon DEF Daqsitter!HandleRefused, Daqsitter!Refused
      <4>2. 1 \in DOMAIN x3
        BY <3>1
      <4>. QED  BY <3>1, <4>1, <4>2, Zenon
    <3>3. CASE Daqsitter!HandleAccepted
      <4>1. /\ Daqsitter!Accepted(x3[1]) /\ x3[1].sc.duration # 0
            /\ x6' = (IF SitterFile THEN Append(x6, Daqsitter!Record(x3[1])) ELSE x6)
            /\ x7' = (IF SitterElastic THEN Append(x7, Daqsitter!Record(x3[1])) ELSE x7)
        BY <3>3, Zenon DEF Daqsitter!HandleAccepted
      <4>2. /\ Ok /\ x1[n + 1].sc.duration # 0
            /\ x6' = (IF SitterFile THEN Append(x6, R) ELSE x6)
            /\ x7' = (IF SitterElastic THEN Append(x7, R) ELSE x7)
        BY <3>1, <4>1, Zenon
      <4>3. R \in Daqsitter!Records
        BY <2>4, <4>2, Zenon DEF Daqsitter!Records
      <4>. QED  BY <4>2, <4>3, Zenon
    <3>. QED  BY <3>2, <3>3, Zenon
  <2>7. x7' \in Seq(Daqsitter!Records) /\ (~SitterElastic => x7' = <<>>)
        /\ (SitterElastic /\ SitterFile => x6' = x7')
    <3>. HIDE DEF Ok, R
    <3>1. R \in Daqsitter!Records => Append(x7, R) \in Seq(Daqsitter!Records)
      BY <1>1
    <3>. QED  BY <1>1, <2>6, <3>1, Zenon
  <2>8. (SitterElastic /\ SitterSampled => Daqsitter!RecordedUpTo(Daqsitter!Done))'
    <3>. SUFFICES ASSUME SitterElastic, SitterSampled PROVE Daqsitter!RecordedUpTo(Daqsitter!Done)'
      BY Zenon
    <3>1. Daqsitter!RecordedUpTo(n)
      BY <2>5
    <3>2. Daqsitter!RecordedUpTo(n + 1)'
      <4>1. CASE x7' = x7 /\ ~Ok
        BY <1>2, <3>1, <4>1, SitterRecords, Zenon
      <4>2. CASE Ok /\ x1[n + 1].sc.duration # 0 /\ R \in Daqsitter!Records /\ x7' = Append(x7, R)
        BY <1>1, <1>2, <3>1, <4>2, SitterRecords, Zenon
      <4>. QED  BY <2>6, <4>1, <4>2, Zenon
    <3>3. Daqsitter!Done' = n + 1
      BY <1>4, <2>2, Zenon
    <3>. QED  BY <3>2, <3>3, Zenon DEF Daqsitter!RecordedUpTo, Daqsitter!AcceptedOf, Daqsitter!Recorded
  <2>9. /\ x1' \in Seq(SitterDatagrams) /\ x2' \in 0 .. Len(x1')
        /\ x4' \in {Daqsitter!Asked, [requests |-> 0, handlers |-> 1]}
        /\ x3' = <<>> \/ (x2' > 0 /\ x3' = <<x1'[x2']>>)
    BY <1>1, <1>2, <1>3, Zenon
  <2>. QED  BY <1>5, <2>7, <2>8, <2>9, Zenon DEF Daqsitter!IInv
<1>. QED  BY <1>6, <1>7

LEMMA SitterNext ==
  ASSUME Daqsitter!IInv, [Daqsitter!Next]_(Daqsitter!vars)
  PROVE  Daqsitter!IInv'
<1>1. /\ x1 \in Seq(SitterDatagrams) /\ x2 \in 0 .. Len(x1)
      /\ x4 \in {Daqsitter!Asked, [requests |-> 0, handlers |-> 1]}
      /\ x3 = <<>> \/ (x2 > 0 /\ x3 = <<x1[x2]>>)
  BY Zenon DEF Daqsitter!IInv
<1>2. CASE Daqsitter!Arrive
  <2>1. PICK d \in SitterDatagrams : x1' = Append(x1, d)
    BY <1>2, Zenon DEF Daqsitter!Arrive
  <2>2. x2' = x2 /\ x3' = x3 /\ x4' = x4 /\ x6' = x6 /\ x7' = x7
    BY <1>2, Zenon DEF Daqsitter!Arrive
  <2>3. x1' \in Seq(SitterDatagrams) /\ x2' \in 0 .. Len(x1') /\ \A i \in 1 .. x2 : x1'[i] = x1[i]
    BY <1>1, <2>1, <2>2
  <2>4. x3' = <<>> \/ (x2' > 0 /\ x3' = <<x1'[x2']>>)
    <3>1. x2 > 0 => x2 \in 1 .. x2
      BY <1>1
    <3>. QED  BY <1>1, <2>2, <2>3, <3>1, Zenon
  <2>5. Daqsitter!Done' = Daqsitter!Done /\ x4' \in {Daqsitter!Asked, [requests |-> 0, handlers |-> 1]}
    BY <1>1, <2>2, Zenon DEF Daqsitter!Done
  <2>. QED  BY <2>2, <2>3, <2>4, <2>5, SitterKeeps, Zenon
<1>3. CASE Daqsitter!Complete
  <2>1. /\ x4.requests > 0 /\ x4' = Daqsitter!Begun(x4) /\ x1' = x1 /\ x6' = x6 /\ x7' = x7
        /\ \/ x2 < Len(x1) /\ x2' = x2 + 1 /\ x3' = <<x1[x2 + 1]>>
           \/ x2' = x2 /\ x3' = <<>>
    BY <1>3 DEF Daqsitter!Complete
  <2>2. x4 = Daqsitter!Asked /\ x4' = [requests |-> 0, handlers |-> 1]
    BY <1>1, <2>1 DEF Daqsitter!Asked, Daqsitter!Begun
  <2>3. Daqsitter!Done = x2
    BY <2>2 DEF Daqsitter!Done, Daqsitter!Asked
  <2>4. Daqsitter!Done' = x2
    <3>1. CASE x2' = x2 + 1 /\ x3' = <<x1[x2 + 1]>>
      BY <1>1, <2>2, <3>1 DEF Daqsitter!Done
    <3>2. CASE x2' = x2 /\ x3' = <<>>
      BY <3>2, Zenon DEF Daqsitter!Done
    <3>. QED  BY <2>1, <3>1, <3>2
  <2>5. /\ x1' \in Seq(SitterDatagrams) /\ x2' \in 0 .. Len(x1')
        /\ x3' = <<>> \/ (x2' > 0 /\ x3' = <<x1'[x2']>>)
        /\ \A i \in 1 .. x2 : x1'[i] = x1[i]
    BY <1>1, <2>1
  <2>6. x4' \in {Daqsitter!Asked, [requests |-> 0, handlers |-> 1]}
    BY <2>2, Zenon
  <2>. QED  BY <2>1, <2>3, <2>4, <2>5, <2>6, SitterKeeps, Zenon
<1>4. CASE x1' = x1 /\ x2' = x2 /\ x3' = x3 /\ x4' = x4 /\ x6' = x6 /\ x7' = x7
  <2>1. Daqsitter!Done' = Daqsitter!Done
    BY <1>4, Zenon DEF Daqsitter!Done
  <2>. QED  BY <1>1, <1>4, <2>1, SitterKeeps, Zenon
<1>5. CASE Daqsitter!HandleRefused \/ Daqsitter!HandleAccepted
  BY <1>5, SitterHandles, Zenon
<1>6. CASE Daqsitter!HandleNoDuration \/ Daqsitter!CompleteBBB \/ Daqsitter!HandleBBB
           \/ Daqsitter!StartData \/ Daqsitter!StopData \/ Daqsitter!Exit
  BY <1>4, <1>6 DEF Daqsitter!HandleNoDuration, Daqsitter!CompleteBBB, Daqsitter!HandleBBB,
               Daqsitter!StartData, Daqsitter!StopData, Daqsitter!Exit
<1>7. CASE UNCHANGED Daqsitter!vars
  BY <1>4, <1>7 DEF Daqsitter!vars
<1>. QED  BY <1>2, <1>3, <1>5, <1>6, <1>7 DEF Daqsitter!Next, Daqsitter!Handle

LEMMA SitterKept ==
  ASSUME Daqsitter!IInv
  PROVE  Daqsitter!RecordedAsReceived /\ Daqsitter!OnlySynchronised
<1>1. /\ x2 \in Nat /\ x4 \in {Daqsitter!Asked, [requests |-> 0, handlers |-> 1]} /\ x7 \in Seq(Daqsitter!Records)
      /\ (~SitterElastic => x7 = <<>>)
  BY DEF Daqsitter!IInv
<1>2. Daqsitter!RecordedAsReceived
  <2>. SUFFICES ASSUME SitterElastic, SitterSampled
                PROVE  \E k \in 0 .. x4.handlers : Daqsitter!RecordedUpTo(x2 - k)
    BY Zenon DEF Daqsitter!RecordedAsReceived
  <2>1. Daqsitter!RecordedUpTo(Daqsitter!Done)
    BY Zenon DEF Daqsitter!IInv
  <2>2. \E k \in 0 .. x4.handlers : x2 - k = Daqsitter!Done
    <3>1. CASE x4.handlers = 1 /\ x3 # <<>>
      <4>1. 1 \in 0 .. x4.handlers /\ x2 - 1 = Daqsitter!Done
        BY <3>1 DEF Daqsitter!Done
      <4>. QED  BY <4>1, Zenon
    <3>2. CASE ~(x4.handlers = 1 /\ x3 # <<>>)
      <4>1. 0 \in 0 .. x4.handlers /\ x2 - 0 = Daqsitter!Done
        BY <1>1, <3>2 DEF Daqsitter!Done, Daqsitter!Asked
      <4>. QED  BY <4>1, Zenon
    <3>. QED  BY <3>1, <3>2, Zenon
  <2>. QED  BY <2>1, <2>2, Zenon
<1>3. Daqsitter!OnlySynchronised
  <2>. SUFFICES ASSUME NEW i \in DOMAIN x7 PROVE x7[i].pom.sync /\ (SitterFile => x6[i] = x7[i])
    BY Zenon DEF Daqsitter!OnlySynchronised
  <2>1. x7[i] \in Daqsitter!Records
    BY <1>1
  <2>2. PICK d \in SitterDatagrams : Daqsitter!Accepted(d) /\ x7[i] = Daqsitter!Record(d)
    BY <2>1, Zenon DEF Daqsitter!Records
  <2>3. Daqsitter!validTimeStamp(d.header)
    BY <2>2, Zenon DEF Daqsitter!Accepted
  <2>4. Daqsitter!Record(d).pom = Daqsitter!pom_data(d)
    BY DEF Daqsitter!Record
  <2>5. Daqsitter!pom_data(d).sync = Daqsitter!validTimeStamp(d.header)
    BY DEF Daqsitter!pom_data
  <2>6. x7[i].pom.sync
    BY <2>2, <2>3, <2>4, <2>5, Zenon
  <2>7. SitterElastic
    <3>. SUFFICES ASSUME ~SitterElastic PROVE FALSE
      BY Zenon
    <3>1. x7 = <<>>
      BY <1>1, Zenon
    <3>. QED  BY <3>1
  <2>8. SitterFile => x6 = x7
    BY <2>7, Zenon DEF Daqsitter!IInv
  <2>. QED  BY <2>6, <2>8, Zenon
<1>. QED  BY <1>2, <1>3

(* --- the theorems --------------------------------------------------------- *)
\* The mode becomes Started only when every controller that still counts has been told to start,
\* unless an update is overtaken by a new configuration: for any configurations, commands and
\* failures; and a report tells of each machine that stays as it is what it is: for any machines
\* in any order.
THEOREM StartedWasTold ==
  ASSUME DaqConfigs \subseteq Boards, AgainConfigs \subseteq Boards, Reporter!Listed
  PROVE  BaseSpec => StartedWasPosted
<1>. DEFINE Inv == /\ part = "DaqControl" => Daq(DaqConfigs, DaqCommands, DaqTimes, DaqFailures)!IInv
                   /\ part = "Reconfigured" => Daq(AgainConfigs, AgainCommands, AgainTimes, AgainFailures)!IInv
                   /\ part = "Reporter" => Reporter!IInv
            Posted == /\ part = "DaqControl" => Daq(DaqConfigs, DaqCommands, DaqTimes, DaqFailures)!PostedBefore
                      /\ part = "Reconfigured" =>
                         Daq(AgainConfigs, AgainCommands, AgainTimes, AgainFailures)!PostedBefore
                      /\ part = "Reporter" => Reporter!StillIsReported
<1>1. BaseInit => Inv
  BY DaqControlRuns, ReconfiguredRuns, ReporterRuns, DaqInit, ReporterInit
<1>2. Inv /\ [BaseNext]_allVars => Inv' /\ Posted
  <2>1. ASSUME Daq(DaqConfigs, DaqCommands, DaqTimes, DaqFailures)!IInv,
               [Daq(DaqConfigs, DaqCommands, DaqTimes, DaqFailures)!Next]_(Daq(DaqConfigs, DaqCommands,
                     DaqTimes, DaqFailures)!vars)
        PROVE  Daq(DaqConfigs, DaqCommands, DaqTimes, DaqFailures)!IInv' /\
               Daq(DaqConfigs, DaqCommands, DaqTimes, DaqFailures)!PostedBefore
    BY <2>1, DaqNext, DaqPosted
  <2>2. ASSUME Daq(AgainConfigs, AgainCommands, AgainTimes, AgainFailures)!IInv,
               [Daq(AgainConfigs, AgainCommands, AgainTimes, AgainFailures)!Next]_(Daq(AgainConfigs,
                     AgainCommands, AgainTimes, AgainFailures)!vars)
        PROVE  Daq(AgainConfigs, AgainCommands, AgainTimes, AgainFailures)!IInv' /\
               Daq(AgainConfigs, AgainCommands, AgainTimes, AgainFailures)!PostedBefore
    BY <2>2, DaqNext, DaqPosted
  <2>3. ASSUME Reporter!IInv, [Reporter!Next]_(Reporter!vars)
        PROVE  Reporter!IInv' /\ Reporter!StillIsReported
    BY <2>3, ReporterNext
  <2>. QED  BY <2>1, <2>2, <2>3, DaqControlRuns, ReconfiguredRuns, ReporterRuns, Zenon
<1>3. Inv /\ [BaseNext]_allVars => [Posted]_allVars
  BY <1>2
<1>4. ([][Posted]_allVars) => StartedWasPosted
  BY Zenon DEF StartedWasPosted
<1>. HIDE DEF Inv, Posted
<1>. QED  BY <1>1, <1>2, <1>3, <1>4, PTL DEF BaseSpec

\* No run replaces another's output as long as the run-number file is not torn, no message is offered
\* twice, spills are received in order and at most twice, and without an interrupt the run is used by
\* one thread and closed before the process ends; and what DAQsitter records are the datagrams it
\* received and accepts, once each, in order: for any number of runs, pages, spills, commands,
\* failures and crashes, and any datagrams.
THEOREM OutputsOnce ==
  ASSUME RunAssumptions, RpcSpills \in Nat
  PROVE  BaseSpec => []WrittenOnce
<1>. DEFINE Inv == /\ part = "RunNumber" => RunNumber!IInv
                   /\ part = "NumiWatcher" => NumiWatcher!IInv
                   /\ part = "SpillRpc" => SpillRpc!IInv
                   /\ part = "AppMain" => App(AppCommands, AppFailures, AppSignals, AppQueue)!IInv
                   /\ part = "AppInterrupt" => App(EndCommands, EndFailures, EndSignals, EndQueue)!IInv
                   /\ part = "Daqsitter" => Daqsitter!IInv
<1>1. BaseInit => Inv
  BY RunNumberRuns, RunInit, NumiWatcherRuns, NumiInit, SpillRpcRuns, RpcInit, AppMainRuns, AppInterruptRuns,
     AppInit, DaqsitterRuns, SitterInit, Zenon
<1>2. Inv /\ [BaseNext]_allVars => Inv'
  <2>. SUFFICES ASSUME Inv, [BaseNext]_allVars PROVE Inv'
    OBVIOUS
  <2>1. ASSUME part' = "RunNumber" PROVE RunNumber!IInv'
    BY <2>1, RunNumberRuns, RunNext, Zenon
  <2>2. ASSUME part' = "NumiWatcher" PROVE NumiWatcher!IInv'
    BY <2>2, NumiWatcherRuns, NumiNext, Zenon
  <2>3. ASSUME part' = "SpillRpc" PROVE SpillRpc!IInv'
    BY <2>3, SpillRpcRuns, RpcNext, Zenon
  <2>4. ASSUME part' = "AppMain" PROVE App(AppCommands, AppFailures, AppSignals, AppQueue)!IInv'
    BY <2>4, AppMainRuns, AppNext, Zenon
  <2>5. ASSUME part' = "AppInterrupt" PROVE App(EndCommands, EndFailures, EndSignals, EndQueue)!IInv'
    BY <2>5, AppInterruptRuns, AppNext, Zenon
  <2>6. ASSUME part' = "Daqsitter" PROVE Daqsitter!IInv'
    BY <2>6, DaqsitterRuns, SitterNext, Zenon
  <2>. QED  BY <2>1, <2>2, <2>3, <2>4, <2>5, <2>6, Zenon
<1>3. Inv => WrittenOnce
  <2>. SUFFICES ASSUME Inv PROVE WrittenOnce
    OBVIOUS
  <2>1. part = "RunNumber" => RunNumber!NumbersUnique
    BY Zenon DEF RunNumber!IInv, RunNumber!NumbersUnique
  <2>2. part = "NumiWatcher" => NumiWatcher!OfferedOnce
    BY Zenon DEF NumiWatcher!IInv
  <2>3. part = "SpillRpc" => SpillRpc!ReceivedInOrder /\ SpillRpc!AtMostTwice
    BY RpcTwice, Zenon DEF SpillRpc!IInv
  <2>4. part = "AppMain" => /\ App(AppCommands, AppFailures, AppSignals, AppQueue)!RunClosedAtExit
                            /\ App(AppCommands, AppFailures, AppSignals, AppQueue)!OneHandler
    BY AppEnds, Zenon
  <2>5. part = "AppInterrupt" => /\ App(EndCommands, EndFailures, EndSignals, EndQueue)!RunClosedAtExit
                                 /\ App(EndCommands, EndFailures, EndSignals, EndQueue)!OneHandler
    BY AppEnds, Zenon
  <2>6. part = "Daqsitter" => Daqsitter!RecordedAsReceived /\ Daqsitter!OnlySynchronised
    BY SitterKept, Zenon
  <2>. QED  BY <2>1, <2>2, <2>3, <2>4, <2>5, <2>6, Zenon DEF WrittenOnce
<1>. HIDE DEF Inv
<1>. QED  BY <1>1, <1>2, <1>3, PTL DEF BaseSpec

\* As long as no application is restarted within the two seconds in which nobody would notice, a run or
\* data that the Experiment reports is being taken and no application is ahead of its commands; a request
\* that is acknowledged was accepted by the board, and a configuration succeeds only on a board that has
\* been brought to what it waits for, by it or by an earlier one, whatever board it finds; each call of
\* the spill server has the answer to its own spill: for any number of commands, faults, operations,
\* heartbeats, spills and restarts.
THEOREM ReportsTrue ==
  ASSUME "restart" \notin SystemFaults, BoardNumbers \in Nat \ {0},
         BoardFound \subseteq Badgerboard!BoardType
  PROVE  BaseSpec => []ReportedIsTrue
<1>. DEFINE Inv == /\ part = "System" => System!IInv
                   /\ part = "Badgerboard" => Badgerboard!IInv
                   /\ part = "SpillRpc" => SpillRpc!IInv
<1>1. BaseInit => Inv
  BY SystemRuns, SystemInit, BadgerboardRuns, BoardInit, SpillRpcRuns, RpcInit, Zenon
<1>2. Inv /\ [BaseNext]_allVars => Inv'
  <2>. SUFFICES ASSUME Inv, [BaseNext]_allVars PROVE Inv'
    OBVIOUS
  <2>1. ASSUME part' = "System" PROVE System!IInv'
    BY <2>1, SystemRuns, SystemNext, Zenon
  <2>2. ASSUME part' = "Badgerboard" PROVE Badgerboard!IInv'
    BY <2>2, BadgerboardRuns, BoardNext, Zenon
  <2>3. ASSUME part' = "SpillRpc" PROVE SpillRpc!IInv'
    BY <2>3, SpillRpcRuns, RpcNext, Zenon
  <2>. QED  BY <2>1, <2>2, <2>3, Zenon
<1>3. Inv => ReportedIsTrue
  <2>. SUFFICES ASSUME Inv PROVE ReportedIsTrue
    OBVIOUS
  <2>1. part = "System" => System!ReportedIsTrue /\ System!NeverAhead
    BY SystemReports, Zenon
  <2>2. part = "Badgerboard" => Badgerboard!AckedIsAccepted /\ Badgerboard!ConfiguredWasReached
    BY BoardReached, Zenon DEF Badgerboard!IInv
  <2>3. part = "SpillRpc" => SpillRpc!AnswersItsOwn /\ SpillRpc!OkIsReceived
    BY Zenon DEF SpillRpc!IInv
  <2>. QED  BY <2>1, <2>2, <2>3, Zenon DEF ReportedIsTrue
<1>. HIDE DEF Inv
<1>. QED  BY <1>1, <1>2, <1>3, PTL DEF BaseSpec

\* In a network without faults that keeps the order no datagram is refused, if CLBs count from zero in
\* each slice and BeagleBones count on, with overflow; whatever is lost, duplicated, malformed or
\* overtaken, the hits of a BeagleBone whose numbers do not overflow are kept in the order of sending and
\* no datagram's twice, and the gaps reported are those between them: for any planes, any number of
\* datagrams and any width of the numbers.
THEOREM DatagramsAreKept ==
  ASSUME Numbering(SlicePlanes, SliceNumbers, SliceBytes, TRUE)!NumbersFollow,
         Numbering(CountPlanes, CountNumbers, CountBytes, FALSE)!NumbersFollow,
         LossySequence!NumbersCountOn
  PROVE  BaseSpec => []DatagramsKept
<1>. DEFINE Inv == /\ part = "ClbSequence" => Numbering(SlicePlanes, SliceNumbers, SliceBytes, TRUE)!OrderedIInv
                   /\ part = "BbbSequence" => Numbering(CountPlanes, CountNumbers, CountBytes, FALSE)!OrderedIInv
                   /\ part = "LossySequence" => LossySequence!LossyIInv
<1>1. BaseInit => Inv
  BY ClbSequenceRuns, BbbSequenceRuns, OrderedInit, LossySequenceRuns, LossyInit, Zenon
<1>2. Inv /\ [BaseNext]_allVars => Inv'
  <2>. SUFFICES ASSUME Inv, [BaseNext]_allVars PROVE Inv'
    OBVIOUS
  <2>1. ASSUME part' = "ClbSequence"
        PROVE  Numbering(SlicePlanes, SliceNumbers, SliceBytes, TRUE)!OrderedIInv'
    BY <2>1, ClbSequenceRuns, OrderedNext, Zenon
  <2>2. ASSUME part' = "BbbSequence"
        PROVE  Numbering(CountPlanes, CountNumbers, CountBytes, FALSE)!OrderedIInv'
    BY <2>2, BbbSequenceRuns, OrderedNext, Zenon
  <2>3. ASSUME part' = "LossySequence" PROVE LossySequence!LossyIInv'
    BY <2>3, LossySequenceRuns, LossyNext, Zenon
  <2>. QED  BY <2>1, <2>2, <2>3, Zenon
<1>3. Inv => DatagramsKept
  <2>. SUFFICES ASSUME Inv PROVE DatagramsKept
    OBVIOUS
  <2>1. part = "ClbSequence" => Numbering(SlicePlanes, SliceNumbers, SliceBytes, TRUE)!OrderedKeepsAll
    BY Zenon DEF Numbering!OrderedIInv, Numbering!OrderedKeepsAll
  <2>2. part = "BbbSequence" => Numbering(CountPlanes, CountNumbers, CountBytes, FALSE)!OrderedKeepsAll
    BY Zenon DEF Numbering!OrderedIInv, Numbering!OrderedKeepsAll
  <2>3. part = "LossySequence" => LossySequence!KeptInOrder /\ LossySequence!GapsReported
    BY Zenon DEF LossySequence!LossyIInv
  <2>. QED  BY <2>1, <2>2, <2>3, Zenon DEF DatagramsKept
<1>. HIDE DEF Inv
<1>. QED  BY <1>1, <1>2, <1>3, PTL DEF BaseSpec
=============================================================================
