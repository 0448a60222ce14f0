---------------------------- MODULE SpillSignals -----------------------------
(* What a signal of the accelerator is taken for, and what is learned from      *)
(* signals: the types that NssSpillInfo finds in an event word, the names of    *)
(* NOvA and of the TDU, the schedulers that runs are given, and TriggerPredictor *)
(* step by step.  Nothing calls addTrigger at present (xml_rpc_spill_method.cc: *)
(* 79): the predictor is modelled as it is written.                             *)
EXTENDS Integers, Sequences, FiniteSets, SequencesExt, TLC

CONSTANTS n_last,        \* how many intervals are remembered
          init_interval, \* the interval that they are at first
          Intervals,     \* between signals
          Garbage,       \* what learned_interval_ may hold before anything is learned
          None,
          Words,         \* event words
          MaxTriggers    \* bound: signals

(* --- types ------------------------------------------------------------------------- *)
Names == <<"NuMI", "BNB", "NuMItclk", "BNBtclk", "AccelOneHztclk", "Fake", "TestConnection", "SuperCycle",
           "NuMISampleTrig", "NuMIReset", "TBSpill", "TBTrig">>
kNSpillType == Len(Names)
getSpillNameFromType(type) == IF type \in 0 .. kNSpillType - 1 THEN Names[type + 1] ELSE "Undefined"
getSpillTypeFromName(name) == IF name \in Range(Names) THEN (CHOOSE i \in DOMAIN Names : Names[i] = name) - 1 ELSE -1
getTDUSignalTypeString(type) == getSpillNameFromType(type)
allSpillTypes == [i \in 1 .. kNSpillType |-> i - 1]
kFake == 5
kTestConnection == 6
\* A type outside the range is kept as a test of the connection.
set(type) == IF type >= 0 /\ type < kNSpillType THEN type ELSE kTestConnection

Bit(word, b) == (word \div (2 ^ b)) % 2 = 1
Number(word) == word % 256
\* The numbers of the TeVatron clock that have a type: 0x1D, 0x1F, 0xAD, 0xA9, 0x8F, 0, 0xA4, 0xA5, 0x39.
TClk == [n \in {29, 31, 173, 169, 143, 0, 164, 165, 57} |->
           CASE n \in {29, 31} -> 3 [] n \in {173, 169} -> 2 [] n = 143 -> 4 [] n = 0 -> 7
             [] n = 164 -> 8 [] n = 165 -> 9 [] n = 57 -> 10]
Typed(ok, type) == [ok |-> ok, type |-> type]
Only(word, number, type) == IF Number(word) = number THEN Typed(TRUE, type) ELSE Typed(FALSE, kFake)
\* A parity error first, then MIBS, BNB and the clock; what is none of them is fake, and yet found.
getSpillTypeFromEvent(word) ==
  IF Bit(word, 15) THEN Typed(FALSE, kFake)
  ELSE IF Bit(word, 9) THEN Only(word, 116, 0)
  ELSE IF Bit(word, 10) THEN Only(word, 27, 1)
  ELSE IF Bit(word, 8) /\ Number(word) \in DOMAIN TClk THEN Typed(TRUE, TClk[Number(word)])
  ELSE Typed(TRUE, kFake)

(* --- the schedulers of runs --------------------------------------------------------- *)
RunTypes == {"DataNormal", "Calibration", "TestNormal", "TestFlasher"}
getScheduler(run_type) == CASE run_type = "DataNormal" -> "tdu" [] run_type = "Calibration" -> "periodic"
                            [] run_type \in {"TestNormal", "TestFlasher"} -> "infinite"
n_batches_ahead == 8
\* The size of the schedule once a scheduler has updated it: nothing does the TDU's.
updateSchedule(scheduler, size, approx) ==
  CASE scheduler = "infinite" -> IF size = 0 THEN 1 ELSE size
    [] scheduler = "periodic" -> IF approx = None THEN size ELSE IF size > n_batches_ahead THEN size ELSE n_batches_ahead
    [] scheduler = "tdu" -> size

(* --- TriggerPredictor --------------------------------------------------------------- *)
VARIABLES observed,       \* a ring of intervals
          next,           \* where in it the next one goes
          last_timestamp, \* or None
          learned_interval,
          history         \* every interval, from the first on
vars == <<observed, next, last_timestamp, learned_interval, history>>

Init == /\ observed = [i \in 1 .. n_last |-> init_interval] /\ next = 0 /\ last_timestamp = None
        /\ learned_interval \in Garbage /\ history = <<>>
\* Everything has its type.
TypeOK == /\ observed \in [1 .. n_last -> Intervals \cup {init_interval}] /\ next \in 0 .. n_last - 1
          /\ last_timestamp \in Nat \cup {None} /\ learned_interval \in Intervals \cup {init_interval} \cup Garbage
          /\ Len(history) <= MaxTriggers

\* The one in the middle of the sorted ones, counted from 0.
Sorted(s) == SortSeq(s, <)
Median(s) == Sorted(s)[(n_last \div 2) + 1]
First(t) == last_timestamp = None /\ last_timestamp' = t
            /\ UNCHANGED <<observed, next, learned_interval, history>>
addTrigger(d) == /\ last_timestamp # None /\ Len(history) < MaxTriggers
                 /\ observed' = [observed EXCEPT ![next + 1] = d] /\ next' = (next + 1) % n_last
                 /\ last_timestamp' = last_timestamp + d
                 /\ learned_interval' = Median(observed') /\ history' = Append(history, d)
Next == First(0) \/ \E d \in Intervals : addTrigger(d)
Spec == Init /\ [][Next]_vars

(* --- properties -------------------------------------------------------------------- *)
\* Once there was an interval, what is learned is the one that more than half of the last ones had,
\* wherever they are in the ring, so that a missed or an additional signal does not disturb it.
Latest(n) == [i \in 1 .. n |-> IF Len(history) - i + 1 >= 1 THEN history[Len(history) - i + 1] ELSE init_interval]
Times(d) == Cardinality({i \in 1 .. n_last : Latest(n_last)[i] = d})
MedianRobust == \A d \in Intervals \cup {init_interval} : (history # <<>> /\ 2 * Times(d) > n_last) => learned_interval = d
\* It is never beyond the intervals remembered, and half of them are on each side of it.
Balanced == history # <<>> => /\ 2 * Cardinality({i \in 1 .. n_last : Latest(n_last)[i] < learned_interval}) <= n_last
                              /\ 2 * Cardinality({i \in 1 .. n_last : Latest(n_last)[i] > learned_interval}) <= n_last

\* The names of NOvA and of the TDU are the same, each has its type, and set keeps every type found.
TypesAgree == /\ \A i \in DOMAIN allSpillTypes :
                   LET t == allSpillTypes[i]
                   IN getSpillTypeFromName(getSpillNameFromType(t)) = t /\ getTDUSignalTypeString(t) = Names[i]
              /\ \A w \in Words : set(getSpillTypeFromEvent(w).type) = getSpillTypeFromEvent(w).type
              /\ \A w \in Words : Bit(w, 15) => ~getSpillTypeFromEvent(w).ok

(* --- what the code does not keep ---------------------------------------------------- *)
\* "assigned if there is a parity error" (NssSpillInfo.h:35): a clock signal of an unknown number is
\* found to be fake, too, and taken for found.
FakeOnlyByParity == \A w \in Words : getSpillTypeFromEvent(w).type = kFake => Bit(w, 15)
\* "Initial guess of trigger period" (tdu_spill_scheduler.h:30): before the second signal the learned
\* interval is not that guess, for nothing initialises it.
GuessHolds == history = <<>> => learned_interval = init_interval
\* "A scheduler that creates spills based on signals" (tdu_spill_scheduler.h:2): it creates none.
EveryRunHasSpills == \A r \in RunTypes : updateSchedule(getScheduler(r), 0, 1) > 0
=============================================================================
