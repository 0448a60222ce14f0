------------------------------ MODULE MCInputs ------------------------------
(* What the small instances of the components are given.                      *)
EXTENDS ClbPackets, ProcVars, Integers, Sequences

(* --- DaqControl: a CLB and a BBB, or two CLBs -------------------------------- *)
Board(t, e) == [type |-> t, enabled |-> e]
MixedConfigs == {<<Board("CLB", TRUE), Board("BBB", TRUE)>>,
                 <<Board("CLB", TRUE), Board("CLB", FALSE)>>}
LiveConfigs == {<<Board("CLB", TRUE), Board("BBB", TRUE)>>}
OneBoard == {<<Board("CLB", TRUE)>>}

\* A board that has just started, and one that an earlier controller has configured, for other
\* channels than are wanted now.
BoardAs(config) == [hub |-> config, run |-> config, channels |-> "PoweredOff", todo |-> {}, seq |-> 0]
FoundBoards == {BoardAs("NotConfigured"), BoardAs("Configured")}

(* --- DaqConfig: lines of a configuration and what is meant by them ----------- *)
ConfigLine(t, n, k, v) == [text |-> t, sets |-> [controller |-> n, key |-> k, value |-> v]]
NoSetting(t) == ConfigLine(t, 99, "", 0)
PomLine(n, k, w, v) == ConfigLine(<<IF n = 0 THEN "pom0" ELSE "pom1", ".", k, "=", w>>, n, k, v)

SomeLines ==
  {NoSetting(<<"pom_number", "=", "2">>), NoSetting(<<"#", "pom0", ".", "eid", "=", "7">>),
   NoSetting(<<"=", "7">>), NoSetting(<<" ">>),
   PomLine(0, "enabled", "1", TRUE), PomLine(0, "enabled", "0", FALSE),
   ConfigLine(<<"pom1", ".", "enabled", " ", "=", " ", "1", " ", "#", "x">>, 1, "enabled", TRUE),
   ConfigLine(<<"pom1", ".", "eid", "=", "7", "//", "pom0">>, 1, "eid", 7),
   PomLine(1, "eid", "2", 2), PomLine(0, "type", "BBB", "BBB"), NoSetting(<<"pom0", ".", "type", "=", "XYZ">>),
   PomLine(0, "nano_enabled", "1", TRUE), PomLine(0, "nano_enabled", "0", FALSE),
   PomLine(0, "ch_enabled", "60000000", {29, 30}), PomLine(0, "relay_type", "MC", "MC"),
   PomLine(0, "hv_enabled", "2", TRUE), PomLine(0, "veto_enabled", "0", FALSE),
   PomLine(0, "relay_control", "1", TRUE),
   ConfigLine(<<"pom1", ".", "ch30", ".", "th", "=", "50">>, 1, "th30", 50),
   NoSetting(<<"pom0", ".", "data_ip", "=", "10", ".", "0">>),
   NoSetting(<<"pom0", ".", "x", "=", "1">>), NoSetting(<<"pom0", ".", "ch0", ".", "x", "=", "1">>)}

(* --- MsgCodec: bytes of two bits; the ends of every type's range, -1, 0, 1 --- *)
OfType(t, s) == {[type |-> t, value |-> v] : v \in s}
Unsigned(n) == {0, 1, 4^n \div 2 - 1, 4^n \div 2, 4^n - 1}
SignedEnds(n) == {-(4^n \div 2), -1, 0, 1, 4^n \div 2 - 1}
UpToTwo(s) == {<<>>} \cup {<<a, b>> : a, b \in s}

CodecItems == OfType("I8", SignedEnds(1)) \cup OfType("U8", Unsigned(1)) \cup OfType("I16", SignedEnds(2)) \cup OfType("U16", Unsigned(2))
        \cup OfType("I32", SignedEnds(4)) \cup OfType("U32", Unsigned(4)) \cup OfType("I64", SignedEnds(8)) \cup OfType("U64", SignedEnds(8))
        \cup OfType("F32", SignedEnds(4)) \cup OfType("F64", SignedEnds(8)) \cup OfType("Bool", BOOLEAN)
        \cup OfType("String", {<<>>, <<1>>, <<3, 0>>}) \cup OfType("I8[]", UpToTwo({0, 3}))
        \cup OfType("U8[]", UpToTwo({0, 3})) \cup OfType("I16[]", UpToTwo({-8, 7}))
        \cup OfType("U16[]", UpToTwo({0, 15})) \cup OfType("I32[]", UpToTwo({-128, 127}))
        \cup OfType("U32[]", UpToTwo({0, 255})) \cup OfType("I64[]", UpToTwo({-1, 0}))
        \cup OfType("ints", UpToTwo({-1, 1})) \cup OfType("ids", UpToTwo({-1, 1}))

(* --- MsgBuilder: contents of no, one and four bytes; both ends of a day ------ *)
MCIds == {0, 32, 63}
MCContents == {<<>>, <<255>>, <<0, 128, 1, 7>>}
MCTimes == {0, 86399999, 86400025}
\* An ack, a truncated reply, a reply without the flag, and two messages in one packet.
Head16 == <<1, 9, 0, 0, 0, 1, 2, 3, 0, 0, 0, 0, 32, 199, 0, 0>>
MCOdd == {<<16, 0, 0, 0>>, SubSeq(Head16, 1, 15), [Head16 EXCEPT ![1] = 2], [Head16 EXCEPT ![10] = 1],
          [Head16 EXCEPT ![1] = 18]}

(* --- Daqsitter: a packet of a CLB, one without a synchronised clock, one of   *)
(* 300 ms, one of DAQulator, and one of the optical stream --------------------- *)
MonPacket(pom, type, status1, duration, simulated) ==
  [pom |-> pom, simulated |-> simulated,
   size |-> IF simulated THEN sizeofCLBCommonHeader + 31 * 4 + sizeofSCData
            ELSE sizeofCLBCommonHeader + sizeofMONHits + sizeofSCData,
   header |-> [dataType |-> type, time |-> [sec |-> 2, tics |-> 62500], status |-> <<status1, {}, {}, {}>>],
   hits |-> [hits |-> [c \in {0, 1} |-> 2], rateVeto |-> {}],
   sc |-> [Temp |-> 2150, Humidity |-> 4999, Valid |-> {0}, duration |-> duration]]

GoodPacket == MonPacket(1, tmch, {31}, 100000, FALSE)
Unsynchronised == MonPacket(2, tmch, {0}, 100000, FALSE)
LongWindow == MonPacket(3, tmch, {31}, 300000, FALSE)
NoDuration == MonPacket(4, tmch, {31}, 0, FALSE)
SimulatedPacket == MonPacket(5, tmch, {}, 0, TRUE)
OpticalPacket == MonPacket(6, ttdc, {31}, 100000, FALSE)
ShortWindow == MonPacket(7, tmch, {31}, 50000, FALSE)

MonDatagrams == {GoodPacket, Unsynchronised, NoDuration, OpticalPacket, ShortWindow}
MonFew == {GoodPacket, SimulatedPacket, LongWindow}

(* --- HitSequence: slices of three and two datagrams; numbers counting on ----- *)
Slices == <<0, 1, 2, 0, 1, 0>>
Counting == <<0, 1, 2, 3>>
Overflowing == <<6, 7, 0, 1>>

(* --- MergeSort: three planes in two slots, out of order, and one plane in both *)
Hit(t, i) == [time |-> t, id |-> i]
TwoSlots == <<(1 :> <<Hit(4, 1), Hit(2, 2)>> @@ 2 :> <<>>), (3 :> <<Hit(3, 3), Hit(4, 4)>>)>>
OneInBoth == <<(1 :> <<Hit(2, 5)>>), (1 :> <<Hit(1, 6)>>)>>
FivePlanes == <<[p \in 1 .. 5 |-> <<Hit(12 - p, 6 + p)>>]>>
NoHits == <<(1 :> <<>>)>>
SomeSpills == {TwoSlots, OneInBoth, FivePlanes, NoHits}

\* NumiWatcher: two texts, one of them in capitals and not.
ThreeTexts == {<<"a", TRUE>>, <<"a", FALSE>>, <<"b", TRUE>>}

\* Relay: a box of CLBs switched on; two boxes switched at once; one output.
Job(type, box, op, board, channel) == [type |-> type, box |-> box, op |-> op, board |-> board, channel |-> channel]
RelayJobs == {[p \in {1} |-> Job("clbs", 6, "on", "ec6", 0)], [p \in {1} |-> Job("relay", 6, "off", "ec6", 3)],
              [p \in {1} |-> Job("box", 6, "on", "jb1", 0)]}
RelayPairs == {[p \in {1, 2} |-> IF p = 1 THEN Job("box", 6, "on", "jb1", 0) ELSE Job("box", 5, "off", "jb2", 0)]}
OnAtFirst == [b \in {"jb1", "jb2", "ec1", "ec2", "ec3", "ec4", "ec5", "ec6"} |-> {1, 3, 18, 20}]

\* SpillSignals: event words of MIBS, BNB and the clock, right and wrong ones, and a parity error.
EventWords == {0, 628, 512, 1051, 1024, 285, 287, 429, 425, 399, 256, 420, 421, 313, 511, 33396}

\* Reporter: the machines with the most states.
TwoMachines == <<"Experiment", "Daqontrol">>
FirstStates == [Experiment |-> "Configuring", Daqontrol |-> "Ready"]
=============================================================================
