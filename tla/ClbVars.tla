------------------------------ MODULE ClbVars -------------------------------
(* The variables of a CLB and the messages CLBController makes of them.  The *)
(* id of a variable says its type and the size of its array; a message holds *)
(* ids and values one after the other, each value written with a width the   *)
(* programmer chose.  The CLB (external) goes over a message with the widths *)
(* the ids say, so each operation must get every one of them right.          *)
EXTENDS Integers, Sequences, SequencesExt, FiniteSets, TLC

CONSTANTS ProcVar, \* proc_var.h: what is known of each variable (module ProcVars)
          Masks,   \* what SYS_SYS_DISABLE may hold at the start
          Firsts,  \* configured values of channel 0; channel i has i more
          MaxOps   \* bound: operations

Id(v) == ProcVar[v].id

(* --- var_info.h: the fields of an id --------------------------------------- *)
subsys(id) == (id \div 2^28) % 8
index(id) == (id \div 2^20) % 256
scalarType(id) == (id \div 2^16) % 16
Width(id) == 2^((id \div 2^16) % 4)
\* The size is one less in the id.
arraySizeMinusOne(id) == id % 2^12
array_size(id) == (id % 2^12) + 1
Readable(id) == (id \div 2^14) % 2 = 1
Writable(id) == (id \div 2^13) % 2 = 1
ScalarTypes == 0 :> "U8" @@ 1 :> "U16" @@ 2 :> "U32" @@ 3 :> "U64" @@ 4 :> "I8" @@ 5 :> "I16"
               @@ 6 :> "I32" @@ 7 :> "I64" @@ 8 :> "BOOL" @@ 10 :> "F32" @@ 11 :> "F64"
\* The enumeration VarType has F32 and F64 at 9 and 10.
VarType == <<"U8", "U16", "U32", "U64", "I8", "I16", "I32", "I64", "BOOL", "F32", "F64">>
Enumerator(k) == IF k + 1 \in DOMAIN VarType THEN VarType[k + 1] ELSE "none"
VarInfo(id) == [id |-> id, type |-> Enumerator(scalarType(id)), size |-> array_size(id)]

(* --- state ------------------------------------------------------------------ *)
VARIABLES mem,    \* the CLB's variables, each an array
          config, \* first: of hv, thresholds and ids; volt; nano, veto, hvEnabled
          op,     \* the operation under way, or "none"
          wire,   \* message to the CLB: count, ids and values, each with its width
          reply,  \* its answer: the same, or Ok, or Error
          got,    \* what the last read operation took out of its answer
          left,   \* what it did not take
          info,   \* the last VarInfo
          ops
vars == <<mem, config, op, wire, reply, got, left, info, ops>>

Nothing == [var |-> "none", values |-> <<>>]
\* The CLB's answer to setting variables, and its error message.
Ok == <<[w |-> 0, v |-> 1]>>
Error == <<[w |-> 0, v |-> 0]>>
Reading == [var |-> "reading", values |-> <<>>]

W(w, v) == [w |-> w, v |-> v]
U8(v) == <<W(1, v)>>
U16(v) == <<W(2, v)>>
U32(v) == <<W(4, v)>>
Channels(Write(_)) == FlattenSeq([i \in 1 .. 31 |-> Write(config.first + i - 1)])
Var(v) == U32(Id(v))

(* --- messages that set variables -------------------------------------------- *)
\* -1 stands for 0xFFFFFFFF.
InitValues == << <<"NET_IPMUX_SRV_IP", 1>>, <<"SYS_TIME_SLICE_DUR", 2>>, <<"OPT_MULHIT_ENA_CH", 0>>,
                 <<"OPT_HR_VETO_THRES", 3>>, <<"OPT_HR_VETO_ENA_CH", IF config.veto THEN -1 ELSE 0>> >>
setInitValues == U16(Len(InitValues) + 3)
  \o FlattenSeq([i \in DOMAIN InitValues |-> Var(InitValues[i][1]) \o U32(InitValues[i][2])])
  \o Var("SYS_STMACH_PKTSIZE") \o U16(4) \o Var("SYS_SYS_DISABLE") \o U8(0)
  \o Var("SYS_SYS_RUN_ENA") \o U8(5)
setEnabledPMTs == U16(1) \o Var("OPT_CHAN_ENABLE") \o U32(6)
\* Thirty channels of thirty-one.
setHVShort == U16(1) \o Var("OPT_PMT_HIGHVOLT") \o FlattenSeq([i \in 1 .. 30 |-> U8(config.first + i - 1)])
setHV == U16(1) \o Var("OPT_PMT_HIGHVOLT") \o Channels(U8)
setThresholds == U16(1) \o Var("OPT_PMT_THRESHOLD") \o Channels(U8)
\* TDC and monitoring, and the nano beacon if it is configured.
setFlasher ==
  IF config.nano THEN U16(2) \o Var("OPT_NANO_VOLT") \o U16(config.volt) \o Var("SYS_SYS_RUN_ENA") \o U8(13)
  ELSE U16(1) \o Var("SYS_SYS_RUN_ENA") \o U8(5)
setIPMuxPorts == U16(1) \o Var("NET_IPMUX_PORTS") \o U16(0) \o U16(0) \o U16(0) \o U16(0)
\* disabled is whether the mask was -1, that is 0: the mask itself is lost.
enableHV == U16(1) \o Var("SYS_SYS_DISABLE") \o U8(0)
disableHV == U16(1) \o Var("SYS_SYS_DISABLE") \o U8(4)

Setters == "setInitValues" :> setInitValues @@ "setEnabledPMTs" :> setEnabledPMTs @@ "setHV" :> setHV
  @@ "setThresholds" :> setThresholds @@ "setFlasher" :> setFlasher
  @@ "setIPMuxPorts" :> setIPMuxPorts @@ "enableHV" :> enableHV @@ "disableHV" :> disableHV

(* --- messages that read a variable: which, and the widths taken from the answer --- *)
Read(v, widths) == [var |-> v, widths |-> widths]
testConnection == Read("SYS_DOM_ID", <<4>>)
checkIDs == Read("OPT_PMT_ID", [i \in 1 .. 31 |-> 4])
checkEnabledPMTs == Read("OPT_CHAN_ENABLE", <<4>>)
checkHV == Read("OPT_PMT_HIGHVOLT", [i \in 1 .. 31 |-> 1])
checkThresholdsWide == Read("OPT_PMT_THRESHOLD", [i \in 1 .. 31 |-> 2])
checkThresholds == Read("OPT_PMT_THRESHOLD", [i \in 1 .. 31 |-> 1])
getSysEnabledMask == Read("SYS_SYS_RUN_ENA", <<1>>)
getSysDisabledMask == Read("SYS_SYS_DISABLE", <<1>>)
checkFlasherVoltage == Read("OPT_NANO_VOLT", <<2>>)
getIPMuxPorts == Read("NET_IPMUX_PORTS", <<2, 2, 2, 2>>)

Getters == "testConnection" :> testConnection @@ "checkIDs" :> checkIDs
  @@ "checkEnabledPMTs" :> checkEnabledPMTs @@ "checkHV" :> checkHV @@ "checkThresholds" :> checkThresholds
  @@ "getSysEnabledMask" :> getSysEnabledMask @@ "getSysDisabledMask" :> getSysDisabledMask
  @@ "checkFlasherVoltage" :> checkFlasherVoltage @@ "getIPMuxPorts" :> getIPMuxPorts
\* The mask is read before it is set.
Readers == Getters @@ "enableHV" :> getSysDisabledMask @@ "disableHV" :> getSysDisabledMask

(* --- the CLB (external): goes over a message with the widths the ids say ------ *)
Used == {"NET_IPMUX_SRV_IP", "SYS_TIME_SLICE_DUR", "OPT_MULHIT_ENA_CH", "OPT_HR_VETO_THRES", "OPT_HR_VETO_ENA_CH",
         "SYS_STMACH_PKTSIZE", "OPT_CHAN_ENABLE", "NET_IPMUX_PORTS"} \cup {Readers[o].var : o \in DOMAIN Readers}
Values(v) == [i \in 1 .. array_size(Id(v)) |-> W(Width(Id(v)), mem[v][i])]
\* The values of a message from position p on that are v's, if they are all there.
Taken(p, v) == SubSeq(wire, p, p + array_size(Id(v)) - 1)
WellFormed(p, v) == /\ Len(wire) >= p + array_size(Id(v)) - 1
                    /\ \A i \in DOMAIN Taken(p, v) : Taken(p, v)[i].w = Width(Id(v))
\* The messages setting the variables, in order: the state of going over the wire.
Going == FoldLeft(LAMBDA s, k :
           IF ~s.ok \/ s.p > Len(wire) THEN [s EXCEPT !.ok = FALSE]
           ELSE LET found == {v \in Used : Id(v) = wire[s.p].v /\ wire[s.p].w = 4} IN
                IF found = {} THEN [s EXCEPT !.ok = FALSE]
                ELSE LET v == CHOOSE x \in found : TRUE IN
                     IF ~WellFormed(s.p + 1, v) \/ ~Writable(Id(v)) THEN [s EXCEPT !.ok = FALSE]
                     ELSE [p |-> s.p + 1 + array_size(Id(v)), ok |-> TRUE,
                           mem |-> (v :> [i \in 1 .. array_size(Id(v)) |-> Taken(s.p + 1, v)[i].v]) @@ s.mem],
           [p |-> 2, ok |-> TRUE, mem |-> mem], [k \in 1 .. wire[1].v |-> k])

AnswerSet == /\ wire # <<>> /\ op \in DOMAIN Setters /\ got # Reading
             /\ LET whole == Going.ok /\ Going.p = Len(wire) + 1 IN
                mem' = (IF whole THEN Going.mem ELSE mem) /\ reply' = (IF whole THEN Ok ELSE Error)
             /\ wire' = <<>> /\ got' = Nothing /\ UNCHANGED <<config, op, left, info, ops>>
AnswerGet == /\ wire # <<>> /\ got = Reading
             /\ LET v == Readers[op].var IN
                reply' = IF Readable(Id(v)) THEN U16(1) \o Var(v) \o Values(v) ELSE Error
             /\ wire' = <<>> /\ UNCHANGED <<mem, config, op, got, left, info, ops>>

(* --- the controller ----------------------------------------------------------- *)
Init ==
  /\ \E m \in Masks : mem = [v \in Used |-> IF v = "SYS_SYS_DISABLE" THEN <<m>>
                                            ELSE [i \in 1 .. array_size(Id(v)) |-> 0]]
  /\ config \in [first : Firsts, volt : {9}, nano : BOOLEAN, veto : BOOLEAN, hvEnabled : BOOLEAN]
  /\ op = "none" /\ wire = <<>> /\ reply = <<>> /\ got = Nothing /\ left = <<>>
  /\ info = VarInfo(Id("SYS_RUN_NUMBER")) /\ ops = 0

Begin(o) == op = "none" /\ ops < MaxOps /\ op' = o /\ ops' = ops + 1 /\ left' = <<>>
            /\ info' = VarInfo(Id("SYS_RUN_NUMBER")) /\ UNCHANGED <<mem, config, reply>>
Set(o) == Begin(o) /\ o \notin DOMAIN Readers /\ wire' = Setters[o] /\ got' = Nothing
Get(o) == /\ Begin(o) /\ ~(o = "disableHV" /\ config.hvEnabled)
          /\ wire' = U16(1) \o Var(Readers[o].var) /\ got' = Reading

\* The answer is read with the widths of the operation; the HV operations go on to set the mask.
ReadAnswer ==
  /\ reply # <<>> /\ got = Reading /\ reply # Error
  /\ LET n == Len(Readers[op].widths) IN
     /\ got' = [var |-> Readers[op].var, values |-> [i \in 1 .. n |->
                 IF reply[i + 2].w = Readers[op].widths[i] THEN reply[i + 2].v ELSE -2]]
     /\ left' = SubSeq(reply, 3 + n, Len(reply))
  /\ reply' = <<>>
  /\ IF op \in DOMAIN Setters THEN wire' = Setters[op] /\ UNCHANGED op ELSE op' = "none" /\ UNCHANGED wire
  /\ UNCHANGED <<mem, config, info, ops>>
Acknowledged == /\ reply # <<>> /\ got # Reading /\ reply = Ok
                /\ reply' = <<>> /\ op' = "none" /\ UNCHANGED <<mem, config, wire, got, left, info, ops>>
LookUp(v) == op = "none" /\ ops = 0 /\ info.id = Id("SYS_RUN_NUMBER") /\ info' = VarInfo(Id(v))
             /\ UNCHANGED <<mem, config, op, wire, reply, got, left, ops>>

Next == \/ \E o \in DOMAIN Setters : Set(o)
        \/ \E o \in DOMAIN Readers : Get(o)
        \/ \E v \in DOMAIN ProcVar : LookUp(v)
        \/ AnswerSet \/ AnswerGet \/ ReadAnswer \/ Acknowledged
Spec == Init /\ [][Next]_vars

(* --- properties ---------------------------------------------------------------- *)
Small(v) == Width(Id(v)) <= 2
\* The CLB's arrays keep their sizes, and what is smaller than four bytes its range.
TypeOK == \A v \in Used : /\ Len(mem[v]) = array_size(Id(v))
                          /\ Small(v) => \A i \in DOMAIN mem[v] : mem[v][i] \in 0 .. 256^Width(Id(v)) - 1

\* The CLB makes sense of every message: count, ids, number and widths of values, and
\* whether the variable may be set or read.
Understood == reply # Error

\* What a check reads is what the CLB holds, to the end of its answer.
ReadsWhatIsHeld ==
  op = "none" /\ got.var \in Used => left = <<>> /\ got.values = mem[got.var]

\* No two variables share subsystem and index; constants are indices of the variable's array or
\* values of its type.
TableIsSound ==
  \A v \in DOMAIN ProcVar : info.id = Id(v) =>
    /\ \A u \in DOMAIN ProcVar \ {v} : <<subsys(Id(u)), index(Id(u))>> # <<subsys(Id(v)), index(Id(v))>>
    /\ CASE ProcVar[v].use = "index" -> ProcVar[v].constants = 0 .. info.size - 1
         [] ProcVar[v].use \in {"value", "bits"} -> info.size = 1 /\
              \A c \in ProcVar[v].constants :
                IF info.type \in {"I8", "I16"} THEN c \in -(256^Width(info.id) \div 2) .. 256^Width(info.id) \div 2 - 1
                ELSE c \in 0 .. 256^Width(info.id) - 1
         [] OTHER -> TRUE

\* var_info.h:128: type_ is the variable's base type.
BaseType == info.type = ScalarTypes[scalarType(info.id)]

\* clb_controller.cc:594: the mask is read so that enableHV and disableHV change the HV bit only.
DisabledOther == {b \in {1, 2, 8, 16} : (mem["SYS_SYS_DISABLE"][1] \div b) % 2 = 1}
OtherSystemsStay == [][(op \in {"enableHV", "disableHV"}) => DisabledOther' = DisabledOther]_vars

=============================================================================
