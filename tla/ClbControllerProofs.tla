------------------------ MODULE ClbControllerProofs ------------------------
(***************************************************************************)
(* Theorems about ClbController, for any set of channels and any numbers of *)
(* operations, failures and power cycles.                                  *)
(***************************************************************************)
EXTENDS ClbController, SequenceTheorems, TLAPS

\* The steps of the operations.
Steps == {"INIT", "CONFIGURE", "START", "PAUSE", "STOP", "QUIT", "RESET", "getState", "resetState",
          "testConnection", "setInitValues", "checkIDs", "disableHV", "setEnabledPMTs",
          "checkEnabledPMTs", "setHV", "checkHV", "setThresholds", "checkThresholds", "setFlasher",
          "checkFlasher"}

\* What configure still has to do once the CLB is IDLE.
Body == <<"setInitValues", "INIT", "getState", "checkIDs", "disableHV", "setEnabledPMTs",
          "checkEnabledPMTs", "setHV", "checkHV", "setThresholds", "checkThresholds", "setFlasher",
          "checkFlasher", "CONFIGURE", "getState">>
\* The two ways to IDLE, the first from RUNNING and from what lies on it, the second from READY.
Halt == <<"PAUSE", "getState", "STOP", "getState", "RESET", "getState">>
Leave == <<"QUIT", "getState", "RESET", "getState">>

\* The lists of steps that an operation may be in.
Programs(o) == CASE o = "none" -> {<<>>}
                 [] o = "reset" -> {<<"resetState">>, Halt, Leave}
                 [] o = "configure" -> {Plan("configure"), Halt \o Body, Leave \o Body}
                 [] OTHER -> {Plan(o)}

\* s is what is left of the program p.
Left(s, p) == Len(s) <= Len(p) /\ \A i \in 1 .. Len(s) : s[i] = p[Len(p) - Len(s) + i]

\* What is left to do is the rest of a program of the operation.
Shape == todo \in Seq(Steps) /\ \E p \in Programs(op) : Left(todo, p)

\* What a CLB that is READY holds.
ChannelsSet == clb.enabled = config.enabled
VoltagesSet == clb.hv \/ config.enabled = {}
ThresholdsSet == clb.th \/ config.enabled = {}
FlasherSet == config.nano => clb.nano
IsSet == ChannelsSet /\ VoltagesSet /\ ThresholdsSet /\ FlasherSet /\ config.eid

\* How far configure has come, and what it has made sure of by then: a CLB whose power went is IDLE
\* and stays so until configure gives up.
Configuring(n) == op = "configure" /\ Len(todo) <= n
Connected == op = "configure" /\ todo[1] # "testConnection" => config.eid
Approached ==
  /\ op = "configure" /\ Len(todo) = 16 /\ todo[1] = "getState" => clb.state = "IDLE"
  /\ Configuring(15) /\ ~Configuring(13) => clb.state = "IDLE"
  /\ Configuring(13) /\ ~Configuring(1) => clb.state \in {"IDLE", "STAND_BY"}
  /\ Configuring(1) => clb.state \in {"IDLE", "READY"}
WrongDropped == Configuring(11) => config.enabled \cap wrongId = {}
Verified ==
  clb.state = "STAND_BY" =>
    /\ Configuring(8) => ChannelsSet
    /\ Configuring(6) => VoltagesSet
    /\ Configuring(4) => ThresholdsSet
    /\ Configuring(2) => FlasherSet

\* Once stopData has paused it, the CLB holds what it held when RUNNING, or it is IDLE.
StopProgress == op = "stopData" /\ Len(todo) < 6 => clb.state = "IDLE" \/ IsSet

IInv == /\ TypeOK /\ Shape
        /\ Connected /\ Approached /\ WrongDropped /\ Verified /\ StopProgress
        /\ WrongPmtStaysOff /\ ReadyIsSet

\* How many steps are left, compared.
LEMMA Numbers ==
  ASSUME NEW n \in Nat
  PROVE  /\ n < 6 => n # 6
         /\ n \in 2 .. 15 => n <= 15 /\ ~(n <= 1)
         /\ n <= 8 => n \notin {10, 12, 14, 15, 16, 17} /\ ~(n > 17)
         /\ n <= 7 => n # 8 /\ n <= 8
         /\ n <= 5 => n # 6 /\ n <= 8 /\ n <= 7 /\ n <= 6
         /\ n <= 3 => n # 4 /\ n <= 8 /\ n <= 7 /\ n <= 6 /\ n <= 5 /\ n <= 4
         /\ n = 15 \/ n >= 17 => ~(n <= 11) /\ ~(n <= 8) /\ ~(n <= 6) /\ ~(n <= 4) /\ ~(n <= 2)
         /\ n >= 17 => ~(n <= 15) /\ ~(n <= 13) /\ ~(n <= 1) /\ n # 16
OBVIOUS

(* --- where an operation is ---------------------------------------------- *)
\* The step that is next is given by the operation and by how many are left.
InReset(n, h) ==
  n <= 6 /\ (h \in {"PAUSE", "getState", "STOP", "RESET", "QUIT"} \/ (h = "resetState" /\ n = 1))
InStartData(n, h) == h \in {"START", "getState"}
InStopData(n, h) == (n = 6 /\ h = "PAUSE") \/ (n < 6 /\ h \in {"getState", "STOP", "CONFIGURE"})
InConfigure(n, h) ==
  /\ n > 17 => h \in {"PAUSE", "getState", "STOP", "QUIT"}
  /\ n = 17 => h \in {"testConnection", "RESET"}
  /\ n = 16 => h \in {"resetState", "getState"}
  /\ n = 15 => h = "setInitValues"
  /\ n = 14 => h = "INIT"
  /\ n = 13 => h = "getState"
  /\ n = 12 => h = "checkIDs"
  /\ n = 11 => h = "disableHV"
  /\ n = 10 => h = "setEnabledPMTs"
  /\ n = 9 => h = "checkEnabledPMTs"
  /\ n = 8 => h = "setHV"
  /\ n = 7 => h = "checkHV"
  /\ n = 6 => h = "setThresholds"
  /\ n = 5 => h = "checkThresholds"
  /\ n = 4 => h = "setFlasher"
  /\ n = 3 => h = "checkFlasher"
  /\ n = 2 => h = "CONFIGURE"
  /\ n = 1 => h = "getState"
NextStep(n, h) ==
  \/ op = "reset" /\ InReset(n, h)
  \/ op = "startData" /\ InStartData(n, h)
  \/ op = "stopData" /\ InStopData(n, h)
  \/ op = "configure" /\ InConfigure(n, h)

\* What is left after a step is a rest of the same program.
LEMMA LeftTail ==
  ASSUME NEW s \in Seq(Steps), NEW p \in Seq(Steps), s # <<>>, Left(s, p)
  PROVE  Left(Tail(s), p) /\ Tail(s) \in Seq(Steps) /\ Len(Tail(s)) = Len(s) - 1 /\ Len(s) \in Nat \ {0}
<1>1. Len(s) \in Nat \ {0} /\ Tail(s) \in Seq(Steps) /\ Len(Tail(s)) = Len(s) - 1
      /\ \A i \in 1 .. Len(s) - 1 : Tail(s)[i] = s[i + 1]
  BY HeadTailProperties, EmptySeq
<1>2. Len(p) \in Nat
  BY LenProperties
<1>. QED  BY <1>1, <1>2 DEF Left

\* Each operation starts at the beginning of a program of its own.
LEMMA PlanLeft ==
  ASSUME NEW o \in {"reset", "configure", "startData", "stopData"}
  PROVE  Plan(o) \in Seq(Steps) /\ Plan(o) # <<>> /\ Plan(o) \in Programs(o) /\ Left(Plan(o), Plan(o))
         /\ Len(Plan(o)) = CASE o = "reset" -> 1 [] o = "configure" -> 17 [] o = "startData" -> 2
                              [] OTHER -> 6
<1>1. CASE o = "reset"
  BY <1>1 DEF Plan, Programs, Left, Steps
<1>2. CASE o = "configure"
  BY <1>2 DEF Plan, Programs, Left, Steps
<1>3. CASE o = "startData"
  BY <1>3 DEF Plan, Programs, Left, Steps
<1>4. CASE o = "stopData"
  BY <1>4 DEF Plan, Programs, Left, Steps
<1>. QED  BY <1>1, <1>2, <1>3, <1>4

\* The ways to IDLE and what follows them, step by step.
LEMMA HaltBody ==
  /\ Halt \o Body \in Seq(Steps) /\ Len(Halt \o Body) = 21
  /\ \A i \in 1 .. 21 : (Halt \o Body)[i] = IF i <= 6 THEN Halt[i] ELSE Body[i - 6]
<1>1. Halt \in Seq(Steps) /\ Body \in Seq(Steps) /\ Len(Halt) = 6 /\ Len(Body) = 15
  BY DEF Halt, Body, Steps
<1>2. /\ Halt \o Body \in Seq(Steps) /\ Len(Halt \o Body) = Len(Halt) + Len(Body)
      /\ \A i \in 1 .. Len(Halt) + Len(Body) :
           (Halt \o Body)[i] = IF i <= Len(Halt) THEN Halt[i] ELSE Body[i - Len(Halt)]
  BY <1>1, ConcatProperties, Zenon
<1>3. Len(Halt) + Len(Body) = 21
  BY <1>1
<1>. QED  BY <1>1, <1>2, <1>3, Zenon

LEMMA LeaveBody ==
  /\ Leave \o Body \in Seq(Steps) /\ Len(Leave \o Body) = 19
  /\ \A i \in 1 .. 19 : (Leave \o Body)[i] = IF i <= 4 THEN Leave[i] ELSE Body[i - 4]
<1>1. Leave \in Seq(Steps) /\ Body \in Seq(Steps) /\ Len(Leave) = 4 /\ Len(Body) = 15
  BY DEF Leave, Body, Steps
<1>2. /\ Leave \o Body \in Seq(Steps) /\ Len(Leave \o Body) = Len(Leave) + Len(Body)
      /\ \A i \in 1 .. Len(Leave) + Len(Body) :
           (Leave \o Body)[i] = IF i <= Len(Leave) THEN Leave[i] ELSE Body[i - Len(Leave)]
  BY <1>1, ConcatProperties, Zenon
<1>3. Len(Leave) + Len(Body) = 19
  BY <1>1
<1>. QED  BY <1>1, <1>2, <1>3, Zenon

\* The programs are lists of steps.
LEMMA ProgramsAreLists ==
  ASSUME NEW o \in {"none", "reset", "configure", "startData", "stopData"}, NEW p \in Programs(o)
  PROVE  p \in Seq(Steps)
<1>1. CASE o = "none"
  BY <1>1 DEF Programs
<1>2. CASE o = "reset"
  <2>1. p \in {<<"resetState">>, Halt, Leave}
    BY <1>2 DEF Programs
  <2>2. <<"resetState">> \in Seq(Steps) /\ Halt \in Seq(Steps) /\ Leave \in Seq(Steps)
    BY DEF Halt, Leave, Steps
  <2>. QED  BY <2>1, <2>2
<1>3. CASE o = "configure"
  <2>1. p \in {Plan("configure"), Halt \o Body, Leave \o Body}
    BY <1>3 DEF Programs
  <2>. QED  BY <2>1, HaltBody, LeaveBody, PlanLeft
<1>4. CASE o \in {"startData", "stopData"}
  <2>1. p = Plan(o)
    BY <1>4 DEF Programs
  <2>. QED  BY <1>4, <2>1, PlanLeft
<1>. QED  BY <1>1, <1>2, <1>3, <1>4

\* The step that is next, for every operation.
LEMMA Where ==
  ASSUME TypeOK, Shape, todo # <<>>
  PROVE  Len(todo) \in Nat \ {0} /\ Head(todo) = todo[1] /\ NextStep(Len(todo), todo[1])
<1>. DEFINE n == Len(todo)
            h == todo[1]
<1>1. /\ todo \in Seq(Steps) /\ n \in Nat \ {0} /\ Head(todo) = h
      /\ op \in {"reset", "configure", "startData", "stopData"}
  BY HeadTailProperties, EmptySeq DEF Shape, TypeOK
<1>2. PICK p \in Programs(op) : Left(todo, p)
  BY DEF Shape
<1>3. n <= Len(p) /\ h = p[Len(p) - n + 1]
  BY <1>1, <1>2 DEF Left
<1>4. n \in Nat \ {0}
  BY <1>1
<1>. HIDE DEF n, h
<1>5. ASSUME op = "reset" PROVE NextStep(n, h)
  <2>1. p \in {<<"resetState">>, Halt, Leave}
    BY <1>2, <1>5 DEF Programs
  <2>2. CASE p = <<"resetState">>
    <3>1. n = 1 /\ n <= 6 /\ h = "resetState"
      BY <1>3, <1>4, <2>2
    <3>2. InReset(n, h)
      BY <3>1, Zenon DEF InReset
    <3>. QED  BY <1>5, <3>2 DEF NextStep
  <2>3. CASE p = Halt
    <3>1. n <= 6 /\ h \in {"PAUSE", "getState", "STOP", "RESET"}
      BY <1>3, <1>4, <2>3 DEF Halt
    <3>2. InReset(n, h)
      BY <3>1, Zenon DEF InReset
    <3>. QED  BY <1>5, <3>2 DEF NextStep
  <2>4. CASE p = Leave
    <3>1. n <= 6 /\ h \in {"QUIT", "getState", "RESET"}
      BY <1>3, <1>4, <2>4 DEF Leave
    <3>2. InReset(n, h)
      BY <3>1, Zenon DEF InReset
    <3>. QED  BY <1>5, <3>2 DEF NextStep
  <2>. QED  BY <2>1, <2>2, <2>3, <2>4
<1>6. ASSUME op = "startData" PROVE NextStep(n, h)
  <2>1. p = <<"START", "getState">>
    BY <1>2, <1>6 DEF Programs, Plan
  <2>2. n <= 2 /\ h \in {"START", "getState"}
    BY <1>3, <1>4, <2>1
  <2>. QED  BY <1>6, <2>2 DEF NextStep, InStartData
<1>7. ASSUME op = "stopData" PROVE NextStep(n, h)
  <2>1. p = <<"PAUSE", "getState", "STOP", "getState", "CONFIGURE", "getState">>
    BY <1>2, <1>7 DEF Programs, Plan
  <2>2. n <= 6 /\ h = p[7 - n]
    BY <1>3, <1>4, <2>1
  <2>3. n = 6 => h = "PAUSE"
    BY <2>1, <2>2
  <2>4. n < 6 => h \in {"getState", "STOP", "CONFIGURE"}
    BY <1>4, <2>1, <2>2
  <2>5. n = 6 \/ n < 6
    BY <1>4, <2>2
  <2>6. InStopData(n, h)
    BY <2>3, <2>4, <2>5, Zenon DEF InStopData
  <2>. QED  BY <1>7, <2>6 DEF NextStep
<1>8. ASSUME op = "configure" PROVE NextStep(n, h)
  <2>1. p \in {Plan("configure"), Halt \o Body, Leave \o Body}
    BY <1>2, <1>8 DEF Programs
  <2>2. /\ n <= 15 => h = Body[16 - n]
        /\ n = 16 => h \in {"resetState", "getState"}
        /\ n = 17 => h \in {"testConnection", "RESET"}
        /\ n > 17 => h \in {"PAUSE", "getState", "STOP", "QUIT"}
    <3>1. CASE p = Plan("configure")
      <4>1. p = <<"testConnection", "resetState", "setInitValues", "INIT", "getState", "checkIDs",
                  "disableHV", "setEnabledPMTs", "checkEnabledPMTs", "setHV", "checkHV",
                  "setThresholds", "checkThresholds", "setFlasher", "checkFlasher",
                  "CONFIGURE", "getState">>
        BY <3>1 DEF Plan
      <4>2. n <= 17 /\ h = p[18 - n]
        BY <1>3, <1>4, <4>1
      <4>3. \A i \in 1 .. 15 : p[18 - i] = Body[16 - i]
        BY <4>1 DEF Body
      <4>4. n <= 15 => h = Body[16 - n]
        <5>1. n <= 15 => n \in 1 .. 15
          BY <1>4
        <5>. QED  BY <4>2, <4>3, <5>1, Zenon
      <4>5. n > 15 => n \in {16, 17}
        BY <1>4, <4>2
      <4>6. n = 16 => h = "resetState"
        BY <4>1, <4>2
      <4>7. n = 17 => h = "testConnection"
        BY <4>1, <4>2
      <4>. QED  BY <1>4, <4>4, <4>5, <4>6, <4>7
    <3>2. CASE p = Halt \o Body
      <4>1. Len(p) = 21 /\ \A i \in 1 .. 21 : p[i] = IF i <= 6 THEN Halt[i] ELSE Body[i - 6]
        BY <3>2, HaltBody
      <4>2. n <= 21 /\ h = p[22 - n] /\ 22 - n \in 1 .. 21
        BY <1>3, <1>4, <4>1
      <4>3. h = (IF 22 - n <= 6 THEN Halt[22 - n] ELSE Body[22 - n - 6])
        BY <4>1, <4>2, Zenon
      <4>4. (n >= 16 => h = Halt[22 - n]) /\ (n <= 15 => h = Body[16 - n])
        <5>1. n <= 15 => ~(22 - n <= 6) /\ 22 - n - 6 = 16 - n
          BY <1>4
        <5>2. n >= 16 => 22 - n <= 6
          BY <1>4
        <5>. QED  BY <4>3, <5>1, <5>2, Zenon
      <4>5. /\ n = 16 => Halt[22 - n] = "getState"
            /\ n = 17 => Halt[22 - n] = "RESET"
            /\ n \in 18 .. 21 => Halt[22 - n] \in {"PAUSE", "getState", "STOP"}
        BY <1>4 DEF Halt
      <4>. QED  BY <1>4, <4>2, <4>4, <4>5
    <3>3. CASE p = Leave \o Body
      <4>1. Len(p) = 19 /\ \A i \in 1 .. 19 : p[i] = IF i <= 4 THEN Leave[i] ELSE Body[i - 4]
        BY <3>3, LeaveBody
      <4>2. n <= 19 /\ h = p[20 - n] /\ 20 - n \in 1 .. 19
        BY <1>3, <1>4, <4>1
      <4>3. h = IF n >= 16 THEN Leave[20 - n] ELSE Body[16 - n]
        BY <1>4, <4>1, <4>2
      <4>4. /\ n = 16 => Leave[20 - n] = "getState"
            /\ n = 17 => Leave[20 - n] = "RESET"
            /\ n \in 18 .. 19 => Leave[20 - n] \in {"QUIT", "getState"}
        BY <1>4 DEF Leave
      <4>. QED  BY <1>4, <4>2, <4>3, <4>4
    <3>. QED  BY <2>1, <3>1, <3>2, <3>3
  <2>3. InConfigure(n, h)
    BY <1>4, <2>2 DEF Body, InConfigure
  <2>. QED  BY <1>8, <2>3 DEF NextStep
<1>9. NextStep(n, h)
  BY <1>1, <1>5, <1>6, <1>7, <1>8
<1>. QED  BY <1>1, <1>9 DEF n, h

(* --- the steps that are left -------------------------------------------- *)
\* The way to IDLE is the end of one of the two.
LEMMA WayToIdle ==
  ASSUME NEW s \in CLBState
  PROVE  /\ ResetPlan(s) \in Seq(Steps)
         /\ s = "IDLE" => Len(ResetPlan(s)) = 0
         /\ s # "IDLE" => Len(ResetPlan(s)) >= 2
         /\ \E q \in {Halt, Leave} : Left(ResetPlan(s), q)
<1>1. CASE s = "IDLE"
  <2>1. ResetPlan(s) = <<>>
    BY <1>1 DEF ResetPlan
  <2>2. Left(ResetPlan(s), Halt)
    BY <2>1 DEF Left, Halt
  <2>3. ResetPlan(s) \in Seq(Steps) /\ Len(ResetPlan(s)) = 0
    BY <2>1
  <2>. QED  BY <1>1, <2>2, <2>3
<1>2. CASE s = "STAND_BY"
  <2>1. ResetPlan(s) = <<"RESET", "getState">>
    BY <1>2 DEF ResetPlan
  <2>2. Left(ResetPlan(s), Halt)
    BY <2>1 DEF Left, Halt
  <2>3. ResetPlan(s) \in Seq(Steps) /\ Len(ResetPlan(s)) >= 2
    BY <2>1 DEF Steps
  <2>. QED  BY <1>2, <2>2, <2>3
<1>3. CASE s = "READY"
  <2>1. ResetPlan(s) = <<"QUIT", "getState", "RESET", "getState">>
    BY <1>3 DEF ResetPlan
  <2>2. Left(ResetPlan(s), Leave)
    BY <2>1 DEF Left, Leave
  <2>3. ResetPlan(s) \in Seq(Steps) /\ Len(ResetPlan(s)) >= 2
    BY <2>1 DEF Steps
  <2>. QED  BY <1>3, <2>2, <2>3
<1>4. CASE s = "PAUSED"
  <2>1. ResetPlan(s) = <<"STOP", "getState", "RESET", "getState">>
    BY <1>4 DEF ResetPlan
  <2>2. Left(ResetPlan(s), Halt)
    BY <2>1 DEF Left, Halt
  <2>3. ResetPlan(s) \in Seq(Steps) /\ Len(ResetPlan(s)) >= 2
    BY <2>1 DEF Steps
  <2>. QED  BY <1>4, <2>2, <2>3
<1>5. CASE s = "RUNNING"
  <2>1. ResetPlan(s) = <<"PAUSE", "getState", "STOP", "getState", "RESET", "getState">>
    BY <1>5 DEF ResetPlan
  <2>2. Left(ResetPlan(s), Halt)
    BY <2>1 DEF Left, Halt
  <2>3. ResetPlan(s) \in Seq(Steps) /\ Len(ResetPlan(s)) >= 2
    BY <2>1 DEF Steps
  <2>. QED  BY <1>5, <2>2, <2>3
<1>. QED  BY <1>1, <1>2, <1>3, <1>4, <1>5 DEF CLBState

\* What is left of a way is left of it when more is to follow.
LEMMA LeftConcat ==
  ASSUME NEW s \in Seq(Steps), NEW q \in Seq(Steps), NEW t \in Seq(Steps), Left(s, q)
  PROVE  Left(s \o t, q \o t)
<1>. DEFINE u == s \o t
            v == q \o t
<1>1. /\ Len(s) \in Nat /\ Len(q) \in Nat /\ Len(t) \in Nat
      /\ Len(s) <= Len(q)
      /\ \A i \in 1 .. Len(s) : s[i] = q[Len(q) - Len(s) + i]
  BY LenProperties DEF Left
<1>2. /\ Len(u) = Len(s) + Len(t)
      /\ \A i \in 1 .. Len(s) + Len(t) : u[i] = IF i <= Len(s) THEN s[i] ELSE t[i - Len(s)]
  BY ConcatProperties, Zenon
<1>3. /\ Len(v) = Len(q) + Len(t)
      /\ \A i \in 1 .. Len(q) + Len(t) : v[i] = IF i <= Len(q) THEN q[i] ELSE t[i - Len(q)]
  BY ConcatProperties, Zenon
<1>. HIDE DEF u, v
<1>4. ASSUME NEW i \in 1 .. Len(u)
      PROVE  u[i] = v[Len(v) - Len(u) + i]
  <2>1. i \in 1 .. Len(s) + Len(t) /\ Len(v) - Len(u) + i = Len(q) - Len(s) + i
    BY <1>1, <1>2, <1>3
  <2>2. Len(q) - Len(s) + i \in 1 .. Len(q) + Len(t)
    BY <1>1, <2>1
  <2>3. CASE i <= Len(s)
    <3>1. u[i] = s[i] /\ s[i] = q[Len(q) - Len(s) + i] /\ Len(q) - Len(s) + i <= Len(q)
      BY <1>1, <1>2, <2>1, <2>3
    <3>. QED  BY <1>3, <2>1, <2>2, <3>1
  <2>4. CASE ~(i <= Len(s))
    <3>1. u[i] = t[i - Len(s)]
      BY <1>2, <2>1, <2>4
    <3>2. ~(Len(q) - Len(s) + i <= Len(q)) /\ Len(q) - Len(s) + i - Len(q) = i - Len(s)
      BY <1>1, <2>1, <2>4
    <3>3. v[Len(q) - Len(s) + i] = t[Len(q) - Len(s) + i - Len(q)]
      BY <1>3, <2>2, <3>2
    <3>. QED  BY <2>1, <3>1, <3>2, <3>3
  <2>. QED  BY <2>3, <2>4
<1>5. Len(u) <= Len(v)
  BY <1>1, <1>2, <1>3
<1>6. Left(u, v)
  BY <1>4, <1>5 DEF Left
<1>. QED  BY <1>6 DEF u, v

\* What is left after a step.
LEMMA Rest ==
  ASSUME TypeOK, Shape, todo # <<>>
  PROVE  /\ Tail(todo) \in Seq(Steps) /\ Len(Tail(todo)) = Len(todo) - 1
         /\ \E p \in Programs(op) : Left(Tail(todo), p)
<1>1. PICK p \in Programs(op) : Left(todo, p)
  BY DEF Shape
<1>2. p \in Seq(Steps)
  BY ProgramsAreLists DEF TypeOK
<1>3. Left(Tail(todo), p) /\ Tail(todo) \in Seq(Steps) /\ Len(Tail(todo)) = Len(todo) - 1
  BY <1>1, <1>2, LeftTail DEF Shape
<1>. QED  BY <1>3

\* configure resets the CLB when all of its body follows.
LEMMA BodyFollows ==
  ASSUME TypeOK, Shape, op = "configure", Len(todo) = 16
  PROVE  Tail(todo) = Body
<1>0. todo # <<>>
  OBVIOUS
<1>1. PICK p \in Programs(op) : Left(Tail(todo), p)
  BY <1>0, Rest
<1>2. Tail(todo) \in Seq(Steps) /\ Len(Tail(todo)) = 15
  BY <1>0, Rest
<1>3. Body \in Seq(Steps) /\ Len(Body) = 15
  BY DEF Body, Steps
<1>4. p \in {Plan("configure"), Halt \o Body, Leave \o Body}
  BY DEF Programs
<1>5. \A i \in 1 .. 15 : p[Len(p) - 15 + i] = Body[i]
  <2>1. CASE p = Plan("configure")
    BY <2>1 DEF Plan, Body
  <2>2. CASE p = Halt \o Body
    <3>1. Len(p) = 21 /\ \A i \in 1 .. 21 : p[i] = IF i <= 6 THEN Halt[i] ELSE Body[i - 6]
      BY <2>2, HaltBody
    <3>. QED  BY <3>1
  <2>3. CASE p = Leave \o Body
    <3>1. Len(p) = 19 /\ \A i \in 1 .. 19 : p[i] = IF i <= 4 THEN Leave[i] ELSE Body[i - 4]
      BY <2>3, LeaveBody
    <3>. QED  BY <3>1
  <2>. QED  BY <1>4, <2>1, <2>2, <2>3
<1>6. \A i \in 1 .. 15 : Tail(todo)[i] = Body[i]
  BY <1>1, <1>2, <1>5 DEF Left
<1>. QED  BY <1>2, <1>3, <1>6, SeqEqual

\* What is left when configure or reset has looked where the CLB is.
LEMMA RestOfReset ==
  ASSUME TypeOK, Shape, todo # <<>>, Head(todo) = "resetState",
         NEW rest, rest = ResetPlan(clb.state) \o Tail(todo)
  PROVE  /\ rest \in Seq(Steps)
         /\ \E p \in Programs(op) : Left(rest, p)
         /\ op = "configure" => IF clb.state = "IDLE" THEN Len(rest) = 15 ELSE Len(rest) >= 17
<1>. DEFINE way == ResetPlan(clb.state)
<1>1. clb.state \in CLBState
  BY DEF TypeOK
<1>2. /\ way \in Seq(Steps)
      /\ clb.state = "IDLE" => Len(way) = 0
      /\ clb.state # "IDLE" => Len(way) >= 2
      /\ \E q \in {Halt, Leave} : Left(way, q)
  BY <1>1, WayToIdle
<1>3. PICK q \in {Halt, Leave} : Left(way, q)
  BY <1>2
<1>4. Halt \in Seq(Steps) /\ Leave \in Seq(Steps) /\ Body \in Seq(Steps)
  BY DEF Halt, Leave, Body, Steps
<1>5. Tail(todo) \in Seq(Steps) /\ Len(Tail(todo)) = Len(todo) - 1 /\ Len(todo) \in Nat \ {0}
  BY Rest, Where
<1>6. NextStep(Len(todo), "resetState")
  BY Where
<1>. HIDE DEF way
<1>7. rest = way \o Tail(todo)
  BY DEF way
<1>8. rest \in Seq(Steps) /\ Len(rest) = Len(way) + Len(Tail(todo))
  BY <1>2, <1>5, <1>7, ConcatProperties
<1>9. (op = "reset" /\ Len(todo) = 1) \/ (op = "configure" /\ Len(todo) = 16)
  <2>1. CASE op = "reset"
    BY <1>5, <1>6, <2>1 DEF NextStep, InReset
  <2>2. CASE op = "configure"
    <3>1. InConfigure(Len(todo), "resetState")
      BY <1>6, <2>2 DEF NextStep
    <3>. DEFINE n == Len(todo)
    <3>. HIDE DEF n
    <3>2. ~(n > 17) /\ ~(n = 17)
      BY <3>1 DEF InConfigure, n
    <3>3. n # 1 /\ n # 2 /\ n # 3 /\ n # 4 /\ n # 5 /\ n # 6 /\ n # 7 /\ n # 8
          /\ n # 9 /\ n # 10 /\ n # 11 /\ n # 12 /\ n # 13 /\ n # 14 /\ n # 15
      BY <3>1 DEF InConfigure, n
    <3>4. n \in Nat \ {0}
      BY <1>5 DEF n
    <3>5. n = 16
      BY <3>2, <3>3, <3>4
    <3>. QED  BY <2>2, <3>5 DEF n
  <2>3. op \notin {"startData", "stopData"}
    BY <1>6 DEF NextStep, InStartData, InStopData
  <2>4. op \in {"reset", "configure", "startData", "stopData"}
    BY <1>6 DEF NextStep
  <2>. QED  BY <2>1, <2>2, <2>3, <2>4
<1>10. CASE op = "reset" /\ Len(todo) = 1
  <2>1. Tail(todo) = <<>>
    <3>1. Tail(todo) \in Seq(Steps) /\ ~(Len(Tail(todo)) \in Nat \ {0})
      BY <1>5, <1>10
    <3>. QED  BY <3>1, EmptySeq
  <2>2. rest = way
    BY <1>2, <1>7, <2>1, ConcatEmptySeq
  <2>3. q \in Programs(op)
    BY <1>10 DEF Programs
  <2>. QED  BY <1>3, <1>8, <1>10, <2>2, <2>3
<1>11. CASE op = "configure" /\ Len(todo) = 16
  <2>1. Tail(todo) = Body
    BY <1>11, BodyFollows
  <2>2. Left(rest, q \o Body)
    BY <1>2, <1>3, <1>4, <1>7, <2>1, LeftConcat
  <2>3. q \o Body \in Programs(op)
    BY <1>3, <1>11 DEF Programs
  <2>4. Len(way) \in Nat /\ Len(rest) = Len(way) + 15
    <3>1. Len(way) \in Nat
      BY <1>2, LenProperties
    <3>2. Len(Tail(todo)) = 15
      BY <1>5, <1>11
    <3>. QED  BY <1>8, <3>1, <3>2
  <2>5. IF clb.state = "IDLE" THEN Len(rest) = 15 ELSE Len(rest) >= 17
    BY <1>2, <2>4
  <2>. QED  BY <1>8, <2>2, <2>3, <2>5
<1>. QED  BY <1>9, <1>10, <1>11

(* --- what a step does ---------------------------------------------------- *)
Clbs == [state : CLBState, init : BOOLEAN, hvOff : BOOLEAN, enabled : SUBSET Channel,
         hv : BOOLEAN, th : BOOLEAN, nano : BOOLEAN]
Configs == [enabled : SUBSET Channel, hv : BOOLEAN, nano : BOOLEAN, eid : BOOLEAN]
Writes == {"setInitValues", "disableHV", "setEnabledPMTs", "setHV", "setThresholds", "setFlasher"}

\* An event takes the CLB from its source to its target and leaves everything else.
Moves(e) == /\ e \in Events /\ clb.state = Source(e)
            /\ clb'.state = Target(e) /\ clb'.enabled = clb.enabled
            /\ clb'.hv = clb.hv /\ clb'.th = clb.th /\ clb'.nano = clb.nano

LEMMA EventTypes ==
  ASSUME NEW e \in Events
  PROVE  Source(e) \in CLBState /\ Target(e) \in CLBState
BY DEF Events, CLBState, Source, Target

\* Executing the command of a step gives the CLB a state and values of its variables.
LEMMA ExecutedType ==
  ASSUME clb \in Clbs, config \in Configs, NEW step \in Steps
  PROVE  Executed(step) \in Clbs
<1>1. CASE step \in Events
  <2>1. Target(step) \in CLBState
    BY <1>1, EventTypes
  <2>2. Executed(step) = IF clb.state = Source(step)
                               THEN [clb EXCEPT !.state = Target(step)] ELSE clb
    BY <1>1 DEF Executed, Events
  <2>. QED  BY <2>1, <2>2 DEF Clbs
<1>2. CASE step = "setInitValues"
  BY <1>2 DEF Executed, Events, SetInitValues, Clbs
<1>3. CASE step = "disableHV"
  BY <1>3 DEF Executed, Events, DisableHV, Clbs
<1>4. CASE step = "setEnabledPMTs"
  BY <1>4 DEF Executed, Events, SetEnabledPMTs, Clbs, Configs
<1>5. CASE step = "setHV"
  BY <1>5 DEF Executed, Events, SetHV, Clbs
<1>6. CASE step = "setThresholds"
  BY <1>6 DEF Executed, Events, SetThresholds, Clbs
<1>7. CASE step = "setFlasher"
  BY <1>7 DEF Executed, Events, SetFlasher, Clbs, Configs
<1>8. CASE step \notin Events \cup Writes
  BY <1>8 DEF Executed, Writes
<1>. QED  BY <1>1, <1>2, <1>3, <1>4, <1>5, <1>6, <1>7, <1>8 DEF Writes

\* Executing the command of a step moves the CLB, writes its variables or leaves it alone.
LEMMA ExecutedEvent ==
  ASSUME clb \in Clbs, NEW e \in Events, clb' = Executed(e)
  PROVE  clb' = clb \/ Moves(e)
<1>1. Target(e) \in CLBState
  BY EventTypes
<1>2. clb' = IF clb.state = Source(e) THEN [clb EXCEPT !.state = Target(e)] ELSE clb
  BY DEF Executed, Events
<1>3. CASE clb.state # Source(e)
  BY <1>2, <1>3
<1>4. CASE clb.state = Source(e)
  <2>1. clb' = [clb EXCEPT !.state = Target(e)]
    BY <1>2, <1>4
  <2>. QED  BY <1>1, <1>4, <2>1 DEF Clbs, Moves
<1>. QED  BY <1>3, <1>4

LEMMA ExecutedWrite ==
  ASSUME clb \in Clbs, config \in Configs, NEW step \in Writes, clb' = Executed(step)
  PROVE  /\ clb'.state = clb.state
         /\ clb'.enabled = IF step = "setEnabledPMTs" THEN config.enabled ELSE clb.enabled
         /\ clb'.hv = clb.hv \/ step = "setHV"
         /\ clb'.th = clb.th \/ step = "setThresholds"
         /\ clb'.nano = clb.nano \/ step \in {"setInitValues", "setFlasher"}
<1>1. step \notin Events
  BY DEF Writes, Events
<1>2. CASE step = "setInitValues"
  BY <1>1, <1>2 DEF Executed, SetInitValues, Clbs
<1>3. CASE step = "disableHV"
  BY <1>1, <1>3 DEF Executed, DisableHV, Clbs
<1>4. CASE step = "setEnabledPMTs"
  BY <1>1, <1>4 DEF Executed, SetEnabledPMTs, Clbs, Configs
<1>5. CASE step = "setHV"
  BY <1>1, <1>5 DEF Executed, SetHV, Clbs
<1>6. CASE step = "setThresholds"
  BY <1>1, <1>6 DEF Executed, SetThresholds, Clbs
<1>7. CASE step = "setFlasher"
  BY <1>1, <1>7 DEF Executed, SetFlasher, Clbs, Configs
<1>. QED  BY <1>2, <1>3, <1>4, <1>5, <1>6, <1>7 DEF Writes

\* A step either goes on to the next one, resets the CLB, or ends the operation without it.
Advances == todo # <<>> /\ GoOn(Tail(todo))
Ends == op' = "none" /\ todo' = <<>>

\* The steps of the operations, by what they change.
LEMMA StepKinds ==
  ASSUME TypeOK, Step
  PROVE  /\ todo # <<>> /\ wrongId' = wrongId
         /\ \/ /\ Head(todo) = "getState" /\ Advances
               /\ clbState' = clb.state /\ clb' = clb /\ config' = config
            \/ /\ Head(todo) = "resetState" /\ GoOn(ResetPlan(clb.state) \o Tail(todo))
               /\ clbState' = clb.state /\ clb' = clb /\ config' = config
            \/ /\ Head(todo) \in Events /\ Advances /\ clb.state = Source(Head(todo))
               /\ clbState' = clbState /\ clb' = Executed(Head(todo)) /\ config' = config
            \/ /\ Head(todo) = "checkIDs" /\ Advances
               /\ clbState' = clbState /\ clb' = clb
               /\ config' = [config EXCEPT !.enabled = @ \ wrongId]
            \/ /\ Head(todo) \in Writes /\ Advances
               /\ clbState' = clbState /\ clb' \in {clb, Executed(Head(todo))} /\ config' = config
            \/ /\ Head(todo) \in {"testConnection", "checkEnabledPMTs", "checkHV", "checkThresholds",
                                  "checkFlasher"}
               /\ Matches(Head(todo)) /\ Advances
               /\ clbState' = clbState /\ clb' = clb /\ config' = config
            \/ /\ Ends /\ working' = (op = "reset") /\ state' = state
               /\ clbState' = clbState /\ clb' \in {clb, Executed(Head(todo))} /\ config' = config
<1>1. todo # <<>> /\ wrongId' = wrongId
  BY DEF Step, NoBound
<1>2. CASE GetState
  BY <1>1, <1>2 DEF GetState, Advances
<1>3. CASE ResetState
  BY <1>1, <1>3 DEF ResetState
<1>4. CASE SetState
  BY <1>1, <1>4 DEF SetState, CanSet, Advances
<1>5. CASE CheckIDs
  BY <1>1, <1>5 DEF CheckIDs, Advances
<1>6. CASE Write
  BY <1>1, <1>6 DEF Write, Advances, Writes
<1>7. CASE Check
  BY <1>1, <1>7 DEF Check, Advances
<1>8. CASE Fail
  BY <1>1, <1>8 DEF Fail, GiveUp, Unanswered, Refused, Ends
<1>. QED  BY <1>2, <1>3, <1>4, <1>5, <1>6, <1>7, <1>8 DEF Step

(* --- types --------------------------------------------------------------- *)
Operations == {"none", "reset", "configure", "startData", "stopData"}
\* The controller's own variables.
Controller == /\ state \in {"Ready", "Configured", "Started"} /\ working \in BOOLEAN
              /\ op \in Operations
              /\ todo = <<>> <=> op = "none"

LEMMA TypesSplit ==
  TypeOK <=> /\ config \in Configs /\ wrongId \in SUBSET Channel /\ Controller
             /\ clbState \in CLBState \cup {"UNDEFINED"} /\ clb \in Clbs
BY DEF TypeOK, Configs, Controller, Clbs, Operations

LEMMA GoOnKeeps ==
  ASSUME Controller, todo # <<>>, NEW rest \in Seq(Steps), \E p \in Programs(op) : Left(rest, p),
         GoOn(rest)
  PROVE  Controller' /\ Shape' /\ todo' = rest /\ op' \in {op, "none"}
<1>1. op \in {"reset", "configure", "startData", "stopData"}
  BY DEF Controller, Operations
<1>2. todo' = rest
  BY DEF GoOn
<1>3. CASE rest # <<>>
  <2>1. op' = op /\ state' = state /\ working' = working
    BY <1>3 DEF GoOn
  <2>2. Controller'
    BY <1>1, <1>2, <1>3, <2>1 DEF Controller
  <2>3. Shape'
    BY <1>2, <2>1 DEF Shape
  <2>. QED  BY <1>2, <2>1, <2>2, <2>3
<1>4. CASE rest = <<>>
  <2>1. op' = "none" /\ state' = Reached /\ working' = (op = "reset")
    BY <1>4 DEF GoOn
  <2>2. state' \in {"Ready", "Configured", "Started"}
    BY <1>1, <2>1 DEF Reached, Controller
  <2>3. working' \in BOOLEAN
    BY <2>1
  <2>4. Controller'
    BY <1>2, <1>4, <2>1, <2>2, <2>3 DEF Controller, Operations
  <2>5. <<>> \in Programs("none") /\ Left(<<>>, <<>>)
    BY DEF Programs, Left
  <2>6. Shape'
    BY <1>2, <1>4, <2>1, <2>5 DEF Shape
  <2>. QED  BY <1>2, <2>1, <2>4, <2>6
<1>. QED  BY <1>3, <1>4

LEMMA EndsKeeps ==
  ASSUME Controller, Ends, working' = (op = "reset"), state' = state
  PROVE  Controller' /\ Shape'
<1>1. working' \in BOOLEAN
  OBVIOUS
<1>2. <<>> \in Programs("none") /\ Left(<<>>, <<>>)
  BY DEF Programs, Left
<1>3. Controller'
  BY <1>1 DEF Controller, Ends, Operations
<1>4. Shape'
  BY <1>2 DEF Shape, Ends
<1>. QED  BY <1>3, <1>4

\* A step of an operation keeps the types and leaves the rest of a program.
LEMMA StepTypes ==
  ASSUME TypeOK, Shape, Step
  PROVE  TypeOK' /\ Shape'
<1>1. todo # <<>> /\ wrongId' = wrongId
  BY StepKinds
<1>2. /\ config \in Configs /\ wrongId \in SUBSET Channel /\ Controller
      /\ clbState \in CLBState \cup {"UNDEFINED"} /\ clb \in Clbs
  BY TypesSplit
<1>3. Tail(todo) \in Seq(Steps) /\ \E p \in Programs(op) : Left(Tail(todo), p)
  BY <1>1, Rest
<1>4. Advances => Controller' /\ Shape'
  BY <1>1, <1>2, <1>3, GoOnKeeps DEF Advances
<1>5. clb.state \in CLBState
  BY <1>2 DEF Clbs
<1>6. Head(todo) \in Steps
  BY <1>1, HeadTailProperties DEF Shape
<1>7. Executed(Head(todo)) \in Clbs
  BY <1>2, <1>6, ExecutedType
<1>8. [config EXCEPT !.enabled = @ \ wrongId] \in Configs
  BY <1>2 DEF Configs
<1>9. Controller' /\ Shape'
  <2>1. CASE Head(todo) = "resetState" /\ GoOn(ResetPlan(clb.state) \o Tail(todo))
    BY <1>1, <1>2, <2>1, RestOfReset, GoOnKeeps
  <2>2. CASE Ends /\ working' = (op = "reset") /\ state' = state
    BY <1>2, <2>2, EndsKeeps
  <2>. QED  BY <1>4, <2>1, <2>2, StepKinds, Zenon
<1>10. config' \in Configs
  BY <1>2, <1>8, StepKinds
<1>11. clbState' \in CLBState \cup {"UNDEFINED"}
  BY <1>2, <1>5, StepKinds
<1>12. clb' \in Clbs
  BY <1>2, <1>7, StepKinds
<1>13. TypeOK'
  BY <1>1, <1>2, <1>9, <1>10, <1>11, <1>12, Zenon
          DEF TypeOK, Configs, Controller, Clbs, Operations
<1>. QED  BY <1>9, <1>13

(* --- the order of configure ---------------------------------------------- *)
\* The steps of configure's body come nowhere else, each at its place.
LEMMA WhereInBody ==
  ASSUME TypeOK, Shape, todo # <<>>
  PROVE  /\ Head(todo) \in Writes \cup {"checkIDs", "testConnection", "checkEnabledPMTs", "checkHV",
                                        "checkThresholds", "checkFlasher"} => op = "configure"
         /\ Head(todo) = "setInitValues" => Len(todo) = 15
         /\ Head(todo) = "checkIDs" => Len(todo) = 12
         /\ Head(todo) = "disableHV" => Len(todo) = 11
         /\ Head(todo) = "setEnabledPMTs" => Len(todo) = 10
         /\ Head(todo) = "setHV" => Len(todo) = 8
         /\ Head(todo) = "setThresholds" => Len(todo) = 6
         /\ Head(todo) = "setFlasher" => Len(todo) = 4
<1>. DEFINE n == Len(todo)
            h == Head(todo)
<1>1. n \in Nat \ {0} /\ NextStep(n, h)
  BY Where
<1>. HIDE DEF n, h
<1>2. op = "configure" \/ h \in {"PAUSE", "getState", "STOP", "RESET", "QUIT", "resetState", "START",
                                 "CONFIGURE"}
  BY <1>1 DEF NextStep, InReset, InStartData, InStopData
<1>3. ASSUME op = "configure"
      PROVE  /\ h = "setInitValues" => n = 15
             /\ h = "checkIDs" => n = 12
             /\ h = "disableHV" => n = 11
             /\ h = "setEnabledPMTs" => n = 10
             /\ h = "setHV" => n = 8
             /\ h = "setThresholds" => n = 6
             /\ h = "setFlasher" => n = 4
  <2>1. InConfigure(n, h)
    BY <1>1, <1>3 DEF NextStep
  <2>. QED  BY <1>1, <2>1 DEF InConfigure
<1>. QED  BY <1>2, <1>3 DEF Writes, n, h

\* What Executed may change besides the state of the CLB comes in configure's body.
LEMMA Disturbs ==
  ASSUME TypeOK, Shape, Step, clb' # clb
  PROVE  \/ Head(todo) \in Events /\ Moves(Head(todo)) /\ config' = config
         \/ /\ Head(todo) \in Writes /\ op = "configure" /\ Len(todo) \in {4, 6, 8, 10, 11, 15}
            /\ config' = config /\ clb' = Executed(Head(todo))
<1>1. clb \in Clbs /\ config \in Configs
  BY TypesSplit
<1>2. todo # <<>> /\ clb' = Executed(Head(todo)) /\ config' = config
  BY StepKinds
<1>3. Head(todo) \in Events \cup Writes
  BY <1>2 DEF Executed, Writes
<1>4. CASE Head(todo) \in Events
  BY <1>1, <1>2, <1>4, ExecutedEvent
<1>5. CASE Head(todo) \in Writes
  <2>1. Len(todo) \in {4, 6, 8, 10, 11, 15} /\ op = "configure"
    BY <1>2, <1>5, WhereInBody DEF Writes
  <2>. QED  BY <1>2, <1>5, <2>1
<1>. QED  BY <1>3, <1>4, <1>5

\* The configuration changes at one step, which only takes channels out.
LEMMA Reconfigures ==
  ASSUME TypeOK, Shape, Step, config' # config
  PROVE  /\ op = "configure" /\ Len(todo) = 12 /\ clb' = clb
         /\ config' = [config EXCEPT !.enabled = @ \ wrongId]
<1>1. /\ todo # <<>> /\ Head(todo) = "checkIDs" /\ clb' = clb
      /\ config' = [config EXCEPT !.enabled = @ \ wrongId]
  BY StepKinds
<1>. QED  BY <1>1, WhereInBody

(* --- the steps keep the invariant ---------------------------------------- *)
\* The channels that configure enables are right.
LEMMA StepWrongPmt ==
  ASSUME IInv, Step
  PROVE  WrongPmtStaysOff'
<1>1. TypeOK /\ Shape /\ WrongDropped /\ WrongPmtStaysOff
  BY DEF IInv
<1>2. wrongId' = wrongId
  BY <1>1, StepKinds
<1>3. clb'.enabled \cap wrongId = {}
  <2>1. CASE clb' = clb
    BY <1>1, <2>1 DEF WrongPmtStaysOff
  <2>2. CASE Moves(Head(todo))
    BY <1>1, <2>2 DEF Moves, WrongPmtStaysOff
  <2>3. CASE Head(todo) \in Writes /\ clb' = Executed(Head(todo))
    <3>1. clb'.enabled = IF Head(todo) = "setEnabledPMTs" THEN config.enabled ELSE clb.enabled
      BY <1>1, <2>3, ExecutedWrite, TypesSplit
    <3>2. Head(todo) = "setEnabledPMTs" => config.enabled \cap wrongId = {}
      <4>. SUFFICES ASSUME Head(todo) = "setEnabledPMTs" PROVE config.enabled \cap wrongId = {}
        OBVIOUS
      <4>1. op = "configure" /\ Len(todo) = 10
        BY <1>1, <2>3, StepKinds, WhereInBody
      <4>. QED  BY <1>1, <4>1 DEF WrongDropped, Configuring
    <3>. QED  BY <1>1, <3>1, <3>2 DEF WrongPmtStaysOff
  <2>. QED  BY <1>1, <2>1, <2>2, <2>3, Disturbs
<1>. QED  BY <1>2, <1>3 DEF WrongPmtStaysOff

\* An event leaves what the CLB holds, and so does a step that changes nothing.
LEMMA SameSettings ==
  ASSUME config' = config, \/ clb' = clb
                           \/ \E e \in Events : Moves(e)
  PROVE  /\ ChannelsSet' <=> ChannelsSet
         /\ VoltagesSet' <=> VoltagesSet
         /\ ThresholdsSet' <=> ThresholdsSet
         /\ FlasherSet' <=> FlasherSet
         /\ IsSet' <=> IsSet
<1>1. clb'.enabled = clb.enabled /\ clb'.hv = clb.hv /\ clb'.th = clb.th /\ clb'.nano = clb.nano
  BY DEF Moves
<1>2. ChannelsSet' <=> ChannelsSet
  BY <1>1 DEF ChannelsSet
<1>3. VoltagesSet' <=> VoltagesSet
  BY <1>1 DEF VoltagesSet
<1>4. ThresholdsSet' <=> ThresholdsSet
  BY <1>1 DEF ThresholdsSet
<1>5. FlasherSet' <=> FlasherSet
  BY <1>1 DEF FlasherSet
<1>. QED  BY <1>2, <1>3, <1>4, <1>5 DEF IsSet

LEMMA ReadySplit == ReadyIsSet <=> (clb.state \in {"READY", "RUNNING", "PAUSED"} => IsSet)
<1>1. (config.enabled # {} => clb.hv /\ clb.th) <=> VoltagesSet /\ ThresholdsSet
  BY DEF VoltagesSet, ThresholdsSet
<1>. QED  BY <1>1, Zenon DEF ReadyIsSet, IsSet, ChannelsSet, FlasherSet

\* CONFIGURE comes at the end of configure, and in stopData.
LEMMA WhereConfigure ==
  ASSUME TypeOK, Shape, todo # <<>>, Head(todo) = "CONFIGURE"
  PROVE  \/ op = "configure" /\ Len(todo) = 2
         \/ op = "stopData" /\ Len(todo) < 6
<1>. DEFINE n == Len(todo)
<1>1. n \in Nat \ {0} /\ NextStep(n, "CONFIGURE")
  BY Where
<1>. HIDE DEF n
<1>2. op \in {"configure", "stopData"}
  BY <1>1 DEF NextStep, InReset, InStartData
<1>3. ASSUME op = "configure" PROVE n = 2
  <2>1. InConfigure(n, "CONFIGURE")
    BY <1>1, <1>3 DEF NextStep
  <2>. QED  BY <1>1, <2>1 DEF InConfigure
<1>4. ASSUME op = "stopData" PROVE n < 6
  BY <1>1, <1>4 DEF NextStep, InStopData
<1>. QED  BY <1>2, <1>3, <1>4 DEF n

\* A CLB that configure works on is not READY before its end.
LEMMA BeforeReady ==
  ASSUME Approached, op = "configure", Len(todo) \in Nat, Len(todo) \in 2 .. 15
  PROVE  clb.state \in {"IDLE", "STAND_BY"}
<1>0. Len(todo) <= 15 /\ ~(Len(todo) <= 1)
  BY Numbers
<1>1. Configuring(15) /\ ~Configuring(1)
  BY <1>0, Zenon DEF Configuring
<1>2. /\ Configuring(15) /\ ~Configuring(13) => clb.state = "IDLE"
      /\ Configuring(13) /\ ~Configuring(1) => clb.state \in {"IDLE", "STAND_BY"}
  BY Zenon DEF Approached
<1>. QED  BY <1>1, <1>2

\* A CLB is made READY only when all it holds is right.
LEMMA StepReady ==
  ASSUME IInv, Step
  PROVE  ReadyIsSet'
<1>1. TypeOK /\ Shape /\ Connected /\ Approached /\ Verified /\ StopProgress
  BY DEF IInv
<1>2. clb.state \in {"READY", "RUNNING", "PAUSED"} => IsSet
  BY ReadySplit DEF IInv
<1>3. todo # <<>> /\ clb.state \in CLBState /\ Len(todo) \in Nat
  BY <1>1, StepKinds, Where DEF TypeOK
<1>. SUFFICES ASSUME clb'.state \in {"READY", "RUNNING", "PAUSED"}
              PROVE  IsSet'
  <2>1. ReadyIsSet' <=> (clb.state \in {"READY", "RUNNING", "PAUSED"} => IsSet)'
    BY ReadySplit, PTL
  <2>. QED  BY <2>1
<1>4. CASE clb' = clb /\ config' = config
  BY <1>2, <1>4, SameSettings
<1>5. CASE config' # config
  <2>1. op = "configure" /\ Len(todo) = 12 /\ clb' = clb
    BY <1>1, <1>5, Reconfigures
  <2>2. clb.state \in {"IDLE", "STAND_BY"}
    BY <1>1, <2>1, BeforeReady
  <2>. QED  BY <2>1, <2>2
<1>6. CASE Head(todo) \in Writes /\ op = "configure" /\ Len(todo) \in {4, 6, 8, 10, 11, 15}
           /\ clb' = Executed(Head(todo))
  <2>1. clb'.state = clb.state
    BY <1>1, <1>6, ExecutedWrite, TypesSplit
  <2>2. clb.state \in {"IDLE", "STAND_BY"}
    BY <1>1, <1>6, BeforeReady
  <2>. QED  BY <2>1, <2>2
<1>7. CASE Head(todo) \in Events /\ Moves(Head(todo)) /\ config' = config
  <2>1. IsSet' <=> IsSet
    BY <1>7, SameSettings
  <2>2. clb.state = Source(Head(todo)) /\ clb'.state = Target(Head(todo))
    BY <1>7 DEF Moves
  <2>3. Head(todo) \in {"CONFIGURE", "START", "PAUSE"}
    BY <1>7, <2>2 DEF Events, Target
  <2>4. CASE Head(todo) \in {"START", "PAUSE"}
    <3>1. clb.state \in {"READY", "RUNNING"}
      BY <2>2, <2>4 DEF Source
    <3>. QED  BY <1>2, <2>1, <3>1
  <2>5. CASE Head(todo) = "CONFIGURE"
    <3>1. clb.state = "STAND_BY"
      BY <2>2, <2>5 DEF Source
    <3>2. CASE op = "configure" /\ Len(todo) = 2
      <4>1. Configuring(8) /\ Configuring(6) /\ Configuring(4) /\ Configuring(2)
        BY <3>2 DEF Configuring
      <4>2. ChannelsSet /\ VoltagesSet /\ ThresholdsSet /\ FlasherSet
        BY <1>1, <3>1, <4>1 DEF Verified
      <4>3. config.eid
        BY <1>1, <1>3, <2>5, <3>2, Where DEF Connected
      <4>. QED  BY <2>1, <4>2, <4>3 DEF IsSet
    <3>3. CASE op = "stopData" /\ Len(todo) < 6
      BY <1>1, <2>1, <3>1, <3>3 DEF StopProgress
    <3>. QED  BY <1>1, <1>3, <2>5, <3>2, <3>3, WhereConfigure
  <2>. QED  BY <2>3, <2>4, <2>5
<1>. QED  BY <1>1, <1>4, <1>5, <1>6, <1>7, Disturbs

\* A step that does not end the operation.
LEMMA GoesOn ==
  ASSUME TypeOK, Shape, Step, op' # "none"
  PROVE  /\ op' = op /\ todo # <<>> /\ wrongId' = wrongId
         /\ \/ /\ Head(todo) = "resetState" /\ todo' = ResetPlan(clb.state) \o Tail(todo)
               /\ clb' = clb /\ config' = config
            \/ /\ Head(todo) # "resetState"
               /\ todo' = Tail(todo) /\ Len(todo') = Len(todo) - 1
               /\ Head(todo) \in Events => clb.state = Source(Head(todo)) /\ clb' = Executed(Head(todo))
               /\ Head(todo) \in {"testConnection", "checkEnabledPMTs", "checkHV", "checkThresholds",
                                  "checkFlasher"} => Matches(Head(todo))
               /\ Head(todo) = "checkIDs" => config' = [config EXCEPT !.enabled = @ \ wrongId]
<1>1. todo # <<>> /\ ~Ends /\ wrongId' = wrongId
  BY StepKinds DEF Ends
<1>2. Len(Tail(todo)) = Len(todo) - 1
  BY <1>1, Rest
<1>3. \A rest : GoOn(rest) => todo' = rest /\ op' = op
  BY DEF GoOn
<1>4. Advances => todo' = Tail(todo) /\ op' = op
  BY <1>3 DEF Advances
<1>. QED  BY <1>1, <1>2, <1>3, <1>4, StepKinds DEF Events, Writes

\* stopData leaves a CLB that was RUNNING with all it held.
LEMMA StepStop ==
  ASSUME IInv, Step
  PROVE  StopProgress'
<1>1. TypeOK /\ Shape /\ StopProgress
  BY DEF IInv
<1>2. clb.state \in {"READY", "RUNNING", "PAUSED"} => IsSet
  BY ReadySplit DEF IInv
<1>. SUFFICES ASSUME op' = "stopData"
              PROVE  clb'.state = "IDLE" \/ IsSet'
  BY DEF StopProgress
<1>3. op = "stopData" /\ todo # <<>>
  BY <1>1, GoesOn
<1>4. Len(todo) \in Nat \ {0} /\ InStopData(Len(todo), Head(todo))
  BY <1>1, <1>3, Where DEF NextStep
<1>5. config' = config
  BY <1>1, <1>3, Reconfigures
<1>6. clb' = clb \/ (Head(todo) \in Events /\ Moves(Head(todo)))
  BY <1>1, <1>3, Disturbs
<1>7. IsSet' <=> IsSet
  BY <1>5, <1>6, SameSettings
<1>8. CASE Len(todo) = 6
  <2>1. Head(todo) = "PAUSE"
    BY <1>4, <1>8 DEF InStopData
  <2>2. clb.state = "RUNNING"
    BY <1>1, <2>1, GoesOn DEF Events, Source
  <2>. QED  BY <1>2, <1>7, <2>2
<1>9. CASE Len(todo) < 6
  <2>1. Head(todo) \in {"getState", "STOP", "CONFIGURE"}
    <3>1. Len(todo) # 6
      BY <1>4, <1>9, Numbers
    <3>. QED  BY <1>4, <3>1, Zenon DEF InStopData
  <2>2. clb.state = "IDLE" \/ IsSet
    BY <1>1, <1>3, <1>9 DEF StopProgress
  <2>3. clb.state = "IDLE" => clb' = clb
    BY <1>6, <2>1 DEF Moves, Source, Events
  <2>. QED  BY <1>7, <2>2, <2>3
<1>. QED  BY <1>4, <1>8, <1>9 DEF InStopData

\* configure tests the connection before all else.
LEMMA StepConnected ==
  ASSUME IInv, Step
  PROVE  Connected'
<1>1. TypeOK /\ Shape /\ Connected
  BY DEF IInv
<1>. SUFFICES ASSUME op' = "configure"
              PROVE  config'.eid
  BY DEF Connected
<1>2. op = "configure" /\ todo # <<>>
  BY <1>1, GoesOn
<1>3. config.eid
  <2>1. CASE todo[1] = "testConnection"
    BY <1>1, <2>1, GoesOn, Where DEF Matches, TestConnection
  <2>. QED  BY <1>1, <1>2, <2>1 DEF Connected
<1>4. CASE config' = config
  BY <1>3, <1>4
<1>5. CASE config' # config
  <2>1. config' = [config EXCEPT !.enabled = @ \ wrongId] /\ config \in Configs
    BY <1>1, <1>5, Reconfigures, TypesSplit
  <2>. QED  BY <1>3, <2>1 DEF Configs
<1>. QED  BY <1>4, <1>5

\* The channels left in the configuration have the right PMTs from checkIDs on.
LEMMA StepWrongDropped ==
  ASSUME IInv, Step
  PROVE  WrongDropped'
<1>1. TypeOK /\ Shape /\ WrongDropped
  BY DEF IInv
<1>. SUFFICES ASSUME op' = "configure", Len(todo') <= 11
              PROVE  config'.enabled \cap wrongId' = {}
  BY DEF WrongDropped, Configuring
<1>2. op = "configure" /\ todo # <<>> /\ wrongId' = wrongId /\ config \in Configs
  BY <1>1, GoesOn, TypesSplit
<1>3. Len(todo) \in Nat \ {0} /\ InConfigure(Len(todo), Head(todo))
  BY <1>1, <1>2, Where DEF NextStep
<1>4. CASE Head(todo) = "resetState"
  <2>1. todo' = ResetPlan(clb.state) \o Tail(todo)
    BY <1>1, <1>4, GoesOn
  <2>2. todo' \in Seq(Steps) /\ (Len(todo') = 15 \/ Len(todo') >= 17)
    BY <1>1, <1>2, <1>4, <2>1, RestOfReset
  <2>3. ~(Len(todo') <= 11)
    BY <2>2, LenProperties, Numbers
  <2>. QED  BY <2>3
<1>5. CASE Head(todo) # "resetState"
  <2>1. Len(todo') = Len(todo) - 1
    BY <1>1, <1>5, GoesOn
  <2>2. CASE config' # config
    <3>1. config' = [config EXCEPT !.enabled = @ \ wrongId]
      BY <1>1, <2>2, Reconfigures
    <3>2. config'.enabled = config.enabled \ wrongId
      BY <1>2, <3>1 DEF Configs
    <3>. QED  BY <1>2, <3>2
  <2>3. CASE config' = config
    <3>1. CASE Len(todo) = 12
      <4>1. Head(todo) = "checkIDs"
        BY <1>3, <3>1 DEF InConfigure
      <4>2. config' = [config EXCEPT !.enabled = @ \ wrongId]
        BY <1>1, <4>1, GoesOn
      <4>3. config'.enabled = config.enabled \ wrongId
        BY <1>2, <4>2 DEF Configs
      <4>. QED  BY <1>2, <4>3
    <3>2. CASE Len(todo) <= 11
      <4>1. config.enabled \cap wrongId = {}
        BY <1>1, <1>2, <3>2 DEF WrongDropped, Configuring
      <4>. QED  BY <1>2, <2>3, <4>1
    <3>. QED  BY <1>3, <2>1, <3>1, <3>2
  <2>. QED  BY <2>2, <2>3
<1>. QED  BY <1>4, <1>5

\* The first step of a configuration tests the connection, the second resets the CLB.
LEMMA SecondStep ==
  ASSUME TypeOK, Shape, op = "configure", Len(todo) = 17, Head(todo) = "testConnection"
  PROVE  Tail(todo)[1] = "resetState"
<1>1. todo # <<>> /\ todo \in Seq(Steps) /\ todo[1] = "testConnection"
  BY Where DEF Shape
<1>2. PICK p \in Programs(op) : Left(todo, p)
  BY DEF Shape
<1>3. todo[1] = p[Len(p) - 16] /\ todo[2] = p[Len(p) - 15]
  <2>1. Len(p) - 17 + 1 = Len(p) - 16 /\ Len(p) - 17 + 2 = Len(p) - 15
    BY <1>2, ProgramsAreLists, LenProperties DEF TypeOK
  <2>2. \A i \in 1 .. 17 : todo[i] = p[Len(p) - 17 + i]
    BY <1>2 DEF Left
  <2>. QED  BY <2>1, <2>2
<1>4. p \in {Plan("configure"), Halt \o Body, Leave \o Body}
  BY <1>2 DEF Programs
<1>5. p # Halt \o Body
  <2>. SUFFICES ASSUME p = Halt \o Body PROVE FALSE
    OBVIOUS
  <2>1. Len(p) = 21 /\ \A i \in 1 .. 21 : p[i] = IF i <= 6 THEN Halt[i] ELSE Body[i - 6]
    BY HaltBody
  <2>2. p[5] = Halt[5]
    BY ONLY <2>1
  <2>3. Len(p) - 16 = 5
    BY ONLY <2>1
  <2>. QED  BY <1>1, <1>3, <2>2, <2>3 DEF Halt
<1>6. p # Leave \o Body
  <2>. SUFFICES ASSUME p = Leave \o Body PROVE FALSE
    OBVIOUS
  <2>1. Len(p) = 19 /\ \A i \in 1 .. 19 : p[i] = IF i <= 4 THEN Leave[i] ELSE Body[i - 4]
    BY LeaveBody
  <2>2. p[3] = Leave[3]
    BY ONLY <2>1
  <2>3. Len(p) - 16 = 3
    BY ONLY <2>1
  <2>. QED  BY <1>1, <1>3, <2>2, <2>3 DEF Leave
<1>7. todo[2] = "resetState"
  <2>1. p = Plan("configure")
    BY <1>4, <1>5, <1>6
  <2>2. Len(p) = 17 /\ p[2] = "resetState"
    BY ONLY <2>1 DEF Plan
  <2>3. todo[2] = p[2]
    BY <1>2, <2>2 DEF Left
  <2>. QED  BY <2>2, <2>3
<1>8. \A i \in 1 .. Len(todo) - 1 : Tail(todo)[i] = todo[i + 1]
  BY <1>1, HeadTailProperties, Zenon
<1>9. 1 \in 1 .. Len(todo) - 1 /\ 1 + 1 = 2
  OBVIOUS
<1>. QED  BY <1>7, <1>8, <1>9, Zenon

\* A CLB is IDLE when configure has reset it, and STAND_BY at the most until CONFIGURE.
LEMMA StepApproached ==
  ASSUME IInv, Step
  PROVE  Approached'
<1>1. TypeOK /\ Shape /\ Approached
  BY DEF IInv
<1>. SUFFICES ASSUME op' = "configure"
              PROVE  Approached'
  BY DEF Approached, Configuring
<1>2. op = "configure" /\ todo # <<>> /\ config \in Configs /\ clb \in Clbs
  BY <1>1, GoesOn, TypesSplit
<1>3. Len(todo) \in Nat \ {0} /\ InConfigure(Len(todo), Head(todo)) /\ Head(todo) = todo[1]
  BY <1>1, <1>2, Where DEF NextStep
<1>4. CASE Head(todo) = "resetState"
  <2>1. todo' = ResetPlan(clb.state) \o Tail(todo) /\ clb' = clb
    BY <1>1, <1>4, GoesOn
  <2>2. todo' \in Seq(Steps)
        /\ (IF clb.state = "IDLE" THEN Len(todo') = 15 ELSE Len(todo') >= 17)
    BY <1>1, <1>2, <1>4, <2>1, RestOfReset
  <2>3. CASE clb.state = "IDLE"
    BY <2>1, <2>2, <2>3 DEF Approached, Configuring
  <2>4. CASE clb.state # "IDLE"
    <3>1. Len(todo') \in Nat /\ Len(todo') >= 17
      BY <2>2, <2>4, LenProperties
    <3>2. ~(Len(todo') <= 15) /\ ~(Len(todo') <= 13) /\ ~(Len(todo') <= 1) /\ Len(todo') # 16
      BY <3>1, Numbers
    <3>. QED  BY <3>2, Zenon DEF Approached, Configuring
  <2>. QED  BY <2>3, <2>4
<1>5. CASE Head(todo) # "resetState"
  <2>. DEFINE n == Len(todo)
  <2>1. todo' = Tail(todo) /\ Len(todo') = n - 1
    BY <1>1, <1>5, GoesOn
  <2>2. Head(todo) \in Events => clb.state = Source(Head(todo)) /\ clb' = Executed(Head(todo))
    BY <1>1, <1>5, GoesOn
  <2>3. clb'.state = clb.state \/ (Head(todo) \in Events /\ Moves(Head(todo)))
    BY <1>1, <1>2, Disturbs, ExecutedWrite
  <2>4. n = 17 => todo'[1] # "getState" \/ clb'.state = "IDLE"
    <3>. SUFFICES ASSUME n = 17 PROVE todo'[1] # "getState" \/ clb'.state = "IDLE"
      OBVIOUS
    <3>1. CASE Head(todo) = "testConnection"
      BY <1>1, <1>2, <2>1, <3>1, SecondStep
    <3>2. CASE Head(todo) = "RESET"
      <4>1. clb' = [clb EXCEPT !.state = "IDLE"]
        BY <2>2, <3>2 DEF Events, Executed, Source, Target
      <4>. QED  BY <1>2, <4>1 DEF Clbs
    <3>. QED  BY <1>3, <3>1, <3>2 DEF InConfigure
  <2>5. n \in {15, 16} => clb'.state = "IDLE"
    <3>1. n = 15 => Head(todo) = "setInitValues" /\ clb.state = "IDLE"
      BY <1>1, <1>2, <1>3 DEF InConfigure, Approached, Configuring
    <3>2. n = 16 => Head(todo) = "getState" /\ clb.state = "IDLE"
      BY <1>1, <1>2, <1>3, <1>5 DEF InConfigure, Approached
    <3>3. Head(todo) \in {"setInitValues", "getState"} => Head(todo) \notin Events
      BY DEF Events
    <3>. QED  BY <2>3, <3>1, <3>2, <3>3
  <2>6. n = 14 => clb'.state \in {"IDLE", "STAND_BY"}
    <3>. SUFFICES ASSUME n = 14 PROVE clb'.state \in {"IDLE", "STAND_BY"}
      OBVIOUS
    <3>1. Head(todo) = "INIT" /\ clb.state = "IDLE"
      BY <1>1, <1>2, <1>3, BeforeReady DEF InConfigure, Approached, Configuring
    <3>. QED  BY <2>3, <3>1 DEF Moves, Target
  <2>7. n \in 3 .. 13 => clb'.state \in {"IDLE", "STAND_BY"}
    <3>. SUFFICES ASSUME n \in 3 .. 13 PROVE clb'.state \in {"IDLE", "STAND_BY"}
      OBVIOUS
    <3>1. clb.state \in {"IDLE", "STAND_BY"}
      BY <1>1, <1>2, BeforeReady
    <3>2. Head(todo) \notin Events
      BY <1>3 DEF InConfigure, Events
    <3>. QED  BY <2>3, <3>1, <3>2
  <2>8. n = 2 => clb'.state \in {"IDLE", "READY"}
    <3>. SUFFICES ASSUME n = 2 PROVE clb'.state \in {"IDLE", "READY"}
      OBVIOUS
    <3>1. Head(todo) = "CONFIGURE"
      BY <1>3 DEF InConfigure
    <3>2. clb' = [clb EXCEPT !.state = "READY"]
      BY <2>2, <3>1 DEF Events, Executed, Source, Target
    <3>. QED  BY <1>2, <3>2 DEF Clbs
  <2>9. n # 1
    <3>1. n = 1 => todo' = <<>> /\ TypeOK'
      BY <1>1, <2>1, StepTypes, EmptySeq DEF Shape
    <3>. QED  BY <3>1 DEF TypeOK
  <2>10. n \in Nat \ {0}
    BY <1>3
  <2>. HIDE DEF n
  <2>11. n - 1 = 16 /\ todo'[1] = "getState" => clb'.state = "IDLE"
    BY <2>4, <2>10
  <2>12. n - 1 <= 15 /\ ~(n - 1 <= 13) => clb'.state = "IDLE"
    BY <2>5, <2>10
  <2>13. n - 1 <= 13 /\ ~(n - 1 <= 1) => clb'.state \in {"IDLE", "STAND_BY"}
    BY <2>6, <2>7, <2>10
  <2>14. n - 1 <= 1 => clb'.state \in {"IDLE", "READY"}
    BY <2>8, <2>9, <2>10
  <2>. QED  BY <2>1, <2>11, <2>12, <2>13, <2>14, Zenon DEF Approached, Configuring
<1>. QED  BY <1>4, <1>5

\* What configure has read back holds as long as the CLB is in STAND_BY.
LEMMA StepVerified ==
  ASSUME IInv, Step
  PROVE  Verified'
<1>1. TypeOK /\ Shape /\ Approached /\ Verified
  BY DEF IInv
<1>. SUFFICES ASSUME op' = "configure", clb'.state = "STAND_BY"
              PROVE  /\ Len(todo') <= 8 => ChannelsSet'
                     /\ Len(todo') <= 6 => VoltagesSet'
                     /\ Len(todo') <= 4 => ThresholdsSet'
                     /\ Len(todo') <= 2 => FlasherSet'
  BY DEF Verified, Configuring
<1>2. op = "configure" /\ todo # <<>> /\ config \in Configs /\ clb \in Clbs
  BY <1>1, GoesOn, TypesSplit
<1>3. Len(todo) \in Nat \ {0} /\ InConfigure(Len(todo), Head(todo))
  BY <1>1, <1>2, Where DEF NextStep
<1>4. CASE Head(todo) = "resetState"
  <2>1. todo' = ResetPlan(clb.state) \o Tail(todo)
    BY <1>1, <1>4, GoesOn
  <2>2. todo' \in Seq(Steps) /\ (Len(todo') = 15 \/ Len(todo') >= 17)
    BY <1>1, <1>2, <1>4, <2>1, RestOfReset
  <2>3. ~(Len(todo') <= 8) /\ ~(Len(todo') <= 6) /\ ~(Len(todo') <= 4) /\ ~(Len(todo') <= 2)
    BY <2>2, LenProperties, Numbers
  <2>. QED  BY <2>3
<1>5. CASE Head(todo) # "resetState"
  <2>. DEFINE n == Len(todo)
  <2>1. Len(todo') = n - 1
    BY <1>1, <1>5, GoesOn
  <2>2. Head(todo) \in {"checkEnabledPMTs", "checkHV", "checkThresholds", "checkFlasher"} =>
          Matches(Head(todo)) /\ clb' = clb /\ config' = config
    <3>. SUFFICES ASSUME Head(todo) \in {"checkEnabledPMTs", "checkHV", "checkThresholds",
                                         "checkFlasher"}
                  PROVE  Matches(Head(todo)) /\ clb' = clb /\ config' = config
      OBVIOUS
    <3>1. Matches(Head(todo))
      BY <1>1, <1>5, GoesOn
    <3>2. Head(todo) \notin Events /\ Head(todo) \notin Writes
      BY DEF Events, Writes
    <3>3. clb' = clb
      BY <1>1, <3>2, Disturbs
    <3>4. config' = config
      BY <1>1, StepKinds DEF Events, Writes, Ends, GoOn
    <3>. QED  BY <3>1, <3>3, <3>4
  <2>3. n = 9 => ChannelsSet'
    <3>. SUFFICES ASSUME n = 9 PROVE ChannelsSet'
      OBVIOUS
    <3>1. Head(todo) = "checkEnabledPMTs"
      BY <1>3 DEF InConfigure
    <3>. QED  BY <2>2, <3>1 DEF Matches, CheckEnabledPMTs, ChannelsSet
  <2>4. n = 7 => VoltagesSet'
    <3>. SUFFICES ASSUME n = 7 PROVE VoltagesSet'
      OBVIOUS
    <3>1. Head(todo) = "checkHV"
      BY <1>3 DEF InConfigure
    <3>. QED  BY <2>2, <3>1 DEF Matches, CheckHV, VoltagesSet
  <2>5. n = 5 => ThresholdsSet'
    <3>. SUFFICES ASSUME n = 5 PROVE ThresholdsSet'
      OBVIOUS
    <3>1. Head(todo) = "checkThresholds"
      BY <1>3 DEF InConfigure
    <3>. QED  BY <2>2, <3>1 DEF Matches, CheckThresholds, ThresholdsSet
  <2>6. n = 3 => FlasherSet'
    <3>. SUFFICES ASSUME n = 3 PROVE FlasherSet'
      OBVIOUS
    <3>1. Head(todo) = "checkFlasher"
      BY <1>3 DEF InConfigure
    <3>. QED  BY <2>2, <3>1 DEF Matches, CheckFlasherVoltage, FlasherSet
  <2>7. ASSUME n <= 8
        PROVE  /\ config' = config /\ clb.state = "STAND_BY"
               /\ clb'.enabled = clb.enabled
               /\ n <= 7 => clb'.hv = clb.hv
               /\ n <= 5 => clb'.th = clb.th
               /\ n <= 3 => clb'.nano = clb.nano
    <3>1. n \notin {10, 12, 14, 15, 16, 17} /\ ~(n > 17) /\ (n <= 7 => n # 8)
          /\ (n <= 5 => n # 6) /\ (n <= 3 => n # 4)
      BY <1>3, <2>7, Numbers
    <3>2. config' = config
      BY <1>1, <3>1, Reconfigures
    <3>3. /\ Head(todo) \notin {"setEnabledPMTs", "setInitValues"}
          /\ n <= 7 => Head(todo) # "setHV"
          /\ n <= 5 => Head(todo) # "setThresholds"
          /\ n <= 3 => Head(todo) # "setFlasher"
      BY <1>1, <1>2, <3>1, WhereInBody
    <3>4. Head(todo) \notin {"STOP", "QUIT", "INIT"}
      <4>. DEFINE k == Len(todo)
                  h == Head(todo)
      <4>1. k \in Nat \ {0} /\ InConfigure(k, h)
        BY <1>3
      <4>2. k \notin {10, 12, 14, 15, 16, 17} /\ ~(k > 17)
        BY <3>1
      <4>. HIDE DEF k, h
      <4>3. h \notin {"STOP", "QUIT", "INIT"}
        BY <4>1, <4>2 DEF InConfigure
      <4>. QED  BY <4>3 DEF h
    <3>5. CASE clb' = clb
      BY <3>2, <3>5
    <3>6. CASE Head(todo) \in Events /\ Moves(Head(todo))
      <4>1. clb'.state # "STAND_BY"
        BY <3>4, <3>6 DEF Moves, Target, Events
      <4>. QED  BY <4>1
    <3>7. CASE Head(todo) \in Writes /\ clb' = Executed(Head(todo))
      BY <1>2, <3>2, <3>3, <3>7, ExecutedWrite
    <3>. QED  BY <1>1, <3>5, <3>6, <3>7, Disturbs
  <2>8. Len(todo') <= 8 => ChannelsSet'
    <3>1. CASE n <= 8
      <4>1. ChannelsSet
        BY <1>1, <1>2, <2>7, <3>1 DEF Verified, Configuring
      <4>. QED  BY <2>7, <3>1, <4>1 DEF ChannelsSet
    <3>. QED  BY <1>3, <2>1, <2>3, <3>1
  <2>9. Len(todo') <= 6 => VoltagesSet'
    <3>1. CASE n <= 6
      <4>1. n <= 7 /\ n <= 8
        BY <1>3, <3>1
      <4>2. VoltagesSet
        BY <1>1, <1>2, <2>7, <3>1, <4>1 DEF Verified, Configuring
      <4>. QED  BY <2>7, <4>1, <4>2 DEF VoltagesSet
    <3>. QED  BY <1>3, <2>1, <2>4, <3>1
  <2>10. Len(todo') <= 4 => ThresholdsSet'
    <3>1. CASE n <= 4
      <4>1. n <= 5 /\ n <= 8
        BY <1>3, <3>1
      <4>2. ThresholdsSet
        BY <1>1, <1>2, <2>7, <3>1, <4>1 DEF Verified, Configuring
      <4>. QED  BY <2>7, <4>1, <4>2 DEF ThresholdsSet
    <3>. QED  BY <1>3, <2>1, <2>5, <3>1
  <2>11. Len(todo') <= 2 => FlasherSet'
    <3>1. CASE n <= 2
      <4>1. n <= 3 /\ n <= 8
        BY <1>3, <3>1
      <4>2. FlasherSet
        BY <1>1, <1>2, <2>7, <3>1, <4>1 DEF Verified, Configuring
      <4>. QED  BY <2>7, <4>1, <4>2 DEF FlasherSet
    <3>. QED  BY <1>3, <2>1, <2>6, <3>1
  <2>. QED  BY <2>8, <2>9, <2>10, <2>11
<1>. QED  BY <1>4, <1>5

(* --- the theorems --------------------------------------------------------- *)
LEMMA InitIInv == Init => IInv
<1>. SUFFICES ASSUME Init PROVE IInv
  OBVIOUS
<1>1. TypeOK
  BY DEF Init, TypeOK, PowerOn, CLBState
<1>2. Shape
  BY DEF Init, Shape, Programs, Left
<1>3. Connected /\ Approached /\ WrongDropped /\ StopProgress
  BY DEF Init, Connected, Approached, WrongDropped, StopProgress, Configuring
<1>4. clb.state = "IDLE" /\ clb.enabled = {}
  BY DEF Init, PowerOn
<1>5. Verified /\ WrongPmtStaysOff /\ ReadyIsSet
  BY <1>4 DEF Verified, WrongPmtStaysOff, ReadyIsSet
<1>. QED  BY <1>1, <1>2, <1>3, <1>5 DEF IInv

\* A new operation starts from wherever the CLB is.
LEMMA PostIInv ==
  ASSUME IInv, NEW o \in {"reset", "configure", "startData", "stopData"}, Post(o)
  PROVE  IInv'
<1>1. /\ TypeOK /\ WrongPmtStaysOff /\ ReadyIsSet
      /\ op' = o /\ todo' = Plan(o) /\ working' = TRUE
      /\ config' = config /\ wrongId' = wrongId /\ state' = state /\ clbState' = clbState /\ clb' = clb
  BY DEF IInv, Post
<1>2. Plan(o) \in Seq(Steps) /\ Plan(o) # <<>> /\ Plan(o) \in Programs(o) /\ Left(Plan(o), Plan(o))
  BY PlanLeft
<1>3. TypeOK'
  BY <1>1, <1>2 DEF TypeOK
<1>4. Shape'
  BY <1>1, <1>2 DEF Shape
<1>5. o = "configure" => Len(todo') = 17 /\ todo'[1] = "testConnection"
  BY <1>1 DEF Plan
<1>6. o = "stopData" => Len(todo') = 6
  BY <1>1 DEF Plan
<1>7. ~Configuring(16)' /\ ~Configuring(15)' /\ ~Configuring(13)' /\ ~Configuring(11)'
      /\ ~Configuring(8)' /\ ~Configuring(6)' /\ ~Configuring(4)' /\ ~Configuring(2)' /\ ~Configuring(1)'
  <2>1. ~(17 <= 16) /\ ~(17 <= 15) /\ ~(17 <= 13) /\ ~(17 <= 11) /\ ~(17 <= 8) /\ ~(17 <= 6)
        /\ ~(17 <= 4) /\ ~(17 <= 2) /\ ~(17 <= 1)
    BY ONLY TRUE
  <2>. QED  BY <1>1, <1>5, <2>1, Zenon DEF Configuring
<1>8. Connected'
  BY <1>1, <1>5 DEF Connected
<1>9. Approached'
  BY <1>1, <1>5, <1>7 DEF Approached
<1>10. WrongDropped' /\ Verified'
  BY <1>7 DEF WrongDropped, Verified
<1>11. StopProgress'
  BY <1>1, <1>6 DEF StopProgress
<1>12. WrongPmtStaysOff' /\ ReadyIsSet'
  BY <1>1 DEF WrongPmtStaysOff, ReadyIsSet
<1>. QED  BY <1>3, <1>4, <1>8, <1>9, <1>10, <1>11, <1>12 DEF IInv

\* A CLB whose power went is IDLE and has no channel enabled.
LEMMA RestartIInv ==
  ASSUME IInv, Restart
  PROVE  IInv'
<1>1. /\ TypeOK /\ Shape /\ Connected /\ WrongDropped
      /\ op' = op /\ todo' = todo /\ working' = working /\ config' = config /\ wrongId' = wrongId
      /\ state' = state /\ clbState' = clbState
  BY DEF IInv, Restart, controllerVars
<1>2. clb' = PowerOn
  BY DEF Restart
<1>3. clb'.state = "IDLE" /\ clb'.enabled = {} /\ clb' \in Clbs
  BY <1>2 DEF PowerOn, Clbs, CLBState
<1>4. TypeOK'
  BY <1>1, <1>3 DEF TypeOK, Clbs
<1>5. Shape' /\ Connected' /\ WrongDropped'
  BY <1>1 DEF Shape, Connected, WrongDropped, Configuring
<1>6. Approached' /\ Verified' /\ StopProgress' /\ WrongPmtStaysOff' /\ ReadyIsSet'
  BY <1>3 DEF Approached, Verified, StopProgress, WrongPmtStaysOff, ReadyIsSet
<1>. QED  BY <1>4, <1>5, <1>6 DEF IInv

LEMMA StepIInv == IInv /\ [Next]_vars => IInv'
<1>. SUFFICES ASSUME IInv, [Next]_vars PROVE IInv'
  OBVIOUS
<1>1. CASE \E o \in {"reset", "configure", "startData", "stopData"} : Post(o)
  BY <1>1, PostIInv
<1>2. CASE Step
  <2>1. TypeOK' /\ Shape'
    BY <1>2, StepTypes DEF IInv
  <2>. QED  BY <1>2, <2>1, StepConnected, StepApproached, StepWrongDropped, StepVerified, StepStop,
               StepWrongPmt, StepReady DEF IInv
<1>3. CASE Restart
  BY <1>3, RestartIInv
<1>4. CASE UNCHANGED vars
  <2>1. /\ op' = op /\ todo' = todo /\ working' = working /\ config' = config /\ wrongId' = wrongId
        /\ state' = state /\ clbState' = clbState /\ clb' = clb
    BY <1>4 DEF vars, controllerVars
  <2>2. TypeOK' /\ Shape'
    BY <2>1 DEF IInv, TypeOK, Shape
  <2>3. Connected' /\ Approached' /\ WrongDropped'
    BY <2>1 DEF IInv, Connected, Approached, WrongDropped, Configuring
  <2>4. Verified' /\ StopProgress'
    BY <2>1 DEF IInv, Verified, StopProgress, Configuring, IsSet, ChannelsSet, VoltagesSet,
                ThresholdsSet, FlasherSet
  <2>5. WrongPmtStaysOff' /\ ReadyIsSet'
    BY <2>1 DEF IInv, WrongPmtStaysOff, ReadyIsSet
  <2>. QED  BY <2>2, <2>3, <2>4, <2>5 DEF IInv
<1>. QED  BY <1>1, <1>2, <1>3, <1>4 DEF Next

\* Everything has its type, for any channels, configuration and bounds.
THEOREM TypeCorrect == Spec => []TypeOK
<1>1. IInv => TypeOK
  BY DEF IInv
<1>. QED  BY InitIInv, StepIInv, <1>1, PTL DEF Spec

\* A channel whose PMT is not the configured one is never enabled on the CLB: CheckIDs takes it
\* out of the configuration before setEnabledPMTs, in every order of operations, failed steps and
\* power cycles.
THEOREM WrongPmtOff == Spec => []WrongPmtStaysOff
<1>1. IInv => WrongPmtStaysOff
  BY DEF IInv
<1>. QED  BY InitIInv, StepIInv, <1>1, PTL DEF Spec

\* A CLB that is READY, RUNNING or PAUSED has the channels, voltages, thresholds and flasher of the
\* configuration: configure reads each of them back before CONFIGURE, and a CLB that loses power in
\* between does not answer CONFIGURE.
THEOREM ReadyHoldsConfiguration == Spec => []ReadyIsSet
<1>1. IInv => ReadyIsSet
  BY DEF IInv
<1>. QED  BY InitIInv, StepIInv, <1>1, PTL DEF Spec
=============================================================================
