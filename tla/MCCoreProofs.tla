---------------------------- MODULE MCCoreProofs ----------------------------
(***************************************************************************)
(* What the run Components checks of the components of MCCore, for every    *)
(* value of their constants: the invariant that a component's module proves *)
(* of it holds as long as it is the part that runs.                        *)
(***************************************************************************)
EXTENDS MCCore, Naturals, Sequences, FiniteSetTheorems, TLAPS

(* --- a part stays what it is and goes on as its module says ---------------- *)
LEMMA MsgProcessorRuns ==
  /\ CoreInit /\ part = "MsgProcessor" => MsgProcessor!Init
  /\ [CoreNext]_allVars /\ part' = "MsgProcessor" =>
       part = "MsgProcessor" /\ [MsgProcessor!Next]_(MsgProcessor!vars)
<1>1. CoreInit /\ part = "MsgProcessor" => MsgProcessor!Init
  BY Zenon DEF CoreInit
<1>2. ASSUME CoreNext, part' = "MsgProcessor"
      PROVE  part = "MsgProcessor" /\ MsgProcessor!Next
  BY <1>2, Zenon DEF CoreNext
<1>3. ASSUME UNCHANGED allVars
      PROVE  part' = part /\ UNCHANGED MsgProcessor!vars
  <2>1. /\ part' = part /\ x1' = x1 /\ x2' = x2 /\ x3' = x3 /\ x4' = x4 /\ x5' = x5 /\ x6' = x6
        /\ x7' = x7 /\ x8' = x8 /\ x9' = x9 /\ x10' = x10 /\ x11' = x11 /\ x12' = x12 /\ x13' = x13
    BY <1>3 DEF allVars, places
  <2>. QED  BY <2>1 DEF MsgProcessor!vars
<1>. QED  BY <1>1, <1>2, <1>3, Zenon

LEMMA ShutdownRuns ==
  /\ CoreInit /\ part = "Shutdown" => Shutdown!Init
  /\ [CoreNext]_allVars /\ part' = "Shutdown" => part = "Shutdown" /\ [Shutdown!Next]_Shutdown!vars
<1>1. CoreInit /\ part = "Shutdown" => Shutdown!Init
  BY Zenon DEF CoreInit
<1>2. ASSUME CoreNext, part' = "Shutdown"
      PROVE  part = "Shutdown" /\ Shutdown!Next
  BY <1>2, Zenon DEF CoreNext
<1>3. ASSUME UNCHANGED allVars
      PROVE  part' = part /\ UNCHANGED Shutdown!vars
  <2>1. /\ part' = part /\ x1' = x1 /\ x2' = x2 /\ x3' = x3 /\ x4' = x4 /\ x5' = x5
        /\ x6' = x6 /\ x7' = x7 /\ x8' = x8 /\ x9' = x9 /\ x10' = x10 /\ x11' = x11
        /\ x12' = x12 /\ x13' = x13 /\ x14' = x14 /\ x15' = x15 /\ x16' = x16 /\ x17' = x17
        /\ x18' = x18
    BY <1>3 DEF allVars, places
  <2>. QED  BY <2>1 DEF Shutdown!vars, Shutdown!queueVars, Shutdown!signalVars
<1>. QED  BY <1>1, <1>2, <1>3, Zenon

LEMMA InterruptRuns ==
  /\ CoreInit /\ part = "Interrupt" => Interrupt!Init
  /\ [CoreNext]_allVars /\ part' = "Interrupt" => part = "Interrupt" /\ [Interrupt!Next]_Interrupt!vars
<1>1. CoreInit /\ part = "Interrupt" => Interrupt!Init
  BY Zenon DEF CoreInit
<1>2. ASSUME CoreNext, part' = "Interrupt"
      PROVE  part = "Interrupt" /\ Interrupt!Next
  BY <1>2, Zenon DEF CoreNext
<1>3. ASSUME UNCHANGED allVars
      PROVE  part' = part /\ UNCHANGED Interrupt!vars
  <2>1. /\ part' = part /\ x1' = x1 /\ x2' = x2 /\ x3' = x3 /\ x4' = x4 /\ x5' = x5
        /\ x6' = x6 /\ x7' = x7 /\ x8' = x8 /\ x9' = x9 /\ x10' = x10 /\ x11' = x11
        /\ x12' = x12 /\ x13' = x13 /\ x14' = x14 /\ x15' = x15 /\ x16' = x16 /\ x17' = x17
        /\ x18' = x18
    BY <1>3 DEF allVars, places
  <2>. QED  BY <2>1 DEF Interrupt!vars, Interrupt!queueVars, Interrupt!signalVars
<1>. QED  BY <1>1, <1>2, <1>3, Zenon

LEMMA ClbControllerRuns ==
  /\ CoreInit /\ part = "ClbController" => ClbController!Init
  /\ [CoreNext]_allVars /\ part' = "ClbController" => part = "ClbController"
        /\ [ClbController!Next]_ClbController!vars
<1>1. CoreInit /\ part = "ClbController" => ClbController!Init
  BY Zenon DEF CoreInit
<1>2. ASSUME CoreNext, part' = "ClbController"
      PROVE  part = "ClbController" /\ ClbController!Next
  BY <1>2, Zenon DEF CoreNext
<1>3. ASSUME UNCHANGED allVars
      PROVE  part' = part /\ UNCHANGED ClbController!vars
  <2>1. /\ part' = part /\ x1' = x1 /\ x2' = x2 /\ x3' = x3 /\ x4' = x4 /\ x5' = x5
        /\ x6' = x6 /\ x7' = x7 /\ x8' = x8 /\ x9' = x9 /\ x10' = x10 /\ x11' = x11
    BY <1>3 DEF allVars, places
  <2>. QED  BY <2>1 DEF ClbController!vars, ClbController!controllerVars
<1>. QED  BY <1>1, <1>2, <1>3, Zenon

LEMMA HitReceiverRuns ==
  /\ CoreInit /\ part = "HitReceiver" => HitReceiver!Init
  /\ [CoreNext]_allVars /\ part' = "HitReceiver" => part = "HitReceiver" /\ [HitReceiver!Next]_HitReceiver!vars
<1>1. CoreInit /\ part = "HitReceiver" => HitReceiver!Init
  BY Zenon DEF CoreInit
<1>2. ASSUME CoreNext, part' = "HitReceiver"
      PROVE  part = "HitReceiver" /\ HitReceiver!Next
  BY <1>2, Zenon DEF CoreNext
<1>3. ASSUME UNCHANGED allVars
      PROVE  part' = part /\ UNCHANGED HitReceiver!vars
  <2>1. /\ part' = part /\ x1' = x1 /\ x2' = x2 /\ x3' = x3 /\ x4' = x4 /\ x5' = x5
        /\ x6' = x6 /\ x7' = x7 /\ x8' = x8 /\ x9' = x9 /\ x10' = x10
    BY <1>3 DEF allVars, places
  <2>. QED  BY <2>1 DEF HitReceiver!vars
<1>. QED  BY <1>1, <1>2, <1>3, Zenon

LEMMA RestartedRuns ==
  /\ CoreInit /\ part = "Restarted" => Restarted!Init
  /\ [CoreNext]_allVars /\ part' = "Restarted" => part = "Restarted" /\ [Restarted!Next]_Restarted!vars
<1>1. CoreInit /\ part = "Restarted" => Restarted!Init
  BY Zenon DEF CoreInit
<1>2. ASSUME CoreNext, part' = "Restarted"
      PROVE  part = "Restarted" /\ Restarted!Next
  BY <1>2, Zenon DEF CoreNext
<1>3. ASSUME UNCHANGED allVars
      PROVE  part' = part /\ UNCHANGED Restarted!vars
  <2>1. /\ part' = part /\ x1' = x1 /\ x2' = x2 /\ x3' = x3 /\ x4' = x4 /\ x5' = x5
        /\ x6' = x6 /\ x7' = x7 /\ x8' = x8 /\ x9' = x9 /\ x10' = x10
    BY <1>3 DEF allVars, places
  <2>. QED  BY <2>1 DEF Restarted!vars
<1>. QED  BY <1>1, <1>2, <1>3, Zenon

LEMMA LogRateRuns ==
  /\ CoreInit /\ part = "LogRate" => LogRate!Init
  /\ [CoreNext]_allVars /\ part' = "LogRate" => part = "LogRate" /\ [LogRate!Next]_LogRate!vars
<1>1. CoreInit /\ part = "LogRate" => LogRate!Init
  BY Zenon DEF CoreInit
<1>2. ASSUME CoreNext, part' = "LogRate"
      PROVE  part = "LogRate" /\ LogRate!Next
  BY <1>2, Zenon DEF CoreNext
<1>3. ASSUME UNCHANGED allVars
      PROVE  part' = part /\ UNCHANGED LogRate!vars
  <2>1. /\ part' = part /\ x1' = x1 /\ x2' = x2 /\ x3' = x3 /\ x4' = x4 /\ x5' = x5
        /\ x6' = x6 /\ x7' = x7 /\ x8' = x8 /\ x9' = x9 /\ x10' = x10 /\ x11' = x11
        /\ x12' = x12 /\ x13' = x13
    BY <1>3 DEF allVars, places
  <2>. QED  BY <2>1 DEF LogRate!vars
<1>. QED  BY <1>1, <1>2, <1>3, Zenon

LEMMA IndexingRuns ==
  /\ CoreInit /\ part = "Indexing" => Indexing!Init
  /\ [CoreNext]_allVars /\ part' = "Indexing" => part = "Indexing" /\ [Indexing!Next]_Indexing!vars
<1>1. CoreInit /\ part = "Indexing" => Indexing!Init
  BY Zenon DEF CoreInit
<1>2. ASSUME CoreNext, part' = "Indexing"
      PROVE  part = "Indexing" /\ Indexing!Next
  BY <1>2, Zenon DEF CoreNext
<1>3. ASSUME UNCHANGED allVars
      PROVE  part' = part /\ UNCHANGED Indexing!vars
  <2>1. /\ part' = part /\ x1' = x1 /\ x2' = x2 /\ x3' = x3 /\ x4' = x4 /\ x5' = x5
        /\ x6' = x6 /\ x7' = x7 /\ x8' = x8 /\ x9' = x9 /\ x10' = x10 /\ x11' = x11
        /\ x12' = x12 /\ x13' = x13
    BY <1>3 DEF allVars, places
  <2>. QED  BY <2>1 DEF Indexing!vars
<1>. QED  BY <1>1, <1>2, <1>3, Zenon

(* --- MsgProcessor: x1 is its cmdId, x2 its call, x3 its at, x4 its attempt,  *)
(* x6 its reading, x7 its ok, x8 its toClb, x9 its inbox, x10 its executed and  *)
(* x11 its unacked ------------------------------------------------------------ *)
\* Numbers and attempts there are; the rest is any number.
MsgNumbers == MsgIds \in Nat \ {0} /\ MsgAttempts \in Nat \ {0} /\ MsgCommands \in Nat

\* The results, each of a call that has returned.
MsgResults == x7 \in Seq(BOOLEAN) /\ Len(x7) = IF x3 = "idle" THEN x2 ELSE x2 - 1
\* Those of calls that return TRUE are as before.
NoneSucceeds == \A c \in DOMAIN x7' : x7'[c] => c \in DOMAIN x7 /\ x7[c]


\* The types of what the host writes, and of the datagrams.
MsgHostTypes ==
  /\ x1 \in 0 .. MsgIds - 1 /\ x2 \in 0 .. MsgCommands
  /\ x3 \in {"idle", "send", "read", "check", "ackInvalid"}
  /\ x4 \in 0 .. MsgAttempts - 1 /\ x5 \in (0 .. MsgIds - 1) \cup {NoValue}
  /\ x12 \in 0 .. MsgAttempts /\ MsgProcessor!InTime
MsgDatagramTypes ==
  /\ MsgProcessor!BagToSet(x8) \subseteq MsgProcessor!Command /\ x9 \in Seq(MsgProcessor!Datagram)
  /\ x10 \subseteq 1 .. MsgCommands /\ x11 \subseteq MsgProcessor!Datagram
  /\ x6 \in MsgProcessor!Datagram \cup {NoValue} /\ MsgProcessor!ReadFirst

(* --- helpers ------------------------------------------------------------- *)
\* The number after the last is zero.
LEMMA MsgNextNumber ==
  ASSUME NEW M \in Nat \ {0}, NEW n \in 0 .. M - 1
  PROVE  (n + 1) % M = IF n = M - 1 THEN 0 ELSE n + 1
<1>1. CASE n = M - 1
  <2>1. M % M = 0
    OBVIOUS
  <2>. QED  BY <1>1, <2>1
<1>2. CASE n # M - 1
  <2>1. n + 1 \in 0 .. M - 1
    BY <1>2
  <2>2. \A k \in 0 .. M - 1 : k % M = k
    OBVIOUS
  <2>. QED  BY <1>2, <2>1, <2>2
<1>. QED  BY <1>1, <1>2

\* Adding an element to a bag adds it to the set; taking one out adds none.
LEMMA MsgAddedToBag ==
  ASSUME NEW B, NEW e
  PROVE  MsgProcessor!BagToSet(MsgProcessor!BagAdd(B, e)) = MsgProcessor!BagToSet(B) \cup {e}
  BY DEF MsgProcessor!BagToSet, MsgProcessor!BagAdd

LEMMA MsgTakenFromBag ==
  ASSUME NEW B, NEW e
  PROVE  MsgProcessor!BagToSet(MsgProcessor!BagRemove(B, e)) \subseteq MsgProcessor!BagToSet(B)
  BY DEF MsgProcessor!BagToSet, MsgProcessor!BagRemove

(* --- the initial states -------------------------------------------------- *)
LEMMA MsgInitIInv == MsgNumbers /\ MsgProcessor!Init => MsgProcessor!IInv
<1>. SUFFICES ASSUME MsgNumbers, MsgProcessor!Init PROVE MsgProcessor!IInv
  OBVIOUS
<1>1. MsgProcessor!BagToSet(x8) = {}
  BY DEF MsgProcessor!Init, MsgProcessor!EmptyBag, MsgProcessor!BagToSet, MsgProcessor!SetToBag
<1>2. x7 \in Seq(BOOLEAN) /\ Len(x7) = 0 /\ x9 \in Seq(MsgProcessor!Datagram) /\ Len(x9) = 0
  BY DEF MsgProcessor!Init
<1>3. MsgProcessor!TypeOK
  BY <1>1, <1>2 DEF MsgNumbers, MsgProcessor!Init, MsgProcessor!TypeOK
<1>4. MsgProcessor!ReadFirst /\ MsgProcessor!InTime /\ MsgProcessor!MessagesAreOurs
      /\ MsgProcessor!AnsweredIsExecuted
  BY <1>1, <1>2 DEF MsgNumbers, MsgProcessor!Init, MsgProcessor!ReadFirst, MsgProcessor!InTime,
         MsgProcessor!MessagesAreOurs, MsgProcessor!AnsweredIsExecuted
<1>. QED  BY <1>3, <1>4 DEF MsgProcessor!IInv

(* --- types ------------------------------------------------------------------ *)
\* A result that is added is the last.
LEMMA MsgAdded ==
  ASSUME NEW s \in Seq(BOOLEAN), NEW b \in BOOLEAN
  PROVE  /\ Append(s, b) \in Seq(BOOLEAN) /\ Len(Append(s, b)) = Len(s) + 1
         /\ \A c \in DOMAIN Append(s, b) : \/ c \in DOMAIN s /\ Append(s, b)[c] = s[c]
                                           \/ c = Len(s) + 1 /\ Append(s, b)[c] = b
  OBVIOUS

\* The next attempt, or the end of the call.
LEMMA MsgRetried ==
  ASSUME MsgNumbers, MsgProcessor!TypeOK, x3 # "idle", MsgProcessor!Retry, x2' = x2
  PROVE  /\ x3' \in {"idle", "send"} /\ x4' \in 0 .. MsgAttempts - 1
         /\ x3' = "send" => x4' = x4 + 1
         /\ x3' = "idle" => x4' = x4
         /\ MsgResults' /\ NoneSucceeds
<1>1. x7 \in Seq(BOOLEAN) /\ Len(x7) = x2 - 1 /\ x2 \in 0 .. MsgCommands
  BY DEF MsgProcessor!TypeOK
<1>2. CASE x4 = MsgAttempts - 1
  <2>1. x3' = "idle" /\ x7' = Append(x7, FALSE) /\ x4' = x4
    BY <1>2, Zenon DEF MsgProcessor!Retry
  <2>2. FALSE \in BOOLEAN
    OBVIOUS
  <2>3. /\ x7' \in Seq(BOOLEAN) /\ Len(x7') = Len(x7) + 1
        /\ \A c \in DOMAIN x7' : (c \in DOMAIN x7 /\ x7'[c] = x7[c]) \/ x7'[c] = FALSE
    BY <1>1, <2>1, <2>2, MsgAdded, Zenon
  <2>4. MsgResults' /\ x4' \in 0 .. MsgAttempts - 1
    BY <1>1, <2>1, <2>3 DEF MsgResults, MsgProcessor!TypeOK, MsgNumbers
  <2>5. NoneSucceeds
    BY <2>3, Zenon DEF NoneSucceeds
  <2>. QED  BY <2>1, <2>4, <2>5
<1>3. CASE x4 # MsgAttempts - 1
  BY <1>1, <1>3 DEF MsgProcessor!Retry, MsgProcessor!TypeOK, MsgNumbers, MsgResults, NoneSucceeds
<1>. QED  BY <1>2, <1>3

LEMMA MsgTypes == MsgProcessor!TypeOK /\ MsgProcessor!ReadFirst /\ MsgProcessor!InTime
      <=> MsgHostTypes /\ MsgDatagramTypes /\ MsgResults
  BY DEF MsgProcessor!TypeOK, MsgHostTypes, MsgDatagramTypes, MsgResults

LEMMA MsgStepHostTypes ==
  ASSUME MsgNumbers, MsgProcessor!TypeOK, MsgProcessor!ReadFirst, MsgProcessor!InTime,
         [MsgProcessor!Next]_(MsgProcessor!vars)
  PROVE  MsgHostTypes' /\ MsgResults'
<1>. USE DEF MsgProcessor!HostOnly, MsgProcessor!ClbOnly
<1>. MsgHostTypes /\ MsgDatagramTypes /\ MsgResults
  BY MsgTypes
<1>0. CASE UNCHANGED <<x1, x2, x3, x4, x5, x7, x12>>
  BY <1>0 DEF MsgHostTypes, MsgProcessor!InTime, MsgResults
<1>1. CASE MsgProcessor!Call /\ MsgProcessor!HostOnly
  BY <1>1, MsgNextNumber DEF MsgProcessor!Call, MsgProcessor!CmdId, MsgHostTypes, MsgProcessor!InTime,
         MsgResults, MsgNumbers
<1>2. CASE MsgProcessor!Send /\ MsgProcessor!HostOnly
  <2>1. CASE MsgProcessor!Retry
    BY <1>2, <2>1, MsgRetried DEF MsgProcessor!Send, MsgHostTypes, MsgProcessor!InTime, MsgNumbers
  <2>2. CASE x3' = "read" /\ UNCHANGED <<x4, x7>>
    BY <1>2, <2>2 DEF MsgProcessor!Send, MsgHostTypes, MsgProcessor!InTime, MsgResults
  <2>. QED  BY <1>2, <2>1, <2>2 DEF MsgProcessor!Send
<1>3. CASE MsgProcessor!Read /\ MsgProcessor!HostOnly
  <2>1. CASE x9 # <<>>
    BY <1>3, <2>1 DEF MsgProcessor!Read, MsgHostTypes, MsgProcessor!InTime, MsgResults, MsgNumbers
  <2>2. CASE x9 = <<>>
    BY <1>3, <2>2, MsgRetried DEF MsgProcessor!Read, MsgHostTypes, MsgProcessor!InTime, MsgNumbers
  <2>. QED  BY <2>1, <2>2
<1>4. CASE MsgProcessor!CheckResponse /\ MsgProcessor!HostOnly
  <2>1. MsgHostTypes'
    BY <1>4 DEF MsgProcessor!CheckResponse, MsgHostTypes, MsgDatagramTypes, MsgProcessor!ReadFirst,
           MsgProcessor!InTime, MsgProcessor!Datagram
  <2>2. MsgResults'
    <3>1. CASE MsgProcessor!Valid(x6)
      <4>1. x7' = Append(x7, TRUE) /\ x3' = "idle" /\ x2' = x2 /\ x3 = "check"
        BY <1>4, <3>1, Zenon DEF MsgProcessor!CheckResponse
      <4>2. TRUE \in BOOLEAN
        OBVIOUS
      <4>3. x7' \in Seq(BOOLEAN) /\ Len(x7') = Len(x7) + 1
        BY <4>1, <4>2, MsgAdded, Zenon DEF MsgResults
      <4>. QED  BY <4>1, <4>3 DEF MsgResults, MsgHostTypes, MsgNumbers
    <3>2. CASE ~MsgProcessor!Valid(x6)
      BY <1>4, <3>2 DEF MsgProcessor!CheckResponse, MsgResults
    <3>. QED  BY <3>1, <3>2
  <2>. QED  BY <2>1, <2>2
<1>5. CASE MsgProcessor!AckInvalid /\ MsgProcessor!HostOnly
  BY <1>5, MsgRetried DEF MsgProcessor!AckInvalid, MsgHostTypes, MsgProcessor!InTime, MsgNumbers
<1>6. CASE MsgProcessor!Clb \/ UNCHANGED MsgProcessor!vars
  BY <1>0, <1>6 DEF MsgProcessor!Clb, MsgProcessor!vars
<1>. QED  BY <1>1, <1>2, <1>3, <1>4, <1>5, <1>6 DEF MsgProcessor!Next, MsgProcessor!ProcessCommand

LEMMA MsgStepDatagramTypes ==
  ASSUME MsgNumbers, MsgProcessor!TypeOK, MsgProcessor!ReadFirst, MsgProcessor!InTime,
         [MsgProcessor!Next]_(MsgProcessor!vars)
  PROVE  MsgDatagramTypes'
<1>. USE DEF MsgProcessor!HostOnly, MsgProcessor!ClbOnly, MsgDatagramTypes, MsgProcessor!ReadFirst
<1>. MsgHostTypes /\ MsgDatagramTypes /\ MsgResults
  BY MsgTypes
<1>1. CASE MsgProcessor!Call /\ MsgProcessor!HostOnly
  BY <1>1 DEF MsgProcessor!Call
<1>2. CASE MsgProcessor!Send /\ MsgProcessor!HostOnly
  <2>1. x3' \in {"read", "send", "idle"}
    BY <1>2 DEF MsgProcessor!Send, MsgProcessor!Retry
  <2>2. MsgProcessor!BagToSet(x8') \subseteq MsgProcessor!Command
    <3>1. x2 \in 1 .. MsgCommands
      BY <1>2 DEF MsgProcessor!Send, MsgHostTypes, MsgResults, MsgNumbers
    <3>2. [id |-> x1, call |-> x2] \in MsgProcessor!Command
      BY <3>1 DEF MsgHostTypes, MsgProcessor!Command
    <3>3. \A e \in MsgProcessor!Command : MsgProcessor!BagToSet(MsgProcessor!BagAdd(x8,
          e)) \subseteq MsgProcessor!Command
      <4>. TAKE e \in MsgProcessor!Command
      <4>1. MsgProcessor!BagToSet(MsgProcessor!BagAdd(x8, e)) = MsgProcessor!BagToSet(x8) \cup {e}
        BY MsgAddedToBag, Zenon
      <4>. QED  BY <4>1
    <3>4. x8' \in {x8, MsgProcessor!BagAdd(x8, [id |-> x1, call |-> x2])}
      BY <1>2 DEF MsgProcessor!Send
    <3>. QED  BY <3>2, <3>3, <3>4
  <2>. QED  BY <1>2, <2>1, <2>2 DEF MsgProcessor!Send
<1>3. CASE MsgProcessor!Read /\ MsgProcessor!HostOnly
  <2>1. CASE x9 # <<>>
    <3>1. Head(x9) \in MsgProcessor!Datagram /\ Tail(x9) \in Seq(MsgProcessor!Datagram)
      BY <2>1
    <3>. QED  BY <1>3, <2>1, <3>1 DEF MsgProcessor!Read
  <2>2. CASE x9 = <<>>
    <3>1. x3' \in {"send", "idle"} /\ UNCHANGED <<x6, x9>>
      BY <1>3, <2>2 DEF MsgProcessor!Read, MsgProcessor!Retry
    <3>. QED  BY <1>3, <3>1 DEF MsgProcessor!Read
  <2>. QED  BY <2>1, <2>2
<1>4. CASE MsgProcessor!CheckResponse /\ MsgProcessor!HostOnly
  BY <1>4 DEF MsgProcessor!CheckResponse, MsgProcessor!Ack
<1>5. CASE MsgProcessor!AckInvalid /\ MsgProcessor!HostOnly
  <2>1. x3' \in {"send", "idle"} /\ x11' \subseteq x11
    BY <1>5 DEF MsgProcessor!AckInvalid, MsgProcessor!Retry, MsgProcessor!Ack
  <2>. QED  BY <1>5, <2>1 DEF MsgProcessor!AckInvalid
<1>6. CASE MsgProcessor!Execute /\ MsgProcessor!ClbOnly
  <2>1. PICK c \in MsgProcessor!BagToSet(x8) :
          LET d == [class |-> "reply", id |-> c.id, call |-> c.call] IN
            /\ x8' = MsgProcessor!BagRemove(x8, c)
            /\ x10' = x10 \cup {c.call}
            /\ x11' = x11 \cup {d}
            /\ x9' \in {x9} \cup (IF MsgProcessor!Room THEN {Append(x9, d)} ELSE {})
    BY <1>6, Zenon DEF MsgProcessor!Execute
  <2>2. c \in MsgProcessor!Command /\ [class |-> "reply", id |-> c.id,
        call |-> c.call] \in MsgProcessor!Datagram
    BY DEF MsgProcessor!Command, MsgProcessor!Datagram
  <2>3. MsgProcessor!BagToSet(x8') \subseteq MsgProcessor!Command
    BY <2>1, MsgTakenFromBag
  <2>4. /\ x9' \in Seq(MsgProcessor!Datagram) /\ x11' \subseteq MsgProcessor!Datagram
        /\ x10' \subseteq 1 .. MsgCommands
    <3>1. Append(x9, [class |-> "reply", id |-> c.id, call |-> c.call]) \in Seq(MsgProcessor!Datagram)
      BY <2>2
    <3>. QED  BY <2>1, <2>2, <3>1 DEF MsgProcessor!Command
  <2>. QED  BY <1>6, <2>3, <2>4
<1>7. CASE MsgProcessor!Repeat /\ MsgProcessor!ClbOnly
  BY <1>7 DEF MsgProcessor!Repeat
<1>8. CASE MsgProcessor!SendsOther /\ MsgProcessor!ClbOnly
  <2>1. PICK k \in {"event", "noMessage"}, i \in 0 .. MsgIds - 1 :
          x9' = Append(x9, [class |-> k, id |-> i, call |-> 0])
    BY <1>8 DEF MsgProcessor!SendsOther
  <2>2. [class |-> k, id |-> i, call |-> 0] \in MsgProcessor!Datagram
    BY DEF MsgProcessor!Datagram, MsgNumbers
  <2>3. x9' \in Seq(MsgProcessor!Datagram)
    BY <2>1, <2>2
  <2>. QED  BY <1>8, <2>3 DEF MsgProcessor!SendsOther
<1>9. CASE UNCHANGED MsgProcessor!vars
  BY <1>9 DEF MsgProcessor!vars
<1>. QED
  BY <1>1, <1>2, <1>3, <1>4, <1>5, <1>6, <1>7, <1>8, <1>9 DEF MsgProcessor!Next,
         MsgProcessor!ProcessCommand, MsgProcessor!Clb

(* --- what answers a call ---------------------------------------------------- *)
\* A message that was ours is ours after the next call, as long as the numbers do not come round.
LEMMA MsgStaysOurs ==
  ASSUME MsgNumbers, MsgHostTypes, MsgCommands < MsgIds, NEW m, m.id \in 0 .. MsgIds - 1, MsgProcessor!Ours(m),
         \/ UNCHANGED <<x2, x1>>
         \/ x2' = x2 + 1 /\ x2' \in 0 .. MsgCommands /\ x1' = MsgProcessor!CmdId
  PROVE  MsgProcessor!Ours(m)'
<1>1. CASE UNCHANGED <<x2, x1>>
  BY <1>1 DEF MsgProcessor!Ours
<1>2. CASE x2' = x2 + 1 /\ x2' \in 0 .. MsgCommands /\ x1' = MsgProcessor!CmdId
  <2>1. x1' = IF x1 = MsgIds - 1 THEN 0 ELSE x1 + 1
    BY <1>2, MsgNextNumber DEF MsgProcessor!CmdId, MsgHostTypes, MsgNumbers
  <2>. QED  BY <1>2, <2>1 DEF MsgProcessor!Ours, MsgHostTypes, MsgNumbers
<1>. QED  BY <1>1, <1>2

\* Only a command of this call has its number.
LEMMA MsgReplyIsRight ==
  ASSUME MsgNumbers, MsgHostTypes, MsgCommands < MsgIds, NEW m, MsgProcessor!Ours(m), m.id = x1
  PROVE  m.call = x2
  BY DEF MsgProcessor!Ours, MsgHostTypes, MsgNumbers

LEMMA MsgStepMessages ==
  ASSUME MsgNumbers, MsgProcessor!TypeOK, MsgProcessor!ReadFirst, MsgProcessor!InTime,
         MsgProcessor!MessagesAreOurs, [MsgProcessor!Next]_(MsgProcessor!vars)
  PROVE  MsgProcessor!MessagesAreOurs'
<1>. MsgHostTypes /\ MsgDatagramTypes /\ MsgResults /\ MsgHostTypes'
  BY MsgTypes, MsgStepHostTypes
<1>. SUFFICES ASSUME MsgCommands < MsgIds
              PROVE  /\ \A c \in MsgProcessor!BagToSet(x8') : MsgProcessor!Ours(c)'
                     /\ \A i \in DOMAIN x9' : MsgProcessor!Executed(x9[i])'
                     /\ \A d \in x11' : MsgProcessor!Executed(d)'
                     /\ x3' = "check" => MsgProcessor!Executed(x6)'
  BY DEF MsgProcessor!MessagesAreOurs
<1>1. /\ \A c \in MsgProcessor!BagToSet(x8) : MsgProcessor!Ours(c) /\ c.id \in 0 .. MsgIds - 1
                                              /\ c \in MsgProcessor!Command
      /\ \A i \in DOMAIN x9 : MsgProcessor!Executed(x9[i]) /\ x9[i].id \in 0 .. MsgIds - 1
      /\ \A d \in x11 : MsgProcessor!Executed(d) /\ d.id \in 0 .. MsgIds - 1
      /\ x3 = "check" => MsgProcessor!Executed(x6) /\ x6.id \in 0 .. MsgIds - 1
  <2>1. \A c \in MsgProcessor!Command : c.id \in 0 .. MsgIds - 1
    BY DEF MsgProcessor!Command
  <2>2. \A d \in MsgProcessor!Datagram : d.id \in 0 .. MsgIds - 1
    BY DEF MsgProcessor!Datagram
  <2>3. \A i \in DOMAIN x9 : x9[i] \in MsgProcessor!Datagram
    BY DEF MsgDatagramTypes
  <2>. QED  BY <2>1, <2>2, <2>3 DEF MsgProcessor!MessagesAreOurs, MsgDatagramTypes, MsgProcessor!ReadFirst
<1>2. \/ UNCHANGED <<x2, x1>>
      \/ x2' = x2 + 1 /\ x2' \in 0 .. MsgCommands /\ x1' = MsgProcessor!CmdId
  <2>1. CASE MsgProcessor!Call
    BY <2>1 DEF MsgProcessor!Call, MsgHostTypes
  <2>. QED
    BY <2>1 DEF MsgProcessor!Next, MsgProcessor!ProcessCommand, MsgProcessor!Send, MsgProcessor!Read,
           MsgProcessor!CheckResponse, MsgProcessor!AckInvalid, MsgProcessor!Clb, MsgProcessor!ClbOnly,
           MsgProcessor!vars
<1>3. x10 \subseteq x10'
  BY DEF MsgProcessor!Next, MsgProcessor!ProcessCommand, MsgProcessor!HostOnly, MsgProcessor!Clb,
         MsgProcessor!Execute, MsgProcessor!Repeat, MsgProcessor!SendsOther, MsgProcessor!vars
<1>4. ASSUME NEW m, m.id \in 0 .. MsgIds - 1, MsgProcessor!Ours(m) PROVE MsgProcessor!Ours(m)'
  BY <1>2, <1>4, MsgStaysOurs
<1>5. ASSUME NEW d, d.id \in 0 .. MsgIds - 1, MsgProcessor!Executed(d)
      PROVE  d.class = "reply" => MsgProcessor!Ours(d)' /\ d.call \in x10'
  BY <1>3, <1>4, <1>5 DEF MsgProcessor!Executed
<1>6. \A c \in MsgProcessor!BagToSet(x8') : MsgProcessor!Ours(c)'
  <2>1. ASSUME NEW c \in MsgProcessor!BagToSet(x8')
        PROVE  c \in MsgProcessor!BagToSet(x8) \/ (c.id = x1 /\ c.call = x2 /\ MsgProcessor!Send)
    <3>1. CASE MsgProcessor!Send
      <4>. DEFINE e == [id |-> x1, call |-> x2]
      <4>1. MsgProcessor!BagToSet(MsgProcessor!BagAdd(x8, e)) = MsgProcessor!BagToSet(x8) \cup {e}
        BY MsgAddedToBag, Zenon
      <4>2. x8' \in {x8, MsgProcessor!BagAdd(x8, e)}
        BY <3>1 DEF MsgProcessor!Send
      <4>3. e.id = x1 /\ e.call = x2
        OBVIOUS
      <4>. HIDE DEF e
      <4>. QED  BY <2>1, <3>1, <4>1, <4>2, <4>3
    <3>2. CASE MsgProcessor!Execute
      BY <2>1, <3>2, MsgTakenFromBag DEF MsgProcessor!Execute
    <3>3. CASE UNCHANGED x8
      BY <2>1, <3>3
    <3>. QED
      BY <3>1, <3>2, <3>3
         DEF MsgProcessor!Next, MsgProcessor!ProcessCommand, MsgProcessor!Call, MsgProcessor!Read,
               MsgProcessor!CheckResponse, MsgProcessor!AckInvalid, MsgProcessor!Clb, MsgProcessor!Repeat,
                              MsgProcessor!SendsOther, MsgProcessor!vars
  <2>2. MsgProcessor!Send => x2' = x2 /\ x1' = x1 /\ x2 \in 1 .. x2
    BY DEF MsgProcessor!Send, MsgHostTypes, MsgResults, MsgNumbers
  <2>3. ASSUME NEW m, MsgProcessor!Send, m.id = x1, m.call = x2 PROVE MsgProcessor!Ours(m)'
    BY <2>2, <2>3 DEF MsgProcessor!Ours, MsgHostTypes, MsgNumbers
  <2>. QED  BY <1>1, <1>4, <2>1, <2>3
\* What the CLB replies to a command.
<1>. DEFINE Reply(c) == [class |-> "reply", id |-> c.id, call |-> c.call]
<1>10. ASSUME NEW c \in MsgProcessor!BagToSet(x8), c.call \in x10'
       PROVE  MsgProcessor!Executed(Reply(c))'
  <2>1. MsgProcessor!Ours(c)'
    BY <1>1, <1>4
  <2>. QED  BY <1>10, <2>1 DEF MsgProcessor!Ours, MsgProcessor!Executed
<1>11. ASSUME MsgProcessor!Execute
       PROVE  \E c \in MsgProcessor!BagToSet(x8) : /\ MsgProcessor!Executed(Reply(c))'
                                         /\ x9' \in {x9, Append(x9, Reply(c))}
                                         /\ x11' = x11 \cup {Reply(c)}
  <2>1. PICK c \in MsgProcessor!BagToSet(x8) : /\ x9' \in {x9, Append(x9, Reply(c))}
                                    /\ x11' = x11 \cup {Reply(c)}
                                    /\ x10' = x10 \cup {c.call}
    BY <1>11 DEF MsgProcessor!Execute
  <2>. QED  BY <1>10, <2>1
<1>12. ASSUME NEW e, x9' = Append(x9, e), e.class = "reply" => MsgProcessor!Executed(e)'
       PROVE  \A i \in DOMAIN x9' : MsgProcessor!Executed(x9[i])'
  <2>1. \A i \in DOMAIN x9' : (i \in DOMAIN x9 /\ x9'[i] = x9[i]) \/ x9'[i] = e
    BY <1>12 DEF MsgDatagramTypes
  <2>. QED  BY <1>1, <1>5, <1>12, <2>1 DEF MsgProcessor!Executed
<1>. HIDE DEF Reply
<1>7. \A i \in DOMAIN x9' : MsgProcessor!Executed(x9[i])'
  <2>1. CASE MsgProcessor!Read /\ MsgProcessor!HostOnly
    <3>1. \A i \in DOMAIN x9' : \E k \in DOMAIN x9 : x9'[i] = x9[k]
      <4>1. CASE x9 # <<>> /\ x9' = Tail(x9)
        <5>1. ASSUME NEW i \in DOMAIN x9'
              PROVE  i + 1 \in DOMAIN x9 /\ x9'[i] = x9[i + 1]
          BY <4>1 DEF MsgDatagramTypes
        <5>. QED  BY <5>1
      <4>. QED  BY <2>1, <4>1 DEF MsgProcessor!Read
    <3>. QED  BY <1>1, <1>5, <3>1 DEF MsgProcessor!Executed
  <2>2. CASE MsgProcessor!Execute /\ MsgProcessor!ClbOnly
    <3>1. PICK c \in MsgProcessor!BagToSet(x8) :
            MsgProcessor!Executed(Reply(c))' /\ x9' \in {x9, Append(x9, Reply(c))}
      BY <1>11, <2>2
    <3>2. CASE x9' = x9
      BY <1>1, <1>5, <3>2, Zenon DEF MsgProcessor!Executed
    <3>. QED  BY <1>12, <3>1, <3>2
  <2>3. CASE MsgProcessor!Repeat /\ MsgProcessor!ClbOnly
    <3>1. PICK d \in x11 : x9' = Append(x9, d)
      BY <2>3 DEF MsgProcessor!Repeat
    <3>2. MsgProcessor!Executed(d)'
      BY <1>1, <1>5 DEF MsgProcessor!Executed
    <3>. QED  BY <1>12, <3>1, <3>2
  <2>4. CASE MsgProcessor!SendsOther /\ MsgProcessor!ClbOnly
    <3>1. PICK k \in {"event", "noMessage"}, i \in 0 .. MsgIds - 1 :
            x9' = Append(x9, [class |-> k, id |-> i, call |-> 0])
      BY <2>4 DEF MsgProcessor!SendsOther
    <3>. QED  BY <1>12, <3>1
  <2>5. CASE UNCHANGED x9
    BY <1>1, <1>5, <2>5, Zenon DEF MsgProcessor!Executed
  <2>. QED
    BY <2>1, <2>2, <2>3, <2>4, <2>5
       DEF MsgProcessor!Next, MsgProcessor!ProcessCommand, MsgProcessor!Call, MsgProcessor!Send,
             MsgProcessor!CheckResponse, MsgProcessor!AckInvalid, MsgProcessor!Clb, MsgProcessor!vars
<1>8. \A d \in x11' : MsgProcessor!Executed(d)'
  <2>1. CASE MsgProcessor!Execute /\ MsgProcessor!ClbOnly
    <3>1. PICK c \in MsgProcessor!BagToSet(x8) : MsgProcessor!Executed(Reply(c))' /\ x11' = x11 \cup {Reply(c)}
      BY <1>11, <2>1
    <3>. QED  BY <1>1, <1>5, <3>1 DEF MsgProcessor!Executed
  <2>2. CASE x11' \subseteq x11
    BY <1>1, <1>5, <2>2 DEF MsgProcessor!Executed
  <2>. QED
    BY <2>1, <2>2
       DEF MsgProcessor!Next, MsgProcessor!ProcessCommand, MsgProcessor!Call, MsgProcessor!Send,
             MsgProcessor!Read, MsgProcessor!CheckResponse, MsgProcessor!AckInvalid, MsgProcessor!Ack,
             MsgProcessor!Clb, MsgProcessor!Repeat,
                      MsgProcessor!SendsOther, MsgProcessor!vars
<1>9. x3' = "check" => MsgProcessor!Executed(x6)'
  <2>1. CASE MsgProcessor!Read /\ MsgProcessor!HostOnly
    <3>1. CASE x9 # <<>> /\ x6' = Head(x9)
      <4>1. 1 \in DOMAIN x9 /\ Head(x9) = x9[1]
        BY <3>1 DEF MsgDatagramTypes
      <4>. QED  BY <1>1, <1>5, <3>1, <4>1 DEF MsgProcessor!Executed
    <3>. QED  BY <2>1, <3>1 DEF MsgProcessor!Read, MsgProcessor!Retry
  <2>2. CASE UNCHANGED <<x3, x6>>
    BY <1>1, <1>5, <2>2 DEF MsgProcessor!Executed
  <2>3. CASE x3' # "check"
    BY <2>3
  <2>. QED
    BY <2>1, <2>2, <2>3
       DEF MsgProcessor!Next, MsgProcessor!ProcessCommand, MsgProcessor!Call, MsgProcessor!Send,
             MsgProcessor!CheckResponse, MsgProcessor!AckInvalid, MsgProcessor!Retry, MsgProcessor!Clb,
                            MsgProcessor!ClbOnly, MsgProcessor!vars
<1>. QED  BY <1>6, <1>7, <1>8, <1>9

\* A call ends with TRUE only when it has read the reply to its own command.
LEMMA MsgStepAnswered ==
  ASSUME MsgNumbers, MsgProcessor!TypeOK, MsgProcessor!ReadFirst, MsgProcessor!InTime,
         MsgProcessor!MessagesAreOurs, MsgProcessor!AnsweredIsExecuted, [MsgProcessor!Next]_(MsgProcessor!vars)
  PROVE  MsgProcessor!AnsweredIsExecuted'
<1>. MsgHostTypes /\ MsgDatagramTypes /\ MsgResults
  BY MsgTypes
<1>. SUFFICES ASSUME MsgCommands < MsgIds, NEW c \in DOMAIN x7', x7'[c]
              PROVE  c \in x10'
  BY DEF MsgProcessor!AnsweredIsExecuted
<1>1. \A k \in DOMAIN x7 : x7[k] => k \in x10
  BY DEF MsgProcessor!AnsweredIsExecuted
<1>2. x10 \subseteq x10'
  BY DEF MsgProcessor!Next, MsgProcessor!ProcessCommand, MsgProcessor!HostOnly, MsgProcessor!Clb,
         MsgProcessor!Execute, MsgProcessor!Repeat, MsgProcessor!SendsOther, MsgProcessor!vars
<1>3. CASE x3 # "idle" /\ MsgProcessor!Retry /\ x2' = x2
  BY <1>1, <1>2, <1>3, MsgRetried DEF NoneSucceeds
<1>4. CASE x7' = x7
  BY <1>1, <1>2, <1>4
<1>5. CASE MsgProcessor!CheckResponse /\ MsgProcessor!Valid(x6)
  <2>1. /\ x3 = "check" /\ x7' = Append(x7, TRUE)
        /\ Len(x7) = x2 - 1 /\ x2 \in 0 .. MsgCommands
    BY <1>5 DEF MsgProcessor!CheckResponse, MsgResults, MsgHostTypes
  <2>2. x6.call = x2 /\ x6.call \in x10
    BY <1>5, <2>1, MsgReplyIsRight DEF MsgProcessor!Valid, MsgProcessor!MessagesAreOurs, MsgProcessor!Executed
  <2>3. (c \in DOMAIN x7 /\ x7'[c] = x7[c]) \/ c = x2
    <3>1. TRUE \in BOOLEAN
      OBVIOUS
    <3>2. x7 \in Seq(BOOLEAN)
      BY DEF MsgResults
    <3>3. \A k \in DOMAIN x7' : (k \in DOMAIN x7 /\ x7'[k] = x7[k]) \/ k = Len(x7) + 1
      BY <2>1, <3>1, <3>2, MsgAdded, Zenon
    <3>4. Len(x7) + 1 = x2
      BY <2>1
    <3>. QED  BY <3>3, <3>4, Zenon
  <2>. QED  BY <1>1, <1>2, <2>2, <2>3
<1>. QED
  BY <1>3, <1>4, <1>5 DEF MsgProcessor!Next, MsgProcessor!ProcessCommand, MsgProcessor!Call,
         MsgProcessor!Send, MsgProcessor!Read, MsgProcessor!CheckResponse, MsgProcessor!AckInvalid,
         MsgProcessor!Clb,
                          MsgProcessor!ClbOnly, MsgProcessor!vars

LEMMA MsgStepIInv == MsgNumbers /\ MsgProcessor!IInv /\ [MsgProcessor!Next]_(MsgProcessor!vars)
      => MsgProcessor!IInv'
<1>. SUFFICES ASSUME MsgNumbers, MsgProcessor!IInv, [MsgProcessor!Next]_(MsgProcessor!vars)
      PROVE MsgProcessor!IInv'
  OBVIOUS
<1>1. MsgProcessor!TypeOK /\ MsgProcessor!ReadFirst /\ MsgProcessor!InTime
      /\ MsgProcessor!MessagesAreOurs /\ MsgProcessor!AnsweredIsExecuted
  BY DEF MsgProcessor!IInv
<1>2. MsgHostTypes' /\ MsgResults' /\ MsgDatagramTypes'
  BY <1>1, MsgStepHostTypes, MsgStepDatagramTypes
<1>3. MsgProcessor!TypeOK' /\ MsgProcessor!ReadFirst' /\ MsgProcessor!InTime'
  BY <1>2 DEF MsgProcessor!TypeOK, MsgHostTypes, MsgDatagramTypes, MsgResults
<1>. QED  BY <1>1, <1>3, MsgStepMessages, MsgStepAnswered DEF MsgProcessor!IInv

(* --- the theorems --------------------------------------------------------- *)
\* Every message queued has been sent or is still queued, in its order and once, and the mutexes are
\* held by the threads whose steps say so; nothing follows Exit unless the user interrupts: for any
\* dispatching threads, commands, exceptions of the bus and interrupts.
THEOREM MessagesKept ==
  ASSUME ShutdownDispatchers \cap {"main", "bus", "none"} = {},
         InterruptDispatchers \cap {"main", "bus", "none"} = {}
  PROVE  CoreSpec => []NothingLost
<1>. DEFINE Inv == /\ part = "Shutdown" => Shutdown!IInv
                   /\ part = "Interrupt" => Interrupt!IInv
<1>1. Shutdown!Threads /\ Interrupt!Threads
  BY DEF Shutdown!Threads, Shutdown!Thread, Interrupt!Threads, Interrupt!Thread
<1>2. CoreInit => Inv
  BY <1>1, ShutdownRuns, Shutdown!InitIInv, InterruptRuns, Interrupt!InitIInv
<1>3. Inv /\ [CoreNext]_allVars => Inv'
  BY <1>1, ShutdownRuns, Shutdown!StepIInv, InterruptRuns, Interrupt!StepIInv
<1>4. Inv => NothingLost
  <2>1. Shutdown!IInv => Shutdown!NothingLost /\ Shutdown!HoldersAgree /\ Shutdown!ExitIsLast
    BY <1>1, Shutdown!IInvHolds
  <2>2. Interrupt!IInv => Interrupt!NothingLost /\ Interrupt!HoldersAgree
    BY <1>1, Interrupt!IInvHolds
  <2>. QED  BY <2>1, <2>2 DEF NothingLost
<1>. HIDE DEF Inv
<1>. QED  BY <1>2, <1>3, <1>4, PTL DEF CoreSpec

\* A CLB that is READY or further holds what its controller was configured with, and no channel with
\* the wrong PMT is on: for any channels, operations, failures and power cycles.
THEOREM ReadyHoldsConfiguration == CoreSpec => []ReadyIsSet
<1>. DEFINE Inv == part = "ClbController" => ClbController!IInv
<1>1. CoreInit => Inv
  BY ClbControllerRuns, ClbController!InitIInv
<1>2. Inv /\ [CoreNext]_allVars => Inv'
  BY ClbControllerRuns, ClbController!StepIInv
<1>3. Inv => ReadyIsSet
  BY DEF ReadyIsSet, ClbController!IInv
<1>. HIDE DEF Inv
<1>. QED  BY <1>1, <1>2, <1>3, PTL DEF CoreSpec

\* A receiver that is not idle has a request outstanding or a handler that will make one, and mines
\* only while there is a run: for any receivers, configurations and starts.
THEOREM ReceiversHear ==
  ASSUME HitStarts \in Nat, RestartedStarts \in Nat
  PROVE  CoreSpec => []NeverDeaf
<1>. DEFINE Inv == /\ part = "HitReceiver" => HitReceiver!IInv
                   /\ part = "Restarted" => Restarted!IInv
<1>1. CoreInit => Inv
  BY HitReceiverRuns, HitReceiver!InitIInv, RestartedRuns, Restarted!InitIInv
<1>2. Inv /\ [CoreNext]_allVars => Inv'
  BY HitReceiverRuns, HitReceiver!StepIInv, RestartedRuns, Restarted!StepIInv
<1>3. Inv => NeverDeaf
  BY DEF NeverDeaf, HitReceiver!IInv, Restarted!IInv
<1>. HIDE DEF Inv
<1>. QED  BY <1>1, <1>2, <1>3, PTL DEF CoreSpec

\* No second lets through more than two windows' worth of logs, and none is suppressed unless a
\* window's worth went through in the second before: for any threads, logs, rate and second.
THEOREM LogRateIsBounded ==
  ASSUME LogLimit \in Nat \ {0}, LogSecond \in Nat, LogTime \in Nat
  PROVE  CoreSpec => []RateBounded
<1>. DEFINE Inv == part = "LogRate" => LogRate!IInv
<1>1. LogRate!Assumptions
  BY DEF LogRate!Assumptions, LogRate!RateAssumptions
<1>2. CoreInit => Inv
  BY <1>1, LogRateRuns, LogRate!InitIInv
<1>3. Inv /\ [CoreNext]_allVars => Inv'
  BY <1>1, LogRateRuns, LogRate!StepIInv
<1>4. Inv => RateBounded
  BY <1>1, LogRate!WindowIsBounded DEF RateBounded, LogRate!IInv, LogRate!Assumptions
<1>. HIDE DEF Inv
<1>. QED  BY <1>2, <1>3, <1>4, PTL DEF CoreSpec

\* The times of the documents, but for the measurements, are in the order they were posted, and with
\* one attempt none is there twice: for any threads, documents and runs.
THEOREM DocumentsInOrder ==
  ASSUME IndexLimit \in Nat \ {0}, IndexSecond \in Nat, IndexTime \in Nat
  PROVE  CoreSpec => []OrderMaintained
<1>. DEFINE Inv == part = "Indexing" => Indexing!IInv
<1>1. Indexing!Assumptions
  BY DEF Indexing!Assumptions, Indexing!RateAssumptions
<1>2. CoreInit => Inv
  BY <1>1, IndexingRuns, Indexing!InitIInv
<1>3. Inv /\ [CoreNext]_allVars => Inv'
  BY <1>1, IndexingRuns, Indexing!StepIInv
<1>4. Inv => OrderMaintained
  BY Indexing!IInvDocuments DEF OrderMaintained
<1>. HIDE DEF Inv
<1>. QED  BY <1>2, <1>3, <1>4, PTL DEF CoreSpec

\* A call returns TRUE only for a command that the CLB has executed: for any numbers, attempts, calls
\* and datagrams under way.
THEOREM AnsweredWasExecuted ==
  ASSUME MsgIds \in Nat \ {0}, MsgAttempts \in Nat \ {0}, MsgCommands \in Nat
  PROVE  CoreSpec => []AnsweredIsExecuted
<1>. DEFINE Inv == part = "MsgProcessor" => MsgProcessor!IInv
<1>1. MsgNumbers
  BY DEF MsgNumbers
<1>2. CoreInit => Inv
  BY <1>1, MsgProcessorRuns, MsgInitIInv
<1>3. Inv /\ [CoreNext]_allVars => Inv'
  BY <1>1, MsgProcessorRuns, MsgStepIInv
<1>4. Inv => AnsweredIsExecuted
  BY DEF AnsweredIsExecuted, MsgProcessor!IInv
<1>. HIDE DEF Inv
<1>. QED  BY <1>2, <1>3, <1>4, PTL DEF CoreSpec

\* Numbers, attempts, buffers and replies of MsgProcessor have their types.
THEOREM MsgProcessorTyped ==
  ASSUME MsgIds \in Nat \ {0}, MsgAttempts \in Nat \ {0}, MsgCommands \in Nat
  PROVE  CoreSpec => [](part = "MsgProcessor" => MsgProcessor!TypeOK)
<1>. DEFINE Inv == part = "MsgProcessor" => MsgProcessor!IInv
<1>1. MsgNumbers
  BY DEF MsgNumbers
<1>2. CoreInit => Inv
  BY <1>1, MsgProcessorRuns, MsgInitIInv
<1>3. Inv /\ [CoreNext]_allVars => Inv'
  BY <1>1, MsgProcessorRuns, MsgStepIInv
<1>4. Inv => (part = "MsgProcessor" => MsgProcessor!TypeOK)
  BY DEF MsgProcessor!IInv
<1>. HIDE DEF Inv
<1>. QED  BY <1>2, <1>3, <1>4, PTL DEF CoreSpec
=============================================================================
