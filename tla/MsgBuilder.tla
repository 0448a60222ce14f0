----------------------------- MODULE MsgBuilder ------------------------------
(* MsgBuilder and the message types: a command becomes a datagram of 16      *)
(* bytes of headers and its content; a datagram received becomes a message or *)
(* is refused.  The CLB (external) answers with the headers it was sent, as a *)
(* reply, or sends something that is no single message.                       *)
EXTENDS Naturals, Sequences, FiniteSets, TLC

CONSTANTS Ids,      \* ids given to a message, 0 to 63
          Contents, \* contents of a message
          Times,    \* milliseconds, modulo some days
          Odd       \* answers of the CLB that are not one message

(* --- msg_types.h: the group in the high bits -------------------------------- *)
Group(g, s) == [m \in DOMAIN s |-> g * 2^6 + s[m]]
DebugTypes == Group(1, "BUS_RMW" :> 3 @@ "I2C_READ" :> 4 @@ "I2C_WRITE" :> 5 @@ "BUS_WRITE" :> 2 @@ "BUS_READ" :> 1)
ClbTypes == Group(3, "SUB_VARS" :> 9 @@ "CLB_EVENT" :> 2 @@ "CLR_ERR_STATE" :> \h13 @@ "UPDATE_VARS" :> \h11
  @@ "GET_VARS" :> 7 @@ "EXT_UPDATE" :> \h12 @@ "ACTIVATE_CFG" :> 5 @@ "GET_STATE" :> 1 @@ "UNSUB_VARS" :> \h10
  @@ "SET_VARS" :> 8 @@ "SUB_VARSRATE" :> \h14 @@ "EVT_CLB_STATE" :> 3 @@ "STORE_CFG" :> 6 @@ "EVT_CLB_UPDATE" :> 4)
InsTypes == Group(8, "AHRS_SET_REG" :> 1 @@ "AHRS_GET_REG" :> 2)
\* UPDATE is both a message and an event.
SysTypes == Group(2, "CONTUN_INIT" :> \h10 @@ "GOLDEN_UNLOCK" :> \hB @@ "LOG_GET" :> \hC @@ "GOLDEN_STOP" :> \hA
  @@ "SYS_UPDATE" :> 6 @@ "P_LOG_GET" :> \hD @@ "DATEREV" :> 2 @@ "CONTUN_SEND" :> \h11 @@ "RT_CONFIG" :> \h18
  @@ "VERIFY" :> 8 @@ "UPDATE_START" :> 5 @@ "PING" :> 1 @@ "RESET" :> 4 @@ "BOOT" :> 9 @@ "CONTUN_RECV" :> \h12
  @@ "UPDATE_END" :> 7 @@ "IMG_GET" :> \hE @@ "EVT_TARGET" :> 3)
NetTypes == Group(4, "MUX_DEST" :> 1)
BseTypes == Group(7, "BSE_RESET" :> 2 @@ "BSE_CONFIGURE" :> 1 @@ "BPS_DBG_CMDRPLY" :> \h13
  @@ "EDFA_DBG_CMD" :> \h11 @@ "EDFA_DBG_CMDRPLY" :> \h12)
MsgTypes == DebugTypes @@ ClbTypes @@ InsTypes @@ SysTypes @@ NetTypes @@ BseTypes

VARIABLES sent,  \* the MsgBuilder of the command, or None
          bytes, \* the datagram under way
          from,  \* who sent it: "host", or the CLB a "reply" or an "other"
          got,   \* the MsgBuilder of the response, as fromBytes left it
          result \* "none", or what fromBytes returned
vars == <<sent, bytes, from, got, result>>

MCFClass == <<"error", "command", "reply", "event">>
class(c) == CHOOSE k \in 0 .. 3 : MCFClass[k + 1] = c
Byte(n, k) == (n \div 256^k) % 256

None == [class |-> 0, type |-> 0, packet_id |-> 0, msg_id |-> 0, content |-> <<>>, time |-> 0]
Init == sent = None /\ bytes = <<>> /\ from = "host" /\ got = None /\ result = "none"

(* --- toBytes ------------------------------------------------------------------ *)
SRP_FLAG_MSG == 1
SrpHeader(m) == <<SRP_FLAG_MSG, Byte(m.packet_id, 0), 0, 0>>
\* TIME_MOD is not in parentheses: the remainder is of 24 and then multiplied.
packetTime(m) == (m.time % 24) * 60 * 60 * 1000
\* Bytes that keep what is above them.
PacketHeaderUnmasked(m) == LET pt == packetTime(m) IN
                           <<pt \div 2^24, pt \div 2^16, pt \div 2^8, pt, 0, 0>>
PacketHeader(m) == LET pt == packetTime(m) IN
                   <<Byte(pt, 3), Byte(pt, 2), Byte(pt, 1), Byte(pt, 0), 0, 0>>
\* Twelve bits of type, four of class; ten of length, six of id.
typeAndClass(m) == (m.type % 2^12) + (m.class % 2^4) * 2^12
lengthAndId(m) == (Len(m.content) % 2^10) * 2^6 + (m.msg_id % 2^6)
MessageHeader(m) == <<0, 0, Byte(typeAndClass(m), 1), Byte(typeAndClass(m), 0),
                      Byte(lengthAndId(m), 1), Byte(lengthAndId(m), 0)>>
toBytes(m) == SrpHeader(m) \o PacketHeader(m) \o MessageHeader(m) \o m.content

\* The constructor, and the command on its way.
Command ==
  /\ sent = None
  /\ \E id \in Ids, t \in DOMAIN MsgTypes, c \in Contents, now \in Times :
       sent' = [class |-> class("command"), type |-> MsgTypes[t], packet_id |-> id, msg_id |-> id,
                content |-> c, time |-> now]
  /\ bytes' = toBytes(sent') /\ UNCHANGED <<from, got, result>>

(* --- the CLB (external) ---------------------------------------------------------- *)
\* A reply has the type, the id and the time of the command.
Reply == /\ result = "none" /\ sent # None /\ from = "host"
         /\ \E c \in Contents :
              LET n == Len(c) * 2^6 + (bytes[16] % 2^6) IN
              bytes' = SubSeq(bytes, 1, 12) \o <<class("reply") * 16 + (bytes[13] % 16), bytes[14],
                                                 Byte(n, 1), Byte(n, 0)>> \o c
         /\ from' = "reply" /\ UNCHANGED <<sent, got, result>>
Other == /\ result = "none" /\ sent # None /\ from = "host" /\ bytes' \in Odd /\ from' = "other"
         /\ UNCHANGED <<sent, got, result>>

(* --- fromBytes --------------------------------------------------------------------- *)
TooSmall(b) == Len(b) < 16
NoMessage(b) == b[1] % 2 = 0
\* Taking the number for a count.
CountFrom0(b) == b[10]
Count(b) == b[10] + 1
Type(b) == ((b[13] * 256 + b[14]) % 2^12)
Class(b) == (b[13] * 256 + b[14]) \div 2^12
\* Five bits of the id.
MsgIdShort(b) == (b[15] * 256 + b[16]) % 2^5
MsgId(b) == (b[15] * 256 + b[16]) % 2^6
\* The time in the packet; what is added to it of the clock, with TIME_MOD again not in
\* parentheses, is left out.
Time(b) == ((b[5] * 256 + b[6]) * 256 + b[7]) * 256 + b[8]
\* All that follows the headers, whatever the length field says.
Content(b) == SubSeq(b, 17, Len(b))

Refuse(kept) == got' = kept /\ result' = "refused"
fromBytes ==
  /\ result = "none" /\ from # "host"
  /\ \/ TooSmall(bytes) /\ Refuse(got)
     \/ ~TooSmall(bytes) /\ NoMessage(bytes) /\ Refuse(got)
     \/ ~TooSmall(bytes) /\ ~NoMessage(bytes) /\ Count(bytes) # 1
        /\ Refuse([got EXCEPT !.packet_id = bytes[2], !.time = Time(bytes)])
     \/ /\ ~TooSmall(bytes) /\ ~NoMessage(bytes) /\ Count(bytes) = 1
        /\ result' = "accepted"
        /\ got' = [class |-> Class(bytes), type |-> Type(bytes), packet_id |-> bytes[2],
                   msg_id |-> MsgId(bytes), content |-> Content(bytes), time |-> Time(bytes)]
  /\ UNCHANGED <<sent, bytes, from>>

\* processCommand: the same bytes again, into the same response; or the next command.
Retry == /\ result = "refused" /\ bytes' = toBytes(sent) /\ from' = "host" /\ result' = "none"
         /\ UNCHANGED <<sent, got>>
Again == /\ result # "none" /\ sent' = None /\ bytes' = <<>> /\ from' = "host" /\ result' = "none"
         /\ got' = None

Next == Command \/ Reply \/ Other \/ fromBytes \/ Retry \/ Again
Spec == Init /\ [][Next]_vars

(* --- properties ---------------------------------------------------------------------- *)
\* A datagram is bytes.
TypeOK == /\ \A i \in DOMAIN bytes : bytes[i] \in 0 .. 255
          /\ result \in {"none", "refused", "accepted"} /\ got.type \in 0 .. 4095 /\ got.class \in 0 .. 15

\* checkResponse compares id, class and type: they come back as they were sent, from every
\* type and at the ends of the ids, with the content that was sent.
ReplyRecognised ==
  from = "reply" /\ result # "none" => /\ result = "accepted" /\ got.class = class("reply")
                             /\ <<got.type, got.msg_id, got.packet_id>> = <<sent.type, sent.msg_id, sent.packet_id>>
                             /\ got.content \in Contents /\ got.time = packetTime(sent)

\* What is not one whole message is refused, even when its headers are those of a reply.  What is
\* refused for its number of messages, and nothing else, leaves its packet id and its time in the
\* response that the next attempt is read into; what a reply is recognised by stays as it was.
RefusesOdd == (from = "other" /\ result = "none" /\ result' # "none") =>
                /\ result' = "refused"
                /\ got' = [got EXCEPT !.packet_id = got'.packet_id, !.time = got'.time]
                /\ got' # got => ~TooSmall(bytes) /\ ~NoMessage(bytes) /\ <<bytes[9], bytes[10]>> # <<0, 0>>
OddRefused == [][RefusesOdd]_vars

\* msg_builder.cc:39: four bytes of the datagram are the packet time: the time of day.
PacketTime == sent # None /\ from = "host" =>
  Time(bytes) = sent.time % (24 * 60 * 60 * 1000)

=============================================================================
