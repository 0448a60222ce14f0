---------------------------- MODULE HitSequence -----------------------------
(* What a hit receiver makes of the optical datagrams of its planes: the     *)
(* checks, the sequence numbers, the hits.  CLBs number the datagrams of each *)
(* time slice from zero, BeagleBones count on, with overflow.  The network   *)
(* loses, reorders and duplicates.                                           *)
EXTENDS Integers, Sequences, FiniteSets

CONSTANTS Plane,
          Numbers,    \* the sequence numbers of a plane's datagrams, in the order of sending
          Bytes,      \* channel_and_flags of the hit of a datagram
          tolerate_seq_number_drops, \* CLB: TRUE, BBB: FALSE
          Modulus,    \* bound: 2^32
          Faults,     \* of the network and the boards: "loss", "duplicate", "malformed"
          MaxAir      \* bound: datagrams under way; one: no overtaking

VARIABLES sent,  \* datagrams sent by each plane
          air,   \* datagrams under way
          next,  \* plane_to_next_sequence_number_; no entry: -1
          kept,  \* hits mined since startData, in order
          bad,   \* datagrams reported bad
          gaps,  \* datagrams reported as the end of a gap
          starts \* calls of startData
vars == <<sent, air, next, kept, bad, gaps, starts>>

Unseen == [p \in Plane |-> -1]
Init == /\ sent = [p \in Plane |-> 0] /\ air = {} /\ next = Unseen /\ kept = <<>> /\ bad = {} /\ gaps = {}
        /\ starts = 1

\* startData: sequence numbers are forgotten.
startData == /\ starts < 2 /\ starts' = starts + 1 /\ next' = Unseen /\ kept' = <<>> /\ bad' = {} /\ gaps' = {}
             /\ UNCHANGED <<sent, air>>

(* --- the boards and the network --------------------------------------------- *)
Forms == {"good"} \cup IF "malformed" \in Faults THEN {"malformed", "miscounted"} ELSE {}
Send == \E p \in Plane, f \in Forms, b \in Bytes :
          /\ sent[p] < Len(Numbers) /\ Cardinality(air) < MaxAir
          /\ sent' = [sent EXCEPT ![p] = @ + 1]
          /\ air' = air \cup {[plane |-> p, index |-> sent[p] + 1, form |-> f, byte |-> b]}
          /\ UNCHANGED <<next, kept, bad, gaps, starts>>
Lose == /\ "loss" \in Faults
        /\ \E d \in air : air' = air \ {d} /\ UNCHANGED <<sent, next, kept, bad, gaps, starts>>

(* --- the receiver -------------------------------------------------------------- *)
Number(d) == Numbers[d.index]
\* checkAndProcessDatagram: a header and whole hits; processDatagram: the type, and for a
\* BeagleBone the number of hits.
WellFormed(d) == d.form = "good" \/ (d.form = "miscounted" /\ tolerate_seq_number_drops)

\* A plane seen for the first time is at its number.
NextNumber(d) == IF next[d.plane] = -1 THEN Number(d) ELSE next[d.plane]
\* Zero counts as late as well.
LateEvenZero(d) == Number(d) < NextNumber(d)
Late(d) == Number(d) < NextNumber(d) /\ ~(tolerate_seq_number_drops /\ Number(d) = 0)
GapOrNext(d) == Number(d) >= NextNumber(d)
Gap(d) == Number(d) > NextNumber(d)
\* Expecting the same number again.
SameAgain(d) == Number(d)
\* Numbers wider than those of the datagrams.
Unbounded(d) == 1 + Number(d)
Following(d) == (1 + Number(d)) % Modulus

\* mineHits: a CLB's channel is the byte; a BeagleBone's is the lower half and counts from one, and
\* the flag is bit 16 of a byte.
channel_number(d) == IF tolerate_seq_number_drops THEN d.byte ELSE 1 + (d.byte % 16)
cpu_trigger(d) == ~tolerate_seq_number_drops /\ (d.byte \div 2^16) % 2 = 1
Hit(d) == [plane |-> d.plane, index |-> d.index, byte |-> d.byte,
           channel_number |-> channel_number(d), cpu_trigger |-> cpu_trigger(d)]

\* checkAndIncrementSequenceNumber, then mineHits.
Keep == \E d \in air :
  /\ WellFormed(d) /\ ~Late(d) /\ air' = air \ {d}
  /\ next' = [next EXCEPT ![d.plane] = Following(d)]
  /\ gaps' = IF Gap(d) THEN gaps \cup {<<d.plane, d.index>>} ELSE gaps
  /\ kept' = Append(kept, Hit(d)) /\ UNCHANGED <<sent, bad, starts>>
\* A copy of it comes later.
KeepDuplicate == \E d \in air :
  /\ "duplicate" \in Faults /\ Len(kept) <= Len(Numbers) /\ WellFormed(d) /\ ~Late(d) /\ UNCHANGED air
  /\ next' = [next EXCEPT ![d.plane] = Following(d)]
  /\ gaps' = IF Gap(d) THEN gaps \cup {<<d.plane, d.index>>} ELSE gaps
  /\ kept' = Append(kept, Hit(d)) /\ UNCHANGED <<sent, bad, starts>>
reportBadDatagram == \E d \in air :
  /\ ~WellFormed(d) \/ Late(d)
  /\ air' = air \ {d} /\ bad' = bad \cup {d}
  /\ UNCHANGED <<sent, next, kept, gaps, starts>>

Next == startData \/ Send \/ Lose \/ Keep \/ KeepDuplicate \/ reportBadDatagram
Spec == Init /\ [][Next]_vars

(* --- the numbers that the boards give ---------------------------------------------- *)
Numbered == Modulus \in Nat \ {0} /\ Numbers \in Seq(0 .. Modulus - 1)
\* They go on after each other, with overflow; CLBs begin again with each slice.
NumbersFollow == /\ Numbered
                 /\ \A i \in 1 .. Len(Numbers) - 1 : \/ Numbers[i + 1] = (1 + Numbers[i]) % Modulus
                                                     \/ tolerate_seq_number_drops /\ Numbers[i + 1] = 0
\* They are counted on from the first, and do not overflow.
NumbersCountOn == /\ Numbered /\ ~tolerate_seq_number_drops
                  /\ \A i, j \in DOMAIN Numbers : Numbers[i] - Numbers[j] = i - j
                  /\ \A i \in DOMAIN Numbers : 1 + Numbers[i] < Modulus

(* --- properties ------------------------------------------------------------------ *)
\* Everything has its type.
TypeOK == /\ \A p \in Plane : sent[p] \in 0 .. Len(Numbers) /\ next[p] \in -1 .. Modulus - 1
          /\ starts \in 1 .. 2

\* basic_hit_receiver.cc:162: in a network that keeps the order, no datagram is refused, at the
\* end of a slice or of the numbers.
OrderedKeepsAll == (Faults = {} /\ MaxAir = 1) => bad = {}

\* basic_hit_receiver.cc:168: without drops, the hits of a plane are kept in the order of sending,
\* and those of no datagram twice, whatever the network does.
KeptInOrder == \A i, j \in DOMAIN kept :
  i < j /\ kept[i].plane = kept[j].plane => kept[i].index < kept[j].index

\* The j-th hit kept is the next of plane p after the i-th.
Successive(p, i, j) == /\ i < j /\ kept[i].plane = p /\ kept[j].plane = p
                       /\ \A k \in i + 1 .. j - 1 : kept[k].plane # p
\* basic_hit_receiver.cc:175: the gaps reported are those between the datagrams kept.
GapsReported == gaps = {g \in Plane \X DOMAIN Numbers :
  \E i, j \in DOMAIN kept : Successive(g[1], i, j) /\ kept[j].index = g[2] /\ kept[i].index < g[2] - 1}

\* clb_hit_receiver.cc:57: what is discarded is late: a later datagram was kept.
OnlyLateDiscarded == \A d \in bad : d.form = "good" =>
  \E i \in DOMAIN kept : kept[i].plane = d.plane /\ kept[i].index >= d.index
\* packets.h:36: the numbers increase with overflow: after it, only late datagrams are discarded.
OverflowTolerated == OnlyLateDiscarded

\* packets.h:54: the lowest flag says that the CPU trigger was active.
TriggerKept == \A i \in DOMAIN kept : kept[i].cpu_trigger <=> (kept[i].byte \div 16) % 2 = 1

(* --- the inductive invariants, without and with faults -------------------------------- *)
Datagrams == [plane : Plane, index : DOMAIN Numbers, form : Forms, byte : Bytes]
Hits == {Hit(d) : d \in Datagrams}

\* The number of datagrams of plane p that have arrived.
Arrived(p) == IF \E d \in air : d.plane = p THEN sent[p] - 1 ELSE sent[p]
\* At most one datagram is under way, the last one that its plane sent, and the number expected is
\* that after the last one that arrived.
OrderedIInv ==
  /\ bad = {} /\ next \in [Plane -> -1 .. Modulus - 1] /\ sent \in [Plane -> 0 .. Len(Numbers)]
  /\ air = {} \/ \E d \in Datagrams : air = {d}
  /\ \A d \in air : d.index = sent[d.plane]
  /\ \A p \in Plane : next[p] = -1 \/ (Arrived(p) >= 1 /\ next[p] = (1 + Numbers[Arrived(p)]) % Modulus)

\* The number expected of a plane is that after the last hit kept.
Expected(p) == \/ next[p] = -1 /\ \A i \in DOMAIN kept : kept[i].plane # p
               \/ \E i \in DOMAIN kept : /\ kept[i].plane = p /\ next[p] = 1 + Numbers[kept[i].index]
                                         /\ \A j \in DOMAIN kept : kept[j].plane = p => j <= i
LossyIInv == /\ sent \in [Plane -> 0 .. Len(Numbers)] /\ air \subseteq Datagrams /\ kept \in Seq(Hits)
             /\ next \in [Plane -> -1 .. Modulus - 1]
             /\ \A p \in Plane : Expected(p)
             /\ KeptInOrder /\ GapsReported
=============================================================================
