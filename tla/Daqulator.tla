----------------------------- MODULE Daqulator ------------------------------
(* PacketGenerator: simulates the optical and the monitoring packets of all   *)
(* CLBs of a configuration.  A timer posts generate() once per time slice;    *)
(* generate() posts the sending of every packet; ten threads do what is       *)
(* posted, so packets leave in any order.                                     *)
EXTENDS ClbPackets, Integers, SequencesExt

CONSTANTS Clb,       \* controllers of the configuration
          DeltaTs,   \* fDelta_ts, milliseconds
          HitRate,   \* kHz
          MTU,
          MaxSlices, \* bound: calls of generate
          Threads    \* bound: posted packets overtaking each other (ten in the code)

VARIABLES opt,    \* fCLB_opt_headers
          mon,    \* fCLB_mon_headers
          cut,    \* fCLB_opt_data is the size of a header only
          slices, \* calls of generate
          posted, \* the packets whose sending was posted, in the order of posting
          sent    \* those of them that are with daqonite or daqsitter
vars == <<opt, mon, cut, slices, posted, sent>>

fMax_payload_size == sizeofHit * ((MTU - sizeofCLBCommonHeader) \div sizeofHit)
fMax_seqnumber == (30 * HitRate * sizeofHit * DeltaTs) \div (MTU - sizeofCLBCommonHeader) + 1
\* The monitoring payload: 31 words of hits, and SCData.
MonitoringSize == sizeofCLBCommonHeader + 31 * 4 + sizeofSCData

Header(type) == [dataType |-> type, seq |-> 0, time |-> [sec |-> 0, tics |-> 0],
                 status |-> <<{}, {}, {}, {}>>]
Init == /\ opt = [c \in Clb |-> Header(ttdc)] /\ mon = [c \in Clb |-> Header(tmch)]
        /\ cut = FALSE /\ slices = 0 /\ posted = <<>> /\ sent = {}

\* A time slice later; a new second begins at zero.
Advance(t) == LET tics == t.tics + 62500 * DeltaTs IN
              IF tics >= 62500000 THEN [sec |-> t.sec + 1, tics |-> 0] ELSE [t EXCEPT !.tics = tics]

Packet(c, h, size) == [clb |-> c, header |-> h, size |-> size]
\* Forgetting that the header takes its share of the MTU.
OptSizeWithoutHeader(s) == IF s.cut THEN sizeofCLBCommonHeader ELSE sizeofCLBCommonHeader + MTU
OptSize(s) == IF s.cut THEN sizeofCLBCommonHeader ELSE sizeofCLBCommonHeader + fMax_payload_size

\* 128 in network order is bit 7.
Trailer(h) == [h EXCEPT !.status[2] = {7}]
\* Forgetting the time.
NextSliceSameTime(h) == [h EXCEPT !.seq = 0, !.status[2] = {}]
NextSlice(h) == [h EXCEPT !.seq = 0, !.status[2] = {}, !.time = Advance(h.time)]

\* One controller in one round of generate's loop, on the state s of headers, buffer and posts.
Round(s, c) ==
  LET h == s.opt[c] IN
  IF h.seq = fMax_seqnumber + 1 THEN [s EXCEPT !.opt[c] = NextSlice(h), !.cut = FALSE]
  ELSE LET trailer == h.seq = fMax_seqnumber
           t == IF trailer THEN Trailer(h) ELSE h
           r == [s EXCEPT !.cut = trailer \/ @]
       IN [r EXCEPT !.opt[c] = [t EXCEPT !.seq = @ + 1], !.posts = Append(@, Packet(c, t, OptSize(r)))]

Order == SetToSeq(Clb)
\* The optical packets of one call: fMax_seqnumber + 1 rounds over the controllers.
Optical == FoldLeft(LAMBDA s, i : FoldLeft(Round, s, Order), [opt |-> opt, cut |-> cut, posts |-> <<>>],
                    [i \in 1 .. fMax_seqnumber + 1 |-> i])
Monitoring(c) == [mon[c] EXCEPT !.time = Advance(@)]

generate ==
  /\ slices < MaxSlices
  /\ opt' = Optical.opt /\ cut' = Optical.cut /\ mon' = [c \in Clb |-> Monitoring(c)]
  /\ posted' = posted \o Optical.posts \o [i \in DOMAIN Order |->
                                            Packet(Order[i], Monitoring(Order[i]), MonitoringSize)]
  /\ slices' = slices + 1 /\ UNCHANGED sent

\* opticalSend, monitoringSend: one of the threads is first.
Pending == DOMAIN posted \ sent
Send == \E k \in Pending :
          /\ Cardinality({j \in Pending : j < k}) < Threads
          /\ sent' = sent \cup {k} /\ UNCHANGED <<opt, mon, cut, slices, posted>>

Next == generate \/ Send
Spec == Init /\ [][Next]_vars

(* --- properties --------------------------------------------------------------- *)
\* Sequence numbers stay within a slice and its trailer, and no packet is longer than the MTU.
TypeOK == /\ \A c \in Clb : opt[c].seq \in 0 .. fMax_seqnumber + 1
          /\ \A i \in DOMAIN posted : posted[i].size <= MTU
          /\ cut \in BOOLEAN /\ slices \in 0 .. MaxSlices /\ sent \subseteq DOMAIN posted

Of(c, type, s) == SelectSeq(s, LAMBDA p : p.clb = c /\ p.header.dataType = type)
\* The packets of a controller are whole slices, however the calls of generate cut them: sequence
\* numbers count up to the trailer, which has no hits, and then from zero at the next time.
WholeSlices ==
  \A c \in Clb : LET s == Of(c, ttdc, posted) IN \A i \in DOMAIN s :
    /\ s[i].size = sizeofCLBCommonHeader <=> s[i].header.seq = fMax_seqnumber
    /\ i > 1 => IF s[i - 1].header.seq < fMax_seqnumber
                THEN s[i].header.seq = s[i - 1].header.seq + 1 /\ s[i].header.time = s[i - 1].header.time
                ELSE s[i].header.seq = 0 /\ s[i].header.time = Advance(s[i - 1].header.time)

\* packet_generator.cc:166: the packet without hits is a trailer.
TrailerMarked == \A i \in DOMAIN posted :
  posted[i].size = sizeofCLBCommonHeader => isTrailer(posted[i].header)

\* daqulator.cc:43: the option is the duration of a time slice: every slice has it.
SliceLength == \A c \in Clb : LET s == Of(c, tmch, posted) IN \A i \in DOMAIN s \ {1} :
  inMilliSeconds(s[i].header.time) - inMilliSeconds(s[i - 1].header.time) = DeltaTs

\* packet_generator.cc:147: one call makes this window's hits and sends its packets: both streams
\* are in the same slice, or the optical one in the slice about to end.
StreamsTogether == \A c \in Clb :
  inMilliSeconds(mon[c].time) - inMilliSeconds(opt[c].time) <= DeltaTs
=============================================================================
