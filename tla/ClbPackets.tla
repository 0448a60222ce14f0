----------------------------- MODULE ClbPackets -----------------------------
(* The packets of a CLB's data streams: their sizes, and what the accessors  *)
(* make of their fields.  A packet is a record of its size, the fields of its *)
(* CLBCommonHeader and, for monitoring, of MONHits and SCData; a status word  *)
(* is the set of its bits that are one.                                      *)
EXTENDS Naturals, FiniteSets

(* --- sizes in bytes; the structures are packed --------------------------- *)
sizeofUTCTime == 4 + 4
sizeofCLBCommonHeader == 4 + 4 + 4 + sizeofUTCTime + 4 + 4 * 4
sizeofHit == 1 + 4 + 1
sizeofMONHits == 30 * 4 + 4 + 4
sizeofAHRSData == 12 * 4
sizeofSCData == 4 + sizeofAHRSData + 2 + 2 + 4 * 4

(* --- CLBCommonHeader ------------------------------------------------------- *)
\* Monitoring, acoustic and optical data are told apart by a four-letter word.
tmch == "TMCH"
taes == "TAES"
ttdc == "TTDC"
getType(header) == CASE header.dataType = tmch -> "monitoring"
                     [] header.dataType = ttdc -> "optical"
                     [] header.dataType = taes -> "acoustic"
                     [] OTHER -> "unknown"

\* pomStatus and statusBitset: status n of the four.
pomStatus(header, n) == header.status[n]

validTimeStamp(header) == 31 \in pomStatus(header, 1)
isTrailer(header) == 31 \in pomStatus(header, 2)
vetoActivated(header) == pomStatus(header, 1) \cap 0 .. 30 # {}
fullFIFO(header) == pomStatus(header, 2) \cap 0 .. 30 # {}

\* A tic is 16 ns.
inMilliSeconds(t) == t.sec * 1000 + t.tics \div 62500

(* --- the monitoring payload -------------------------------------------------- *)
\* Hundredths, cut off, as sixteen bits without a sign.
temp(sc) == sc.Temp \div 100
humidity(sc) == sc.Humidity \div 100
validAHRS(sc) == 0 \in sc.Valid
highRate(hits) == hits.rateVeto # {}
=============================================================================
