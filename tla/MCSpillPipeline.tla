-------------------------- MODULE MCSpillPipeline --------------------------
(* A spill lasts two units of data time; a datagram of time 1 schedules    *)
(* [1, 3) and [3, 5). The sets of times decide which spills get data and    *)
(* when they are over: in MCTime and MCTimeGap one spill does, in           *)
(* MCTimeBoth two do and one is over before the other, in MCTimeSteady      *)
(* three do and two are over at once, one of them waiting while the         *)
(* serialiser's queue is full.                                             *)
EXTENDS SpillPipeline, TLC

CONSTANTS s1, s2, s3, r1, r2

MCOneSpill == {s1}
MCSpill == {s1, s2}
MCThreeSpills == {s1, s2, s3}
MCOneReceiver == {r1}
MCReceiver == {r1, r2}
MCTime == {1, 5}
MCTimeBoth == {1, 4}
MCTimeSteady == {1, 3, 6}
MCTimeGap == {1, 7}
Symmetry == Permutations(Spill) \cup Permutations(Receiver)
============================================================================
