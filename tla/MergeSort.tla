------------------------------ MODULE MergeSort ------------------------------
(* What DataRunSerialiser does with a spill: the queues of its slots are put    *)
(* together by plane, each is sorted, the queues are merged in pairs over the  *)
(* buffers of the levels (MergeSorter), and the hits are written behind those   *)
(* of the spills before (DataRunFile).                                          *)
EXTENDS Naturals, Sequences, SequencesExt, FiniteSets, FiniteSetsExt

CONSTANTS Spills,     \* spills: sequences of slots, each a function from planes to hits
          Resolution, \* of sort_key, in the unit of the times: 238 ns in the code
          MaxSpills   \* bound

VARIABLES at,         \* step of DataRunSerialiser::run
          spill,      \* current_spill
          events,     \* the queues of the planes
          out_queue,
          mirror,     \* MergeSorter::mirror_: what an earlier call has left there
          opt_hits,   \* the tree of hits
          spills      \* the tree of spills: what was in each, and its range of hits

vars == <<at, spill, events, out_queue, mirror, opt_hits, spills>>

Init == /\ at = "pop" /\ spill = <<>> /\ events = <<>> /\ out_queue = <<>> /\ mirror = <<>>
        /\ opt_hits = <<>> /\ spills = <<>>

Infinity == 1000000
marker == [time |-> Infinity, id |-> 0]
\* combined_secs adds in double precision, which at today's dates is less than the clock's.
sort_key(h) == IF h = marker THEN Infinity ELSE h.time \div Resolution
Less(g, h) == sort_key(g) < sort_key(h)

Planes(s) == UNION {DOMAIN s[i] : i \in DOMAIN s}
SumOf(q) == FoldFunction(LAMBDA x, y : Len(x) + y, 0, q)
HitsIn(s) == UNION {UNION {ToSet(s[i][p]) : p \in DOMAIN s[i]} : i \in DOMAIN s}

\* Everything has its type.
TypeOK == /\ at \in {"pop", "consolidate", "sort", "merge", "write"}
          /\ DOMAIN events \subseteq Planes(spill)
          /\ Len(spills) <= MaxSpills
          /\ \A i \in DOMAIN spills : spills[i].begin <= spills[i].end

Pop == /\ at = "pop" /\ Len(spills) < MaxSpills /\ spill' \in Spills /\ at' = "consolidate"
       /\ UNCHANGED <<events, out_queue, mirror, opt_hits, spills>>

\* emplace: the first slot with a plane keeps its place, the hits of later ones are gone.
FirstSlot(s, p) == s[Min({i \in DOMAIN s : p \in DOMAIN s[i]})]
Consolidate == /\ at = "consolidate" /\ at' = "sort"
               /\ events' = [p \in Planes(spill) |-> FirstSlot(spill, p)[p]]
               /\ UNCHANGED <<spill, out_queue, mirror, opt_hits, spills>>

\* insertSort: each hit goes down while the one before it is later.
Swapped(q, j) == [q EXCEPT ![j] = q[j - 1], ![j - 1] = q[j]]
SinkFrom(q, i) ==
  LET sink[j \in 1 .. i, s \in Seq(ToSet(q))] ==
        IF j > 1 /\ Less(s[j], s[j - 1]) THEN sink[j - 1, Swapped(s, j)] ELSE s
  IN sink[i, q]
\* Forgetting the last one.
InsertSortButLast(q) ==
  LET sorted[i \in 0 .. Len(q)] == IF i < 2 THEN q ELSE SinkFrom(sorted[i - 1], i)
  IN sorted[IF q = <<>> THEN 0 ELSE Len(q) - 1]
InsertSort(q) ==
  LET sorted[i \in 0 .. Len(q)] == IF i < 2 THEN q ELSE SinkFrom(sorted[i - 1], i)
  IN sorted[Len(q)]
Sort == /\ at = "sort" /\ at' = "merge" /\ events' = [p \in DOMAIN events |-> InsertSort(events[p])]
        /\ out_queue' = <<>>
        /\ UNCHANGED <<spill, mirror, opt_hits, spills>>

\* mergeToBuffer: as many hits as there are without the markers, then the first's marker.
MergeToBuffer(first, second) ==
  LET n == Len(first) + Len(second) - 2
      rest[i \in 1 .. Len(first), j \in 1 .. Len(second)] ==
        IF i + j - 2 = n THEN <<first[i]>>
        ELSE IF Less(first[i], second[j]) THEN <<first[i]>> \o rest[i + 1, j]
        ELSE <<second[j]>> \o rest[i, j + 1]
  IN rest[1, 1]

\* The recursive merge of the queues begin .. end - 1; a level beyond the buffers throws.
Depth(n) == IF n = 0 THEN 0 ELSE CHOOSE d \in 1 .. n : 2 ^ (d - 1) <= n /\ n < 2 ^ d
MergeAll(queues) ==
  LET levels == Depth(Len(queues)) - 1
      tree[begin, end \in 1 .. Len(queues) + 1, level \in 0 .. Len(queues)] ==
        LET n == end - begin
            half == begin + n \div 2 IN
        CASE level > levels -> <<>>
          [] n = 1 -> queues[begin]
          [] n = 2 -> MergeToBuffer(queues[begin], queues[begin + 1])
          [] OTHER -> MergeToBuffer(tree[begin, half, level + 1], tree[half, end, level + 1])
  IN tree[1, Len(queues) + 1, 0]

\* The planes come in the order of the hash table, which is any.
Merge == /\ at = "merge" /\ at' = "write"
         /\ IF SumOf(events) = 0 THEN UNCHANGED <<out_queue, mirror>>
            ELSE \E keys \in SetToSeqs(DOMAIN events) :
                   LET all == MergeAll([k \in DOMAIN keys |-> Append(events[keys[k]], marker)]) IN
                     out_queue' = Front(all) /\ mirror' = out_queue
         /\ UNCHANGED <<spill, events, opt_hits, spills>>

WriteSpill == /\ at = "write" /\ at' = "pop"
              /\ opt_hits' = opt_hits \o out_queue
              /\ spills' = Append(spills, [content |-> spill, begin |-> Len(opt_hits),
                                           end |-> Len(opt_hits')])
              /\ out_queue' = <<>> /\ spill' = <<>> /\ events' = <<>>
              /\ UNCHANGED mirror

Next == Pop \/ Consolidate \/ Sort \/ Merge \/ WriteSpill

Spec == Init /\ [][Next]_vars

WrittenOf(s) == SubSeq(opt_hits, s.begin + 1, s.end)
FirstHitsIn(s) == UNION {ToSet(FirstSlot(s, p)[p]) : p \in Planes(s)}

\* The range of a spill holds, each once and whatever the order of the queues, the hits of every
\* plane in the first slot that has it, and none of a later slot that has it too; they are sorted by
\* their keys, not within a key's 238 ns; and the ranges follow each other.
HitsWrittenSorted ==
  /\ \A i \in DOMAIN spills :
       LET w == WrittenOf(spills[i]) IN
         /\ \A k \in 1 .. Len(w) - 1 : ~Less(w[k + 1], w[k])
         /\ IsInjective(w)
         /\ ToSet(w) = FirstHitsIn(spills[i].content)
  /\ \A i \in 1 .. Len(spills) - 1 : spills[i].end = spills[i + 1].begin

\* "Consolidate multi-queue by moving it into a single instance": every hit of every slot is
\* written.  Does not hold when a plane is in two slots.
AllConsolidated == \A i \in DOMAIN spills : ToSet(WrittenOf(spills[i])) = HitsIn(spills[i].content)

\* "guaranteed to be time-sorted within the scope of a single spill".  Does not hold for hits
\* closer than the resolution of their keys.
TimeSorted == \A i \in DOMAIN spills :
                LET w == WrittenOf(spills[i]) IN \A k \in 1 .. Len(w) - 1 : w[k].time <= w[k + 1].time
=============================================================================
