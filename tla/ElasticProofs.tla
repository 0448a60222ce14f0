--------------------------- MODULE ElasticProofs ----------------------------
(***************************************************************************)
(* Theorems about Elastic, for any threads, kinds and severities, any      *)
(* number of posts, any length of a second and any limit of the rate.      *)
(***************************************************************************)
EXTENDS Elastic, FiniteSetTheorems, TLAPS

\* The types of what is posted and of what is in elasticsearch.
AllKinds == Kinds \cup {"log", "run"}
AllRuns == {0} \cup Runs
Works == [id : Nat, kind : AllKinds, unit : {"unit", "format"}, timestamp : Nat, run : AllRuns, attempts : Nat]
Docs == [id : Nat, kind : AllKinds, unit : {"unit", "format"}, timestamp : Nat, posted : AllRuns, run : AllRuns]
Shape ==
  /\ index_service \in Seq(Works) /\ worker \in [Thread -> Seq(Works)] /\ es \in Seq(Docs)
  /\ posts \in Nat /\ run \in AllRuns

\* A thread has one piece of work at a time, and a log is counted when it is taken.
OneWork == \A t \in Thread : worker[t] # Idle => Len(worker[t]) = 1
CountedTaken == log_counter + Len(index_service) <= posts

\* What is posted, being indexed or indexed: it has the time at which it was posted, or its packet's.
Stamped == Range(index_service) \cup (UNION {Range(worker[t]) : t \in Thread}) \cup Range(es)
Known == \A w \in Stamped : w.id \in 1 .. posts /\ (Timed(w) => w.timestamp \in 0 .. now)
Ordered == \A v, w \in Stamped : v.id < w.id /\ Timed(v) /\ Timed(w) => v.timestamp <= w.timestamp

\* What is still to be taken was posted after everything that has been.
QueueInOrder == \A i, j \in DOMAIN index_service : i < j => index_service[i].id < index_service[j].id
QueueAfterHeld == \A t \in Thread : \A k \in DOMAIN worker[t], i \in DOMAIN index_service :
  worker[t][k].id < index_service[i].id
QueueAfterDocs == \A j \in DOMAIN es, i \in DOMAIN index_service : es[j].id < index_service[i].id
\* Two threads have two pieces of work; with one attempt, neither is there yet.
HeldOnce == \A t, u \in Thread : \A k \in DOMAIN worker[t], l \in DOMAIN worker[u] :
  worker[t][k].id = worker[u][l].id => t = u
NotThere == MAX_ELASTIC_ATTEMPTS = 1 =>
  \A t \in Thread : \A k \in DOMAIN worker[t], j \in DOMAIN es : es[j].id # worker[t][k].id

DocInv == /\ Shape /\ OneWork /\ Known /\ Ordered
          /\ QueueInOrder /\ QueueAfterHeld /\ QueueAfterDocs /\ HeldOnce /\ NotThere /\ AtMostOnce
----------------------------------------------------------------------------
(* --- sequences -------------------------------------------------------------- *)
LEMMA RangeOfAppend ==
  ASSUME NEW S, NEW s \in Seq(S), NEW e \in S
  PROVE  /\ Append(s, e) \in Seq(S) /\ Len(Append(s, e)) = Len(s) + 1
         /\ \A i \in 1 .. Len(s) : Append(s, e)[i] = s[i]
         /\ Append(s, e)[Len(s) + 1] = e
         /\ Range(Append(s, e)) = Range(s) \cup {e}
<1>1. /\ Append(s, e) \in Seq(S) /\ Len(Append(s, e)) = Len(s) + 1
      /\ \A i \in 1 .. Len(s) : Append(s, e)[i] = s[i]
      /\ Append(s, e)[Len(s) + 1] = e
  OBVIOUS
<1>2. /\ DOMAIN s = 1 .. Len(s) /\ DOMAIN Append(s, e) = 1 .. Len(s) + 1 /\ Len(s) \in Nat
  OBVIOUS
<1>3. 1 .. Len(s) + 1 = (1 .. Len(s)) \cup {Len(s) + 1}
  BY <1>2
<1>4. Range(Append(s, e)) = Range(s) \cup {e}
  BY <1>1, <1>2, <1>3 DEF Range
<1>. QED  BY <1>1, <1>4

LEMMA RangeOfTail ==
  ASSUME NEW S, NEW s \in Seq(S), s # <<>>
  PROVE  /\ Tail(s) \in Seq(S) /\ Len(s) >= 1 /\ Len(Tail(s)) = Len(s) - 1
         /\ \A i \in 1 .. Len(s) - 1 : Tail(s)[i] = s[i + 1]
         /\ Head(s) = s[1] /\ Head(s) \in S /\ Head(s) \in Range(s)
         /\ Range(Tail(s)) \subseteq Range(s)
<1>1. /\ Tail(s) \in Seq(S) /\ Len(s) >= 1 /\ Len(Tail(s)) = Len(s) - 1
      /\ \A i \in 1 .. Len(s) - 1 : Tail(s)[i] = s[i + 1]
      /\ Head(s) = s[1] /\ Head(s) \in S
  OBVIOUS
<1>2. /\ DOMAIN s = 1 .. Len(s) /\ DOMAIN Tail(s) = 1 .. Len(s) - 1 /\ Len(s) \in Nat
  BY <1>1
<1>3. Head(s) \in Range(s)
  BY <1>1, <1>2 DEF Range
<1>4. \A i \in 1 .. Len(s) - 1 : i + 1 \in 1 .. Len(s)
  BY <1>2
<1>5. Range(Tail(s)) \subseteq Range(s)
  BY <1>1, <1>2, <1>4 DEF Range
<1>. QED  BY <1>1, <1>3, <1>5

LEMMA RangeOfOne ==
  ASSUME NEW w
  PROVE  Range(<<w>>) = {w} /\ Range(Idle) = {}
BY DEF Range, Idle

\* What is stamped is of three kinds; the same of the next state.
LEMMA ThreeKinds ==
  ASSUME NEW q, NEW h, NEW d, NEW w
  PROVE  w \in Range(q) \cup (UNION {Range(h[t]) : t \in Thread}) \cup Range(d) <=>
           w \in Range(q) \/ (\E t \in Thread : w \in Range(h[t])) \/ w \in Range(d)
<1>1. w \in UNION {Range(h[t]) : t \in Thread} <=> \E t \in Thread : w \in Range(h[t])
  OBVIOUS
<1>2. w \in Range(q) \cup (UNION {Range(h[t]) : t \in Thread}) \cup Range(d) <=>
        w \in Range(q) \/ w \in UNION {Range(h[t]) : t \in Thread} \/ w \in Range(d)
  BY Zenon
<1>. QED  BY <1>1, <1>2, Zenon

LEMMA StampedIs ==
  \A w : w \in Stamped <=>
    w \in Range(index_service) \/ (\E t \in Thread : w \in Range(worker[t])) \/ w \in Range(es)
<1>1. ASSUME NEW w
      PROVE  w \in Range(index_service) \cup (UNION {Range(worker[t]) : t \in Thread}) \cup Range(es) <=>
               w \in Range(index_service) \/ (\E t \in Thread : w \in Range(worker[t])) \/ w \in Range(es)
  BY ThreeKinds
<1>. QED  BY <1>1, Zenon DEF Stamped

LEMMA StampedNext ==
  \A w : w \in Stamped' <=>
    w \in Range(index_service') \/ (\E t \in Thread : w \in Range(worker'[t])) \/ w \in Range(es')
<1>1. ASSUME NEW w
      PROVE  w \in Range(index_service') \cup (UNION {Range(worker'[t]) : t \in Thread}) \cup Range(es') <=>
               w \in Range(index_service') \/ (\E t \in Thread : w \in Range(worker'[t])) \/ w \in Range(es')
  BY ThreeKinds
<1>. QED  BY <1>1, Zenon DEF Stamped

\* What has been posted is a work or a document, with a number for an id and for a time.
LEMMA StampedTypes ==
  ASSUME Shape, OneWork
  PROVE  /\ \A i \in DOMAIN index_service : index_service[i] \in Works /\ index_service[i] \in Stamped
         /\ \A t \in Thread : \A k \in DOMAIN worker[t] : worker[t][k] \in Works /\ worker[t][k] \in Stamped
         /\ \A j \in DOMAIN es : es[j] \in Docs /\ es[j] \in Stamped
         /\ \A w \in Stamped : w.id \in Nat /\ w.timestamp \in Nat
         /\ \A t \in Thread : worker[t] # Idle => DOMAIN worker[t] = {1}
         /\ DOMAIN index_service = 1 .. Len(index_service) /\ DOMAIN es = 1 .. Len(es)
<1>1. \A i \in DOMAIN index_service : index_service[i] \in Works /\ index_service[i] \in Range(index_service)
  BY DEF Shape, Range
<1>2. \A t \in Thread : \A k \in DOMAIN worker[t] : worker[t][k] \in Works /\ worker[t][k] \in Range(worker[t])
  BY DEF Shape, Range
<1>3. \A j \in DOMAIN es : es[j] \in Docs /\ es[j] \in Range(es)
  BY DEF Shape, Range
<1>4. \A w \in Range(index_service) : w \in Works
  BY <1>1 DEF Range
<1>5. \A t \in Thread : \A w \in Range(worker[t]) : w \in Works
  BY <1>2 DEF Range
<1>6. \A w \in Range(es) : w \in Docs
  BY <1>3 DEF Range
<1>7. \A w \in Stamped : w \in Works \/ w \in Docs
  BY <1>4, <1>5, <1>6, StampedIs, Zenon
<1>8. \A w \in Stamped : w.id \in Nat /\ w.timestamp \in Nat
  BY <1>7 DEF Works, Docs
<1>9. \A i \in DOMAIN index_service : index_service[i] \in Stamped
  BY <1>1, StampedIs, Zenon
<1>10. \A t \in Thread : \A k \in DOMAIN worker[t] : worker[t][k] \in Stamped
  BY <1>2, StampedIs, Zenon
<1>11. \A j \in DOMAIN es : es[j] \in Stamped
  BY <1>3, StampedIs, Zenon
<1>12. \A t \in Thread : worker[t] # Idle => DOMAIN worker[t] = {1}
  BY DEF Shape, OneWork
<1>13. DOMAIN index_service = 1 .. Len(index_service) /\ DOMAIN es = 1 .. Len(es)
  BY DEF Shape
<1>. QED  BY <1>1, <1>2, <1>3, <1>8, <1>9, <1>10, <1>11, <1>12, <1>13, Zenon

\* The times stay in the order of the ids when what is new has the next id and, if timed, the present.
LEMMA OrderStep ==
  ASSUME posts \in Nat, now \in Nat, posts' \in Nat, now' \in Nat, now' >= now, posts' >= posts,
         Known, Ordered,
         \A v \in Stamped' :
           \/ \E u \in Stamped : u.id = v.id /\ u.timestamp = v.timestamp /\ u.kind = v.kind
           \/ v.id = posts + 1 /\ posts' = posts + 1 /\ (Timed(v) => v.timestamp = now)
  PROVE  Known' /\ Ordered'
<1>. DEFINE Old(v) == \E u \in Stamped : u.id = v.id /\ u.timestamp = v.timestamp /\ u.kind = v.kind
            New(v) == v.id = posts + 1 /\ posts' = posts + 1 /\ (Timed(v) => v.timestamp = now)
<1>1. Known'
  <2>. SUFFICES ASSUME NEW v \in Stamped'
                PROVE  v.id \in 1 .. posts' /\ (Timed(v) => v.timestamp \in 0 .. now')
    BY Zenon DEF Known, Timed
  <2>1. CASE Old(v)
    BY <2>1 DEF Known, Timed
  <2>2. CASE New(v)
    BY <2>2
  <2>. QED  BY <2>1, <2>2
<1>2. Ordered'
  <2>. SUFFICES ASSUME NEW v \in Stamped', NEW w \in Stamped', v.id < w.id, Timed(v), Timed(w)
                PROVE  v.timestamp <= w.timestamp
    BY Zenon DEF Ordered, Timed
  <2>1. CASE Old(w)
    <3>1. PICK u \in Stamped : u.id = w.id /\ u.timestamp = w.timestamp /\ u.kind = w.kind
      BY <2>1, Zenon
    <3>2. u.id \in 1 .. posts
      BY Zenon DEF Known
    <3>3. v.id # posts + 1
      BY <3>1, <3>2
    <3>4. PICK x \in Stamped : x.id = v.id /\ x.timestamp = v.timestamp /\ x.kind = v.kind
      BY <3>3, Zenon
    <3>. QED  BY <3>1, <3>4 DEF Ordered, Timed
  <2>2. CASE New(w)
    <3>1. v.id # posts + 1
      BY <1>1, <2>2 DEF Known
    <3>2. PICK x \in Stamped : x.id = v.id /\ x.timestamp = v.timestamp /\ x.kind = v.kind
      BY <3>1, Zenon
    <3>. QED  BY <2>2, <3>2 DEF Known, Timed
  <2>. QED  BY <2>1, <2>2
<1>. QED  BY <1>1, <1>2

\* Each operation keeps the times in order: a post is new, and anything else stays or goes.
LEMMA DocInvUnchanged ==
  ASSUME DocInv, now \in Nat, now' \in Nat, now' >= now, UNCHANGED <<index_service, worker, es, posts, run>>
  PROVE  DocInv'
<1>1. Stamped' = Stamped
  BY DEF Stamped
<1>2. posts \in Nat /\ posts' = posts /\ Known /\ Ordered
  BY DEF DocInv, Shape
<1>3. Known' /\ Ordered'
  BY <1>1, <1>2, OrderStep
<1>4. Shape' /\ OneWork' /\ QueueInOrder' /\ QueueAfterHeld' /\ QueueAfterDocs' /\ HeldOnce' /\ NotThere' /\ AtMostOnce'
  BY DEF DocInv, Shape, OneWork, QueueInOrder, QueueAfterHeld, QueueAfterDocs, HeldOnce, NotThere, AtMostOnce
<1>. QED  BY <1>3, <1>4 DEF DocInv

\* A work is posted, by a thread that is then idle or by others.
LEMMA DocInvPost ==
  ASSUME DocInv, now \in Nat, now' = now, NEW w \in Works, w.id = posts + 1, Timed(w) => w.timestamp = now,
         Post(w),
         \/ worker' = worker
         \/ \E t \in Thread : worker' = [worker EXCEPT ![t] = Idle],
         es' = es, run' \in AllRuns
  PROVE  DocInv'
<1>. USE DEF DocInv
<1>. DEFINE q == index_service
<1>1. /\ q' \in Seq(Works) /\ Len(q') = Len(q) + 1 /\ \A i \in 1 .. Len(q) : q'[i] = q[i]
      /\ q'[Len(q) + 1] = w /\ Range(q') = Range(q) \cup {w} /\ posts' = posts + 1
      /\ Len(q) \in Nat /\ posts \in Nat
  BY RangeOfAppend DEF Post, Shape
<1>2. \A t \in Thread : worker'[t] = worker[t] \/ worker'[t] = Idle
  BY DEF Shape
<1>3. worker' \in [Thread -> Seq(Works)]
  <2>1. Idle \in Seq(Works) /\ worker \in [Thread -> Seq(Works)]
    BY DEF Shape, Idle
  <2>. QED  BY <2>1
<1>4. Shape'
  BY <1>1, <1>3 DEF Shape
<1>5. OneWork'
  BY <1>2 DEF OneWork
<1>6. /\ DOMAIN q = 1 .. Len(q) /\ DOMAIN q' = 1 .. Len(q) + 1
      /\ \A t \in Thread : \A k \in DOMAIN worker'[t] : k \in DOMAIN worker[t] /\ worker'[t][k] = worker[t][k]
  BY <1>1, <1>2 DEF Shape, Idle
<1>7. Known' /\ Ordered'
  <2>1. \A t \in Thread : Range(worker'[t]) \subseteq Range(worker[t])
    BY <1>2, <1>6 DEF Range
  <2>2. \A v \in Stamped' : v \in Stamped \/ v = w
    <3>. SUFFICES ASSUME NEW v \in Stamped'
                  PROVE  v \in Stamped \/ v = w
      OBVIOUS
    <3>1. CASE v \in Range(q')
      <4>1. v \in Range(q) \/ v = w
        BY <1>1, <3>1
      <4>. QED  BY <4>1, StampedIs, Zenon
    <3>2. CASE \E t \in Thread : v \in Range(worker'[t])
      BY <2>1, <3>2, StampedIs
    <3>3. CASE v \in Range(es')
      BY <3>3, StampedIs
    <3>. QED  BY <3>1, <3>2, <3>3, StampedNext, Zenon
  <2>. QED  BY <1>1, <2>2, OrderStep
<1>8. \A v \in Stamped : v.id \in 1 .. posts
  BY DEF Known
<1>9. QueueInOrder'
  <2>. SUFFICES ASSUME NEW i \in 1 .. Len(q) + 1, NEW j \in 1 .. Len(q) + 1, i < j
                PROVE  q'[i].id < q'[j].id
    BY <1>6 DEF QueueInOrder
  <2>1. i \in 1 .. Len(q) /\ q'[i] = q[i] /\ q[i].id \in 1 .. posts
    BY <1>1, <1>6, <1>8, StampedTypes
  <2>2. CASE j = Len(q) + 1
    BY <1>1, <2>1, <2>2
  <2>3. CASE j \in 1 .. Len(q)
    BY <1>1, <1>6, <2>1, <2>3 DEF QueueInOrder
  <2>. QED  BY <1>1, <2>2, <2>3
<1>10. QueueAfterHeld'
  <2>. SUFFICES ASSUME NEW t \in Thread, NEW k \in DOMAIN worker'[t], NEW i \in 1 .. Len(q) + 1
                PROVE  worker'[t][k].id < q'[i].id
    BY <1>6 DEF QueueAfterHeld
  <2>1. k \in DOMAIN worker[t] /\ worker'[t][k] = worker[t][k] /\ worker[t][k].id \in 1 .. posts
    BY <1>6, <1>8, StampedTypes
  <2>2. CASE i = Len(q) + 1
    BY <1>1, <2>1, <2>2
  <2>3. CASE i \in 1 .. Len(q)
    BY <1>1, <1>6, <2>1, <2>3 DEF QueueAfterHeld
  <2>. QED  BY <1>1, <2>2, <2>3
<1>11. QueueAfterDocs'
  <2>. SUFFICES ASSUME NEW j \in DOMAIN es, NEW i \in 1 .. Len(q) + 1
                PROVE  es[j].id < q'[i].id
    BY <1>6 DEF QueueAfterDocs
  <2>1. es[j].id \in 1 .. posts
    BY <1>8, StampedTypes
  <2>2. CASE i = Len(q) + 1
    BY <1>1, <2>1, <2>2
  <2>3. CASE i \in 1 .. Len(q)
    BY <1>1, <1>6, <2>3 DEF QueueAfterDocs
  <2>. QED  BY <1>1, <2>2, <2>3
<1>12. HeldOnce' /\ NotThere' /\ AtMostOnce'
  BY <1>6 DEF HeldOnce, NotThere, AtMostOnce
<1>. QED  BY <1>4, <1>5, <1>7, <1>9, <1>10, <1>11, <1>12

\* A work is taken from the front, and given up or held by a thread that held nothing.
LEMMA DocInvTake ==
  ASSUME DocInv, now \in Nat, now' = now, NEW t \in Thread, worker[t] = Idle,
         index_service # <<>>, index_service' = Tail(index_service),
         \/ worker' = worker
         \/ worker' = [worker EXCEPT ![t] = <<Head(index_service)>>],
         UNCHANGED <<es, posts, run>>
  PROVE  DocInv'
<1>. USE DEF DocInv
<1>. DEFINE q == index_service  w == q[1]
<1>1. /\ q' \in Seq(Works) /\ Len(q) >= 1 /\ Len(q') = Len(q) - 1 /\ Len(q) \in Nat
      /\ \A i \in 1 .. Len(q) - 1 : q'[i] = q[i + 1] /\ i + 1 \in 1 .. Len(q)
      /\ Head(q) = w /\ w \in Works /\ 1 \in 1 .. Len(q)
      /\ DOMAIN q = 1 .. Len(q) /\ DOMAIN q' = 1 .. Len(q) - 1
  BY RangeOfTail DEF Shape
<1>2. worker' = worker \/ worker' = [worker EXCEPT ![t] = <<w>>]
  BY <1>1
<1>3. /\ w \in Stamped /\ \A i \in 1 .. Len(q) - 1 : w.id < q'[i].id
      /\ \A u \in Thread : \A k \in DOMAIN worker[u] : worker[u][k].id < w.id
      /\ \A j \in DOMAIN es : es[j].id < w.id
  <2>1. w \in Stamped
    BY <1>1, StampedTypes
  <2>2. \A i \in 1 .. Len(q) - 1 : w.id < q'[i].id
    BY <1>1 DEF QueueInOrder
  <2>3. \A u \in Thread : \A k \in DOMAIN worker[u] : worker[u][k].id < w.id
    BY <1>1 DEF QueueAfterHeld
  <2>4. \A j \in DOMAIN es : es[j].id < w.id
    BY <1>1 DEF QueueAfterDocs
  <2>. QED  BY <2>1, <2>2, <2>3, <2>4
<1>4. \A u \in Thread : \A k \in DOMAIN worker'[u] :
        \/ worker'[u] = worker[u] /\ k \in DOMAIN worker[u] /\ worker'[u][k] = worker[u][k]
        \/ u = t /\ worker'[u][k] = w
  BY <1>2 DEF Shape
<1>5. Shape' /\ OneWork'
  <2>1. <<w>> \in Seq(Works) /\ Len(<<w>>) = 1
    BY <1>1
  <2>2. worker' \in [Thread -> Seq(Works)]
    BY <1>2, <2>1 DEF Shape
  <2>3. OneWork'
    BY <1>2, <2>1 DEF OneWork, Shape
  <2>. QED  BY <1>1, <2>2, <2>3 DEF Shape
<1>6. Stamped' \subseteq Stamped
  <2>. SUFFICES ASSUME NEW v \in Stamped'
                PROVE  v \in Stamped
    OBVIOUS
  <2>1. CASE v \in Range(q')
    <3>1. v \in Range(q)
      BY <2>1, RangeOfTail DEF Shape
    <3>. QED  BY <3>1, StampedIs, Zenon
  <2>2. ASSUME NEW u \in Thread, v \in Range(worker'[u])
        PROVE  v \in Stamped
    <3>1. PICK k \in DOMAIN worker'[u] : v = worker'[u][k]
      BY <2>2 DEF Range
    <3>. QED  BY <1>3, <1>4, <3>1, StampedTypes
  <2>3. CASE v \in Range(es')
    BY <2>3, StampedIs
  <2>. QED  BY <2>1, <2>2, <2>3, StampedNext, Zenon
<1>7. Known' /\ Ordered'
  BY <1>6, OrderStep DEF Shape
<1>8. QueueInOrder'
  <2>. SUFFICES ASSUME NEW i \in 1 .. Len(q) - 1, NEW j \in 1 .. Len(q) - 1, i < j
                PROVE  q'[i].id < q'[j].id
    BY <1>1 DEF QueueInOrder
  <2>1. i + 1 \in DOMAIN q /\ j + 1 \in DOMAIN q /\ i + 1 < j + 1
    BY <1>1
  <2>. QED  BY <1>1, <2>1 DEF QueueInOrder
<1>9. QueueAfterHeld'
  <2>. SUFFICES ASSUME NEW u \in Thread, NEW k \in DOMAIN worker'[u], NEW i \in 1 .. Len(q) - 1
                PROVE  worker'[u][k].id < q'[i].id
    BY <1>1 DEF QueueAfterHeld
  <2>1. i + 1 \in DOMAIN q /\ q'[i] = q[i + 1]
    BY <1>1
  <2>. QED  BY <1>3, <1>4, <2>1 DEF QueueAfterHeld
<1>10. QueueAfterDocs'
  BY <1>1 DEF QueueAfterDocs
<1>11. HeldOnce'
  <2>. SUFFICES ASSUME NEW u \in Thread, NEW v \in Thread, NEW k \in DOMAIN worker'[u],
                       NEW l \in DOMAIN worker'[v], worker'[u][k].id = worker'[v][l].id
                PROVE  u = v
    BY DEF HeldOnce
  <2>1. w.id \in Nat
    BY <1>1 DEF Works
  <2>. QED  BY <1>3, <1>4, <2>1 DEF HeldOnce
<1>12. NotThere'
  <2>1. \A j \in DOMAIN es : es[j].id # w.id
    BY <1>1, <1>3, StampedTypes DEF Works, Docs
  <2>. QED  BY <1>4, <2>1 DEF NotThere
<1>13. AtMostOnce'
  BY DEF AtMostOnce
<1>. QED  BY <1>5, <1>7, <1>8, <1>9, <1>10, <1>11, <1>12, <1>13

\* A thread is done with an attempt: the document may be there, and the work is tried again or not.
LEMMA DocInvDone ==
  ASSUME DocInv, now \in Nat, now' = now, NEW t \in Thread, NEW w \in Range(worker[t]),
         NEW v \in Works, v.id = w.id, v.timestamp = w.timestamp, v.kind = w.kind,
         \/ worker' = [worker EXCEPT ![t] = Idle]
         \/ MAX_ELASTIC_ATTEMPTS # 1 /\ worker' = [worker EXCEPT ![t] = <<v>>],
         NEW d \in Docs, d.id = w.id, d.timestamp = w.timestamp, d.kind = w.kind,
         es' = es \/ es' = Append(es, d),
         UNCHANGED <<index_service, posts, run>>
  PROVE  DocInv'
<1>. USE DEF DocInv
<1>1. PICK n \in DOMAIN worker[t] : w = worker[t][n]
  BY DEF Range
<1>2. /\ w \in Stamped /\ w.id \in Nat /\ \A i \in DOMAIN index_service : w.id < index_service[i].id
      /\ \A u \in Thread : \A k \in DOMAIN worker[u] : worker[u][k].id = w.id => u = t
      /\ MAX_ELASTIC_ATTEMPTS = 1 => \A j \in DOMAIN es : es[j].id # w.id
  BY <1>1, StampedTypes DEF QueueAfterHeld, HeldOnce, NotThere
<1>3. /\ es' \in Seq(Docs)
      /\ \A j \in DOMAIN es' : (j \in DOMAIN es /\ es'[j] = es[j]) \/ (j \notin DOMAIN es /\ es'[j] = d)
      /\ \A i, j \in DOMAIN es' : i \notin DOMAIN es /\ j \notin DOMAIN es => i = j
  <2>1. CASE es' = es
    BY <2>1 DEF Shape
  <2>2. CASE es' = Append(es, d)
    <3>1. /\ es' \in Seq(Docs) /\ Len(es') = Len(es) + 1 /\ es'[Len(es) + 1] = d /\ Len(es) \in Nat
          /\ \A j \in 1 .. Len(es) : es'[j] = es[j]
      BY <2>2, RangeOfAppend DEF Shape
    <3>2. DOMAIN es = 1 .. Len(es) /\ DOMAIN es' = 1 .. Len(es) + 1
      BY <3>1 DEF Shape
    <3>3. \A j \in DOMAIN es' : j \in DOMAIN es \/ (j = Len(es) + 1 /\ j \notin DOMAIN es)
      BY <3>1, <3>2
    <3>. QED  BY <3>1, <3>2, <3>3
  <2>. QED  BY <2>1, <2>2
<1>4. \A u \in Thread : \A k \in DOMAIN worker'[u] :
        \/ u # t /\ worker'[u] = worker[u] /\ k \in DOMAIN worker[u] /\ worker'[u][k] = worker[u][k]
        \/ MAX_ELASTIC_ATTEMPTS # 1 /\ u = t /\ worker'[u][k] = v
  BY DEF Shape, Idle
<1>5. Shape' /\ OneWork'
  <2>1. <<v>> \in Seq(Works) /\ Len(<<v>>) = 1 /\ Idle \in Seq(Works)
    BY DEF Idle
  <2>2. worker' \in [Thread -> Seq(Works)]
    BY <2>1 DEF Shape
  <2>3. OneWork'
    BY <2>1 DEF OneWork, Shape
  <2>. QED  BY <1>3, <2>2, <2>3 DEF Shape
<1>6. \A x \in Stamped' : \E u \in Stamped : u.id = x.id /\ u.timestamp = x.timestamp /\ u.kind = x.kind
  <2>. SUFFICES ASSUME NEW x \in Stamped'
                PROVE  x \in Stamped \/ x = v \/ x = d
    BY <1>2
  <2>1. CASE x \in Range(index_service')
    BY <2>1, StampedIs
  <2>2. ASSUME NEW u \in Thread, x \in Range(worker'[u])
        PROVE  x \in Stamped \/ x = v
    <3>1. PICK k \in DOMAIN worker'[u] : x = worker'[u][k]
      BY <2>2 DEF Range
    <3>. QED  BY <1>4, <3>1, StampedTypes
  <2>3. CASE x \in Range(es')
    <3>1. PICK j \in DOMAIN es' : x = es'[j]
      BY <2>3 DEF Range
    <3>. QED  BY <1>3, <3>1, StampedTypes
  <2>. QED  BY <2>1, <2>2, <2>3, StampedNext, Zenon
<1>7. Known' /\ Ordered'
  BY <1>6, OrderStep DEF Shape
<1>8. QueueInOrder'
  BY DEF QueueInOrder
<1>9. QueueAfterHeld'
  BY <1>2, <1>4 DEF QueueAfterHeld
<1>10. QueueAfterDocs'
  BY <1>2, <1>3 DEF QueueAfterDocs
<1>11. HeldOnce'
  BY <1>2, <1>4 DEF HeldOnce
<1>12. NotThere'
  BY <1>2, <1>3, <1>4 DEF NotThere, HeldOnce
<1>13. AtMostOnce'
  BY <1>2, <1>3 DEF AtMostOnce
<1>. QED  BY <1>5, <1>7, <1>8, <1>9, <1>10, <1>11, <1>12, <1>13
----------------------------------------------------------------------------
(* --- the rate of the logs --------------------------------------------------- *)
\* The logs counted in the window, and the place of the last one before it.
Counted == IF log_counter < MAX_LOG_RATE THEN log_counter ELSE MAX_LOG_RATE
Before == Len(passed) - Counted

WindowTypes == /\ now \in Nat /\ timer_start \in 0 .. now /\ log_counter \in Nat
               /\ passed \in Seq(Nat) /\ suppressed \subseteq Nat
InOrder == /\ \A i, j \in 1 .. Len(passed) : i <= j => passed[i] <= passed[j]
           /\ \A i \in 1 .. Len(passed) : passed[i] <= now
\* The window began with the first of its logs; the log before it came a second after as many others.
WindowBegan == Counted <= Len(passed) /\ (Counted > 0 => passed[Before + 1] = timer_start)
WindowReset == Before > MAX_LOG_RATE => passed[Before] >= passed[Before - MAX_LOG_RATE] + Second
\* Two windows' worth of logs are a second apart.
FarApart == \A i \in 1 .. Len(passed) :
  i + 2 * MAX_LOG_RATE <= Len(passed) => passed[i + 2 * MAX_LOG_RATE] >= passed[i] + Second
\* What is suppressed has a window's worth of logs in the second before.
AfterWindow == \A s \in suppressed : \E k \in 0 .. Len(passed) - MAX_LOG_RATE :
  \A i \in k + 1 .. k + MAX_LOG_RATE : passed[i] \in s - Second + 1 .. s

WindowInv == WindowTypes /\ InOrder /\ WindowBegan /\ WindowReset /\ FarApart /\ AfterWindow

RateAssumptions == MAX_LOG_RATE \in Nat \ {0} /\ Second \in Nat

LEMMA Places ==
  ASSUME NEW n \in Nat, NEW m \in Nat, NEW c \in Nat, NEW i \in Nat, m >= 1, i >= 1, i + 2 * m = n + 1
  PROVE  /\ i <= n /\ (n >= m => i <= n - m + 1)
         /\ c < m => i <= n - c - m /\ n - c > m
OBVIOUS

LEMMA Apart ==
  ASSUME NEW x \in Nat, NEW a \in Nat, NEW b \in Nat, NEW t \in Nat, NEW s \in Nat, x <= a, b >= a + s, b <= t
  PROVE  t >= x + s
OBVIOUS

LEMMA WindowInvCount ==
  ASSUME RateAssumptions, WindowInv, Count
  PROVE  WindowInv'
<1>. DEFINE M == MAX_LOG_RATE  n == Len(passed)
<1>1. /\ M \in Nat /\ M >= 1 /\ Second \in Nat /\ n \in Nat /\ now \in Nat /\ now' = now
      /\ log_counter \in Nat /\ timer_start \in 0 .. now /\ passed \in Seq(Nat) /\ suppressed \subseteq Nat
  BY DEF RateAssumptions, WindowInv, WindowTypes, Count
<1>2. ASSUME NEW p, p = Append(passed, now)
      PROVE  /\ p \in Seq(Nat) /\ Len(p) = n + 1 /\ p[n + 1] = now
             /\ \A i \in 1 .. n : p[i] = passed[i]
  BY <1>1, <1>2
<1>3. ASSUME passed' = Append(passed, now)
      PROVE  InOrder'
  <2>1. Len(passed') = n + 1 /\ passed'[n + 1] = now /\ \A i \in 1 .. n : passed'[i] = passed[i]
    BY <1>2, <1>3
  <2>2. \A i \in 1 .. n + 1 : i \in 1 .. n \/ i = n + 1
    BY <1>1
  <2>3. \A i \in 1 .. n + 1 : passed'[i] <= now
    BY <1>1, <2>1, <2>2 DEF WindowInv, InOrder
  <2>4. ASSUME NEW i \in 1 .. n + 1, NEW j \in 1 .. n + 1, i <= j
        PROVE  passed'[i] <= passed'[j]
    <3>1. CASE j = n + 1
      BY <2>1, <2>3, <3>1
    <3>2. CASE j \in 1 .. n
      <4>1. i \in 1 .. n
        BY <1>1, <2>4, <3>2
      <4>. QED  BY <2>1, <2>4, <3>2, <4>1 DEF WindowInv, InOrder
    <3>. QED  BY <2>2, <3>1, <3>2
  <2>. QED  BY <1>1, <2>1, <2>3, <2>4 DEF InOrder
<1>4. ASSUME passed' = Append(passed, now), suppressed' = suppressed
      PROVE  AfterWindow'
  <2>1. Len(passed') = n + 1 /\ \A i \in 1 .. n : passed'[i] = passed[i]
    BY <1>2, <1>4
  <2>2. ASSUME NEW s \in suppressed'
        PROVE  \E k \in 0 .. Len(passed') - M : \A i \in k + 1 .. k + M : passed'[i] \in s - Second + 1 .. s
    <3>1. PICK k \in 0 .. n - M : \A i \in k + 1 .. k + M : passed[i] \in s - Second + 1 .. s
      BY <1>4 DEF WindowInv, AfterWindow
    <3>2. k \in 0 .. Len(passed') - M /\ \A i \in k + 1 .. k + M : i \in 1 .. n
      BY <1>1, <2>1, <3>1
    <3>. QED  BY <2>1, <3>1, <3>2
  <2>. QED  BY <2>2, Zenon DEF AfterWindow
<1>5. CASE Suppress
  <2>1. /\ log_counter >= M /\ log_counter' = log_counter + 1 /\ timer_start' = timer_start /\ passed' = passed
        /\ suppressed' = suppressed \cup {now} /\ now - timer_start < Second
    BY <1>1, <1>5 DEF Count, counter, Suppress, Above
  <2>2. Counted = M /\ Counted' = M
    BY <1>1, <2>1 DEF Counted
  <2>3. WindowTypes' /\ InOrder' /\ FarApart'
    BY <1>1, <2>1 DEF WindowInv, WindowTypes, InOrder, FarApart
  <2>4. WindowBegan' /\ WindowReset'
    BY <2>1, <2>2 DEF WindowInv, WindowBegan, WindowReset, Before
  <2>5. ASSUME NEW s \in suppressed'
        PROVE  \E k \in 0 .. n - M : \A i \in k + 1 .. k + M : passed[i] \in s - Second + 1 .. s
    <3>1. CASE s \in suppressed
      BY <3>1 DEF WindowInv, AfterWindow
    <3>2. CASE s = now
      <4>1. n - M \in 0 .. n - M /\ passed[n - M + 1] = timer_start /\ n >= M
        BY <1>1, <2>2 DEF WindowInv, WindowBegan, Before
      <4>2. ASSUME NEW i \in (n - M) + 1 .. (n - M) + M
            PROVE  passed[i] \in now - Second + 1 .. now
        <5>1. i \in 1 .. n /\ n - M + 1 \in 1 .. n /\ n - M + 1 <= i /\ passed[i] \in Nat
          BY <1>1, <4>1
        <5>2. passed[n - M + 1] <= passed[i] /\ passed[i] <= now
          BY <5>1 DEF WindowInv, InOrder
        <5>. QED  BY <1>1, <2>1, <4>1, <5>1, <5>2
      <4>. QED  BY <3>2, <4>1, <4>2
    <3>. QED  BY <2>1, <2>5, <3>1, <3>2
  <2>6. AfterWindow'
    BY <2>1, <2>5 DEF AfterWindow
  <2>. QED  BY <2>3, <2>4, <2>6 DEF WindowInv
<1>6. CASE Above /\ ~Suppress
  <2>1. /\ log_counter >= M /\ log_counter' = 0 /\ timer_start' = timer_start /\ passed' = Append(passed, now)
        /\ suppressed' = suppressed /\ now - timer_start >= Second
    BY <1>1, <1>6 DEF Count, counter, Suppress, Above
  <2>2. Counted = M /\ Counted' = 0 /\ n >= M /\ passed[n - M + 1] = timer_start
    BY <1>1, <2>1 DEF Counted, WindowInv, WindowBegan, Before
  <2>3. passed' \in Seq(Nat) /\ Len(passed') = n + 1 /\ passed'[n + 1] = now /\ \A i \in 1 .. n : passed'[i] = passed[i]
    BY <1>2, <2>1
  <2>4. WindowTypes'
    BY <1>1, <2>1, <2>3 DEF WindowTypes
  <2>5. n + 1 - M \in 1 .. n /\ passed'[n + 1 - M] = timer_start
    <3>1. n + 1 - M \in 1 .. n /\ n + 1 - M = n - M + 1
      BY <1>1, <2>2
    <3>. QED  BY <2>2, <2>3, <3>1
  <2>6. WindowBegan' /\ WindowReset'
    BY <1>1, <2>1, <2>2, <2>3, <2>5 DEF WindowBegan, WindowReset, Before
  <2>7. FarApart'
    <3>. SUFFICES ASSUME NEW i \in 1 .. n + 1, i + 2 * M <= n + 1
                  PROVE  passed'[i + 2 * M] >= passed'[i] + Second
      BY <2>3 DEF FarApart
    <3>1. i \in 1 .. n /\ passed[i] \in Nat
      BY <1>1
    <3>2. CASE i + 2 * M = n + 1
      <4>1. i \in 1 .. n /\ i <= n - M + 1 /\ n - M + 1 \in 1 .. n
        BY <1>1, <2>2, <3>2
      <4>2. passed[i] <= timer_start
        BY <2>2, <4>1 DEF WindowInv, InOrder
      <4>. QED  BY <1>1, <2>1, <2>3, <3>1, <3>2, <4>2
    <3>3. CASE i + 2 * M # n + 1
      <4>1. i + 2 * M <= n /\ i + 2 * M \in 1 .. n
        BY <1>1, <3>3
      <4>. QED  BY <2>3, <3>1, <4>1 DEF WindowInv, FarApart
    <3>. QED  BY <3>2, <3>3
  <2>. QED  BY <1>3, <1>4, <2>1, <2>4, <2>6, <2>7 DEF WindowInv
<1>7. CASE ~Above
  <2>1. /\ log_counter < M /\ log_counter' = log_counter + 1 /\ passed' = Append(passed, now)
        /\ timer_start' = (IF log_counter = 0 THEN now ELSE timer_start)
        /\ suppressed' = suppressed
    BY <1>1, <1>7 DEF Count, counter, Suppress, Above
  <2>0. n - log_counter \in Nat
    BY <1>1, <2>1 DEF Counted, WindowInv, WindowBegan
  <2>. PICK R \in Nat : R = n - log_counter
    BY <2>0
  <2>2. Counted = log_counter /\ Counted' = log_counter + 1 /\ Before = R
    BY <1>1, <2>1 DEF Counted, Before
  <2>3. passed' \in Seq(Nat) /\ Len(passed') = n + 1 /\ passed'[n + 1] = now /\ \A i \in 1 .. n : passed'[i] = passed[i]
    BY <1>2, <2>1
  <2>4. WindowTypes'
    BY <1>1, <2>1, <2>3 DEF WindowTypes
  <2>5. Before' = R /\ R + 1 \in 1 .. n + 1
    BY <1>1, <2>1, <2>2, <2>3 DEF Before
  <2>6. WindowBegan'
    <3>1. CASE log_counter = 0
      BY <1>1, <2>1, <2>2, <2>3, <2>5, <3>1 DEF WindowBegan
    <3>2. CASE log_counter # 0
      <4>1. R + 1 \in 1 .. n /\ passed[R + 1] = timer_start
        BY <1>1, <2>2, <3>2 DEF WindowInv, WindowBegan
      <4>. QED  BY <1>1, <2>1, <2>2, <2>3, <2>5, <3>2, <4>1 DEF WindowBegan
    <3>. QED  BY <3>1, <3>2
  <2>7. ASSUME R > M
        PROVE  R \in 1 .. n /\ R - M \in 1 .. n /\ passed[R] >= passed[R - M] + Second
    <3>1. R \in 1 .. n /\ R - M \in 1 .. n
      BY <1>1, <2>2, <2>7
    <3>2. passed[R] >= passed[R - M] + Second
      BY <2>2, <2>7 DEF WindowInv, WindowReset
    <3>. QED  BY <3>1, <3>2
  <2>8. WindowReset'
    BY <2>3, <2>5, <2>7 DEF WindowReset
  <2>9. FarApart'
    <3>. SUFFICES ASSUME NEW i \in 1 .. n + 1, i + 2 * M <= n + 1
                  PROVE  passed'[i + 2 * M] >= passed'[i] + Second
      BY <2>3 DEF FarApart
    <3>1. i \in 1 .. n /\ passed[i] \in Nat
      BY <1>1
    <3>2. CASE i + 2 * M = n + 1
      <4>1. i <= R - M /\ R > M
        BY <1>1, <2>1, <3>1, <3>2, Places
      <4>2. R \in 1 .. n /\ R - M \in 1 .. n /\ passed[R] >= passed[R - M] + Second
        BY <2>7, <4>1
      <4>3. passed[R] <= now
        BY <4>2 DEF WindowInv, InOrder
      <4>6. \A j \in 1 .. n : passed[j] \in Nat
        BY <1>1
      <4>4. passed[i] <= passed[R - M]
        BY <3>1, <4>1, <4>2 DEF WindowInv, InOrder
      <4>5. passed'[i + 2 * M] = now /\ passed'[i] = passed[i]
        BY <2>3, <3>1, <3>2
      <4>7. passed[R] \in Nat /\ passed[R - M] \in Nat
        BY <4>2, <4>6, Zenon
      <4>. PICK a, b \in Nat : a = passed[R - M] /\ b = passed[R]
        BY <4>7
      <4>8. b >= a + Second /\ passed[i] <= a /\ b <= now
        BY <4>2, <4>3, <4>4
      <4>9. now >= passed[i] + Second
        <5>1. passed[i] \in Nat /\ now \in Nat /\ Second \in Nat
          BY <1>1, <3>1
        <5>. QED  BY <4>8, <5>1, Apart
      <4>. QED  BY <4>5, <4>9
    <3>3. CASE i + 2 * M # n + 1
      <4>1. i + 2 * M <= n /\ i + 2 * M \in 1 .. n
        BY <1>1, <3>3
      <4>. QED  BY <2>3, <3>1, <4>1 DEF WindowInv, FarApart
    <3>. QED  BY <3>2, <3>3
  <2>. QED  BY <1>3, <1>4, <2>1, <2>4, <2>6, <2>8, <2>9 DEF WindowInv
<1>8. Suppress \/ (Above /\ ~Suppress) \/ ~Above
  BY Zenon DEF Suppress
<1>. QED  BY <1>5, <1>6, <1>7, <1>8

\* Nothing but a log that is taken and the time changes the window.
LEMMA WindowInvTick ==
  ASSUME RateAssumptions, WindowInv, now' \in Nat, now' >= now, UNCHANGED <<log_counter, timer_start, passed, suppressed>>
  PROVE  WindowInv'
<1>1. WindowTypes'
  BY DEF WindowInv, WindowTypes
<1>2. \A i \in 1 .. Len(passed) : passed[i] <= now'
  <2>1. now \in Nat /\ \A i \in 1 .. Len(passed) : passed[i] <= now /\ passed[i] \in Nat
    BY DEF WindowInv, WindowTypes, InOrder
  <2>. QED  BY <2>1
<1>3. InOrder'
  BY <1>2 DEF WindowInv, InOrder
<1>4. WindowBegan' /\ WindowReset' /\ FarApart' /\ AfterWindow'
  BY DEF WindowInv, WindowBegan, WindowReset, FarApart, AfterWindow, Before, Counted
<1>. QED  BY <1>1, <1>3, <1>4 DEF WindowInv

LEMMA Division ==
  ASSUME NEW m \in Nat, m >= 1, NEW i \in Nat
  PROVE  i = m * (i \div m) + (i % m) /\ i \div m \in Int /\ i % m \in 0 .. m - 1
<1>1. i = m * (i \div m) + (i % m)
  OBVIOUS
<1>2. i \div m \in Int
  OBVIOUS
<1>3. i % m \in 0 .. m - 1
  OBVIOUS
<1>. QED  BY <1>1, <1>2, <1>3

\* Numbers less than m apart are told apart by their remainders.
LEMMA Remainders ==
  ASSUME NEW m \in Nat, m >= 1, NEW i \in Nat, NEW j \in Nat, i % m = j % m, i <= j, j < i + m
  PROVE  i = j
<1>1. PICK q \in Int : i = m * q + (i % m)
  BY Division
<1>2. PICK p \in Int : j = m * p + (j % m)
  BY Division
<1>. PICK r \in Nat : r = i % m
  BY Division
<1>3. CASE p >= q + 1
  <2>1. m * p >= m * (q + 1)
    BY <1>3
  <2>. QED  BY <1>1, <1>2, <2>1
<1>4. CASE p <= q
  <2>1. m * p <= m * q
    BY <1>4
  <2>. QED  BY <1>1, <1>2, <2>1
<1>. QED  BY <1>3, <1>4

LEMMA Injects ==
  ASSUME NEW S, NEW T, NEW f \in [S -> T], \A i, j \in S : f[i] = f[j] => i = j
  PROVE  f \in Injection(S, T)
BY DEF Injection, IsInjective

LEMMA WindowIsBounded ==
  ASSUME RateAssumptions, WindowInv
  PROVE  RateBounded /\ SuppressedOnlyAbove
<1>. DEFINE M == 2 * MAX_LOG_RATE
<1>1. M \in Nat /\ M >= 1 /\ MAX_LOG_RATE \in Nat /\ Second \in Nat /\ Len(passed) \in Nat /\ DOMAIN passed = 1 .. Len(passed)
  BY DEF RateAssumptions, WindowInv, WindowTypes
<1>2. \A i \in 1 .. Len(passed) : passed[i] \in Nat
  BY DEF WindowInv, WindowTypes
<1>3. ASSUME NEW s \in 0 .. now
      PROVE  PassedIn(s, s + Second - 1) <= 2 * MAX_LOG_RATE
  <2>. DEFINE S == {i \in DOMAIN passed : passed[i] \in s .. s + Second - 1}
  <2>1. ASSUME NEW i \in S, NEW j \in S, i <= j, i % M = j % M
        PROVE  i = j
    <3>1. i \in 1 .. Len(passed) /\ j \in 1 .. Len(passed) /\ passed[j] <= s + Second - 1 /\ s <= passed[i]
      BY <1>1
    <3>2. ~(i + M <= j)
      <4>. SUFFICES ASSUME i + M <= j PROVE FALSE
        OBVIOUS
      <4>1. i + M \in 1 .. Len(passed)
        BY <1>1, <3>1
      <4>2. passed[i + M] >= passed[i] + Second /\ passed[i + M] <= passed[j]
        BY <3>1, <4>1 DEF WindowInv, FarApart, InOrder
      <4>3. passed[i] \in Nat /\ passed[j] \in Nat /\ passed[i + M] \in Nat /\ s \in Nat
        BY <1>2, <3>1, <4>1
      <4>. QED  BY <1>1, <3>1, <4>2, <4>3
    <3>3. i \in Nat /\ j \in Nat /\ j < i + M
      BY <1>1, <3>1, <3>2
    <3>. QED  BY <1>1, <2>1, <3>3, Remainders
  <2>2. ASSUME NEW i \in S
        PROVE  i % M \in 0 .. M - 1
    <3>1. i \in Nat
      BY <1>1
    <3>. QED  BY <1>1, <3>1, Division
  <2>3. \A i, j \in S : i % M = j % M => i = j
    <3>1. \A i, j \in S : i <= j \/ j <= i
      BY <1>1
    <3>. QED  BY <2>1, <3>1
  <2>4. PICK f : f = [i \in S |-> i % M]
    OBVIOUS
  <2>6. f \in [S -> 0 .. M - 1]
    BY <2>2, <2>4
  <2>7. \A i, j \in S : f[i] = f[j] => i = j
    BY <2>3, <2>4, Zenon
  <2>8. f \in Injection(S, 0 .. M - 1)
    <3>. HIDE DEF S, M
    <3>. QED  BY <2>6, <2>7, Injects
  <2>5. IsFiniteSet(0 .. M - 1) /\ Cardinality(0 .. M - 1) = M
    <3>1. 0 \in Int /\ M - 1 \in Int /\ ~(0 > M - 1) /\ (M - 1) - 0 + 1 = M
      BY <1>1
    <3>. HIDE DEF M
    <3>. QED  BY <3>1, FS_Interval
  <2>. QED  BY <2>5, <2>8, FS_Injection DEF PassedIn
<1>4. ASSUME NEW s \in suppressed
      PROVE  PassedIn(s - Second + 1, s) >= MAX_LOG_RATE
  <2>. DEFINE S == {i \in DOMAIN passed : passed[i] \in s - Second + 1 .. s}
  <2>1. PICK k \in 0 .. Len(passed) - MAX_LOG_RATE : \A i \in k + 1 .. k + MAX_LOG_RATE : passed[i] \in s - Second + 1 .. s
    BY DEF WindowInv, AfterWindow
  <2>2. k + 1 .. k + MAX_LOG_RATE \subseteq S
    BY <1>1, <2>1
  <2>3. IsFiniteSet(S)
    <3>1. IsFiniteSet(1 .. Len(passed)) /\ S \subseteq 1 .. Len(passed)
      BY <1>1, FS_Interval
    <3>. QED  BY <3>1, FS_Subset
  <2>4. Cardinality(k + 1 .. k + MAX_LOG_RATE) <= Cardinality(S)
    BY <2>2, <2>3, FS_Subset
  <2>5. Cardinality(k + 1 .. k + MAX_LOG_RATE) = MAX_LOG_RATE
    <3>1. k \in Nat /\ MAX_LOG_RATE >= 1
      BY <1>1, <2>1 DEF RateAssumptions
    <3>. QED  BY <1>1, <3>1, FS_Interval
  <2>. QED  BY <2>4, <2>5 DEF PassedIn
<1>. QED  BY <1>3, <1>4 DEF RateBounded, SuppressedOnlyAbove
----------------------------------------------------------------------------
(* --- the invariant -------------------------------------------------------- *)
Others == now \in 0 .. MaxTime /\ pipeline \in AllRuns /\ tried \subseteq 1 .. posts /\ CountedTaken
IInv == DocInv /\ WindowInv /\ Others

Assumptions == RateAssumptions /\ MaxTime \in Nat

LEMMA InitIInv == Assumptions /\ Init => IInv
<1>. SUFFICES ASSUME Assumptions, Init PROVE IInv
  OBVIOUS
<1>1. index_service = <<>> /\ es = <<>> /\ worker = [t \in Thread |-> <<>>] /\ posts = 0 /\ run = 0
  BY DEF Init, Idle
<1>2. \A w : w \notin Stamped
  <2>1. Range(index_service) = {} /\ Range(es) = {} /\ \A t \in Thread : Range(worker[t]) = {}
    BY <1>1, RangeOfOne DEF Idle
  <2>2. ASSUME NEW w, w \in Stamped
        PROVE  FALSE
    <3>1. w \in {} \/ (\E t \in Thread : w \in {})
      BY <2>1, <2>2, StampedIs
    <3>. QED  BY <3>1
  <2>. QED  BY <2>2
<1>3. Shape
  <2>1. <<>> \in Seq(Works) /\ <<>> \in Seq(Docs) /\ 0 \in AllRuns
    BY DEF AllRuns
  <2>2. worker \in [Thread -> Seq(Works)]
    BY <1>1, <2>1
  <2>3. index_service \in Seq(Works) /\ es \in Seq(Docs)
    BY <1>1, <2>1, Zenon
  <2>4. posts \in Nat /\ run \in AllRuns
    BY <1>1, <2>1
  <2>. QED  BY <2>2, <2>3, <2>4 DEF Shape
<1>4. OneWork /\ QueueInOrder /\ QueueAfterHeld /\ QueueAfterDocs /\ HeldOnce /\ NotThere /\ AtMostOnce
  BY <1>1 DEF OneWork, QueueInOrder, QueueAfterHeld, QueueAfterDocs, HeldOnce, NotThere, AtMostOnce, Idle
<1>5. Known /\ Ordered
  BY <1>2 DEF Known, Ordered
<1>6. passed = <<>> /\ log_counter = 0 /\ timer_start = 0 /\ now = 0 /\ suppressed = {} /\ Len(passed) = 0
  BY DEF Init
<1>7. WindowTypes /\ InOrder /\ FarApart /\ AfterWindow
  BY <1>6 DEF WindowTypes, InOrder, FarApart, AfterWindow
<1>8. Counted = 0 /\ Before = 0 /\ MAX_LOG_RATE \in Nat
  BY <1>6 DEF Counted, Before, Assumptions, RateAssumptions
<1>9. WindowBegan /\ WindowReset
  BY <1>6, <1>8 DEF WindowBegan, WindowReset
<1>10. Others
  BY <1>1, <1>6 DEF Others, CountedTaken, AllRuns, Assumptions, Init
<1>. QED  BY <1>3, <1>4, <1>5, <1>7, <1>9, <1>10 DEF IInv, DocInv, WindowInv

\* What is posted is a work with the next id and the present time.
LEMMA PostedWork ==
  ASSUME Shape, now \in Nat, NEW k \in AllKinds, NEW u \in {"unit", "format"}, NEW r \in AllRuns
  PROVE  /\ Work(k, u) \in Works /\ Work(k, u).id = posts + 1 /\ Work(k, u).timestamp = now
         /\ [Work(k, u) EXCEPT !.run = r] \in Works /\ [Work(k, u) EXCEPT !.run = r].id = posts + 1
         /\ [Work(k, u) EXCEPT !.run = r].timestamp = now
BY DEF Shape, Work, Works

\* What is measured is a work with the next id and its packet's time.
LEMMA MeasuredWork ==
  ASSUME Shape, now \in Nat, NEW k \in AllKinds, NEW u \in {"unit", "format"}, NEW p \in Nat
  PROVE  /\ [Work(k, u) EXCEPT !.timestamp = p] \in Works
         /\ [Work(k, u) EXCEPT !.timestamp = p].id = posts + 1
         /\ [Work(k, u) EXCEPT !.timestamp = p].kind = k
<1>. DEFINE w == [id |-> posts + 1, kind |-> k, unit |-> u, timestamp |-> p, run |-> run, attempts |-> 0]
<1>1. w \in Works
  BY DEF Shape, Works
<1>2. [Work(k, u) EXCEPT !.timestamp = p] = w
  BY DEF Work
<1>. QED  BY <1>1, <1>2

\* The document of a work, and the work once more.
LEMMA Retried ==
  ASSUME NEW w \in Works, pipeline \in AllRuns
  PROVE  /\ Indexed(w) \in Docs /\ Indexed(w).id = w.id /\ Indexed(w).timestamp = w.timestamp
         /\ Indexed(w).kind = w.kind /\ [w EXCEPT !.attempts = @ + 1].kind = w.kind
         /\ [w EXCEPT !.attempts = @ + 1] \in Works /\ [w EXCEPT !.attempts = @ + 1].id = w.id
         /\ [w EXCEPT !.attempts = @ + 1].timestamp = w.timestamp
         /\ Again(w) = Idle \/ (MAX_ELASTIC_ATTEMPTS # 1 /\ Again(w) = <<[w EXCEPT !.attempts = @ + 1]>>)
<1>1. /\ Indexed(w) \in Docs /\ Indexed(w).id = w.id /\ Indexed(w).timestamp = w.timestamp
      /\ Indexed(w).kind = w.kind
  BY DEF Indexed, Works, Docs
<1>2. /\ [w EXCEPT !.attempts = @ + 1] \in Works /\ [w EXCEPT !.attempts = @ + 1].id = w.id
      /\ [w EXCEPT !.attempts = @ + 1].timestamp = w.timestamp /\ [w EXCEPT !.attempts = @ + 1].kind = w.kind
  BY DEF Works
<1>3. w.attempts \in Nat
  BY DEF Works
<1>4. MAX_ELASTIC_ATTEMPTS = 1 => ~(w.attempts + 1 < MAX_ELASTIC_ATTEMPTS)
  BY <1>3
<1>5. Again(w) = Idle \/ (MAX_ELASTIC_ATTEMPTS # 1 /\ Again(w) = <<[w EXCEPT !.attempts = @ + 1]>>)
  BY <1>4, Zenon DEF Again
<1>. QED  BY <1>1, <1>2, <1>5

LEMMA DocInvNext ==
  ASSUME DocInv, now \in Nat, pipeline \in AllRuns, [Next]_vars
  PROVE  DocInv'
<1>. USE DEF DocInv
<1>1. CASE UNCHANGED vars
  <2>1. UNCHANGED <<index_service, worker, es, posts, run, now>>
    BY <1>1 DEF vars
  <2>. QED  BY <2>1, DocInvUnchanged
<1>2. CASE Tick
  <2>1. UNCHANGED <<index_service, worker, es, posts, run>> /\ now' = now + 1
    BY <1>2 DEF Tick
  <2>. QED  BY <2>1, DocInvUnchanged
<1>3. CASE log
  <2>1. Post(Work("log", "unit")) /\ UNCHANGED <<worker, now, es, run>>
    BY <1>3 DEF log, window
  <2>2. run' \in AllRuns
    BY <2>1 DEF Shape
  <2>3. Work("log", "unit") \in Works /\ Work("log", "unit").id = posts + 1 /\ Work("log", "unit").timestamp = now
    BY PostedWork DEF AllKinds, Shape
  <2>. QED  BY <2>1, <2>2, <2>3, DocInvPost
<1>4. CASE document
  <2>1. PICK kind \in Kinds : Post(Work(kind, "unit")) /\ UNCHANGED <<worker, now, es, run>>
    BY <1>4 DEF document, window
  <2>2. run' \in AllRuns /\ kind \in AllKinds
    BY <2>1 DEF Shape, AllKinds
  <2>3. Work(kind, "unit") \in Works /\ Work(kind, "unit").id = posts + 1 /\ Work(kind, "unit").timestamp = now
    BY <2>2, PostedWork DEF Shape
  <2>. QED  BY <2>1, <2>2, <2>3, DocInvPost
<1>13. CASE measurement
  <2>1. PICK kind \in Kinds \cap Measured, packet \in 0 .. MaxTime :
               Post([Work(kind, "unit") EXCEPT !.timestamp = packet]) /\ UNCHANGED <<worker, now, es, run>>
    BY <1>13 DEF measurement, window
  <2>. DEFINE w == [Work(kind, "unit") EXCEPT !.timestamp = packet]
  <2>2. run' \in AllRuns /\ kind \in AllKinds /\ packet \in Nat
    BY <2>1 DEF Shape, AllKinds
  <2>3. w \in Works /\ w.id = posts + 1 /\ w.kind = kind
    BY <2>2, MeasuredWork DEF Shape
  <2>4. ~Timed(w)
    BY <2>1, <2>3 DEF Timed
  <2>. HIDE DEF w
  <2>. QED  BY <2>1, <2>2, <2>3, <2>4, DocInvPost DEF w
<1>5. CASE postRun
  <2>1. PICK r \in Runs : run' = r /\ Post([Work("run", "unit") EXCEPT !.run = r]) /\ UNCHANGED <<worker, now, es>>
    BY <1>5 DEF postRun, window
  <2>2. run' \in AllRuns /\ r \in AllRuns /\ "run" \in AllKinds
    BY <2>1 DEF AllRuns, AllKinds
  <2>. DEFINE w == [Work("run", "unit") EXCEPT !.run = r]
  <2>3. w \in Works /\ w.id = posts + 1 /\ w.timestamp = now
    BY <2>2, PostedWork
  <2>. HIDE DEF w
  <2>. QED  BY <2>1, <2>2, <2>3, DocInvPost DEF w
<1>6. CASE stop_and_join
  <2>1. UNCHANGED <<index_service, worker, es, posts, run, now>>
    BY <1>6 DEF stop_and_join, window
  <2>. QED  BY <2>1, DocInvUnchanged
<1>7. ASSUME NEW t \in Thread, Take(t)
      PROVE  DocInv'
  <2>1. /\ worker[t] = Idle /\ index_service # <<>> /\ index_service' = Tail(index_service)
        /\ UNCHANGED <<es, posts, run>>
    BY <1>7 DEF Take
  <2>2. worker' = worker \/ worker' = [worker EXCEPT ![t] = <<Head(index_service)>>]
    BY <1>7, Zenon DEF Take
  <2>3. now' = now
    BY <1>7 DEF Take, window, Count
  <2>. QED  BY <2>1, <2>2, <2>3, DocInvTake
<1>8. \A t \in Thread : \A w \in Range(worker[t]) : w \in Works
  BY StampedTypes DEF Range
<1>9. ASSUME NEW t \in Thread, Succeed(t)
      PROVE  DocInv'
  <2>1. PICK w \in Range(worker[t]) : /\ es' = Append(es, Indexed(w)) /\ worker' = [worker EXCEPT ![t] = Idle]
                                      /\ UNCHANGED <<index_service, posts, run, now>>
    BY <1>9 DEF Succeed, window
  <2>. QED  BY <1>8, <2>1, Retried, DocInvDone
<1>10. ASSUME NEW t \in Thread, Fail(t)
       PROVE  DocInv'
  <2>1. PICK w \in Range(worker[t]) : /\ es' = es \/ es' = Append(es, Indexed(w))
                                      /\ worker' = [worker EXCEPT ![t] = Again(w)]
                                      /\ UNCHANGED <<index_service, posts, run, now>>
    BY <1>10 DEF Fail, window
  <2>. DEFINE v == [w EXCEPT !.attempts = @ + 1]
  <2>2. /\ w \in Works /\ Indexed(w) \in Docs /\ Indexed(w).id = w.id /\ Indexed(w).timestamp = w.timestamp
        /\ v \in Works /\ v.id = w.id /\ v.timestamp = w.timestamp /\ v.kind = w.kind /\ Indexed(w).kind = w.kind
        /\ Again(w) = Idle \/ (MAX_ELASTIC_ATTEMPTS # 1 /\ Again(w) = <<v>>)
    BY <1>8, Retried
  <2>. HIDE DEF v
  <2>. QED  BY <2>1, <2>2, DocInvDone
<1>11. ASSUME NEW t \in Thread, SetRun(t)
       PROVE  DocInv'
  <2>1. PICK w \in Range(worker[t]) : /\ worker' = [worker EXCEPT ![t] = Idle]
                                      /\ UNCHANGED <<index_service, es, posts, run, now>>
    BY <1>11 DEF SetRun, window
  <2>. QED  BY <1>8, <2>1, Retried, DocInvDone
<1>12. ASSUME NEW t \in Thread, FailRun(t)
       PROVE  DocInv'
  <2>1. Post(Work("log", "format")) /\ worker' = [worker EXCEPT ![t] = Idle] /\ UNCHANGED <<now, es, run>>
    BY <1>12 DEF FailRun, window
  <2>2. run' \in AllRuns
    BY <2>1 DEF Shape
  <2>3. Work("log", "format") \in Works /\ Work("log", "format").id = posts + 1 /\ Work("log", "format").timestamp = now
    BY PostedWork DEF AllKinds, Shape
  <2>. QED  BY <2>1, <2>2, <2>3, DocInvPost
<1>. QED
  BY <1>1, <1>2, <1>3, <1>4, <1>5, <1>6, <1>7, <1>9, <1>10, <1>11, <1>12, <1>13 DEF Next, Index

LEMMA WindowInvNext ==
  ASSUME RateAssumptions, WindowInv, [Next]_vars
  PROVE  WindowInv'
<1>1. now \in Nat
  BY DEF WindowInv, WindowTypes
<1>2. CASE UNCHANGED window
  <2>1. now' = now /\ UNCHANGED <<log_counter, timer_start, passed, suppressed>>
    BY <1>2 DEF window
  <2>. QED  BY <1>1, <2>1, WindowInvTick
<1>3. CASE Tick
  <2>1. now' = now + 1 /\ UNCHANGED <<log_counter, timer_start, passed, suppressed>>
    BY <1>3 DEF Tick
  <2>. QED  BY <1>1, <2>1, WindowInvTick
<1>4. CASE Count
  BY <1>4, WindowInvCount
<1>5. UNCHANGED window \/ Tick \/ Count
  <2>1. CASE UNCHANGED vars
    BY <2>1 DEF vars, window
  <2>2. CASE log \/ document \/ measurement \/ postRun \/ stop_and_join
    BY <2>2, Zenon DEF log, document, measurement, postRun, stop_and_join
  <2>3. ASSUME NEW t \in Thread, Take(t)
        PROVE  UNCHANGED window \/ Count
    BY <2>3, Zenon DEF Take
  <2>4. ASSUME NEW t \in Thread, Index(t)
        PROVE  UNCHANGED window
    BY <2>4, Zenon DEF Index, Succeed, Fail, SetRun, FailRun
  <2>. QED  BY <2>1, <2>2, <2>3, <2>4, Zenon DEF Next
<1>. QED  BY <1>2, <1>3, <1>4, <1>5

LEMMA OthersNext ==
  ASSUME MaxTime \in Nat, DocInv, WindowInv, Others, [Next]_vars
  PROVE  Others'
<1>. USE DEF Others
<1>. DEFINE q == index_service
<1>1. /\ q \in Seq(Works) /\ Len(q) \in Nat /\ posts \in Nat /\ log_counter \in Nat /\ now \in 0 .. MaxTime
      /\ log_counter + Len(q) <= posts /\ pipeline \in AllRuns /\ tried \subseteq 1 .. posts
  BY DEF DocInv, Shape, WindowInv, WindowTypes, CountedTaken
<1>2. \A t \in Thread : \A w \in Range(worker[t]) : w.id \in 1 .. posts /\ w.run \in AllRuns
  <2>. SUFFICES ASSUME NEW t \in Thread, NEW w \in Range(worker[t])
                PROVE  w.id \in 1 .. posts /\ w.run \in AllRuns
    OBVIOUS
  <2>1. w \in Works /\ w \in Stamped
    BY StampedTypes DEF DocInv, Range
  <2>. QED  BY <2>1 DEF DocInv, Known, Works
<1>3. ASSUME NEW w \in Works, Post(w), UNCHANGED <<now, log_counter, pipeline>>,
             \/ tried' = tried
             \/ \E t \in Thread : \E x \in Range(worker[t]) : tried' = tried \cup {x.id}
      PROVE  Others'
  <2>1. Len(q') = Len(q) + 1 /\ posts' = posts + 1
    BY <1>1, <1>3, RangeOfAppend DEF Post
  <2>2. tried' \subseteq 1 .. posts
    <3>1. CASE tried' = tried
      BY <1>1, <3>1
    <3>2. ASSUME NEW t \in Thread, NEW x \in Range(worker[t]), tried' = tried \cup {x.id}
          PROVE  tried' \subseteq 1 .. posts
      <4>1. x.id \in 1 .. posts
        BY <1>2, Zenon
      <4>. QED  BY <1>1, <3>2, <4>1
    <3>. QED  BY <1>3, <3>1, <3>2, Zenon
  <2>3. tried' \subseteq 1 .. posts'
    BY <1>1, <2>1, <2>2
  <2>4. CountedTaken'
    BY <1>1, <1>3, <2>1 DEF CountedTaken
  <2>. QED  BY <1>1, <1>3, <2>3, <2>4
<1>4. ASSUME UNCHANGED <<q, posts, log_counter>>, now' \in 0 .. MaxTime, pipeline' \in AllRuns,
             \/ tried' = tried
             \/ \E t \in Thread : \E x \in Range(worker[t]) : tried' = tried \cup {x.id}
      PROVE  Others'
  <2>1. tried' \subseteq 1 .. posts
    <3>1. CASE tried' = tried
      BY <1>1, <3>1
    <3>2. ASSUME NEW t \in Thread, NEW x \in Range(worker[t]), tried' = tried \cup {x.id}
          PROVE  tried' \subseteq 1 .. posts
      <4>1. x.id \in 1 .. posts
        BY <1>2, Zenon
      <4>. QED  BY <1>1, <3>2, <4>1
    <3>. QED  BY <1>4, <3>1, <3>2, Zenon
  <2>. QED  BY <1>1, <1>4, <2>1 DEF CountedTaken
<1>5. CASE UNCHANGED vars \/ Tick \/ stop_and_join
  <2>1. now' \in 0 .. MaxTime
    BY <1>1, <1>5 DEF vars, Tick, stop_and_join, window
  <2>. QED  BY <1>1, <1>4, <1>5, <2>1 DEF vars, Tick, stop_and_join, window
<1>6. now \in Nat /\ Shape
  BY <1>1 DEF DocInv
<1>7. CASE log
  <2>1. Work("log", "unit") \in Works
    BY <1>6, PostedWork DEF AllKinds, Shape
  <2>. QED  BY <1>3, <1>7, <2>1 DEF log, window
<1>8. CASE document
  <2>1. PICK kind \in Kinds : Post(Work(kind, "unit")) /\ UNCHANGED <<window, pipeline, tried>>
    BY <1>8 DEF document
  <2>2. Work(kind, "unit") \in Works
    BY <1>6, PostedWork DEF AllKinds, Shape
  <2>. QED  BY <1>3, <2>1, <2>2 DEF window
<1>14. CASE measurement
  <2>1. PICK kind \in Kinds \cap Measured, packet \in 0 .. MaxTime :
               /\ Post([Work(kind, "unit") EXCEPT !.timestamp = packet])
               /\ UNCHANGED <<window, pipeline, tried>>
    BY <1>14 DEF measurement
  <2>2. packet \in Nat /\ kind \in AllKinds
    BY <2>1 DEF AllKinds
  <2>3. [Work(kind, "unit") EXCEPT !.timestamp = packet] \in Works
    BY <1>6, <2>2, MeasuredWork
  <2>. QED  BY <1>3, <2>1, <2>3 DEF window
<1>9. CASE postRun
  <2>1. PICK r \in Runs : Post([Work("run", "unit") EXCEPT !.run = r]) /\ UNCHANGED <<window, pipeline, tried>>
    BY <1>9 DEF postRun
  <2>2. [Work("run", "unit") EXCEPT !.run = r] \in Works
    BY <1>6, PostedWork DEF AllKinds, AllRuns
  <2>. QED  BY <1>3, <2>1, <2>2 DEF window
<1>10. ASSUME NEW t \in Thread, Take(t)
       PROVE  Others'
  <2>1. /\ q # <<>> /\ q' = Tail(q) /\ UNCHANGED <<pipeline, posts, now>>
        /\ log_counter' \in {log_counter, log_counter + 1, 0}
        /\ tried' = tried \/ tried' = tried \cup {Head(q).id}
    BY <1>10 DEF Take, window, Count, counter
  <2>2. Len(q) >= 1 /\ Len(q') = Len(q) - 1 /\ Head(q) = q[1]
    BY <1>1, <2>1, RangeOfTail
  <2>3. Head(q).id \in 1 .. posts
    <3>1. q[1] \in Stamped
      BY <1>1, <2>2, StampedTypes DEF DocInv
    <3>. QED  BY <2>2, <3>1 DEF DocInv, Known
  <2>4. tried' \subseteq 1 .. posts'
    BY <1>1, <2>1, <2>3
  <2>5. CountedTaken'
    BY <1>1, <2>1, <2>2 DEF CountedTaken
  <2>. QED  BY <1>1, <2>1, <2>4, <2>5
<1>11. ASSUME NEW t \in Thread, Succeed(t) \/ Fail(t)
       PROVE  Others'
  <2>1. PICK w \in Range(worker[t]) : /\ tried' = tried \/ tried' = tried \cup {w.id}
                                      /\ UNCHANGED <<q, window, pipeline, posts>>
    BY <1>11 DEF Succeed, Fail
  <2>. QED  BY <1>1, <1>4, <2>1 DEF window
<1>12. ASSUME NEW t \in Thread, SetRun(t)
       PROVE  Others'
  <2>1. PICK w \in Range(worker[t]) : /\ tried' = tried \cup {w.id} /\ pipeline' = w.run
                                      /\ UNCHANGED <<q, window, posts>>
    BY <1>12 DEF SetRun
  <2>. QED  BY <1>1, <1>2, <1>4, <2>1 DEF window
<1>13. ASSUME NEW t \in Thread, FailRun(t)
       PROVE  Others'
  <2>1. PICK w \in Range(worker[t]) : /\ tried' = tried \cup {w.id} /\ Post(Work("log", "format"))
                                      /\ UNCHANGED <<window, pipeline>>
    BY <1>13 DEF FailRun
  <2>2. Work("log", "format") \in Works
    BY <1>6, PostedWork DEF AllKinds, Shape
  <2>. QED  BY <1>3, <2>1, <2>2 DEF window
<1>. QED  BY <1>5, <1>7, <1>8, <1>9, <1>10, <1>11, <1>12, <1>13, <1>14 DEF Next, Index

LEMMA StepIInv == Assumptions /\ IInv /\ [Next]_vars => IInv'
<1>. SUFFICES ASSUME Assumptions, IInv, [Next]_vars PROVE IInv'
  OBVIOUS
<1>1. RateAssumptions /\ MaxTime \in Nat /\ DocInv /\ WindowInv /\ Others
  BY DEF Assumptions, IInv
<1>2. now \in Nat /\ pipeline \in AllRuns
  BY <1>1 DEF Others
<1>. QED  BY <1>1, <1>2, DocInvNext, WindowInvNext, OthersNext DEF IInv

\* What the invariant says of the documents.
LEMMA IInvDocuments == IInv => TypeOK /\ OrderMaintained /\ AtMostOnce
<1>. SUFFICES ASSUME IInv PROVE TypeOK /\ OrderMaintained /\ AtMostOnce
  OBVIOUS
<1>1. /\ log_counter \in Nat /\ posts \in Nat /\ index_service \in Seq(Works) /\ timer_start \in 0 .. now
      /\ now \in 0 .. MaxTime /\ pipeline \in AllRuns /\ tried \subseteq 1 .. posts
      /\ log_counter + Len(index_service) <= posts
  BY DEF IInv, DocInv, Shape, WindowInv, WindowTypes, Others, CountedTaken
<1>2. log_counter \in 0 .. posts
  <2>1. Len(index_service) \in Nat
    BY <1>1
  <2>. QED  BY <1>1, <2>1
<1>3. TypeOK
  BY <1>1, <1>2 DEF TypeOK, AllRuns
<1>4. OrderMaintained
  BY StampedTypes DEF IInv, DocInv, Ordered, OrderMaintained
<1>. QED  BY <1>3, <1>4 DEF IInv, DocInv
----------------------------------------------------------------------------
(* --- the theorems ----------------------------------------------------------- *)
\* Everything has its type.
THEOREM TypeCorrect == ASSUME Assumptions PROVE Spec => []TypeOK
<1>1. Init => IInv
  BY InitIInv
<1>2. IInv /\ [Next]_vars => IInv'
  BY StepIInv
<1>3. IInv => TypeOK
  BY IInvDocuments
<1>. QED  BY <1>1, <1>2, <1>3, PTL DEF Spec

\* elastic_interface.h:82: whatever order the threads index in, the times of the documents, but for
\* measurements, are in the order they were posted; and with one attempt no document is there twice, although answers are lost.
THEOREM DocumentsInOrder == ASSUME Assumptions PROVE Spec => [](OrderMaintained /\ AtMostOnce)
<1>1. Init => IInv
  BY InitIInv
<1>2. IInv /\ [Next]_vars => IInv'
  BY StepIInv
<1>3. IInv => OrderMaintained /\ AtMostOnce
  BY IInvDocuments
<1>. QED  BY <1>1, <1>2, <1>3, PTL DEF Spec

\* elastic_interface.cc:230: no second lets through more than two windows' worth of logs, and none is
\* suppressed unless a window's worth went through in the second before.
THEOREM LogRateIsBounded == ASSUME Assumptions PROVE Spec => [](RateBounded /\ SuppressedOnlyAbove)
<1>1. Init => IInv
  BY InitIInv
<1>2. IInv /\ [Next]_vars => IInv'
  BY StepIInv
<1>3. IInv => RateBounded /\ SuppressedOnlyAbove
  BY WindowIsBounded DEF Assumptions, IInv
<1>. QED  BY <1>1, <1>2, <1>3, PTL DEF Spec
=============================================================================
