------------------------------ MODULE Elastic -------------------------------
(* ElasticInterface: what is logged is posted with its time, what is measured *)
(* with that of the packet it comes from, and a few threads index it over the *)
(* network, one document or thirty at a time.                                *)
(* A rate of logs above the limit is suppressed.  Elasticsearch adds the run *)
(* of its ingest pipeline to each document.                                  *)
EXTENDS Integers, Sequences, FiniteSets, Functions

CONSTANTS Thread,                 \* n_index_threads
          MAX_LOG_RATE, MAX_ELASTIC_ATTEMPTS,
          es_enabled, es_min_severity,
          Severities, Kinds,      \* what is posted: severities of logs, and other kinds
          Second, MaxTime, MaxPosts, Runs \* bounds: ticks in a second, ticks, posts; runs

VARIABLES index_service,  \* posted work, in order
          stopped,        \* stop_and_join was called
          worker,         \* what each thread is doing: nothing, or one piece of work
          now, log_counter, timer_start,
          pipeline,       \* run of the ingest pipeline
          es,             \* documents in elasticsearch
          posts, run,     \* history: documents posted; the run that was last posted
          passed, suppressed, \* history: when logs were let through and suppressed
          tried           \* history: documents with which a thread is done
vars == <<index_service, stopped, worker, now, log_counter, timer_start, pipeline, es, posts, run, passed,
          suppressed, tried>>
window == <<now, log_counter, timer_start, passed, suppressed>>

Idle == <<>>
Init == /\ index_service = <<>> /\ stopped = FALSE /\ worker = [t \in Thread |-> Idle] /\ now = 0
        /\ log_counter = 0 /\ timer_start = 0 /\ pipeline = 0 /\ es = <<>> /\ posts = 0 /\ run = 0
        /\ passed = <<>> /\ suppressed = {} /\ tried = {}

Tick == now < MaxTime /\ now' = now + 1 /\ UNCHANGED <<index_service, stopped, worker, log_counter, timer_start,
                                                      pipeline, es, posts, run, passed, suppressed, tried>>

(* --- posting --------------------------------------------------------------------- *)
\* Logging::log: the names and the order of the severities.
severityFromString == [TRACE |-> 0, DEBUG |-> 1, INFO |-> 2, WARNING |-> 3, ERROR |-> 4, FATAL |-> 5]
logToES(level) == es_enabled /\ severityFromString[level] >= severityFromString[es_min_severity]

Work(kind, unit) == [id |-> posts + 1, kind |-> kind, unit |-> unit, timestamp |-> now, run |-> run, attempts |-> 0]
Post(w) == index_service' = Append(index_service, w) /\ posts' = posts + 1
log == \E level \in Severities :
         /\ posts < MaxPosts /\ logToES(level) /\ Post(Work("log", "unit"))
         /\ UNCHANGED <<stopped, worker, window, pipeline, es, run, tried>>
\* pom and channel have the time of the monitoring packet; state, document and value the present.
Measured == {"pom", "channel"}
Timed(w) == w.kind \notin Measured
document == \E kind \in Kinds \ Measured :
              /\ posts < MaxPosts /\ Post(Work(kind, "unit"))
              /\ UNCHANGED <<stopped, worker, window, pipeline, es, run, tried>>
measurement == \E kind \in Kinds \cap Measured, packet \in 0 .. MaxTime :
                 /\ posts < MaxPosts /\ Post([Work(kind, "unit") EXCEPT !.timestamp = packet])
                 /\ UNCHANGED <<stopped, worker, window, pipeline, es, run, tried>>
postRun == \E r \in Runs : /\ posts < MaxPosts /\ r = run + 1 /\ run' = r
                           /\ Post([Work("run", "unit") EXCEPT !.run = r])
                           /\ UNCHANGED <<stopped, worker, window, pipeline, es, tried>>
stop_and_join == ~stopped /\ stopped' = TRUE /\ UNCHANGED <<index_service, worker, window, pipeline, es, posts, run, tried>>

(* --- the threads ------------------------------------------------------------------- *)
\* suppress: above the rate, everything in the second after the window began.
Above == log_counter >= MAX_LOG_RATE
\* Forgetting the time, or the rate.
SuppressForever == Above
SuppressNever == Above /\ now < timer_start
Suppress == Above /\ now - timer_start < Second
\* Never counting from zero again.
counterAlways == IF Suppress THEN log_counter + 2 ELSE log_counter + 1
counter == IF Above /\ ~Suppress THEN 0 ELSE log_counter + 1
Count == /\ log_counter' = counter /\ timer_start' = IF log_counter = 0 THEN now ELSE timer_start
         /\ passed' = IF Suppress THEN passed ELSE Append(passed, now)
         /\ suppressed' = IF Suppress THEN suppressed \cup {now} ELSE suppressed
         /\ UNCHANGED now

Take(t) ==
  /\ ~stopped /\ worker[t] = Idle /\ index_service # <<>> /\ index_service' = Tail(index_service)
  /\ UNCHANGED <<stopped, pipeline, es, posts, run>>
  /\ LET w == Head(index_service) IN
     \/ w.kind # "log" /\ worker' = [worker EXCEPT ![t] = <<w>>] /\ UNCHANGED <<window, tried>>
     \/ w.kind = "log" /\ ~Suppress /\ Count /\ worker' = [worker EXCEPT ![t] = <<w>>] /\ UNCHANGED tried
     \/ w.kind = "log" /\ Suppress /\ Count /\ UNCHANGED worker /\ tried' = tried \cup {w.id}

\* The time of indexing.
IndexedNow(w) == [id |-> w.id, kind |-> w.kind, unit |-> w.unit, timestamp |-> now, posted |-> w.run, run |-> pipeline]
Indexed(w) == [id |-> w.id, kind |-> w.kind, unit |-> w.unit, timestamp |-> w.timestamp, posted |-> w.run, run |-> pipeline]
Documents == {w \in UNION {Range(worker[t]) : t \in Thread} : w.kind # "run"}

\* index, channelWork: answered; or failed, or answered with a failure, until there are enough attempts.
Succeed(t) == \E w \in Range(worker[t]) \cap Documents :
  /\ es' = Append(es, Indexed(w)) /\ worker' = [worker EXCEPT ![t] = Idle] /\ tried' = tried \cup {w.id}
  /\ UNCHANGED <<index_service, stopped, window, pipeline, posts, run>>
\* An exception ends the thread.
AgainNever(w) == <<[w EXCEPT !.kind = "run", !.attempts = -1]>>
AgainTwice(w) == IF w.attempts + 1 <= MAX_ELASTIC_ATTEMPTS THEN <<[w EXCEPT !.attempts = @ + 1]>> ELSE Idle
Again(w) == IF w.attempts + 1 < MAX_ELASTIC_ATTEMPTS THEN <<[w EXCEPT !.attempts = @ + 1]>> ELSE Idle
\* The document may be there although the answer is lost.
Fail(t) == \E w \in Range(worker[t]) \cap Documents, there \in BOOLEAN :
  /\ es' = (IF there THEN Append(es, Indexed(w)) ELSE es) /\ worker' = [worker EXCEPT ![t] = Again(w)]
  /\ tried' = IF Again(w) = Idle THEN tried \cup {w.id} ELSE tried
  /\ UNCHANGED <<index_service, stopped, window, pipeline, posts, run>>

\* runWork: the pipeline is put, or a log of the failure is posted: its first argument is the unit.
SetRun(t) == \E w \in Range(worker[t]) \ Documents :
  /\ w.attempts = 0
  /\ pipeline' = w.run /\ worker' = [worker EXCEPT ![t] = Idle] /\ tried' = tried \cup {w.id}
  /\ UNCHANGED <<index_service, stopped, window, es, posts, run>>
FailRun(t) == \E w \in Range(worker[t]) \ Documents :
  /\ w.attempts = 0
  /\ Post(Work("log", "format")) /\ worker' = [worker EXCEPT ![t] = Idle] /\ tried' = tried \cup {w.id}
  /\ UNCHANGED <<stopped, window, pipeline, es, run>>

Index(t) == Succeed(t) \/ Fail(t) \/ SetRun(t) \/ FailRun(t)
Next == Tick \/ log \/ document \/ measurement \/ postRun \/ stop_and_join \/ \E t \in Thread : Take(t) \/ Index(t)
Spec == Init /\ [][Next]_vars
\* Every thread goes on; elasticsearch answers or the attempt fails.
FairSpec == Spec /\ \A t \in Thread : WF_vars(Take(t)) /\ WF_vars(Index(t))

(* --- properties ------------------------------------------------------------------------ *)
\* Everything has its type.
TypeOK == /\ now \in 0 .. MaxTime /\ log_counter \in 0 .. posts /\ timer_start \in 0 .. now
          /\ pipeline \in {0} \cup Runs /\ tried \subseteq 1 .. posts

\* elastic_interface.h:82: the time is added when called to maintain ordering: whatever order the
\* threads index in, the times of the documents are in the order they were posted, but for the
\* measurements, whose times are their packets'.
OrderMaintained == \A i, j \in DOMAIN es :
  es[i].id < es[j].id /\ Timed(es[i]) /\ Timed(es[j]) => es[i].timestamp <= es[j].timestamp

\* elastic_interface.h:57: with one attempt no document is there twice, although answers are lost.
AtMostOnce == MAX_ELASTIC_ATTEMPTS = 1 => \A i, j \in DOMAIN es : es[i].id = es[j].id => i = j

\* elastic_interface.cc:230: a window may end where the next begins, but no second lets through
\* more than two windows' worth of logs; and nothing is suppressed unless a window's worth was let
\* through in the second before.
PassedIn(from, to) == Cardinality({i \in DOMAIN passed : passed[i] \in from .. to})
RateBounded == \A s \in 0 .. now : PassedIn(s, s + Second - 1) <= 2 * MAX_LOG_RATE
SuppressedOnlyAbove == \A s \in suppressed : PassedIn(s - Second + 1, s) >= MAX_LOG_RATE

\* elastic_interface.cc:191: whatever fails, the threads stay: every document has its attempt, unless
\* the process stops.
Posted(i) == posts >= i
DealtWith(i) == i \in tried \/ stopped
EveryDocumentTried == \A i \in 1 .. MaxPosts : Posted(i) ~> DealtWith(i)

\* elastic_interface.h:186: runWork sets the run number: documents posted in a run have it.
TaggedWithRun == \A i \in DOMAIN es : es[i].run = es[i].posted
\* elastic_interface.h:85: the unit is the component the message comes from.
UnitIsComponent == \A i \in DOMAIN es : es[i].kind = "log" => es[i].unit = "unit"
=============================================================================
