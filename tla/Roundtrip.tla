------------------------------ MODULE Roundtrip ------------------------------
(* measure_spill_roundtrip.py: a thread polls the time of the White Rabbit      *)
(* switch over SSH and keeps the last ones; another receives spills and writes  *)
(* each with the latest of those times and how old it is.  SSH, the switch and  *)
(* the sender of the spills are external.                                       *)
EXTENDS Integers, Sequences, FiniteSets

CONSTANTS WR_POLLER_FREQ,               \* 0.1 s, in ticks
          WR_POLLER_REPORTING_INTERVAL, \* 20 polls, after which old times are dropped
          Kept,                         \* 10: the polls after which a time is old
          Durations,                    \* how long a command may take, in ticks
          Answers,                      \* of SSH: "time", "odd" (not one line), "ssh" (caught), "other"
          None,
          MaxPolls, MaxSpills           \* bounds: polls, spills

VARIABLES stopping,
          poller, wait_time, \* run_wr_poller: its step, how long it waits
          poll_count,
          g_times,           \* the poll counts whose times are kept
          g_latest_time_key,
          since,             \* the ticks since the latest time was asked for
          receiver,          \* run_spill_receiver
          spill_file,        \* what is written: a poll count, or None, and the age
          faults             \* spills answered with a fault and not written

pollerVars == <<poller, wait_time, poll_count, g_times, g_latest_time_key, since>>
vars == <<stopping, pollerVars, receiver, spill_file, faults>>

Init == /\ stopping = FALSE /\ poller = "connect" /\ wait_time = 0 /\ poll_count = 0
        /\ g_times = {} /\ g_latest_time_key = None /\ since = 0
        /\ receiver = "serving" /\ spill_file = <<>> /\ faults = 0

\* Everything has its type.
TypeOK == /\ stopping \in BOOLEAN /\ wait_time \in Nat /\ since \in Nat
          /\ poller \in {"connect", "look", "wait", "poll", "count", "close", "done", "died"}
          /\ poll_count \in 0 .. MaxPolls /\ g_times \subseteq 0 .. poll_count
          /\ g_latest_time_key \in (0 .. poll_count) \cup {None}
          /\ receiver \in {"serving", "done"} /\ Len(spill_file) + faults <= MaxSpills

PollerOnly == UNCHANGED <<stopping, receiver, spill_file, faults>>
\* A connection that is refused ends the thread, for nothing catches that.
Connect == /\ poller = "connect" /\ poller' \in {"look"} \cup (IF "other" \in Answers THEN {"died"} ELSE {})
           /\ UNCHANGED <<wait_time, poll_count, g_times, g_latest_time_key, since>>

\* What is taken for the time still to wait is the time since the last poll beyond the period.
Max0(t) == IF t > 0 THEN t ELSE 0
WaitTime == Max0(since - WR_POLLER_FREQ)
Found == g_latest_time_key = None \/ g_latest_time_key \in g_times
Look == /\ poller = "look"
        /\ IF stopping THEN poller' = "close" /\ UNCHANGED wait_time
           ELSE IF ~Found THEN poller' = "died" /\ UNCHANGED wait_time
           ELSE poller' = "wait" /\ wait_time' = (IF g_latest_time_key = None THEN 0 ELSE WaitTime)
        /\ UNCHANGED <<poll_count, g_times, g_latest_time_key, since>>
Wait == /\ poller = "wait" /\ wait_time' = 0
        /\ IF stopping THEN poller' = "close" /\ UNCHANGED since
           ELSE poller' = "poll" /\ since' = since + wait_time
        /\ UNCHANGED <<poll_count, g_times, g_latest_time_key>>

\* The command takes its time; only a single line is a time, and its key is the poll's count.
Poll(answer, d) ==
  /\ poller = "poll" /\ poll_count < MaxPolls
  /\ \/ /\ answer = "time" /\ since' = d
        /\ g_times' = g_times \cup {poll_count} /\ g_latest_time_key' = poll_count
     \/ answer \in {"odd", "ssh", "other"} /\ since' = since + d /\ UNCHANGED <<g_times, g_latest_time_key>>
  /\ poller' = (IF answer = "other" THEN "died" ELSE "count")
  /\ UNCHANGED <<wait_time, poll_count>>
\* Every so many polls the old times go, the latest too.
OldOneMore(n) == {k \in g_times : n - k >= Kept}
Old(n) == {k \in g_times : n - k > Kept}
CountPoll == /\ poller = "count" /\ poller' = "look" /\ poll_count' = poll_count + 1
             /\ g_times' = (IF poll_count' % WR_POLLER_REPORTING_INTERVAL = 0
                            THEN g_times \ Old(poll_count') ELSE g_times)
             /\ UNCHANGED <<wait_time, g_latest_time_key, since>>
Close == poller = "close" /\ poller' = "done"
         /\ UNCHANGED <<wait_time, poll_count, g_times, g_latest_time_key, since>>
Poller == (Connect \/ Look \/ Wait \/ CountPoll \/ Close) /\ PollerOnly

(* --- the receiver ------------------------------------------------------------------ *)
\* SpillDispatcher: a spill is written with the latest time, with none if there is none yet,
\* and with a fault to its sender if that time has been dropped.
Dispatch == /\ receiver = "serving" /\ Len(spill_file) + faults < MaxSpills
            /\ IF Found
               THEN /\ spill_file' = Append(spill_file, [key |-> g_latest_time_key, polls |-> poll_count])
                    /\ UNCHANGED faults
               ELSE faults' = faults + 1 /\ UNCHANGED spill_file
            /\ UNCHANGED <<stopping, pollerVars, receiver>>
ReceiverDone == /\ receiver = "serving" /\ stopping /\ receiver' = "done"
                /\ UNCHANGED <<stopping, pollerVars, spill_file, faults>>

signal_handler == ~stopping /\ stopping' = TRUE /\ UNCHANGED <<pollerVars, receiver, spill_file, faults>>

Next == \/ Poller \/ (\E a \in Answers, d \in Durations : Poll(a, d) /\ PollerOnly)
        \/ Dispatch \/ ReceiverDone \/ signal_handler
Spec == Init /\ [][Next]_vars

(* --- properties ----------------------------------------------------------------------- *)
\* The latest time goes, with its key still there, at the first cleaning more than the kept polls
\* after it, and only then; once it has gone the poller gets no other one, and every spill is
\* answered with a fault, as none is before.
LatestKept ==
  /\ g_latest_time_key # None =>
       (Found <=> poll_count - (poll_count % WR_POLLER_REPORTING_INTERVAL) - g_latest_time_key <= Kept)
  /\ faults > 0 => ~Found
  /\ ~Found => poller \in {"look", "died", "close", "done"}

\* The latest time is there whatever fails.  Does not hold: the poller dies of it (line 138) and
\* the dispatcher answers with a fault (line 79).
AlwaysFound == Found

\* Successful polls are a period apart.  Does not hold: the wait is longer the longer it has been.
PolledAtPeriod == poller = "poll" /\ g_latest_time_key # None => since >= WR_POLLER_FREQ
=============================================================================
