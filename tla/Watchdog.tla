------------------------------ MODULE Watchdog ------------------------------
(* spill_forwarder_watchdog.py: a thread that keeps the forwarder running, one *)
(* that receives the spills the forwarder sends back, one that looks every      *)
(* second whether spills came, and one that looks after the spill server over   *)
(* SSH when they did not.  The forwarder, the server and SSH are external.      *)
EXTENDS Integers, Sequences, FiniteSets

CONSTANTS Signal,     \* MONITORED_SIGNALS
          Threshold,  \* of each of them, in periods of the reporter
          MaxTime,    \* bound: periods
          MaxFaults,  \* bound: exits of the forwarder, ends of the server, failures of SSH
          Failures    \* how SSH fails: "ssh" for what is caught, "other" for what is not

VARIABLES stopping,   \* g_stopping, and whether the child got the signal too
          fwd, forwarderRunning, child,
          loop,       \* run_loopback_receiver
          observed,   \* g_observed_spills
          times,      \* g_observed_spill_times
          arriving,   \* the signal whose dispatch is between its two steps
          rep,        \* run_fsm_reporter: its step
          localSpills, localTimes, newSpills, stale,
          chk,
          requested,  \* whether g_tdu_check_request_id is beyond last_tdu_check_id
          checkRunning,
          server,     \* the spill server
          now, faults,
          heard       \* the time of the last arrival of each signal, and its longest gap

threadVars == <<fwd, forwarderRunning, child, loop>>
repVars == <<rep, localSpills, localTimes, newSpills, stale>>
chkVars == <<chk, requested, checkRunning>>
vars == <<stopping, threadVars, observed, times, arriving, repVars, chkVars, server, now,
          faults, heard>>

Never == -1
NoSignal == "none"
Init == /\ stopping = "no" /\ fwd = "look" /\ forwarderRunning = FALSE /\ child = FALSE
        /\ loop = "serving" /\ observed = 0 /\ times = <<>> /\ arriving = NoSignal
        /\ rep = "look" /\ localSpills = 0 /\ localTimes = <<>> /\ newSpills = 0
        /\ stale = [s \in Signal |-> -1]
        /\ chk = "wait" /\ requested = FALSE /\ checkRunning = FALSE
        /\ server \in BOOLEAN /\ now = 0 /\ faults = 0
        /\ heard = [s \in Signal |-> [last |-> Never, gap |-> 0]]

\* Everything has its type.
TypeOK ==
  /\ stopping \in {"no", "TERM", "INT"} /\ fwd \in {"look", "call", "holdoff", "done"}
  /\ {forwarderRunning, child, requested, checkRunning, server} \subseteq BOOLEAN
  /\ child => fwd = "call" /\ forwarderRunning
  /\ checkRunning <=> chk \in {"check", "remedy", "end", "died"}
  /\ loop \in {"serving", "done"} /\ rep \in {"look", "compare", "ask", "idle", "request", "wait", "done"}
  /\ chk \in {"wait", "look", "begin", "mark", "check", "remedy", "end", "done", "died"}
  /\ DOMAIN times \subseteq Signal /\ DOMAIN localTimes \subseteq Signal /\ DOMAIN stale \subseteq Signal
  /\ localSpills <= newSpills /\ newSpills <= observed
  /\ arriving \in Signal \cup {NoSignal}

Faulty == faults < MaxFaults /\ faults' = faults + 1

(* --- run_forwarder ------------------------------------------------------------- *)
ForwarderOnly == UNCHANGED <<stopping, loop, observed, times, arriving, repVars, chkVars, server,
                             now, heard>>
Call == /\ fwd = "look" /\ stopping = "no" /\ fwd' = "call" /\ forwarderRunning' = TRUE /\ child' = TRUE
        /\ UNCHANGED faults
\* The child ends by itself, or because it was interrupted as well.
ChildExits == /\ fwd = "call" /\ child /\ child' = FALSE
              /\ IF stopping = "INT" THEN UNCHANGED faults ELSE Faulty
              /\ UNCHANGED <<fwd, forwarderRunning>>
Called == /\ fwd = "call" /\ ~child /\ forwarderRunning' = FALSE
          /\ fwd' = (IF stopping = "no" THEN "holdoff" ELSE "look")
          /\ UNCHANGED <<child, faults>>
Restart == fwd = "holdoff" /\ fwd' = "look" /\ UNCHANGED <<forwarderRunning, child, faults>>
ForwarderDone == /\ fwd = "look" /\ stopping # "no" /\ fwd' = "done"
                 /\ UNCHANGED <<forwarderRunning, child, faults>>
Forwarder == (Call \/ Called \/ Restart \/ ForwarderDone) /\ ForwarderOnly

(* --- the loopback receiver ------------------------------------------------------- *)
ReceiverOnly == UNCHANGED <<stopping, fwd, forwarderRunning, child, repVars, chkVars, server, now, faults>>
Gap(s) == IF heard[s].last = Never THEN 0 ELSE now - heard[s].last
\* A spill comes through while the server and the forwarder are up: it is counted first and its
\* time is kept after that.
Arrive(s) == /\ loop = "serving" /\ arriving = NoSignal /\ server /\ child
             /\ heard[s].last # now
             /\ observed' = observed + 1 /\ arriving' = s
             /\ heard' = [heard EXCEPT ![s] = [last |-> now,
                                               gap |-> IF Gap(s) > @.gap THEN Gap(s) ELSE @.gap]]
             /\ UNCHANGED <<times, loop>>
Dispatch == /\ arriving # NoSignal /\ arriving' = NoSignal
            /\ times' = [s \in DOMAIN times \cup {arriving} |-> IF s = arriving THEN now ELSE times[s]]
            /\ UNCHANGED <<observed, loop, heard>>
ReceiverDone == /\ loop = "serving" /\ arriving = NoSignal /\ stopping # "no" /\ loop' = "done"
                /\ UNCHANGED <<observed, times, arriving, heard>>
Receiver == (Dispatch \/ ReceiverDone) /\ ReceiverOnly

(* --- run_fsm_reporter ------------------------------------------------------------- *)
ReporterOnly == UNCHANGED <<stopping, threadVars, observed, times, arriving, chk, checkRunning, server, now, faults, heard>>
Look == /\ rep = "look" /\ stopping = "no" /\ newSpills' = observed
        /\ rep' = (IF observed > localSpills THEN "compare" ELSE "ask")
        /\ UNCHANGED <<localSpills, localTimes, stale, requested>>

\* A signal is stale when it was never seen, is compared for the first time, or has come after
\* too long a time.
Diff(s) == times[s] - localTimes[s]
StaleAtOnce(s) == s \notin DOMAIN times \/ s \notin DOMAIN localTimes \/ Diff(s) >= Threshold[s]
IsStale(s) == s \notin DOMAIN times \/ s \notin DOMAIN localTimes \/ Diff(s) > Threshold[s]
HowStale(s) == IF s \notin DOMAIN times THEN -1
               ELSE IF s \notin DOMAIN localTimes THEN -2 ELSE Diff(s)
Compare == /\ rep = "compare" /\ rep' = "ask"
           /\ stale' = [s \in {x \in Signal : IsStale(x)} |-> HowStale(s)]
           /\ localTimes' = times
           /\ UNCHANGED <<localSpills, newSpills, requested>>
\* No new spill while the forwarder runs, and no check under way: one is requested.  Whether the
\* forwarder runs and whether a check is under way are read one after the other, and the request
\* is counted after that: a check may begin or end in between.
Ask == /\ rep = "ask" /\ localSpills' = newSpills
       /\ rep' = (IF newSpills = localSpills /\ forwarderRunning THEN "idle" ELSE "wait")
       /\ UNCHANGED <<localTimes, newSpills, stale, requested>>
ReadRunning == /\ rep = "idle" /\ rep' = (IF checkRunning THEN "wait" ELSE "request")
               /\ UNCHANGED <<localSpills, localTimes, newSpills, stale, requested>>
Request == /\ rep = "request" /\ requested' = TRUE /\ rep' = "wait"
           /\ UNCHANGED <<localSpills, localTimes, newSpills, stale>>
ReporterDone == /\ rep = "look" /\ stopping # "no" /\ rep' = "done"
                /\ UNCHANGED <<localSpills, localTimes, newSpills, stale, requested>>
Reporter == (Look \/ Compare \/ Ask \/ ReadRunning \/ Request \/ ReporterDone) /\ ReporterOnly
\* The period is over; the clock is not let go beyond its bound, but the reporter goes on.
NextPeriod == /\ rep = "wait" /\ arriving = NoSignal /\ rep' = "look"
              /\ now' = (IF now < MaxTime THEN now + 1 ELSE now)
              /\ UNCHANGED <<stopping, threadVars, observed, times, arriving, localSpills, localTimes,
                             newSpills, stale, chkVars, server, faults, heard>>

(* --- run_spillserver_checker ------------------------------------------------------ *)
CheckerOnly == UNCHANGED <<stopping, threadVars, observed, times, arriving, repVars, now, heard>>
Woken == /\ chk = "wait" /\ chk' = (IF stopping = "no" THEN "look" ELSE "done")
         /\ UNCHANGED <<requested, checkRunning, server, faults>>
NothingAsked == /\ chk = "look" /\ ~requested /\ chk' = "wait"
                /\ UNCHANGED <<requested, checkRunning, server, faults>>
Asked == /\ chk = "look" /\ requested /\ chk' = "begin"
         /\ UNCHANGED <<requested, checkRunning, server, faults>>
\* last_tdu_check_id is set before g_tdu_check_running, and again before it is reset.
Begin == /\ chk = "begin" /\ requested' = FALSE /\ chk' = "mark"
         /\ UNCHANGED <<checkRunning, server, faults>>
Mark == /\ chk = "mark" /\ checkRunning' = TRUE /\ chk' = "check"
        /\ UNCHANGED <<requested, server, faults>>
\* What was asked for during the check counts as answered.
Checked == requested' = FALSE /\ chk' = "end" /\ UNCHANGED checkRunning
EndForgets == /\ chk = "end" /\ chk' = "wait" /\ UNCHANGED <<checkRunning, requested, server, faults>>
End == /\ chk = "end" /\ checkRunning' = FALSE /\ chk' = "wait"
       /\ UNCHANGED <<requested, server, faults>>
\* The command says whether the server runs.
Passed == /\ chk = "check" /\ server /\ Checked /\ UNCHANGED <<server, faults>>
Wrong == /\ chk = "check" /\ ~server /\ chk' = "remedy"
         /\ UNCHANGED <<requested, checkRunning, server, faults>>
Remedy == /\ chk = "remedy" /\ server' = TRUE /\ Checked /\ UNCHANGED faults
\* Three classes of exceptions are caught; any other (a refused connection, a timeout of the
\* command) ends the thread, with g_tdu_check_running still set.
Fails == /\ chk \in {"check", "remedy"} /\ Faulty /\ UNCHANGED server
         /\ \/ "ssh" \in Failures /\ Checked
            \/ "other" \in Failures /\ chk' = "died" /\ UNCHANGED <<requested, checkRunning>>
Checker == (Woken \/ NothingAsked \/ Asked \/ Begin \/ Mark \/ Passed \/ Wrong \/ Remedy \/ End) /\ CheckerOnly

(* --- outside ------------------------------------------------------------------------ *)
ServerEnds == /\ server /\ Faulty /\ server' = FALSE
              /\ UNCHANGED <<stopping, threadVars, observed, times, arriving, repVars, chkVars, now, heard>>
\* signal_handler: an interrupt from the terminal reaches the child too, a termination not.
SignalHandler == /\ stopping = "no" /\ stopping' \in {"INT", "TERM"}
                 /\ UNCHANGED <<threadVars, observed, times, arriving, repVars, chkVars, server, now,
                                faults, heard>>

Next == \/ Forwarder \/ (ChildExits /\ ForwarderOnly)
        \/ (\E s \in Signal : Arrive(s) /\ ReceiverOnly) \/ Receiver
        \/ Reporter \/ NextPeriod \/ Checker \/ (Fails /\ CheckerOnly) \/ ServerEnds \/ SignalHandler

Spec == Init /\ [][Next]_vars

(* --- properties ---------------------------------------------------------------------- *)
\* A signal is reported late only if there has been a gap as long between two of its arrivals.
\* Does not hold: two of its arrivals, each in time, may fall between two looks.
StaleWasLate == \A s \in DOMAIN stale : stale[s] > 0 => heard[s].gap > Threshold[s]

\* A signal that has not come for longer than its threshold is reported.  Does not hold: one
\* that stops is compared with itself.
StoppedIsStale ==
  [][\A s \in Signal : rep = "compare" /\ rep' = "ask" /\ heard[s].last # Never
       /\ now - heard[s].last > Threshold[s] => s \in DOMAIN stale']_vars

\* A spill server that has ended is started again.  Does not hold: once an exception that is not
\* caught has ended the checker, nobody starts the server, nor is another check requested.
Missing == ~server
ServerRestarted == Missing ~> (server \/ stopping # "no")

\* It is started again unless the watchdog is stopped or its checker has ended that way, whatever
\* a request meets: a check that begins or ends just then, or one under way, which takes it for
\* its own.
Remedied == server \/ stopping # "no" \/ chk = "died"
RestartedByChecker == Missing ~> Remedied

\* After an interrupt every thread comes to its end.
Interrupted == stopping = "INT"
AllDone == fwd = "done" /\ loop = "done" /\ rep = "done" /\ chk \in {"done", "died"}
StopsOnInterrupt == Interrupted ~> AllDone
=============================================================================
