------------------------------ MODULE Reporter -------------------------------
(* Reporter of the fsm process: every two seconds it tells elastic the state of *)
(* each state machine, which it finds by asking whether the machine is in one   *)
(* state after another, while the dispatcher of the events moves the machines   *)
(* on: nothing keeps the two threads apart.                                     *)
EXTENDS Integers, Sequences, FiniteSets, Functions

CONSTANTS Machines,  \* in the order in which they are reported on
          First,     \* their states at first
          None,
          MaxRounds, \* bound: reports
          MaxMoves   \* bound: moves of the machines

(* --- the states asked for, and the moves of the machines ----------------------------- *)
Asked == [ControlBus |-> <<"Online", "Offline">>,
          Experiment |-> <<"Init", "Exit", "Ready", "Configuring", "Configured", "StartingData", "Started",
                           "StoppingData", "StartingRun", "Running", "StoppingRun", "Error">>,
          Daqonite   |-> <<"Offline", "Unknown", "Ready", "Running">>,
          Daqontrol  |-> <<"Offline", "Unknown", "Initialising", "Ready", "Configured", "Started">>,
          Daqsitter  |-> <<"Offline", "Unknown", "Ready", "Started">>]
\* An application's machine goes offline and comes back from any state of it.
Linked(states) == {<<s, "Offline">> : s \in states} \cup {<<s, "Unknown">> : s \in states}
Steps == [ControlBus |-> {<<"Online", "Offline">>, <<"Offline", "Online">>},
          Experiment |-> {<<"Init", "Ready">>, <<"Ready", "Configuring">>, <<"Configuring", "Configured">>,
                          <<"Configured", "Configuring">>, <<"Configured", "StartingData">>,
                          <<"StartingData", "Started">>, <<"Started", "StoppingData">>,
                          <<"StoppingData", "Configured">>, <<"Started", "StartingRun">>,
                          <<"StartingRun", "Running">>, <<"Running", "StoppingRun">>, <<"StoppingRun", "Started">>}
                         \cup {<<s, "Error">> : s \in Range(Asked.Experiment) \ {"Init", "Exit", "Ready", "Error"}}
                         \cup {<<s, "Exit">> : s \in Range(Asked.Experiment)},
          Daqonite   |-> {<<"Unknown", "Ready">>, <<"Unknown", "Running">>, <<"Ready", "Running">>, <<"Running", "Ready">>}
                         \cup Linked({"Offline", "Unknown", "Ready", "Running"}),
          Daqontrol  |-> {<<"Unknown", s>> : s \in {"Initialising", "Ready", "Configured", "Started"}}
                         \cup {<<"Initialising", "Ready">>, <<"Ready", "Configured">>, <<"Configured", "Started">>,
                               <<"Started", "Configured">>}
                         \cup Linked({"Offline", "Unknown", "Initialising", "Ready", "Configured", "Started"}),
          Daqsitter  |-> {<<"Unknown", "Ready">>, <<"Unknown", "Started">>, <<"Ready", "Started">>, <<"Started", "Ready">>}
                         \cup Linked({"Offline", "Unknown", "Ready", "Started"})]

VARIABLES state,    \* of each machine
          running,  \* running_, cleared by notifyJoin
          at,       \* "sleep", "ask", "done"
          machine,  \* the one being reported on
          question, \* the state that it is asked for
          reported, \* of each machine, the state last told to elastic, or None
          rounds, moves,
          during    \* of each machine, the states that it was in since the report began
vars == <<state, running, at, machine, question, reported, rounds, moves, during>>

Watched == Range(Machines)
Init == /\ state = First /\ running = TRUE /\ at = "sleep" /\ machine = 1 /\ question = 1
        /\ reported = [m \in Watched |-> None] /\ rounds = 0 /\ moves = 0 /\ during = [m \in Watched |-> {}]
\* Everything has its type.
TypeOK == /\ at \in {"sleep", "ask", "done"} /\ running \in BOOLEAN /\ machine \in 1 .. Len(Machines)
          /\ \A m \in Watched : state[m] \in Range(Asked[m]) /\ reported[m] \in Range(Asked[m]) \cup {None}
          /\ question \in 1 .. Len(Asked[Machines[machine]]) /\ rounds \in 0 .. MaxRounds /\ moves \in 0 .. MaxMoves

(* --- the reporter ------------------------------------------------------------------- *)
Now == Machines[machine]
\* The sleep is between the test and the report: one more report follows the end.
Sleep == /\ at = "sleep" /\ rounds < MaxRounds /\ rounds' = rounds + 1
         /\ at' = "ask" /\ machine' = 1 /\ question' = 1 /\ during' = [m \in Watched |-> {state[m]}]
         /\ UNCHANGED <<state, running, reported, moves>>
Found == state[Now] = Asked[Now][question]
OnToNext == IF machine < Len(Machines) THEN machine' = machine + 1 /\ UNCHANGED at
            ELSE machine' = 1 /\ at' = (IF running THEN "sleep" ELSE "done")
Ask == /\ at = "ask"
       /\ reported' = (IF Found THEN [reported EXCEPT ![Now] = state[Now]] ELSE reported)
       /\ IF Found \/ question = Len(Asked[Now]) THEN OnToNext /\ question' = 1
          ELSE question' = question + 1 /\ UNCHANGED <<machine, at>>
       /\ UNCHANGED <<state, running, rounds, moves, during>>
notifyJoin == running /\ running' = FALSE
              /\ UNCHANGED <<state, at, machine, question, reported, rounds, moves, during>>

(* --- the dispatcher ----------------------------------------------------------------- *)
Move(m, to) == /\ moves < MaxMoves /\ moves' = moves + 1 /\ <<state[m], to>> \in Steps[m]
               /\ state' = [state EXCEPT ![m] = to] /\ during' = [during EXCEPT ![m] = @ \cup {to}]
               /\ UNCHANGED <<running, at, machine, question, reported, rounds>>
Next == \/ Sleep \/ Ask \/ notifyJoin
        \/ \E m \in Watched : \E to \in Range(Asked[m]) : Move(m, to)
Spec == Init /\ [][Next]_vars

(* --- properties -------------------------------------------------------------------- *)
\* A machine that stayed as it was is told to be so, and one that moved to be in a state that it
\* was in meanwhile, or in what it was told to be in before.
StillIsReported == (at = "ask" /\ at' # "ask") =>
                     \A m \in Watched : Cardinality(during[m]) = 1 => reported'[m] \in during[m]

(* --- what the code does not keep ---------------------------------------------------- *)
\* "Report on the Experiment state" (reporter.cc:32): a machine that moves back past the question
\* is not reported on in that round.
EachRoundReports == (at = "ask" /\ at' # "ask") => \A m \in Watched : reported'[m] \in during[m]

(* --- the invariant from which StillIsReported is proved ------------------------------- *)
\* The machines that are reported on are known, and start in a state that is asked for.
Listed == /\ Machines \in Seq(DOMAIN Asked) /\ Machines # <<>>
          /\ DOMAIN First = Watched /\ \A m \in Watched : First[m] \in Range(Asked[m])

\* A machine that has been as it is since the report began was found so, if it was asked before,
\* and is still to be found so, if it is being asked.
Still(m) == during[m] = {state[m]}
Telling == at = "ask" =>
  /\ \A m \in Watched : state[m] \in during[m] /\ IsFiniteSet(during[m])
  /\ \A k \in 1 .. machine - 1 : Still(Machines[k]) => reported[Machines[k]] = state[Machines[k]]
  /\ Still(Now) => \A q \in 1 .. question - 1 : Asked[Now][q] # state[Now]
IInv == /\ DOMAIN state = Watched /\ DOMAIN reported = Watched /\ DOMAIN during = Watched
        /\ machine \in 1 .. Len(Machines) /\ question \in 1 .. Len(Asked[Now])
        /\ \A m \in Watched : state[m] \in Range(Asked[m])
        /\ Telling
=============================================================================
