-------------------------- MODULE ControlProtocol --------------------------
(***************************************************************************)
(* What the `fsm` process promises the three applications that subscribe   *)
(* to its control bus: the order of the control messages is that of nested *)
(* brackets.  A run lies inside a period of data taking, data taking       *)
(* starts only after a configuration and the detector is never             *)
(* reconfigured under it.  Exit may come at any time and ends everything.  *)
(***************************************************************************)

VARIABLES configured,   \* a Config message has been published
          data,         \* data taking was started and not stopped since
          run,          \* a run was started and not stopped since
          over          \* Exit has been published

vars == <<configured, data, run, over>>

Init == /\ configured = FALSE
        /\ data = FALSE
        /\ run = FALSE
        /\ over = FALSE

Config == /\ ~over /\ ~data
          /\ configured' = TRUE
          /\ UNCHANGED <<data, run, over>>

StartData == /\ ~over /\ configured /\ ~data
             /\ data' = TRUE
             /\ UNCHANGED <<configured, run, over>>

StopData == /\ data /\ ~run
            /\ data' = FALSE
            /\ UNCHANGED <<configured, run, over>>

StartRun == /\ data /\ ~run
            /\ run' = TRUE
            /\ UNCHANGED <<configured, data, over>>

StopRun == /\ run
           /\ run' = FALSE
           /\ UNCHANGED <<configured, data, over>>

Exit == /\ over' = TRUE
        /\ configured' = FALSE
        /\ data' = FALSE
        /\ run' = FALSE

Next == Config \/ StartData \/ StopData \/ StartRun \/ StopRun \/ Exit

Spec == Init /\ [][Next]_vars
============================================================================
