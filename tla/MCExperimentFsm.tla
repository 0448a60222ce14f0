-------------------------- MODULE MCExperimentFsm --------------------------
(* Two operators compete for the uplink. *)
EXTENDS ExperimentFsm, TLC

CONSTANTS c1, c2

MCClient == {c1, c2}
MCOneClient == {c1}
Symmetry == Permutations(MCClient)
============================================================================
