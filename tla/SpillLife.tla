----------------------------- MODULE SpillLife -----------------------------
(***************************************************************************)
(* What the daqonite pipeline promises of a spill, whoever handles it: its *)
(* hits are gathered while it is open and only then; a closed spill leaves *)
(* through the output file with everything that was gathered, or is        *)
(* discarded by the serialiser when that is torn down; nothing with hits   *)
(* in it disappears in any other way.                                      *)
(***************************************************************************)
CONSTANTS Spill, Receiver

VARIABLES stage,   \* stage[s]: how far spill s has got
          hits     \* hits[s]: the receivers whose hits are in s

vars == <<stage, hits>>

Init == /\ stage = [s \in Spill |-> "unborn"]
        /\ hits = [s \in Spill |-> {}]

Open(s) == /\ stage[s] = "unborn"
           /\ stage' = [stage EXCEPT ![s] = "open"]
           /\ UNCHANGED hits

Store(s, r) == /\ stage[s] = "open"
               /\ hits' = [hits EXCEPT ![s] = @ \cup {r}]
               /\ UNCHANGED stage

Close(s) == /\ stage[s] = "open"
            /\ stage' = [stage EXCEPT ![s] = "closed"]
            /\ UNCHANGED hits

DropEmpty(s) == /\ stage[s] = "open"
                /\ hits[s] = {}
                /\ stage' = [stage EXCEPT ![s] = "dropped"]
                /\ UNCHANGED hits

\* Everything that was gathered goes to the file.
File(s) == /\ stage[s] = "closed"
           /\ stage' = [stage EXCEPT ![s] = "filed"]
           /\ hits' = [hits EXCEPT ![s] = {}]

\* The queue of the serialiser is torn down with all that is in it.
Discard(S) ==
  /\ \A s \in S : stage[s] = "closed"
  /\ stage' = [s \in Spill |-> IF s \in S THEN "dropped" ELSE stage[s]]
  /\ hits' = [s \in Spill |-> IF s \in S THEN {} ELSE hits[s]]

Next == \/ \E s \in Spill : \/ Open(s) \/ Close(s) \/ DropEmpty(s) \/ File(s)
                            \/ \E r \in Receiver : Store(s, r)
        \/ \E S \in SUBSET Spill : Discard(S)

Spec == Init /\ [][Next]_vars
============================================================================
