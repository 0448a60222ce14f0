------------------------------ MODULE RunNumber ------------------------------
(* DataRun: each run takes the next number of its type from a file that holds  *)
(* one line per type, and its output file, named by type and number, is        *)
(* created anew (RECREATE).  The process may crash between any two steps.      *)
EXTENDS Naturals, Sequences, FiniteSets

CONSTANTS Types,     \* types of runs that are started, of 1 .. NUMRUNTYPES
          Absent,    \* no file
          Garbage,   \* bound: what an uninitialised number may be
          MaxRuns,   \* bound: runs begun
          MaxCrashes \* bound: crashes

VARIABLES disk,      \* the run-number file: its lines, none while it is truncated
          at,        \* step of DataRun::setOutputFileName and of the run
          run_type, number,
          runNums,   \* the local array
          output,    \* output files: which run wrote the one of a type and number
          runs,      \* runs begun
          overwritten, \* runs whose output another one has replaced
          torn,      \* whether a crash ever left the file truncated
          params,    \* what the closed files say of their run
          crashes

vars == <<disk, at, run_type, number, runNums, output, runs, overwritten, torn, params, crashes>>

NUMRUNTYPES == 4
Lines == 1 .. NUMRUNTYPES

Init == /\ disk = Absent /\ at = "idle" /\ run_type \in Types /\ number = 0
        /\ runNums = [i \in Lines |-> 0] /\ output = <<>> /\ runs = 0
        /\ overwritten = {} /\ torn = FALSE /\ params = {} /\ crashes = 0

\* Everything has its type.
TypeOK ==
  /\ disk \in {Absent, <<>>} \cup [Lines -> Nat]
  /\ at \in {"idle", "look", "create", "created", "update", "truncated", "named", "running", "stopped"}
  /\ run_type \in Types /\ number \in Nat /\ runNums \in [Lines -> Nat]
  /\ runs \in 0 .. MaxRuns /\ overwritten \subseteq 1 .. runs /\ torn \in BOOLEAN
  /\ \A r \in DOMAIN output : output[r] \in 1 .. runs

Kept == UNCHANGED <<output, overwritten, torn, params, crashes>>

\* handleStartRunCommand: a DataRun is constructed.
Begin == /\ at = "idle" /\ runs < MaxRuns /\ runs' = runs + 1
         /\ run_type' \in Types /\ number' = 0 /\ at' = "look"
         /\ UNCHANGED <<disk, runNums>> /\ Kept

\* There is no file: it is created with a line per type, of which one is to be 2; the number
\* of this run stays 0.
NoFile == /\ at = "look" /\ disk = Absent /\ at' = "create"
          /\ UNCHANGED <<disk, run_type, number, runNums, runs>> /\ Kept
Create == /\ at = "create" /\ disk' = <<>> /\ at' = "created"
          /\ UNCHANGED <<run_type, number, runNums, runs>> /\ Kept
WriteNew == /\ at = "created" /\ at' = "named"
            /\ disk' = [i \in Lines |-> IF run_type = i - 1 THEN 2 ELSE 1]
            /\ UNCHANGED <<run_type, number, runNums, runs>> /\ Kept

\* There is one: a line that is missing leaves its element of the array as it was, which is
\* whatever was in the memory.
AtLeastOne(n) == IF n < 1 THEN 1 ELSE n
Read == /\ at = "look" /\ disk # Absent
        /\ \E m \in IF disk = <<>> THEN [Lines -> Garbage] ELSE {disk} :
             runNums' = [i \in Lines |-> AtLeastOne(m[i])]
        /\ number' = runNums'[run_type] /\ at' = "update"
        /\ UNCHANGED <<disk, run_type, runs>> /\ Kept
\* Opening it for writing truncates it; what is written gets there when it is closed.
Truncate == /\ at = "update" /\ disk' = <<>> /\ at' = "truncated"
            /\ UNCHANGED <<run_type, number, runNums, runs>> /\ Kept
\* The line before that of the type.
UpdatedLineBefore == [i \in Lines |-> IF run_type = i + 1 THEN runNums[i] + 1 ELSE runNums[i]]
UpdatedLine == [i \in Lines |-> IF run_type = i THEN runNums[i] + 1 ELSE runNums[i]]
WriteUpdated == /\ at = "truncated" /\ disk' = UpdatedLine /\ at' = "named"
                /\ UNCHANGED <<run_type, number, runNums, runs>> /\ Kept
\* The file cannot be opened for writing: an exception out of the constructor, and there is
\* no run.
CannotWrite == /\ at \in {"create", "update"} /\ at' = "idle"
               /\ UNCHANGED <<disk, run_type, number, runNums, runs>> /\ Kept

\* The serialiser creates the output file of this name, whether there is one or not.
Name == <<run_type, number>>
Replaced == IF Name \in DOMAIN output THEN {output[Name]} ELSE {}
Start == /\ at = "named" /\ at' = "running"
         /\ overwritten' = overwritten \cup Replaced
         /\ output' = [n \in DOMAIN output \cup {Name} |-> IF n = Name THEN runs ELSE output[n]]
         /\ UNCHANGED <<disk, run_type, number, runNums, runs, torn, params, crashes>>
\* DataRun::stop; the file is closed with the parameters of the run.
Stop == /\ at = "running" /\ at' = "stopped"
        /\ UNCHANGED <<disk, run_type, number, runNums, runs>> /\ Kept
Close == /\ at = "stopped" /\ at' = "idle"
         /\ params' = params \cup {<<run_type, number, runs>>}
         /\ UNCHANGED <<disk, run_type, number, runNums, output, runs, overwritten, torn, crashes>>

Crash == /\ crashes < MaxCrashes /\ crashes' = crashes + 1 /\ at # "idle" /\ at' = "idle"
         /\ torn' = (torn \/ at \in {"created", "truncated"})
         /\ UNCHANGED <<disk, run_type, number, runNums, output, runs, overwritten, params>>

Next == \/ Begin \/ NoFile \/ Create \/ WriteNew \/ Read \/ Truncate \/ WriteUpdated
        \/ CannotWrite \/ Start \/ Stop \/ Close \/ Crash

Spec == Init /\ [][Next]_vars

\* As long as no crash fell between the truncation of the run-number file and its closing, no
\* run replaces the output of another, wherever else the process crashed and however often
\* the file could not be written.
NumbersUnique == ~torn => overwritten = {}

\* The same whenever it crashed: does not hold.
NothingOverwritten == overwritten = {}

(* --- the inductive invariant ------------------------------------------------ *)
\* The numbers that a file or an array hold are beyond those of the runs there are.
Beyond(nums) == /\ nums \in [Lines -> Nat \ {0}]
                /\ \A n \in DOMAIN output : n[2] < nums[n[1]]
\* Without a file there is no run; with one it is whole, but while it is rewritten.
FileAgrees == /\ disk = Absent => DOMAIN output = {}
              /\ disk = <<>> => at \in {"created", "truncated"}
              /\ disk \notin {Absent, <<>>} => Beyond(disk)
StepAgrees == /\ at = "create" => disk = Absent
              /\ at = "created" => DOMAIN output = {} /\ disk = <<>>
              /\ at = "update" => disk \notin {Absent, <<>>}
              /\ at = "truncated" => disk = <<>>
              /\ at \in {"update", "truncated"} => Beyond(runNums) /\ number = runNums[run_type]
              /\ at = "look" => number = 0
              /\ at \in {"create", "created"} => number = 0
              /\ at = "named" => /\ disk \notin {Absent, <<>>} /\ number < disk[run_type]
                                 /\ Name \notin DOMAIN output
IInv == /\ run_type \in Types /\ number \in Nat /\ runNums \in [Lines -> Nat]
        /\ disk \in {Absent, <<>>} \cup [Lines -> Nat]
        /\ DOMAIN output \subseteq Lines \X Nat
        /\ ~torn => FileAgrees /\ StepAgrees /\ overwritten = {}
=============================================================================
