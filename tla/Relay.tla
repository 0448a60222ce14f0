-------------------------------- MODULE Relay --------------------------------
(* The power program and its relay boards: one run switches the outputs of a    *)
(* box, of a box's CLBs, or one output, by a command and an answer at a time.   *)
(* Nothing keeps two of them apart.  The boards, which take the commands of     *)
(* each connection in order and answer when they have carried one out, are      *)
(* external: an answer may come after the program has stopped waiting for it.   *)
EXTENDS Integers, Sequences, FiniteSets, Functions

CONSTANTS Programs,   \* the runs of power
          JobSets,    \* what each was asked to do: functions from Programs to jobs
          Before,     \* the outputs that are on at first, of each board
          Greeting,   \* how long a board's greeting is; not as long as an answer, as power.cc counts on
          MaxDead     \* bound: boards that stop answering

(* --- the tables and the commands of power.cc --------------------------------------- *)
Boxes == 1 .. 6
PULSE_ATTEMPTS == 3
power_channels == [box \in Boxes |-> IF box = 6 THEN <<1, 2, 19, 20>> ELSE [i \in 1 .. 4 |-> 4 * (box - 1) + i]]
power_relay == [box \in Boxes |-> IF box = 6 THEN "jb1" ELSE "jb2"]
pulse_channels == <<<<17, 14>>, <<13, 12>>, <<11, 10>>, <<8, 7>>, <<6, 15>>, <<5, 16>>>>
pulse_relay == [box \in Boxes |-> "jb1"]
box_ips == <<"ec1", "ec2", "ec3", "ec4", "ec5", "ec6">>
active_channels == << <<4, 6, 7, 8, 10, 11, 12, 13, 14, 15>>, <<2, 4, 5, 6, 7, 8, 9, 10, 11, 13, 14, 15, 16>>,
                      <<6, 7, 9, 11, 12, 13, 14>>, <<5, 6, 7, 8, 11, 12, 13>>, <<2, 5, 6, 8, 9, 10, 11, 14>>,
                      <<2, 3, 4, 5, 6, 7>> >>
JunctionBox == {"jb1", "jb2"}
Boards == JunctionBox \cup {box_ips[box] : box \in Boxes}

Cmd(board, op, channel) == [board |-> board, op |-> op, channel |-> channel]
Each(seq, board, op) == [i \in 1 .. Len(seq) |-> Cmd(board, op, seq[i])]
BothStatus == <<Cmd("jb1", "status", 0), Cmd("jb2", "status", 0)>>
\* Both control relays in each attempt.
Pulses(box) == [i \in 1 .. 2 * PULSE_ATTEMPTS |-> pulse_channels[box][IF i % 2 = 1 THEN 1 ELSE 2]]
boxOn(box) == Each(power_channels[box], power_relay[box], "on") \o Each(Pulses(box), pulse_relay[box], "pulse")
              \o BothStatus
boxOff(box) == Each(power_channels[box], power_relay[box], "off") \o BothStatus
\* An off command for an output that is not used comes first, to flush the greeting.
clbsOn(box) == <<Cmd(box_ips[box], "off", 30)>> \o Each(active_channels[box], box_ips[box], "on")
clbsOff(box) == <<Cmd(box_ips[box], "off", 30)>> \o Each(active_channels[box], box_ips[box], "off")
\* A board in an electronics container cannot pulse: nothing is sent.
Single(j) == (IF j.op = "pulse" /\ j.board \notin JunctionBox THEN <<>> ELSE <<Cmd(j.board, j.op, j.channel)>>)
             \o <<Cmd(j.board, "status", 0)>>

\* The commands of a job, and the boards that it connects to, in their order.
Steps(j) == CASE j.type = "box"  -> IF j.op = "on" THEN boxOn(j.box) ELSE boxOff(j.box)
              [] j.type = "clbs" -> IF j.op = "on" THEN clbsOn(j.box) ELSE clbsOff(j.box)
              [] j.type = "relay" -> Single(j)
Connects(j) == CASE j.type = "box" -> <<"jb1", "jb2">>
                 [] j.type = "clbs" -> <<box_ips[j.box]>>
                 [] j.type = "relay" -> <<j.board>>

(* --- the state --------------------------------------------------------------------- *)
VARIABLES job,      \* what each program was asked to do
          at,       \* its step: "connect", "drain", "send", "read", "ended", "killed"
          pc,       \* the connection or the command that it is at
          linked,   \* the boards that it is connected to
          stream,   \* sent to a board and not yet taken, by program and board
          inbox,    \* how many bytes of answers are not yet read, by program and board
          errors,   \* how many errors it has logged
          executed, \* how many of its commands have been carried out
          out,      \* the outputs that are on, by board
          dead      \* the boards that no longer answer

programVars == <<at, pc, linked, errors>>
vars == <<job, programVars, stream, inbox, executed, out, dead>>

Init == /\ job \in JobSets /\ at = [p \in Programs |-> "connect"] /\ pc = [p \in Programs |-> 1]
        /\ linked = [p \in Programs |-> {}] /\ stream = [p \in Programs |-> [b \in Boards |-> <<>>]]
        /\ inbox = [p \in Programs |-> [b \in Boards |-> 0]] /\ errors = [p \in Programs |-> 0]
        /\ executed = [p \in Programs |-> 0] /\ out = Before /\ dead = {}

\* Everything has its type.
TypeOK == /\ at \in [Programs -> {"connect", "drain", "send", "read", "ended", "killed"}]
          /\ \A p \in Programs : /\ pc[p] \in 1 .. Len(Steps(job[p])) + 1 /\ linked[p] \subseteq Boards
                                 /\ executed[p] \in 0 .. Len(Steps(job[p])) /\ errors[p] \in Nat
          /\ out \in [Boards -> SUBSET (1 .. 30)] /\ dead \subseteq Boards

Now(p) == Steps(job[p])[pc[p]]
Log(p, wrong) == errors' = [errors EXCEPT ![p] = @ + (IF wrong THEN 1 ELSE 0)]

(* --- the program ------------------------------------------------------------------- *)
\* The constructor: a connection that fails is logged, and the relay is used all the same.
Connect(p) ==
  LET b == Connects(job[p])[pc[p]]
      ok == b \notin dead
      last == pc[p] = Len(Connects(job[p]))
  IN /\ at[p] = "connect"
     /\ linked' = [linked EXCEPT ![p] = IF ok THEN @ \cup {b} ELSE @]
     /\ Log(p, ~ok)
     /\ stream' = [stream EXCEPT ![p][b] = IF ok /\ b \notin JunctionBox THEN <<Cmd(b, "hello", 0)>> ELSE <<>>]
     /\ pc' = [pc EXCEPT ![p] = IF last THEN 1 ELSE @ + 1]
     /\ at' = [at EXCEPT ![p] = IF b \notin JunctionBox THEN "drain" ELSE IF last THEN "send" ELSE "connect"]
     /\ UNCHANGED <<job, inbox, executed, out, dead>>

\* ECRelay: one read that does not block, for the greeting, there or not.
Drain(p) == /\ at[p] = "drain" /\ at' = [at EXCEPT ![p] = "send"]
            /\ inbox' = [inbox EXCEPT ![p][Connects(job[p])[1]] = 0]
            /\ UNCHANGED <<job, pc, linked, stream, errors, executed, out, dead>>

\* Sending where there is no connection raises SIGPIPE, which nothing handles.
Send(p) ==
  /\ at[p] = "send" /\ pc[p] <= Len(Steps(job[p]))
  /\ IF Now(p).board \in linked[p]
     THEN /\ stream' = [stream EXCEPT ![p][Now(p).board] = Append(@, Now(p))]
          /\ at' = [at EXCEPT ![p] = "read"]
     ELSE at' = [at EXCEPT ![p] = "killed"] /\ UNCHANGED stream
  /\ UNCHANGED <<job, pc, linked, inbox, errors, executed, out, dead>>

\* The answers are as long as the board's protocol says.
Answer(board, op) == IF board \in JunctionBox THEN IF op = "status" THEN 3 ELSE 1
                     ELSE IF op = "status" THEN 10 ELSE IF op = "hello" THEN Greeting ELSE 5
\* Where the read does not block, whatever is there is taken for the answer, and its length checked.
\* Being content with no answer.
OddIfAny(p, b, op) == b \notin JunctionBox /\ inbox[p][b] \notin {0, Answer(b, op)}
Odd(p, b, op) == b \notin JunctionBox /\ inbox[p][b] # Answer(b, op)
Read(p) ==
  LET c == Now(p)
  IN /\ at[p] = "read" /\ (c.board \in JunctionBox => inbox[p][c.board] # 0)
     /\ Log(p, Odd(p, c.board, c.op)) /\ inbox' = [inbox EXCEPT ![p][c.board] = 0]
     /\ pc' = [pc EXCEPT ![p] = @ + 1] /\ at' = [at EXCEPT ![p] = "send"]
     /\ UNCHANGED <<job, linked, stream, executed, out, dead>>
End(p) == /\ at[p] = "send" /\ pc[p] > Len(Steps(job[p])) /\ at' = [at EXCEPT ![p] = "ended"]
          /\ UNCHANGED <<job, pc, linked, stream, inbox, errors, executed, out, dead>>
Program(p) == Connect(p) \/ Drain(p) \/ Send(p) \/ Read(p) \/ End(p)

(* --- the boards -------------------------------------------------------------------- *)
\* A pulse ends by itself, with the output off.
Switched(on, c) == CASE c.op = "on" -> on \cup {c.channel}
                     [] c.op \in {"off", "pulse"} -> on \ {c.channel}
                     [] c.op \in {"status", "hello"} -> on
\* What was sent is carried out even after the program has ended.
Take(p, b) ==
  LET c == Head(stream[p][b])
  IN /\ b \notin dead /\ stream[p][b] # <<>>
     /\ stream' = [stream EXCEPT ![p][b] = Tail(@)]
     /\ out' = [out EXCEPT ![b] = Switched(@, c)]
     /\ executed' = [executed EXCEPT ![p] = @ + (IF c.op = "hello" THEN 0 ELSE 1)]
     /\ inbox' = [inbox EXCEPT ![p][b] = @ + Answer(b, c.op)]
     /\ UNCHANGED <<job, programVars, dead>>
Dies(b) == /\ Cardinality(dead) < MaxDead /\ b \notin dead
           /\ \E p \in Programs : b \in Range(Connects(job[p]))
           /\ dead' = dead \cup {b} /\ UNCHANGED <<job, programVars, stream, inbox, executed, out>>

Ended == \A p \in Programs : at[p] \in {"ended", "killed"}
Next == \/ \E p \in Programs : Program(p) \/ \E b \in Boards : Take(p, b)
        \/ \E b \in Boards : Dies(b)
Spec == Init /\ [][Next]_vars
FairSpec == Spec /\ \A p \in Programs : WF_vars(Program(p)) /\ \A b \in Boards : WF_vars(Take(p, b))

(* --- properties -------------------------------------------------------------------- *)
\* A program that ends and has logged no error has had every command of its carried out.
SilentIsDone == \A p \in Programs : at[p] = "ended" /\ errors[p] = 0 => executed[p] = Len(Steps(job[p]))

\* ... so that, when no other program ran, the outputs of its job are as it was asked.
Outputs(j, op) == {<<c.board, c.channel>> : c \in {d \in Range(Steps(j)) : d.op = op}}
AsAsked == \A p \in Programs : (Programs = {p} /\ at[p] = "ended" /\ errors[p] = 0) =>
             /\ \A x \in Outputs(job[p], "on") : x[2] \in out[x[1]]
             /\ \A x \in Outputs(job[p], "off") : x[2] \notin out[x[1]]

\* The outputs of a box that no program was asked to switch stay as they were.
PowerOf(box) == {<<power_relay[box], ch>> : ch \in Range(power_channels[box])}
PulseOf(box) == {<<pulse_relay[box], ch>> : ch \in Range(pulse_channels[box])}
OutputsOf(box) == PowerOf(box) \cup PulseOf(box) \cup {<<box_ips[box], ch>> : ch \in Range(active_channels[box])}
Asked == {job[p].box : p \in Programs}
OthersUntouched == \A box \in Boxes \ Asked : \A x \in OutputsOf(box) : (x[2] \in out[x[1]]) <=> (x[2] \in Before[x[1]])

\* For TLC: as long as the boards answer, every program ends.
Running(p) == at[p] \notin {"ended", "killed"}
AllAlive == dead = {}

(* --- what the code does not keep ---------------------------------------------------- *)
\* "Flush relay using simple off command" (power.cc:194): no error after it, so all is done.  When
\* the greeting and the flush's answer come late, each answer read is the one before.
FlushSuffices == \A p \in Programs :
  (at[p] = "ended" /\ job[p].type = "clbs" /\ errors[p] <= 1) => executed[p] = Len(Steps(job[p]))
\* Two programs for one box: it ends as one of them asked.
OneOfThem == Ended => \E p \in Programs : /\ \A x \in Outputs(job[p], "on") : x[2] \in out[x[1]]
                                          /\ \A x \in Outputs(job[p], "off") : x[2] \notin out[x[1]]

(* --- the inductive invariant -------------------------------------------------------- *)
\* What a run of power can be asked to do: an output switched by itself may be that of a box.
Jobs == {j \in [type : {"box", "clbs", "relay"}, box : Boxes, op : {"on", "off", "pulse"}, board : Boards,
                channel : Nat] :
           /\ j.type # "relay" => j.op # "pulse"
           /\ j.type = "relay" => \A box \in Boxes \ {j.box} : <<j.board, j.channel>> \notin OutputsOf(box)}
\* No greeting is taken for an answer.
RelayAssumptions == /\ JobSets \subseteq [Programs -> Jobs] /\ Before \in [Boards -> SUBSET Nat]
                    /\ Greeting \in Nat \ {0, 5, 10}
Commands == [board : Boards, op : {"on", "off", "pulse", "status", "hello"}, channel : Nat]

Typed == /\ job \in [Programs -> Jobs] /\ pc \in [Programs -> Nat \ {0}] /\ linked \in [Programs -> SUBSET Boards]
         /\ at \in [Programs -> {"connect", "drain", "send", "read", "ended", "killed"}]
         /\ stream \in [Programs -> [Boards -> Seq(Commands)]] /\ inbox \in [Programs -> [Boards -> Nat]]
         /\ errors \in [Programs -> Nat] /\ executed \in [Programs -> Nat] /\ out \in [Boards -> SUBSET Nat]
         /\ \A p \in Programs : /\ at[p] = "connect" => pc[p] <= Len(Connects(job[p]))
                                /\ at[p] = "drain" => pc[p] = 1
                                /\ at[p] = "send" => pc[p] <= Len(Steps(job[p])) + 1
                                /\ at[p] = "read" => pc[p] <= Len(Steps(job[p]))

\* Nothing is under way; only a greeting is; a command is, or its answer, and maybe the greeting.
Resting(p, b) == stream[p][b] = <<>> /\ inbox[p][b] = 0
Greeted(p, b) == \/ stream[p][b] = <<Cmd(b, "hello", 0)>> /\ inbox[p][b] = 0
                 \/ stream[p][b] = <<>> /\ inbox[p][b] = Greeting
Going(p, c) ==
  LET b == c.board
      bytes == Answer(b, c.op)
      before == pc[p] - 1
  IN \/ stream[p][b] = <<c>> /\ inbox[p][b] = 0 /\ executed[p] = before
     \/ stream[p][b] = <<>> /\ inbox[p][b] = bytes /\ executed[p] = before + 1
     \/ /\ before = 0 /\ b \notin JunctionBox
        /\ \/ stream[p][b] = <<Cmd(b, "hello", 0), c>> /\ inbox[p][b] = 0 /\ executed[p] = 0
           \/ stream[p][b] = <<c>> /\ inbox[p][b] = Greeting /\ executed[p] = 0
           \/ stream[p][b] = <<>> /\ inbox[p][b] = Greeting + bytes /\ executed[p] = 1
RestingBut(p, b) == \A x \in Boards \ {b} : Resting(p, x)
\* A program that has logged no error has read the answer of each command, and of no other.
InStep(p) ==
  LET b == Connects(job[p])[1]
  IN /\ at[p] = "connect" => executed[p] = 0 /\ \A x \in Boards : Resting(p, x)
     /\ at[p] = "drain" => /\ executed[p] = 0 /\ b \notin JunctionBox
                           /\ Greeted(p, b) /\ RestingBut(p, b)
     /\ at[p] = "send" => /\ executed[p] = pc[p] - 1 /\ RestingBut(p, b)
                          /\ Resting(p, b) \/ (pc[p] = 1 /\ b \notin JunctionBox /\ Greeted(p, b))
     /\ at[p] = "read" => Going(p, Now(p)) /\ RestingBut(p, Now(p).board)
     /\ at[p] = "ended" => executed[p] = Len(Steps(job[p])) /\ \A x \in Boards : Resting(p, x)

\* What is sent switches no output of another box.
Harmless(j, c) == c.op \in {"status", "hello"} \/ \A box \in Boxes \ {j.box} : <<c.board, c.channel>> \notin OutputsOf(box)
SentIsHarmless == \A p \in Programs : \A b \in Boards : \A i \in DOMAIN stream[p][b] :
                    stream[p][b][i].board = b /\ Harmless(job[p], stream[p][b][i])
\* The outputs are as the commands carried out so far left them.
AsSwitched(p) == \A i \in 1 .. executed[p] : LET c == Steps(job[p])[i]
                 IN /\ c.op = "on" => c.channel \in out[c.board]
                    /\ c.op = "off" => c.channel \notin out[c.board]

IInv == /\ Typed /\ SentIsHarmless /\ OthersUntouched
        /\ \A p \in Programs : errors[p] = 0 => InStep(p)
        /\ \A p \in Programs : Programs = {p} /\ errors[p] = 0 /\ at[p] # "killed" => AsSwitched(p)
=============================================================================
