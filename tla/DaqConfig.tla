----------------------------- MODULE DaqConfig ------------------------------
(* DAQConfig reads the detector's configuration file line by line.  A line  *)
(* is a sequence of words and of the marks the code looks for; what a number *)
(* is written like is left out.  Each line of File says apart from its text  *)
(* what its author means it to set.                                          *)
EXTENDS Naturals, Sequences, SequencesExt, FiniteSets

CONSTANTS Lines,   \* lines: [text : sequences of words, sets : what is meant]
          MaxLines \* bound: length of a file

Marks == {"#", "//", " ", ".", "="}

VARIABLES file, at, num_controllers, enabled_controllers, enabled_channels,
          is_nano_enabled, configs,
          outcome  \* "reading", "loaded", "thrown" or, past the end of configs_, "undefined"

totals == <<num_controllers, enabled_controllers, enabled_channels, is_nano_enabled>>
vars == <<file, at, totals, configs, outcome>>

\* ControllerConfig's settings that are one number, and their defaults.
Numbers == [eid |-> 0, mac |-> 0, ip |-> 0, port |-> 56014, data_port |-> 56015,
            data_window |-> 10000, data_size |-> 1536, veto_value |-> 100, nano_voltage |-> 0,
            relay_ip |-> 0, relay_port |-> 0, relay_chp |-> 0, relay_chn |-> 0,
            data_ip |-> "192.168.22.1"]
DefaultConfig ==
  [enabled |-> FALSE, type |-> "CLB", relay_type |-> "EC", nano_enabled |-> FALSE,
   hv_enabled |-> FALSE, relay_control |-> FALSE, veto_enabled |-> TRUE, ch_enabled |-> {},
   number |-> Numbers, channel |-> [c \in 0 .. 30 |-> [id |-> 0, hv |-> 0, th |-> 43]]]

Init == /\ file \in UNION {[1 .. n -> Lines] : n \in 0 .. MaxLines}
        /\ at = 1 /\ num_controllers = 0 /\ enabled_controllers = 0 /\ enabled_channels = 0
        /\ is_nano_enabled = FALSE /\ configs = <<>> /\ outcome = "reading"

\* The totals are counts, and every controller has a full configuration.
TypeOK ==
  /\ at \in 1 .. Len(file) + 1 /\ outcome \in {"reading", "loaded", "thrown", "undefined"}
  /\ {num_controllers, enabled_controllers, enabled_channels} \subseteq Nat
  /\ is_nano_enabled \in BOOLEAN /\ Len(configs) >= num_controllers
  /\ \A i \in DOMAIN configs :
       /\ DOMAIN configs[i] = DOMAIN DefaultConfig
       /\ configs[i].ch_enabled \subseteq 0 .. 31 /\ DOMAIN configs[i].channel = 0 .. 30
       /\ configs[i].type \in {"CLB", "BBB"} /\ configs[i].relay_type \in {"MC", "EC", "DANOUT"}

(* --- from a line to its parts -------------------------------------------- *)
Upto(line, word) == IF Contains(line, word)
                    THEN SubSeq(line, 1, SelectInSeq(line, LAMBDA w : w = word) - 1) ELSE line
IgnoreComments(line) == Upto(Upto(line, "//"), "#")
\* Leaving the blanks where they are.
KeepWhitespace(line) == line
RemoveWhitespace(line) == SelectSeq(line, LAMBDA w : w # " ")

\* Looks for an equals sign, for a line not beginning with '0' and for text on the right.
IsGoodLine(line) == /\ Contains(line, "=") /\ line[1] # "0"
                    /\ SelectInSeq(line, LAMBDA w : w = "=") < Len(line)

ControllerNum(w) == CASE w = "pom0" -> 0 [] w = "pom1" -> 1 [] OTHER -> 99
ChannelNum(w) == CASE w = "ch0" -> 0 [] w = "ch30" -> 30 [] OTHER -> 99
Throws == [dots |-> 99, controller |-> 0, channel |-> 0, config |-> "", value |-> ""]

\* The dots are looked for in the whole line, its value included; stoi throws without a number.
ExtractConfig(line) ==
  LET equals == SelectInSeq(line, LAMBDA w : w = "=")
      dot1 == SelectInSeq(line, LAMBDA w : w = ".")
      dot2 == SelectInSubSeq(line, dot1 + 1, Len(line), LAMBDA w : w = ".")
      Part(n, c, h, from) == [dots |-> n, controller |-> c, channel |-> h,
                              config |-> IF from < equals THEN line[from] ELSE "",
                              value |-> line[equals + 1]]
  IN IF dot1 = 0 THEN Part(0, 0, 0, 1)
     ELSE IF ControllerNum(line[1]) = 99 THEN Throws
     ELSE IF dot2 = 0 THEN Part(1, ControllerNum(line[1]), 0, dot1 + 1)
     ELSE IF ChannelNum(line[dot1 + 1]) = 99 THEN Throws
     ELSE Part(2, ControllerNum(line[1]), ChannelNum(line[dot1 + 1]), dot2 + 1)

\* operator>>: a word that is no number reads as 0, a bool other than 0 and 1 as true.
Number(w) == CASE w = "1" -> 1 [] w = "2" -> 2 [] w = "7" -> 7 [] w = "50" -> 50 [] OTHER -> 0
Bool(w) == Number(w) # 0
Bits(w) == CASE w = "1" -> {0} [] w = "60000000" -> {29, 30} [] OTHER -> {}

(* --- what a line sets ----------------------------------------------------- *)
\* Starting afresh with every number of controllers.
SetupAfresh(n) == [i \in 1 .. n |-> DefaultConfig]
SetupConfigs(n) == configs \o [i \in 1 .. n |-> DefaultConfig]

PomNumber(v) == /\ num_controllers' = Number(v) /\ configs' = SetupConfigs(Number(v))
                /\ UNCHANGED <<enabled_controllers, enabled_channels, is_nano_enabled>>

Enabled(n, v) ==
  /\ enabled_controllers' = enabled_controllers + (IF Bool(v) THEN 1 ELSE 0)
  /\ configs' = [configs EXCEPT ![n].enabled = Bool(v)]
  /\ UNCHANGED <<num_controllers, enabled_channels, is_nano_enabled>>

NanoEnabled(n, v) ==
  /\ is_nano_enabled' = (is_nano_enabled \/ Bool(v))
  /\ configs' = [configs EXCEPT ![n].nano_enabled = Bool(v)]
  /\ UNCHANGED <<num_controllers, enabled_controllers, enabled_channels>>

\* Of the 32 bits 30 are counted, each time the line is read.
ChEnabled(n, v) ==
  /\ enabled_channels' = enabled_channels + Cardinality(Bits(v) \cap 0 .. 29)
  /\ configs' = [configs EXCEPT ![n].ch_enabled = Bits(v)]
  /\ UNCHANGED <<num_controllers, enabled_controllers, is_nano_enabled>>

HVEnabled(n, v) == configs' = [configs EXCEPT ![n].hv_enabled = Bool(v)]
RelayControl(n, v) == configs' = [configs EXCEPT ![n].relay_control = Bool(v)]
VetoEnabled(n, v) == configs' = [configs EXCEPT ![n].veto_enabled = Bool(v)]

\* Taking any word.
AnyType(n, v) == configs' = [configs EXCEPT ![n].type = v]
\* A word that is none of the types is reported and changes nothing.
Type(n, v) == configs' = IF v \in {"CLB", "BBB"} THEN [configs EXCEPT ![n].type = v] ELSE configs
RelayType(n, v) == configs' = IF v \in {"MC", "EC", "DANOUT"}
                              THEN [configs EXCEPT ![n].relay_type = v] ELSE configs

Address == {"eid", "mac", "ip", "port"}
Relay == {"relay_ip", "relay_port", "relay_chp", "relay_chn"}
Data == {"data_ip", "data_port", "data_window", "data_size"}
Veto == {"veto_value"}
Nano == {"nano_voltage"}
Known == {"enabled", "nano_enabled", "ch_enabled", "hv_enabled", "relay_control", "veto_enabled",
          "type", "relay_type"} \cup Address \cup Relay \cup Data \cup Veto \cup Nano
SetNumber(n, key, v) == configs' = [configs EXCEPT ![n].number[key] = Number(v)]

ControllerSetting(n, key, v) ==
  \/ key = "enabled" /\ Enabled(n, v)
  \/ key = "nano_enabled" /\ NanoEnabled(n, v)
  \/ key = "ch_enabled" /\ ChEnabled(n, v)
  \/ /\ UNCHANGED totals
     /\ \/ key = "hv_enabled" /\ HVEnabled(n, v)
        \/ key = "relay_control" /\ RelayControl(n, v)
        \/ key = "veto_enabled" /\ VetoEnabled(n, v)
        \/ key = "type" /\ Type(n, v)
        \/ key = "relay_type" /\ RelayType(n, v)
        \/ key \in Address \cup Relay \cup Data \cup Veto \cup Nano /\ SetNumber(n, key, v)
        \/ key \notin Known /\ UNCHANGED configs

ChannelSetting(n, ch, key, v) ==
  /\ UNCHANGED totals
  /\ configs' = IF key \in {"id", "hv", "th"}
                THEN [configs EXCEPT ![n].channel[ch][key] = Number(v)] ELSE configs

(* --- reading the file ------------------------------------------------------ *)
Cleaned(line) == RemoveWhitespace(IgnoreComments(line))

Skip == UNCHANGED <<totals, configs, outcome>>
Fails(how) == outcome' = how /\ UNCHANGED <<totals, configs>>

ParseLine(text) ==
  LET line == Cleaned(text) IN
  IF line = <<>> \/ ~IsGoodLine(line) THEN Skip
  ELSE LET p == ExtractConfig(line)  n == p.controller + 1 IN
       CASE p.dots = 0 -> IF p.config = "pom_number" THEN PomNumber(p.value) /\ UNCHANGED outcome
                          ELSE Skip
         [] p.dots \in {1, 2} ->
              IF n \notin DOMAIN configs THEN Fails("undefined")
              ELSE /\ \/ p.dots = 1 /\ ControllerSetting(n, p.config, p.value)
                      \/ p.dots = 2 /\ ChannelSetting(n, p.channel, p.config, p.value)
                   /\ UNCHANGED outcome
         [] OTHER -> Fails("thrown")

GetLine == /\ outcome = "reading" /\ at <= Len(file)
           /\ ParseLine(file[at].text) /\ at' = at + 1 /\ UNCHANGED file
LoadConfig == /\ outcome = "reading" /\ at > Len(file) /\ outcome' = "loaded"
              /\ UNCHANGED <<file, at, totals, configs>>

Next == GetLine \/ LoadConfig
Spec == Init /\ [][Next]_vars

(* --- properties ------------------------------------------------------------- *)
Meant(i) == file[i].sets
MeantFor(n, key) == {i \in DOMAIN file : Meant(i).controller = n /\ Meant(i).key = key}
LastOf(s) == CHOOSE i \in s : \A j \in s : j <= i

\* What the file's author means is what the configuration says: of the lines that set
\* something the last one counts, in whatever order, with comments and spaces, for the other
\* controllers' lines and a repeated pom_number; everything else has its default.
LastLineWins ==
  outcome = "loaded" =>
    \A n \in 0 .. Len(configs) - 1 :
      \A key \in {"enabled", "type", "relay_type", "nano_enabled", "ch_enabled", "hv_enabled",
                  "relay_control", "veto_enabled"} :
        configs[n + 1][key] = IF MeantFor(n, key) = {} THEN DefaultConfig[key]
                              ELSE Meant(LastOf(MeantFor(n, key))).value

\* The same for the numbers and the channels, for which a line with a bad number means 0.
LastNumberWins ==
  outcome = "loaded" =>
    \A n \in 0 .. Len(configs) - 1 :
      /\ \A key \in DOMAIN Numbers :
           configs[n + 1].number[key] = IF MeantFor(n, key) = {} THEN Numbers[key]
                                        ELSE Meant(LastOf(MeantFor(n, key))).value
      /\ configs[n + 1].channel[30].th = IF MeantFor(n, "th30") = {} THEN 43
                                         ELSE Meant(LastOf(MeantFor(n, "th30"))).value

\* daq_config.h:107: the total number of enabled controllers.
CountsControllers ==
  outcome = "loaded" => enabled_controllers = Cardinality({i \in DOMAIN configs : configs[i].enabled})

\* daq_config.h:108: the total number of enabled channels.
CountsChannels ==
  outcome = "loaded" /\ Len(configs) = 2 =>
    enabled_channels = Cardinality(configs[1].ch_enabled) + Cardinality(configs[2].ch_enabled)

\* daq_config.h:109: whether any of the controllers has an enabled nanobeacon.
NanoOfAny == is_nano_enabled => \E i \in DOMAIN configs : configs[i].nano_enabled

\* daq_config.h:137: a good line has text on either side of the equals sign.
GoodHasBoth ==
  outcome = "reading" /\ at <= Len(file) =>
    LET line == Cleaned(file[at].text) IN
    line # <<>> /\ IsGoodLine(line) => \E i \in 1 .. Len(line) - 1 : line[i] \notin Marks /\ line[i + 1] = "="

=============================================================================
