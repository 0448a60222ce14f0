-------------------------------- MODULE Times --------------------------------
(* TimingUtilities.cpp of the spill server, its copy in xml_rpc_spill_method.cc *)
(* and timestamp.cc: NOvA time counts ticks from an epoch, leap seconds too;    *)
(* Unix time counts seconds without them, and a fraction.                       *)
EXTENDS Integers, Sequences, FiniteSets

CONSTANTS NOVA_EPOCH,       \* a Unix second
          NOVA_TIME_FACTOR, \* ticks in a second
          Leaps,            \* the Unix seconds 23:59:59 after which there is a leap second, in order
          USEC, NSEC,       \* microseconds and nanoseconds in a second
          Grains,           \* bound: values of a double in a second, a power of two
          MaxSecond,        \* bound: the last Unix second
          Nanos             \* bound: what nanosecs may be

VARIABLES call, \* the function called, with its argument
          out   \* what it returns
vars == <<call, out>>

Time(s, f) == [sec |-> s, frac |-> f]
Failed == -1
Init == call = <<"none", 0>> /\ out = Failed

(* --- from Unix time to NOvA time ------------------------------------------------ *)
\* The leap seconds are tested in chronological order, each on the seconds as adjusted so far.
After(s, leap) == IF s > leap THEN s + 1 ELSE s
Adjusted(s) == After(After(After(s, Leaps[1]), Leaps[2]), Leaps[3])
InUnit(t, unit) == (Adjusted(t.sec) - NOVA_EPOCH) * NOVA_TIME_FACTOR + ((t.frac * NOVA_TIME_FACTOR) \div unit)
UnixToNova(t, unit) == IF t.sec < NOVA_EPOCH THEN Failed ELSE InUnit(t, unit)
convertUnixTimeToNovaTime(t, unit) == call' = <<"toNova", t, unit>> /\ out' = <<UnixToNova(t, unit)>>

(* --- from NOvA time to Unix time -------------------------------------------------- *)
\* The quotient as a double: a number of grains, the nearest one, the even one of two.
Nearest(n, d) == LET q == n \div d
                     r == n % d IN
                 IF 2 * r > d \/ (2 * r = d /\ q % 2 = 1) THEN q + 1 ELSE q
DoubleTime(nova) == Nearest(nova * Grains, NOVA_TIME_FACTOR)
time_sec(nova) == DoubleTime(nova) \div Grains
BeforeOrAt(s, leap) == IF s >= leap THEN s - 1 ELSE s
Before(s, leap) == IF s > leap THEN s - 1 ELSE s
WithoutLeaps(s) == Before(Before(Before(NOVA_EPOCH + s, Leaps[1]), Leaps[2]), Leaps[3])
\* Microseconds come from the double, nanoseconds from the ticks (rounded towards zero).
NovaToUsec(nova) == Time(WithoutLeaps(time_sec(nova)),
                         ((DoubleTime(nova) - time_sec(nova) * Grains) * USEC) \div Grains)
Truncated(n, d) == IF n < 0 THEN -((-n) \div d) ELSE n \div d
NovaToNsec(nova) == Time(WithoutLeaps(time_sec(nova)),
                         Truncated((nova - time_sec(nova) * NOVA_TIME_FACTOR) * NSEC, NOVA_TIME_FACTOR))
\* The text has the seconds of the conversion, but the fraction of the ticks.
NovaToString(nova) == Time(NovaToNsec(nova).sec, ((nova % NOVA_TIME_FACTOR) * NSEC) \div NOVA_TIME_FACTOR)
convertNovaTimeToUnixTime(nova) ==
  /\ call' = <<"toUnix", nova>>
  /\ out' = <<NovaToUsec(nova), NovaToNsec(nova), NovaToString(nova)>>

(* --- timeval_subtract --------------------------------------------------------------- *)
\* The later of the two lends its microseconds; whether the result is negative is returned.
Borrow(x, y) == IF x.frac < y.frac
                THEN LET n == ((y.frac - x.frac) \div USEC) + 1 IN Time(y.sec + n, y.frac - USEC * n) ELSE y
Carry(x, y) == IF x.frac - y.frac > USEC
               THEN LET n == (x.frac - y.frac) \div USEC IN Time(y.sec - n, y.frac + USEC * n) ELSE y
timeval_subtract(x, y) ==
  LET z == Carry(x, Borrow(x, y)) IN
  /\ call' = <<"subtract", x, y>>
  /\ out' = <<Time(x.sec - z.sec, x.frac - z.frac), IF x.sec < z.sec THEN 1 ELSE 0>>

(* --- tai_timestamp and utc_timestamp -------------------------------------------------- *)
Normal(t) == Time(t.sec + (t.frac \div NSEC), t.frac % NSEC)
normalise(t) == call' = <<"normalise", t>> /\ out' = <<Normal(t)>>
Equal(a, b) == a.sec = b.sec /\ a.frac = b.frac
Less(a, b) == IF a.sec = b.sec THEN a.frac < b.frac ELSE a.sec < b.sec
Greater(a, b) == IF a.sec = b.sec THEN a.frac > b.frac ELSE a.sec > b.sec
LessOrEqual(a, b) == Less(a, b) \/ Equal(a, b)
GreaterOrEqual(a, b) == Greater(a, b) \/ Equal(a, b)
compare(a, b) == /\ call' = <<"compare", a, b>>
                 /\ out' = <<Less(a, b), Equal(a, b), Greater(a, b), LessOrEqual(a, b), GreaterOrEqual(a, b)>>

UnixTimes(unit) == [sec : 0 .. MaxSecond, frac : IF unit = USEC THEN 0 .. USEC - 1 ELSE Nanos \cap (0 .. NSEC - 1)]
Stamps == [sec : 0 .. 2, frac : Nanos]
NovaTimes == 0 .. (MaxSecond - NOVA_EPOCH + Len(Leaps)) * NOVA_TIME_FACTOR
Next == /\ call[1] = "none"
        /\ \/ \E unit \in {USEC, NSEC} : \E t \in UnixTimes(unit) : convertUnixTimeToNovaTime(t, unit)
           \/ \E n \in NovaTimes : convertNovaTimeToUnixTime(n)
           \/ \E x, y \in [sec : 0 .. 2, frac : 0 .. USEC - 1] : timeval_subtract(x, y)
           \/ \E t \in Stamps : normalise(t)
           \/ \E a, b \in Stamps : compare(a, b)
Spec == Init /\ [][Next]_vars

\* The functions return what their type says.
TypeOK == /\ call[1] \in {"none", "toNova", "toUnix", "subtract", "normalise", "compare"}
          /\ call[1] = "toUnix" => \A i \in 1 .. 3 : out[i].sec \in Int /\ out[i].frac \in Int

(* --- properties --------------------------------------------------------------------------- *)
\* A Unix second is one more in NOvA time for every leap second before it, but each leap second
\* counts by as many seconds too early as there are leap seconds before it, for the thresholds are
\* compared with what is already adjusted.  Every second comes back as it was, but the one before
\* the third 23:59:59 comes back as that; and no two seconds are the same in NOvA time.
Counted(s) == Cardinality({i \in DOMAIN Leaps : Leaps[i] - (i - 1) < s})
Returned(s) == IF s = Leaps[3] - 1 THEN s + 1 ELSE s
NovaSecond(s) == UnixToNova(Time(s, 0), USEC)
SecondsReturn ==
  call[1] = "toNova" /\ call[2].frac = 0 /\ out[1] # Failed =>
    LET s == call[2].sec IN
    /\ out[1] = (s - NOVA_EPOCH + Counted(s)) * NOVA_TIME_FACTOR
    /\ NovaToUsec(out[1]) = Time(Returned(s), 0) /\ NovaToNsec(out[1]) = Time(Returned(s), 0)
    /\ \A r \in NOVA_EPOCH .. s - 1 : NovaSecond(r) < out[1]

\* What comes of a NOvA time is less than a microsecond (and what the double rounds), or a
\* nanosecond, from what the ticks say, and a second less if the double rounds up from a second to
\* the leap second after it.
Exactly(n) == WithoutLeaps(n \div NOVA_TIME_FACTOR) * NSEC
              + (((n % NOVA_TIME_FACTOR) * NSEC) \div NOVA_TIME_FACTOR)
HalfGrain == NSEC \div (2 * Grains) + 1
Off(n, m) == IF n > m THEN n - m ELSE m - n
RoundedIntoLeap(n) == LET s == n \div NOVA_TIME_FACTOR IN
                      time_sec(n) = s + 1 /\ WithoutLeaps(s) = WithoutLeaps(s + 1)
ConvertedNear ==
  call[1] = "toUnix" =>
    LET Total(t, unit) == (t.sec * unit + t.frac) * (NSEC \div unit)
        expected == Exactly(call[2]) - (IF RoundedIntoLeap(call[2]) THEN NSEC ELSE 0) IN
    /\ Off(Total(out[2], NSEC), expected) <= 1
    /\ Off(Total(out[1], USEC), expected) < NSEC \div USEC + HalfGrain

\* The difference of two times is exact and its microseconds are in a second; 1 says that it is
\* negative.
SubtractsExactly ==
  call[1] = "subtract" =>
    LET Total(t) == t.sec * USEC + t.frac IN
    /\ Total(out[1]) = Total(call[2]) - Total(call[3])
    /\ out[1].frac \in 0 .. USEC
    /\ (out[2] = 1) = (Total(call[2]) < Total(call[3]))

\* Normalised stamps are compared as the times that they are, and exactly one comparison of
\* three holds of any two; normalising keeps the time.
Nanoseconds(t) == t.sec * NSEC + t.frac
StampsAreTimes ==
  /\ call[1] = "normalise" => out[1].frac < NSEC /\ Nanoseconds(out[1]) = Nanoseconds(call[2])
  /\ call[1] = "compare" =>
       /\ Cardinality({i \in 1 .. 3 : out[i]}) = 1 /\ out[4] = ~out[3] /\ out[5] = ~out[1]
       /\ call[2].frac < NSEC /\ call[3].frac < NSEC => out[1] = (Nanoseconds(call[2]) < Nanoseconds(call[3]))

\* Every second comes back, and is one more in NOvA time for every leap second before it.  Does
\* not hold: the thresholds are in Unix time, but are compared with what is already adjusted.
EverySecondReturns ==
  call[1] = "toNova" /\ call[2].frac = 0 /\ out[1] # Failed => NovaToNsec(out[1]) = call[2]
LeapAtTheSecond ==
  call[1] = "toNova" /\ call[2].frac = 0 /\ out[1] # Failed =>
    out[1] = (call[2].sec - NOVA_EPOCH + Cardinality({i \in DOMAIN Leaps : Leaps[i] < call[2].sec}))
               * NOVA_TIME_FACTOR

\* The nanoseconds are in a second, and the text is the time.  Does not hold: a double rounds
\* the last ticks of a second up to the next one.
NanosInSecond == call[1] = "toUnix" => out[2].frac >= 0
TextIsTime == call[1] = "toUnix" => out[3] = out[2]
=============================================================================
