----------------------------- MODULE TimeOfDay -----------------------------
(***************************************************************************)
(* The time of day of the board support package, kept as an offset from    *)
(* the tick counter: settimeofday and gettimeofday.  A second has          *)
(* US fractions (a million in the code), the counter is a word that wraps. *)
(***************************************************************************)
EXTENDS Integers

CONSTANTS
  W,             \* words are taken modulo W
  US,            \* ALT_US
  Rates,         \* ticks per second, zero for no system clock
  Seconds, Fractions    \* of the times given to settimeofday

TimeAssumption ==
  /\ W \in Nat \ {0} /\ US \in Nat \ {0} /\ Rates \subseteq 0 .. US
  /\ Seconds \subseteq Nat /\ Fractions \subseteq 0 .. US - 1

VARIABLES
  nticks, tick_rate,
  resettime,     \* alt_resettime
  given,         \* the last setting: the time given and the counter then
  wrapped        \* history: the counter has wrapped since

vars == <<nticks, tick_rate, resettime, given, wrapped>>

NoTime == [sec |-> 0, usec |-> 0]
PerTick == US \div tick_rate

Init ==
  /\ nticks = 0 /\ tick_rate \in Rates
  /\ resettime = NoTime /\ given = [t |-> NoTime, at |-> 0] /\ wrapped = FALSE

Tick ==
  /\ tick_rate # 0
  /\ nticks' = (nticks + 1) % W
  /\ wrapped' = (wrapped \/ nticks' = 0)
  /\ UNCHANGED <<tick_rate, resettime, given>>

\* The product is a word: beyond it the fraction is wrong.
SETTIMEOFDAY(t) ==
  /\ tick_rate # 0
  /\ resettime' = [sec |-> t.sec - nticks \div tick_rate,
                   usec |-> t.usec - (((nticks * PerTick) % W) % US)]
  /\ given' = [t |-> t, at |-> nticks] /\ wrapped' = FALSE
  /\ UNCHANGED <<nticks, tick_rate>>

NormalUnborrowed(t) ==         \* mutant
  IF t.usec >= US THEN [sec |-> t.sec + 1, usec |-> t.usec - US] ELSE t

\* Borrow a second, unless there is none to borrow, or carry one.
Normal(t) ==
  IF t.usec < 0
  THEN IF t.sec <= 0 THEN NoTime ELSE [sec |-> t.sec - 1, usec |-> t.usec + US]
  ELSE IF t.usec >= US THEN [sec |-> t.sec + 1, usec |-> t.usec - US] ELSE t

\* The product is a double word.
GETTIMEOFDAY ==
  Normal([sec |-> resettime.sec + nticks \div tick_rate,
          usec |-> resettime.usec + ((nticks * PerTick) % US)])

Next == Tick \/ \E t \in [sec : Seconds, usec : Fractions] : SETTIMEOFDAY(t)

Spec == Init /\ [][Next]_vars

-----------------------------------------------------------------------------
InFractions(t) == t.sec * US + t.usec

\* "an immediate call to gettimeofday() would return the value specified by t".
GetAfterSet ==
  tick_rate # 0 /\ nticks = given.at /\ ~wrapped => GETTIMEOFDAY = given.t

\* The same and its continuation, where the product of settimeofday fits a word
\* and the rate divides a second: the time is the time given and the ticks since,
\* as long as the counter has not wrapped.  With every wrap it jumps back by all
\* the ticks of a word, no further than to zero.
TimeKept ==
  LET now == InFractions(GETTIMEOFDAY)
      counted == InFractions(given.t) + (nticks - given.at) * PerTick
  IN /\ tick_rate # 0 /\ US % tick_rate = 0 /\ given.at * PerTick < W
     => /\ GETTIMEOFDAY.usec \in 0 .. US - 1
        /\ ~wrapped => nticks >= given.at /\ now = counted
        /\ wrapped => now = counted \/ (counted < 0 /\ now = 0)
=============================================================================
