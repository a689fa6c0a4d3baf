----------------------------- MODULE Timestamp ------------------------------
(***************************************************************************)
(* The timestamp of the interval timer driver, altera_avalon_timer_ts.c    *)
(* with a 32-bit counter, of which Half values fit one of the two          *)
(* registers of a period or a snapshot.  Every access to a register is a   *)
(* step; the timer may count down between two of them.  The timer is       *)
(* modelled as in OneShotTimer.                                            *)
(***************************************************************************)
EXTENDS Integers

CONSTANTS
  Half,           \* 2^16
  FREQ,           \* ALT_TIMESTAMP_CLK's frequency
  MaxTicks        \* bounds the ticks of a behaviour

TimestampAssumption == Half \in Nat \ {0} /\ FREQ \in Nat \ {0} /\ MaxTicks \in Nat

VARIABLES
  freq,                         \* altera_avalon_timer_ts_freq: 0 without a timer
  pc, lower, result,            \* the program: a local, what it was returned
  period, count, running, snap, \* the timer
  since, atCall                 \* ticks since the start, and at the call

timer == <<period, count, running, snap>>
vars == <<freq, pc, lower, result, timer, since, atCall>>

W == Half * Half
None == -1

Init ==
  /\ freq \in {0, FREQ} /\ pc = "main" /\ lower = 0 /\ result = None
  /\ period = 1 /\ count = 1 /\ running = FALSE /\ snap = 0
  /\ since = None /\ atCall = None

\* Not in continuous mode: the timer stops when it has run full period.
Tick ==
  /\ running /\ since < MaxTicks
  /\ IF count = 0 THEN count' = period /\ running' = FALSE
     ELSE count' = count - 1 /\ UNCHANGED running
  /\ since' = since + 1
  /\ UNCHANGED <<freq, pc, lower, result, period, snap, atCall>>

\* A write of a period register takes the period over and stops the timer.
WritePeriod(value) == period' = value /\ count' = value /\ running' = FALSE /\ UNCHANGED snap

-----------------------------------------------------------------------------
(* alt_timestamp_start.                                                    *)

Start ==
  /\ pc = "main" /\ result' = None /\ since' = None
  /\ IF freq = 0 THEN UNCHANGED <<pc, timer>>
     ELSE pc' = "periodl" /\ running' = FALSE /\ UNCHANGED <<period, count, snap>>
  /\ UNCHANGED <<freq, lower, atCall>>

PeriodL ==
  /\ pc = "periodl" /\ pc' = "periodh"
  /\ WritePeriod(Half * (period \div Half) + Half - 1)
  /\ UNCHANGED <<freq, lower, result, since, atCall>>

PeriodH ==
  /\ pc = "periodh" /\ pc' = "start"
  /\ WritePeriod(Half * (Half - 1) + (period % Half))
  /\ UNCHANGED <<freq, lower, result, since, atCall>>

Run ==
  /\ pc = "start" /\ pc' = "main" /\ running' = TRUE /\ since' = 0
  /\ UNCHANGED <<freq, lower, result, period, count, snap, atCall>>

-----------------------------------------------------------------------------
(* alt_timestamp.                                                          *)

\* Without a timer the answer is all ones.
Ask ==
  /\ pc = "main"
  /\ IF freq = 0 THEN result' = W - 1 /\ UNCHANGED <<pc, atCall>>
     ELSE since # None /\ pc' = "snap" /\ result' = None /\ atCall' = since
  /\ UNCHANGED <<freq, lower, timer, since>>

Snap ==
  /\ pc = "snap" /\ pc' = "lower" /\ snap' = count
  /\ UNCHANGED <<freq, lower, result, period, count, running, since, atCall>>

Lower ==
  /\ pc = "lower" /\ pc' = "upper" /\ lower' = snap % Half
  /\ UNCHANGED <<freq, result, timer, since, atCall>>

Upper ==
  /\ pc = "upper" /\ pc' = "main"
  /\ result' = W - 1 - (Half * (snap \div Half) + lower)
  /\ UNCHANGED <<freq, lower, timer, since, atCall>>

Next == Tick \/ Start \/ PeriodL \/ PeriodH \/ Run \/ Ask \/ Snap \/ Lower \/ Upper

Spec == Init /\ [][Next]_vars

-----------------------------------------------------------------------------
(* Properties.                                                             *)

(* A timestamp is the number of ticks since the start, at a moment between *)
(* the call and the return, however many ticks pass between the accesses;  *)
(* once the timer has run full period it is 0: this is what the code does, *)
(* the comment of alt_timestamp has it return -1 then.                     *)
TimestampTrue ==
  freq # 0 /\ result # None =>
    \E t \in atCall .. since : result = IF t < W THEN t ELSE 0
=============================================================================
