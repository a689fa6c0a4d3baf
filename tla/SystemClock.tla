---------------------------- MODULE SystemClock ----------------------------
(***************************************************************************)
(* The system clock of the board support package: the timer's interrupt,   *)
(* alt_tick, and the list of alarms it walks, a doubly linked list that    *)
(* the callbacks change while it is walked.  The tick counter is a word:   *)
(* an alarm beyond its end waits for the counter to come round.  The clock *)
(* is optional: this system has none, and alt_alarm_start then fails.      *)
(***************************************************************************)
EXTENDS Integers

CONSTANTS
  Alarms, alt_alarm_list,    \* the alarms of the program, the head of alt_alarm_list
  W,               \* the tick counter counts modulo W
  Delays,          \* the nticks of alt_alarm_start
  Periods,         \* what callbacks return: 0 stops the alarm
  StopsNext,       \* whether a callback may stop the alarm linked after its own
  MaxTicks         \* bounds the run

ClockAssumption ==
  /\ alt_alarm_list \notin Alarms
  /\ W \in Nat \ {0} /\ Delays \subseteq 0 .. W - 2 /\ Periods \subseteq 0 .. W - 1

VARIABLES
  rate,            \* _alt_tick_rate, zero without a system clock
  nticks, total,   \* _alt_nticks, and the ticks there were
  next, previous, time, rollover,    \* the alarms
  tick,            \* alt_tick: the alarm it is at and the next one it saved
  due,             \* when a callback is promised, 0 for none
  fired            \* the last callback: when it was due and when it came

alarms == <<next, previous, time, rollover>>
vars == <<rate, nticks, total, alarms, tick, due, fired>>

Idle == [pc |-> "idle", alarm |-> alt_alarm_list, next |-> alt_alarm_list]
List == Alarms \cup {alt_alarm_list}

Init ==
  /\ rate = 0 /\ nticks = 0 /\ total = 0
  /\ next = [a \in List |-> a] /\ previous = [a \in List |-> a]
  /\ time = [a \in Alarms |-> 0] /\ rollover = [a \in Alarms |-> FALSE]
  /\ tick = Idle
  /\ due = [a \in Alarms |-> 0] /\ fired = [due |-> 0, at |-> 0]

sysclk_init ==
  /\ rate = 0 /\ rate' = 1
  /\ UNCHANGED <<nticks, total, alarms, tick, due, fired>>

llist_insert(entry) ==
  /\ next' = [next EXCEPT ![entry] = next[alt_alarm_list], ![alt_alarm_list] = entry]
  /\ previous' = [previous EXCEPT ![entry] = alt_alarm_list, ![next[alt_alarm_list]] = entry]

llist_remove(entry) ==
  /\ next' = [next EXCEPT ![previous[entry]] = next[entry], ![entry] = entry]
  /\ previous' = [previous EXCEPT ![next[entry]] = previous[entry], ![entry] = entry]

Linked(a) == next[a] # a

\* Interrupts are off, so that no tick comes in between.  An alarm in the list
\* may not be started again.
alarm_start(a, n) ==
  /\ rate # 0 /\ ~Linked(a)
  /\ time' = [time EXCEPT ![a] = (n + nticks + 1) % W]
  /\ rollover' = [rollover EXCEPT ![a] = time'[a] < nticks]
  /\ llist_insert(a)
  /\ due' = [due EXCEPT ![a] = total + n + 1]

alarm_stop(a) ==
  /\ llist_remove(a)
  /\ due' = [due EXCEPT ![a] = 0]
  /\ UNCHANGED <<time, rollover>>

\* The program, between two interrupts.
Program ==
  /\ tick = Idle
  /\ \E a \in Alarms : alarm_stop(a) \/ \E n \in Delays : alarm_start(a, n)
  /\ UNCHANGED <<rate, nticks, total, tick, fired>>

-----------------------------------------------------------------------------
(* alt_tick, one alarm per step, interrupts off.                           *)

Goto(a) == IF a = alt_alarm_list THEN Idle ELSE [pc |-> "visit", alarm |-> a, next |-> alt_alarm_list]

Tick ==
  /\ rate # 0 /\ tick = Idle /\ total < MaxTicks
  /\ nticks' = (nticks + 1) % W /\ total' = total + 1
  /\ tick' = Goto(next[alt_alarm_list])
  /\ UNCHANGED <<rate, alarms, due, fired>>

Rolled(a) == rollover[a] /\ nticks # 0      \* rollover as alt_tick leaves it
ExpiredAtOnce(a) == time[a] <= nticks       \* mutant: rollover is not looked at
Expired(a) == time[a] <= nticks /\ ~Rolled(a)

Pass(a) ==
  /\ tick.pc = "visit" /\ tick.alarm = a /\ ~Expired(a)
  /\ rollover' = [rollover EXCEPT ![a] = Rolled(a)]
  /\ tick' = Goto(next[a])
  /\ UNCHANGED <<rate, nticks, total, next, previous, time, due, fired>>

\* The callback starts another alarm, stops any, or does neither.
Call(a) ==
  /\ tick.pc = "visit" /\ tick.alarm = a /\ Expired(a)
  /\ tick' = [pc |-> "return", alarm |-> a, next |-> next[a]]
  /\ fired' = [due |-> due[a], at |-> total]
  /\ \/ \E b \in Alarms \ {a}, n \in Delays : alarm_start(b, n)
     \/ \E b \in Alarms : (StopsNext \/ b # next[a]) /\ alarm_stop(b)
     \/ UNCHANGED <<alarms, due>>
  /\ UNCHANGED <<rate, nticks, total>>

Return(a, next_callback) ==
  /\ tick.pc = "return" /\ tick.alarm = a
  /\ tick' = Goto(tick.next)
  /\ \/ next_callback = 0 /\ alarm_stop(a)
     \/ /\ next_callback # 0
        /\ time' = [time EXCEPT ![a] = (@ + next_callback) % W]
        /\ rollover' = [rollover EXCEPT ![a] = time'[a] < nticks]
        /\ due' = [due EXCEPT ![a] = IF @ = 0 THEN 0 ELSE @ + next_callback]
        /\ UNCHANGED <<next, previous>>
  /\ UNCHANGED <<rate, nticks, total, fired>>

Next ==
  \/ sysclk_init \/ Program \/ Tick
  \/ \E a \in Alarms : Pass(a) \/ Call(a) \/ \E p \in Periods : Return(a, p)

Spec == Init /\ [][Next]_vars

-----------------------------------------------------------------------------
\* A callback comes nticks + 1 ticks after its alarm was started and then every
\* period it returned, in that very tick, across every wrap of the counter,
\* and though the callbacks of the tick change the list: none comes early, none
\* is passed over, and none comes after its alarm was stopped.  It takes that no
\* callback stops the alarm linked after its own (StopsNext).
AlarmOnTime ==
  /\ fired.at = fired.due
  /\ tick = Idle => \A a \in Alarms : due[a] # 0 => due[a] > total
=============================================================================
