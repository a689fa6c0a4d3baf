---------------------------- MODULE OneShotTimer ----------------------------
(***************************************************************************)
(* software/aes_aca/timer.c on the interval timer of the system.  Every    *)
(* access to a register of the timer is a step, and the timer may count    *)
(* down any number of times between two of them.  The timer itself is not  *)
(* part of the repository: it is modelled from the accesses of timer.c and *)
(* the register header of its driver, in the one-shot mode in which they   *)
(* use it.  The user timer and the global timer differ in their address    *)
(* and frequency only; one timer is modelled.                              *)
(***************************************************************************)
EXTENDS Integers

CONSTANTS
  Half,             \* 2^16, the range of PERIODL and PERIODH
  FREQ,             \* TIMER_USER_FREQ, TIMER_GLOBAL_FREQ
  BASE,             \* TIMER_USER_BASE
  Delays,           \* milliseconds the program asks for
  MaxCalls          \* bounds the calls of a behaviour

Width == Half * Half
PerMs == FREQ \div 1000
LoadValue == PerMs - 1      \* TIMER_0_LOAD_VALUE, one millisecond

(* The delays fit the counter: longer ones wrap around, and 0 asks for the *)
(* longest of all.                                                         *)
DelaysAssumption ==
  /\ Half \in Nat \ {0} /\ FREQ \in Nat
  /\ PerMs \in 1 .. Width
  /\ \A d \in Delays : d \in Nat \ {0} /\ PerMs * d <= Width

VARIABLES
  pc, routine, ms, calls,               \* the program
  periodLow, periodHigh, count, running, timeout, snap,   \* the timer
  period, value,                        \* locals of __timer_elapsed
  started,                              \* a timer_start since the last reset
  since,                                \* history: ticks since the start
  atCall                                \* history: since, at the call

program == <<pc, routine, ms, calls>>
registers == <<periodLow, periodHigh, count, running, timeout, snap>>
local == <<period, value>>
history == <<started, since, atCall>>
vars == <<program, registers, local, history>>

Init ==
  /\ pc = "main" /\ routine = "none" /\ ms = 0 /\ calls = 0
  /\ periodLow = LoadValue % Half /\ periodHigh = LoadValue \div Half
  /\ count = LoadValue /\ snap = 0
  /\ running = FALSE /\ timeout = FALSE
  /\ period = 0 /\ value = 0
  /\ started = FALSE /\ since = 0 /\ atCall = 0

-----------------------------------------------------------------------------
(* The timer.  At zero it sets TO, takes the period again and stops, CONT  *)
(* never being set; the two bits of the status are cleared by any write.   *)

Tick ==
  /\ running
  /\ IF count = 0
     THEN timeout' = TRUE /\ running' = FALSE /\ count' = periodLow + Half * periodHigh
     ELSE count' = count - 1 /\ UNCHANGED <<timeout, running>>
  /\ since' = since + 1
  /\ UNCHANGED <<program, periodLow, periodHigh, snap, local, started, atCall>>

WriteStop  == running' = FALSE /\ UNCHANGED <<periodLow, periodHigh, count, timeout, snap>>
WriteStart == running' = TRUE /\ UNCHANGED <<periodLow, periodHigh, count, timeout, snap>>
WriteStatus == timeout' = FALSE /\ UNCHANGED <<periodLow, periodHigh, count, running, snap>>
WritePeriod(low, high) ==
  /\ periodLow' = low /\ periodHigh' = high
  /\ count' = low + Half * high
  /\ running' = FALSE
  /\ UNCHANGED <<timeout, snap>>
WriteSnap == snap' = count /\ UNCHANGED <<periodLow, periodHigh, count, running, timeout>>

-----------------------------------------------------------------------------
(* timer.c.  A caller waits for a timeout only of a timer it started, and  *)
(* asks for the time elapsed while that one runs.  timer_start_global takes *)
(* the period 0xFFFFFFFF, which is the one of 0 milliseconds.              *)

Starts == {"timer_start", "timer_wait", "timer_start_global"}

Call(r) ==
  /\ pc = "main" /\ calls < MaxCalls
  /\ routine' = r /\ calls' = calls + 1

CallStart ==
  /\ \E r \in Starts : Call(r)
  /\ ms' \in IF routine' = "timer_start_global" THEN {0} ELSE Delays
  /\ pc' = "stop"
  /\ UNCHANGED <<registers, local, history>>

CallReset ==
  /\ Call("timer_reset")
  /\ pc' = "stop"
  /\ UNCHANGED <<ms, registers, local, history>>

CallWaitForTo ==
  /\ Call("timer_wait_for_to") /\ started
  /\ pc' = "poll"
  /\ UNCHANGED <<ms, registers, local, history>>

CallElapsed ==
  /\ Call("timer_elapsed") /\ started
  /\ pc' = "periodh"
  /\ atCall' = since
  /\ UNCHANGED <<ms, registers, local, started, since>>

(* __timer_reset: CONTROL, then STATUS.                                    *)
ResetStop ==
  /\ pc = "stop"
  /\ WriteStop
  /\ pc' = "clear"
  /\ started' = FALSE
  /\ UNCHANGED <<routine, ms, calls, local, since, atCall>>

ResetStopOnly ==                        \* mutant: TO of the last time stays
  /\ pc = "clear"
  /\ pc' = IF routine \in Starts THEN "periodl" ELSE "main"
  /\ UNCHANGED <<routine, ms, calls, registers, local, history>>

ResetClear ==
  /\ pc = "clear"
  /\ WriteStatus
  /\ pc' = IF routine \in Starts THEN "periodl" ELSE "main"
  /\ UNCHANGED <<routine, ms, calls, local, history>>

PeriodOf(delay) == (PerMs * delay - 1) % Width

StartPeriodL ==
  /\ pc = "periodl"
  /\ WritePeriod(PeriodOf(ms) % Half, periodHigh)
  /\ pc' = "periodh_write"
  /\ UNCHANGED <<routine, ms, calls, local, history>>

StartPeriodH ==
  /\ pc = "periodh_write"
  /\ WritePeriod(periodLow, PeriodOf(ms) \div Half)
  /\ pc' = "start"
  /\ UNCHANGED <<routine, ms, calls, local, history>>

StartForgotten ==                       \* mutant: START is not written
  /\ pc = "start"
  /\ pc' = IF routine = "timer_wait" THEN "poll" ELSE "main"
  /\ started' = TRUE /\ since' = 0
  /\ UNCHANGED <<routine, ms, calls, registers, local, atCall>>

StartGo ==
  /\ pc = "start"
  /\ WriteStart
  /\ pc' = IF routine = "timer_wait" THEN "poll" ELSE "main"
  /\ started' = TRUE /\ since' = 0
  /\ UNCHANGED <<routine, ms, calls, local, atCall>>

(* while (timer_read_to()==0);                                             *)
Poll ==
  /\ pc = "poll"
  /\ pc' = IF timeout THEN "main" ELSE "poll"
  /\ UNCHANGED <<routine, ms, calls, registers, local, history>>

(* __timer_elapsed: the period, a snapshot, and its two halves.            *)
ElapsedPeriodH ==
  /\ pc = "periodh"
  /\ period' = Half * periodHigh
  /\ pc' = "periodl_read"
  /\ UNCHANGED <<routine, ms, calls, registers, value, history>>

ElapsedPeriodL ==
  /\ pc = "periodl_read"
  /\ period' = period + periodLow
  /\ pc' = "snap"
  /\ UNCHANGED <<routine, ms, calls, registers, value, history>>

ElapsedSnapStale ==                     \* mutant: no new snapshot
  /\ pc = "snap"
  /\ pc' = "snaph"
  /\ UNCHANGED <<routine, ms, calls, registers, local, history>>

ElapsedSnap ==
  /\ pc = "snap"
  /\ WriteSnap
  /\ pc' = "snaph"
  /\ UNCHANGED <<routine, ms, calls, local, history>>

ElapsedSnapH ==
  /\ pc = "snaph"
  /\ value' = Half * (snap \div Half)
  /\ pc' = "snapl"
  /\ UNCHANGED <<routine, ms, calls, registers, period, history>>

ElapsedSnapL ==
  /\ pc = "snapl"
  /\ value' = value + (snap % Half)
  /\ pc' = "elapsed"
  /\ UNCHANGED <<routine, ms, calls, registers, period, history>>

(* (period-snap)/(freq/1000): timer_elapsed_global gives its frequency and *)
(* timer_elapsed the base address of its timer.                            *)
Quotient(freq) == ((period - value) % Width) \div (freq \div 1000)
ElapsedGlobal == Quotient(FREQ)
ElapsedUser == Quotient(BASE)

ElapsedReturn ==
  /\ pc = "elapsed"
  /\ pc' = "main"
  /\ UNCHANGED <<routine, ms, calls, registers, local, history>>

Step ==
  \/ ResetStop \/ ResetClear
  \/ StartPeriodL \/ StartPeriodH \/ StartGo
  \/ Poll
  \/ ElapsedPeriodH \/ ElapsedPeriodL \/ ElapsedSnap
  \/ ElapsedSnapH \/ ElapsedSnapL \/ ElapsedReturn

CallAny == CallStart \/ CallReset \/ CallWaitForTo \/ CallElapsed
Next == Tick \/ Step \/ CallAny

(* The processor runs, and the timer counts.                               *)
Spec == Init /\ [][Next]_vars /\ WF_vars(Tick) /\ WF_vars(Step)

-----------------------------------------------------------------------------
(* Properties.                                                             *)

TypeOK ==
  /\ periodLow \in 0 .. Half - 1 /\ periodHigh \in 0 .. Half - 1
  /\ count \in 0 .. Width - 1 /\ snap \in 0 .. Width - 1
  /\ period \in 0 .. Width - 1 /\ value \in 0 .. Width - 1
  /\ since \in 0 .. Width

(***************************************************************************)
(* timer_wait and timer_wait_for_to never return early: the delay of the   *)
(* last start has passed, whatever the timer was doing before, and whether *)
(* or not it timed out while it was being set up again.                    *)
(***************************************************************************)
WaitedLongEnough == pc = "poll" /\ pc' = "main" /\ ms # 0 => since = PerMs * ms
WaitsLongEnough == [][WaitedLongEnough]_vars

(* A wait returns: the timeout is not lost between start and poll.         *)
WaitReturns == pc = "poll" ~> pc # "poll"

(***************************************************************************)
(* "Returns the time elapsed since the global timer was initialized in ms" *)
(* (timer.c:50): a time between the call and the return, although the      *)
(* counter moves while its two halves are read; until the timer times out. *)
(***************************************************************************)
InMs(result) ==
  pc = "elapsed" /\ running => result \in (atCall \div PerMs) .. (since \div PerMs)
GlobalInMs == InMs(ElapsedGlobal)

(***************************************************************************)
(* "Reads the elapsed time in ms since the timer was started" (timer.c:95) *)
(* of timer_elapsed.                                                       *)
(***************************************************************************)
UserInMs == InMs(ElapsedUser)
=============================================================================
