------------------------------ MODULE BusySleep ------------------------------
(***************************************************************************)
(* alt_busy_sleep, and usleep, which is a call of it: a wait counted in    *)
(* iterations of a loop of two instructions.  An iteration is a step.      *)
(* Words have W values, of which INT_MAX = W \div 2 - 1 is the largest     *)
(* signed one.                                                             *)
(***************************************************************************)
EXTENDS Integers

CONSTANTS
  W,              \* 2^32
  LoopsPerUs      \* ALT_CPU_FREQ / (cycles_per_loop * 1000000): 16 at 50 MHz

INT_MAX == W \div 2 - 1
UsPerBigLoop == INT_MAX \div LoopsPerUs
SleepAssumption ==
  W \in Nat /\ W % 2 = 0 /\ LoopsPerUs \in Nat \ {0} /\ LoopsPerUs <= INT_MAX

VARIABLES
  asked,          \* the microseconds of the call
  pc, us, big_loops, i,
  register,       \* the operand of the assembler loop
  hoisted,        \* the compiler puts INT_MAX in it once, before the loops
  spent           \* history: iterations done

vars == <<asked, pc, us, big_loops, i, register, hoisted, spent>>

Init ==
  /\ asked \in 0 .. W - 1 /\ us = asked
  /\ big_loops = us \div UsPerBigLoop /\ i = 0 /\ spent = 0 /\ hoisted \in BOOLEAN
  /\ IF big_loops # 0 THEN pc = "big" /\ register = INT_MAX
     ELSE pc = "short" /\ register = (us * LoopsPerUs) % W

Minus1 == (register + W - 1) % W
Iterate == register' = Minus1 /\ spent' = spent + 1

\* addi -1, bne 0: with a register of 0 it goes once around all values.  The
\* assembler loop changes the register that it declares an input, so that it
\* is 0 when a compiler sets it to INT_MAX once for all the big loops.
Big ==
  /\ pc = "big" /\ Minus1 # 0 /\ Iterate
  /\ UNCHANGED <<asked, pc, us, big_loops, i, hoisted>>

BigLast ==
  /\ pc = "big" /\ Minus1 = 0 /\ spent' = spent + 1
  /\ us' = us - UsPerBigLoop /\ i' = i + 1
  /\ IF i + 1 < big_loops THEN register' = (IF hoisted THEN 0 ELSE INT_MAX) /\ UNCHANGED pc
     ELSE pc' = "rest" /\ register' = ((us - UsPerBigLoop) * LoopsPerUs) % W
  /\ UNCHANGED <<asked, big_loops, hoisted>>

Rest ==
  /\ pc = "rest" /\ Iterate
  /\ pc' = IF Minus1 = 0 THEN "returned" ELSE "rest"
  /\ UNCHANGED <<asked, us, big_loops, i, hoisted>>

\* addi -1, bgt 0.
Short ==
  /\ pc = "short" /\ Iterate
  /\ pc' = IF Minus1 = 0 \/ Minus1 > INT_MAX THEN "returned" ELSE "short"
  /\ UNCHANGED <<asked, us, big_loops, i, hoisted>>

Next == Big \/ BigLast \/ Rest \/ Short

Spec == Init /\ [][Next]_vars

-----------------------------------------------------------------------------
(* Properties.                                                             *)

\* The rest that is left is nothing, and is counted around all values.
WholeBigLoops == big_loops # 0 /\ asked % UsPerBigLoop = 0

\* Iterations that a register of 0 adds to a big loop.
Around == IF hoisted /\ big_loops > 1 THEN (big_loops - 1) * (W - INT_MAX) ELSE 0

(* A sleep is never shorter than it was asked to be, also when it is       *)
(* longer than a word of iterations.  It is longer by at most an iteration *)
(* or what the big loops round up to, but by a whole word of iterations    *)
(* (over four minutes) when it is a multiple of the big loop, and by half  *)
(* a word for every big loop but one if the compiler sets INT_MAX once.    *)
SleptAsAsked ==
  pc = "returned" =>
    LET over == spent - asked * LoopsPerUs - Around - (IF WholeBigLoops THEN W ELSE 0)
    IN 0 <= over /\ over <= 1 + big_loops * (INT_MAX % LoopsPerUs)
=============================================================================
