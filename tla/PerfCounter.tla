---------------------------- MODULE PerfCounter ----------------------------
(***************************************************************************)
(* The performance counter with which main times the two ciphers.  A       *)
(* section counts clocks in two words of HALF, the high one read after the *)
(* low one; section 0 is the whole measurement, and no other counts while  *)
(* it is stopped.  The clock runs between any two accesses of the program. *)
(* A report reads section 0 and then the sections there are.               *)
(***************************************************************************)
EXTENDS Integers, Sequences, FiniteSetsExt

CONSTANTS
  Sections,       \* the sections used, 0 among them
  HALF,           \* one more than the largest word
  MaxClocks       \* bounds the run

PerfAssumption == Sections \subseteq Nat /\ Sections = 0 .. Max(Sections) /\ HALF \in Nat \ {0}

VARIABLES
  time, starts, on,        \* the hardware
  elapsed,                 \* the clocks each section was measured for
  reading,                 \* the call that reads: its section and the words
  report                   \* the rows of a report, of section 0, 1 ..

hardware == <<time, starts, on>>
vars == <<hardware, elapsed, reading, report>>

Zeros == [s \in Sections |-> 0]
NotReading == [pc |-> "none", section |-> 0, lo |-> 0, result |-> 0, listed |-> FALSE]

Init ==
  /\ time = Zeros /\ starts = Zeros /\ on = {} /\ elapsed = Zeros
  /\ reading = NotReading /\ report = <<>>

Counting(s) == s \in on /\ 0 \in on

Clock ==
  /\ \A s \in Sections : elapsed[s] < MaxClocks
  /\ time' = [s \in Sections |-> (time[s] + IF Counting(s) THEN 1 ELSE 0) % (HALF * HALF)]
  /\ elapsed' = [s \in Sections |-> elapsed[s] + IF Counting(s) THEN 1 ELSE 0]
  /\ UNCHANGED <<starts, on, reading, report>>

Program == reading.pc \in {"none", "done", "reported"}

PERF_RESET ==
  /\ Program
  /\ time' = Zeros /\ starts' = Zeros /\ on' = {} /\ elapsed' = Zeros
  /\ reading' = NotReading /\ report' = <<>>

PERF_BEGIN(s) ==
  /\ Program
  /\ on' = on \cup {s}
  /\ starts' = [starts EXCEPT ![s] =
                   IF s \notin on /\ (s = 0 \/ 0 \in on) THEN (@ + 1) % HALF ELSE @]
  /\ reading' = NotReading
  /\ report' = <<>>
  /\ UNCHANGED <<time, elapsed>>

PERF_END(s) ==
  /\ Program
  /\ on' = on \ {s}
  /\ reading' = NotReading
  /\ report' = <<>>
  /\ UNCHANGED <<time, starts, elapsed>>

\* perf_get_section_time stops the measurement, then reads the two words.
Stop(s) ==
  /\ Program
  /\ on' = on \ {0}
  /\ reading' = [NotReading EXCEPT !.pc = "lo", !.section = s]
  /\ report' = <<>>
  /\ UNCHANGED <<time, starts, elapsed>>

ReadLow ==
  /\ reading.pc = "lo"
  /\ reading' = [reading EXCEPT !.pc = "hi", !.lo = time[reading.section] % HALF]
  /\ UNCHANGED <<hardware, elapsed, report>>

ReadHigh ==
  /\ reading.pc = "hi"
  /\ reading' = [reading EXCEPT !.pc = IF reading.listed THEN "row" ELSE "done", !.lo = 0,
                   !.result = (time[reading.section] \div HALF) * HALF + reading.lo]
  /\ UNCHANGED <<hardware, elapsed, report>>

\* perf_print_formatted_report: the total first, then a row for each section
\* with its time and its starts; each reading stops the measurement again.
Report ==
  /\ Program
  /\ on' = on \ {0} /\ report' = <<>>
  /\ reading' = [NotReading EXCEPT !.pc = "lo", !.listed = TRUE]
  /\ UNCHANGED <<time, starts, elapsed>>

Row ==
  /\ reading.pc = "row"
  /\ report' = Append(report, [time |-> reading.result, starts |-> starts[reading.section]])
  /\ IF reading.section + 1 \in Sections
     THEN /\ on' = on \ {0}
          /\ reading' = [reading EXCEPT !.pc = "lo", !.section = @ + 1]
     ELSE reading' = [NotReading EXCEPT !.pc = "reported"] /\ UNCHANGED on
  /\ UNCHANGED <<time, starts, elapsed>>

Next ==
  \/ Clock \/ PERF_RESET \/ ReadLow \/ ReadHigh \/ Report \/ Row
  \/ \E s \in Sections : PERF_BEGIN(s) \/ PERF_END(s) \/ Stop(s)

Spec == Init /\ [][Next]_vars

-----------------------------------------------------------------------------
\* A reading is the time its section was measured for since the reset, not a
\* mixture of two times, however the clock carries between the accesses, and
\* no more than the time of the whole measurement.  The rows of a report are of
\* one moment, though it reads them one after the other.
SectionTimes ==
  /\ reading.pc = "done" =>
       reading.result = elapsed[reading.section] /\ reading.result <= time[0]
  /\ reading.pc = "reported" =>
       /\ Len(report) = 1 + Max(Sections)
       /\ \A s \in Sections : report[s + 1] = [time |-> elapsed[s], starts |-> starts[s]]
=============================================================================
