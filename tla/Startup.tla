------------------------------- MODULE Startup -------------------------------
(***************************************************************************)
(* From reset to the end of main: alt_main, with the interrupt controller, *)
(* the drivers in the order of alt_sys_init, the standard streams, the     *)
(* constructors, main and exit, in every configuration that the macros of  *)
(* the drivers and of alt_main provide for.  Interrupts are on while the   *)
(* drivers start; timers that a reset of the processor did not stop go on. *)
(***************************************************************************)
EXTENDS Integers, SequencesExt

CONSTANTS
  Objects,        \* static C++ objects: __CTOR_LIST__, __DTOR_LIST__
  MaxTicks        \* bounds the ticks of the system clock

StartupAssumption == Objects \in Nat /\ MaxTicks \in Nat

VARIABLES
  config,         \* the settings of the build
  todo,           \* the operations from here to the end
  pie, ienable, line,     \* the processor; the interrupts that are asserted
  asserting,      \* the devices whose interrupts are on
  handlers,       \* the interrupts that have a handler
  tick_rate, nticks, ts_freq,
  second,         \* the alarm of the JTAG UART that looks for the host
  devices, streams,
  objects,        \* the objects that are constructed
  dtors           \* whether atexit has _do_dtors

vars == <<config, todo, pie, ienable, line, asserting, handlers, tick_rate, nticks,
          ts_freq, second, devices, streams, objects, dtors>>

Timers == {"TIMER_0", "TIMER_1"}
Jtag == "JTAG_UART_0"

Drivers == <<"TIMER_0", "TIMER_1", "EPCS", Jtag, "COUNTER_0", "SYSID_QSYS_0">>

\* What the INIT macro of a driver comes to.
InitOf(dev, c) ==
  LET Do(op) == [op |-> op, dev |-> dev]
  IN CASE dev = c.clock -> <<Do("rate"), Do("irq on"), Do("register")>>
       [] dev = c.stamp -> <<Do("stamp")>>
       [] dev = Jtag ->
            (IF c.small THEN <<>> ELSE <<Do("irq on"), Do("register"), Do("alarm")>>)
            \o (IF c.direct THEN <<>> ELSE <<Do("device")>>)
       [] OTHER -> <<>>

alt_main(c) ==
  LET Do(op) == [op |-> op, dev |-> "none"]
      Inits == FlattenSeq([k \in DOMAIN Drivers |-> InitOf(Drivers[k], c)])
      If(on, ops) == IF on THEN ops ELSE <<>>
  IN <<Do("irq none"), Do("irq enable")>> \o Inits
     \o If(~c.direct, <<Do("redirect")>>)
     \o If(c.cpp, [k \in 1 .. Objects |-> [op |-> "construct", dev |-> Objects + 1 - k]])
     \o If(c.cpp /\ c.clean /\ c.exit, <<Do("atexit")>>)
     \o <<Do("main")>>
     \o If(c.exit, <<Do("close stdout"), Do("exit")>>)
     \o <<Do("spin")>>

Configs ==
  {c \in [clock : Timers \cup {"none"}, stamp : Timers \cup {"none"},
          small : BOOLEAN, direct : BOOLEAN, cpp : BOOLEAN, clean : BOOLEAN, exit : BOOLEAN] :
     c.clock = c.stamp => c.clock = "none"}

Init ==
  /\ config \in Configs /\ todo = alt_main(config)
  /\ pie = FALSE /\ ienable = {} /\ line \in SUBSET (Timers \cup {Jtag}) /\ asserting = line
  /\ handlers = {} /\ tick_rate = 0 /\ nticks = 0 /\ ts_freq = 0
  /\ second = "none" /\ devices = {} /\ streams = FALSE /\ objects = {} /\ dtors = FALSE

-----------------------------------------------------------------------------
Doing(op) == Head(todo).op = op /\ todo' = Tail(todo)
dev == Head(todo).dev

IrqInit ==
  /\ \/ Doing("irq none") /\ ienable' = {} /\ UNCHANGED pie
     \/ Doing("irq enable") /\ pie' = TRUE /\ UNCHANGED ienable
  /\ UNCHANGED <<config, line, asserting, handlers, tick_rate, nticks, ts_freq,
                 second, devices, streams, objects, dtors>>

ClockInit ==
  /\ \/ Doing("rate") /\ tick_rate' = (IF tick_rate = 0 THEN 1 ELSE tick_rate) /\ UNCHANGED ts_freq
     \/ Doing("stamp") /\ ts_freq' = 1 /\ UNCHANGED tick_rate
  /\ UNCHANGED <<config, pie, ienable, line, asserting, handlers, nticks, second,
                 devices, streams, objects, dtors>>

InterruptsOn ==
  /\ Doing("irq on") /\ asserting' = asserting \cup {dev}
  /\ UNCHANGED <<config, pie, ienable, line, handlers, tick_rate, nticks, ts_freq,
                 second, devices, streams, objects, dtors>>

\* alt_ic_isr_register, with interrupts off from its start to its end.
Register ==
  /\ Doing("register")
  /\ handlers' = handlers \cup {dev} /\ ienable' = ienable \cup {dev}
  /\ UNCHANGED <<config, pie, line, asserting, tick_rate, nticks, ts_freq, second,
                 devices, streams, objects, dtors>>

\* Without a system clock there is no alarm: the host is taken to be there.
HostAlarm ==
  /\ Doing("alarm")
  /\ second' = IF tick_rate = 0 THEN "never" ELSE "armed"
  /\ UNCHANGED <<config, pie, ienable, line, asserting, handlers, tick_rate, nticks,
                 ts_freq, devices, streams, objects, dtors>>

Streams ==
  /\ \/ Doing("device") /\ devices' = devices \cup {dev} /\ UNCHANGED streams
     \/ Doing("redirect") /\ streams' = (Jtag \in devices) /\ UNCHANGED devices
     \/ Doing("close stdout") /\ streams' = FALSE /\ UNCHANGED devices
  /\ UNCHANGED <<config, pie, ienable, line, asserting, handlers, tick_rate, nticks,
                 ts_freq, second, objects, dtors>>

\* exit runs what atexit was given: the destructors.
ObjectsOf ==
  /\ \/ Doing("construct") /\ objects' = objects \cup {dev} /\ UNCHANGED dtors
     \/ Doing("atexit") /\ dtors' = TRUE /\ UNCHANGED objects
     \/ Doing("exit") /\ objects' = (IF dtors THEN {} ELSE objects) /\ UNCHANGED dtors
  /\ UNCHANGED <<config, pie, ienable, line, asserting, handlers, tick_rate, nticks,
                 ts_freq, second, devices, streams>>

\* main runs for as long as it likes; what follows the last operation is a loop.
Main ==
  /\ Doing("main")
  /\ UNCHANGED <<config, pie, ienable, line, asserting, handlers, tick_rate, nticks,
                 ts_freq, second, devices, streams, objects, dtors>>

-----------------------------------------------------------------------------
Request(d) ==
  /\ d \in asserting \ line /\ line' = line \cup {d}
  /\ UNCHANGED <<config, todo, pie, ienable, asserting, handlers, tick_rate, nticks,
                 ts_freq, second, devices, streams, objects, dtors>>

\* The handler of a device serves it; that of the timer counts a tick.
Interrupt(d) ==
  /\ pie /\ d \in line \cap ienable \cap handlers /\ line' = line \ {d}
  /\ nticks' = IF d = config.clock THEN nticks + 1 ELSE nticks
  /\ nticks' <= MaxTicks
  /\ UNCHANGED <<config, todo, pie, ienable, asserting, handlers, tick_rate, ts_freq,
                 second, devices, streams, objects, dtors>>

Next ==
  \/ IrqInit \/ ClockInit \/ InterruptsOn \/ Register \/ HostAlarm \/ Streams \/ ObjectsOf \/ Main
  \/ \E d \in Timers \cup {Jtag} : Request(d) \/ Interrupt(d)

Spec == Init /\ [][Next]_vars

-----------------------------------------------------------------------------
(* Properties.                                                             *)

\* From the start of main to its end.
InMain == Head(todo).op = "main"

(* No interrupt that is let through is without its handler, whatever was   *)
(* asserted before, and no tick comes before the clock has its rate.  main *)
(* finds the clock, the timestamp, the streams and the objects that the    *)
(* build has, and the JTAG UART looks for its host if and only if there is *)
(* a clock, whichever timer that is.  Objects outlive the use of stdout,   *)
(* and are destroyed only by a clean exit.                                 *)
StartedUp ==
  /\ pie => ienable \subseteq handlers
  /\ nticks > 0 => tick_rate # 0
  /\ InMain =>
       /\ pie /\ (tick_rate # 0 <=> config.clock # "none") /\ (ts_freq # 0 <=> config.stamp # "none")
       /\ second = CASE config.small -> "none" [] config.clock = "none" -> "never" [] OTHER -> "armed"
       /\ streams = ~config.direct
       /\ objects = IF config.cpp THEN 1 .. Objects ELSE {}
  /\ Head(todo).op = "spin" =>
       (objects # {} <=> config.cpp /\ Objects > 0 /\ ~(config.clean /\ config.exit))
=============================================================================
