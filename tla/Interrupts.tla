----------------------------- MODULE Interrupts -----------------------------
(***************************************************************************)
(* The interrupts of the board support package: the internal controller of *)
(* the processor, the table of handlers, the dispatcher and the calls that *)
(* register a handler, enable and disable an interrupt, which the program  *)
(* and the handlers make, an instruction per step where the steps matter.  *)
(***************************************************************************)
EXTENDS Integers, FiniteSetsExt

CONSTANTS
  Irqs,        \* interrupt numbers, the lowest has the highest priority
  Handlers,    \* a handler is registered with the context of the same name
  None,        \* no handler
  MaxCalls     \* bounds the calls

IrqAssumption == Irqs \subseteq Nat /\ None \notin Handlers

VARIABLES
  pie, ienable, line,      \* the processor; the interrupts devices assert
  alt_irq_active, alt_irq, \* what is enabled; the table
  proc,                    \* the call each of program and handler is in
  isr,                     \* the dispatcher: the interrupt it serves
  asked,                   \* the interrupts enabled by the calls so far
  served,                  \* the last interrupt served, as it was then
  calls

vars == <<pie, ienable, line, alt_irq_active, alt_irq, proc, isr, asked, served, calls>>

Callers == {"program", "handler"}
NoCall == [op |-> "none", pc |-> "none", irq |-> 0, isr |-> None, status |-> FALSE, outer |-> FALSE, tmp |-> {}]
Off == -1

Init ==
  /\ pie = TRUE /\ ienable = {} /\ line = {} /\ alt_irq_active = {}
  /\ alt_irq = [i \in Irqs |-> [handler |-> None, context |-> None]]
  /\ proc = [c \in Callers |-> NoCall] /\ isr = Off /\ asked = {}
  /\ served = [enabled |-> TRUE, handler |-> None, context |-> None] /\ calls = 0

\* The dispatcher runs with the program stopped.
Running(c) == IF c = "program" THEN isr = Off ELSE isr \in Irqs
At(c, pc) == Running(c) /\ proc[c].pc = pc
Goto(c, pc) == proc' = [proc EXCEPT ![c].pc = pc]

-----------------------------------------------------------------------------
(* The calls.                                                              *)

Begin(c) ==
  /\ At(c, "none") /\ calls < MaxCalls /\ calls' = calls + 1
  /\ \E irq \in Irqs :
       \/ \E op \in {"enable", "disable"} :
            proc' = [proc EXCEPT ![c] = [NoCall EXCEPT !.op = op, !.pc = "disable_all", !.irq = irq]]
       \/ \E h \in Handlers \cup {None} :
            proc' = [proc EXCEPT ![c] = [NoCall EXCEPT !.op = "register", !.pc = "disable_all",
                                                       !.irq = irq, !.isr = h]]
  /\ UNCHANGED <<pie, ienable, line, alt_irq_active, alt_irq, isr, asked, served>>

irq_disable_nothing(c) ==      \* mutant: PIE stays as it is
  /\ At(c, "disable_all")
  /\ proc' = [proc EXCEPT ![c] =
       IF @.op = "register" THEN [@ EXCEPT !.outer = pie, !.pc = "handler"]
                            ELSE [@ EXCEPT !.status = pie, !.pc = "load"]]
  /\ UNCHANGED <<pie, ienable, line, alt_irq_active, alt_irq, isr, asked, served, calls>>

\* Registering is a critical section around that of enabling or disabling.
irq_disable_all(c) ==
  /\ At(c, "disable_all")
  /\ pie' = FALSE
  /\ proc' = [proc EXCEPT ![c] =
       IF @.op = "register" THEN [@ EXCEPT !.outer = pie, !.pc = "handler"]
                            ELSE [@ EXCEPT !.status = pie, !.pc = "load"]]
  /\ UNCHANGED <<ienable, line, alt_irq_active, alt_irq, isr, asked, served, calls>>

SetHandler(c) ==
  /\ At(c, "handler") /\ Goto(c, "context")
  /\ alt_irq' = [alt_irq EXCEPT ![proc[c].irq].handler = proc[c].isr]
  /\ UNCHANGED <<pie, ienable, line, alt_irq_active, isr, asked, served, calls>>

SetContext(c) ==
  /\ At(c, "context")
  /\ alt_irq' = [alt_irq EXCEPT ![proc[c].irq].context = proc[c].isr]
  /\ proc' = [proc EXCEPT ![c].pc = "disable_all",
                          ![c].op = IF proc[c].isr = None THEN "disable" ELSE "enable"]
  /\ UNCHANGED <<pie, ienable, line, alt_irq_active, isr, asked, served, calls>>

LoadActive(c) ==
  /\ At(c, "load")
  /\ proc' = [proc EXCEPT ![c].tmp = alt_irq_active, ![c].pc = "store"]
  /\ UNCHANGED <<pie, ienable, line, alt_irq_active, alt_irq, isr, asked, served, calls>>

Changed(c, set) == IF proc[c].op = "enable" THEN set \cup {proc[c].irq} ELSE set \ {proc[c].irq}

StoreActive(c) ==
  /\ At(c, "store") /\ Goto(c, "write")
  /\ alt_irq_active' = Changed(c, proc[c].tmp)
  /\ UNCHANGED <<pie, ienable, line, alt_irq, isr, asked, served, calls>>

WriteIenable(c) ==
  /\ At(c, "write") /\ Goto(c, "enable_all")
  /\ ienable' = alt_irq_active /\ asked' = Changed(c, asked)
  /\ UNCHANGED <<pie, line, alt_irq_active, alt_irq, isr, served, calls>>

irq_enable_all(c) ==
  /\ At(c, "enable_all")
  /\ pie' = (proc[c].status \/ proc[c].outer)
  /\ proc' = [proc EXCEPT ![c] = NoCall]
  /\ UNCHANGED <<ienable, line, alt_irq_active, alt_irq, isr, asked, served, calls>>

-----------------------------------------------------------------------------
(* The devices and the dispatcher.                                         *)

Assert(i) ==
  /\ i \notin line /\ line' = line \cup {i}
  /\ UNCHANGED <<pie, ienable, alt_irq_active, alt_irq, proc, isr, asked, served, calls>>

irq_pending == line \cap ienable

Dispatch ==
  /\ isr' = Min(irq_pending)
  /\ served' = [enabled |-> isr' \in asked, handler |-> alt_irq[isr'].handler, context |-> alt_irq[isr'].context]

Enter ==
  /\ isr = Off /\ pie /\ irq_pending # {}
  /\ pie' = FALSE /\ Dispatch
  /\ UNCHANGED <<ienable, line, alt_irq_active, alt_irq, proc, asked, calls>>

\* The handler has served its device and returns; the dispatcher looks again.
Handled ==
  /\ At("handler", "none") /\ isr \in line
  /\ line' = line \ {isr}
  /\ UNCHANGED <<pie, ienable, alt_irq_active, alt_irq, proc, isr, asked, served, calls>>

Leave ==
  /\ At("handler", "none") /\ isr \notin line
  /\ IF irq_pending # {} THEN Dispatch /\ pie' = pie
     ELSE isr' = Off /\ pie' = TRUE /\ UNCHANGED served
  /\ UNCHANGED <<ienable, line, alt_irq_active, alt_irq, proc, asked, calls>>

Next ==
  \/ \E c \in Callers :
       \/ Begin(c) \/ irq_disable_all(c) \/ SetHandler(c) \/ SetContext(c)
       \/ LoadActive(c) \/ StoreActive(c) \/ WriteIenable(c) \/ irq_enable_all(c)
  \/ \E i \in Irqs : Assert(i)
  \/ Enter \/ Handled \/ Leave

Spec == Init /\ [][Next]_vars

-----------------------------------------------------------------------------
\* A handler that is called is that of an interrupt which the calls so far leave
\* enabled, with the context it was registered with.  Between calls the processor
\* has enabled what the program and the handlers asked for, no update of either
\* lost, and interrupts are on.
HandlersAsAsked ==
  /\ served.enabled /\ served.handler = served.context
  /\ isr = Off /\ proc["program"] = NoCall =>
       ienable = asked /\ alt_irq_active = asked /\ pie
=============================================================================
