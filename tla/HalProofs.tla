------------------------------ MODULE HalProofs ------------------------------
(***************************************************************************)
(* Four components of the board support package: the interrupt calls and   *)
(* the dispatcher, sbrk, the file layer and the caches, for any            *)
(* interrupts, handlers, heaps, devices, descriptors and geometries and    *)
(* any number of calls.  Interrupts is extended; Heap, HalFiles and Caches *)
(* are the instances Brk, Fs and Cache.  Brk takes pie, proc and calls for *)
(* its variables of these names, and Cache calls.  Every theorem is about  *)
(* one component, so what they mean in another does not matter.            *)
(***************************************************************************)
EXTENDS Interrupts, SequenceTheorems, WellFoundedInduction, TLAPS

CONSTANTS Start, Limit, Increments                             \* of Brk
VARIABLES heap_end, blocks, refused
Brk == INSTANCE Heap

CONSTANTS ALT_MAX_FD, Calls, Devices, Filesystems, Files, Streams    \* of Fs
VARIABLES dev_list, fs_list, pool, boot, owned
Fs == INSTANCE HalFiles

-----------------------------------------------------------------------------
(* The interrupts.                                                         *)

Pcs == {"none", "disable_all", "handler", "context", "load", "store", "write", "enable_all"}
Inside == Pcs \ {"none", "disable_all"}

CallRecords ==
  [op : {"none", "enable", "disable", "register"}, pc : Pcs, irq : Nat,
   isr : Handlers \cup {None}, status : BOOLEAN, outer : BOOLEAN, tmp : SUBSET Nat]

TypeOK ==
  /\ pie \in BOOLEAN
  /\ alt_irq \in [Irqs -> [handler : Handlers \cup {None}, context : Handlers \cup {None}]]
  /\ proc \in [Callers -> CallRecords]
  /\ isr \in Irqs \cup {Off}
  /\ alt_irq_active \subseteq Nat /\ line \subseteq Irqs

(* From the instruction after the one that turned interrupts off to the    *)
(* one that turns them on again; a registration has a section in a section. *)
Critical ==
  \/ proc["program"].pc \in Inside
  \/ /\ proc["program"].pc = "disable_all"
     /\ proc["program"].op # "register" /\ proc["program"].outer

(* Interrupts are on when the program runs outside its sections; they are  *)
(* off in them, in the dispatcher and in the handlers, and what is to be   *)
(* restored at the end of a section says so.                               *)
Sections ==
  /\ \A c \in Callers : proc[c].pc = "none" => proc[c] = NoCall
  /\ isr \in Irqs => ~pie /\ ~Critical
  /\ isr = Off => proc["handler"] = NoCall /\ (pie <=> ~Critical)
  /\ proc["program"].pc \in Inside =>
       proc["program"].outer \/ proc["program"].status
  /\ proc["program"].pc \in {"handler", "context"} => proc["program"].outer
  /\ ~proc["handler"].status /\ ~proc["handler"].outer

(* What is enabled is what was asked for, but for an update under way.     *)
MaskKept ==
  /\ ienable = asked
  /\ \A c \in Callers : proc[c].pc = "store" => proc[c].tmp = alt_irq_active
  /\ \A c \in Callers : proc[c].pc = "write" => alt_irq_active = Changed(c, asked)
  /\ (\A c \in Callers : proc[c].pc # "write") => alt_irq_active = asked

(* A handler and its context belong together, but for a registration       *)
(* between its two writes.                                                 *)
TablePaired ==
  \A i \in Irqs :
    IF \E c \in Callers : proc[c].pc = "context" /\ proc[c].irq = i
    THEN \A c \in Callers : proc[c].pc = "context" /\ proc[c].irq = i =>
           alt_irq[i].handler = proc[c].isr
    ELSE alt_irq[i].handler = alt_irq[i].context

ServedRight == served.enabled /\ served.handler = served.context

IInv == TypeOK /\ Sections /\ MaskKept /\ TablePaired /\ ServedRight

-----------------------------------------------------------------------------
(* The dispatcher picks an interrupt that is pending.                      *)
LEMMA MinIn ==
  ASSUME NEW S \in SUBSET Nat, S # {}
  PROVE  Min(S) \in S
<1>1. \E x \in S : \A y \in S : ~(<<y, x>> \in OpToRel(<, Nat))
  BY NatLessThanWellFounded, WFMin
<1>2. PICK x \in S : \A y \in S : ~(<<y, x>> \in OpToRel(<, Nat))
  BY <1>1
<1>3. \A y \in S : ~(y < x)
  <2> SUFFICES ASSUME NEW y \in S, y < x PROVE FALSE
    OBVIOUS
  <2>1. <<y, x>> \in Nat \X Nat /\ <<y, x>>[1] = y /\ <<y, x>>[2] = x
    OBVIOUS
  <2>2. <<y, x>> \in OpToRel(<, Nat)
    BY <2>1, Zenon DEF OpToRel
  <2> QED BY <1>2, <2>2
<1>4. \A y \in S : x <= y
  BY <1>3
<1> QED BY <1>4 DEF Min

LEMMA NoCallRecord == NoCall \in CallRecords
  BY DEF NoCall, CallRecords, Pcs

LEMMA TypeInit ==
  ASSUME IrqAssumption, Init
  PROVE  TypeOK
  BY NoCallRecord DEF Init, TypeOK, IrqAssumption

LEMMA InvInit ==
  ASSUME IrqAssumption, Init
  PROVE  IInv
<1>1. TypeOK
  BY TypeInit
<1>2. Sections
  BY DEF Init, Sections, NoCall, Callers, Critical, Inside, Pcs, IrqAssumption, Off
<1>3. MaskKept /\ TablePaired /\ ServedRight
  BY DEF Init, MaskKept, TablePaired, ServedRight, NoCall, Callers
<1> QED BY <1>1, <1>2, <1>3 DEF IInv

(* Every step of a call replaces its record by another.                    *)
LEMMA CallType ==
  ASSUME TypeOK, NEW c \in Callers, NEW r \in CallRecords,
         proc' = [proc EXCEPT ![c] = r]
  PROVE  proc' \in [Callers -> CallRecords]
  BY DEF TypeOK

LEMMA DispatchType ==
  ASSUME IrqAssumption, TypeOK, irq_pending # {}, Dispatch
  PROVE  isr' \in Irqs /\ isr' \in ienable
<1>1. irq_pending \in SUBSET Nat /\ irq_pending \subseteq Irqs
  BY DEF IrqAssumption, TypeOK, irq_pending
<1>2. isr' \in irq_pending
  BY <1>1, MinIn DEF Dispatch
<1> QED BY <1>1, <1>2 DEF irq_pending

LEMMA TypeStep ==
  ASSUME IrqAssumption, TypeOK, Next
  PROVE  TypeOK'
<1> USE DEF TypeOK, IrqAssumption
<1>1. ASSUME NEW c \in Callers, Begin(c) PROVE TypeOK'
  <2>1. PICK irq \in Irqs :
          \/ \E op \in {"enable", "disable"} :
               proc' = [proc EXCEPT ![c] = [NoCall EXCEPT !.op = op, !.pc = "disable_all",
                                                         !.irq = irq]]
          \/ \E h \in Handlers \cup {None} :
               proc' = [proc EXCEPT ![c] = [NoCall EXCEPT !.op = "register",
                                              !.pc = "disable_all", !.irq = irq, !.isr = h]]
    BY <1>1 DEF Begin
  <2>2. /\ \A op \in {"enable", "disable"} :
             [NoCall EXCEPT !.op = op, !.pc = "disable_all", !.irq = irq] \in CallRecords
        /\ \A h \in Handlers \cup {None} :
             [NoCall EXCEPT !.op = "register", !.pc = "disable_all", !.irq = irq, !.isr = h]
               \in CallRecords
    BY DEF NoCall, CallRecords, Pcs
  <2> QED BY <1>1, <2>1, <2>2 DEF Begin
<1>2. ASSUME NEW c \in Callers, irq_disable_all(c) PROVE TypeOK'
  <2> DEFINE r == IF proc[c].op = "register"
                  THEN [proc[c] EXCEPT !.outer = pie, !.pc = "handler"]
                  ELSE [proc[c] EXCEPT !.status = pie, !.pc = "load"]
  <2>1. r \in CallRecords
    BY DEF CallRecords, Pcs
  <2> QED BY <1>2, <2>1 DEF irq_disable_all
<1>3. ASSUME NEW c \in Callers, SetHandler(c) PROVE TypeOK'
  <2>1. [proc[c] EXCEPT !.pc = "context"] \in CallRecords /\ proc[c].isr \in Handlers \cup {None}
    BY DEF CallRecords, Pcs
  <2> QED BY <1>3, <2>1 DEF SetHandler, Goto
<1>4. ASSUME NEW c \in Callers, SetContext(c) PROVE TypeOK'
  <2> DEFINE r == [proc[c] EXCEPT !.pc = "disable_all",
                                  !.op = IF proc[c].isr = None THEN "disable" ELSE "enable"]
  <2>1. r \in CallRecords /\ proc[c].isr \in Handlers \cup {None}
    BY DEF CallRecords, Pcs
  <2> QED BY <1>4, <2>1 DEF SetContext
<1>5. ASSUME NEW c \in Callers, LoadActive(c) PROVE TypeOK'
  <2>1. [proc[c] EXCEPT !.tmp = alt_irq_active, !.pc = "store"] \in CallRecords
    BY DEF CallRecords, Pcs
  <2> QED BY <1>5, <2>1 DEF LoadActive
<1>6. ASSUME NEW c \in Callers, StoreActive(c) PROVE TypeOK'
  <2>1. [proc[c] EXCEPT !.pc = "write"] \in CallRecords
    BY DEF CallRecords, Pcs
  <2>2. Changed(c, proc[c].tmp) \subseteq Nat
    BY DEF CallRecords, Changed
  <2> QED BY <1>6, <2>1, <2>2 DEF StoreActive, Goto
<1>7. ASSUME NEW c \in Callers, WriteIenable(c) PROVE TypeOK'
  <2>1. [proc[c] EXCEPT !.pc = "enable_all"] \in CallRecords
    BY DEF CallRecords, Pcs
  <2> QED BY <1>7, <2>1 DEF WriteIenable, Goto
<1>8. ASSUME NEW c \in Callers, irq_enable_all(c) PROVE TypeOK'
  <2>1. pie' \in BOOLEAN
    <3>1. pie' = (proc[c].status \/ proc[c].outer)
      BY <1>8 DEF irq_enable_all
    <3> QED BY <3>1, Zenon
  <2> QED BY <1>8, <2>1, NoCallRecord DEF irq_enable_all
<1>9. ASSUME NEW i \in Irqs, Assert(i) PROVE TypeOK'
  BY <1>9 DEF Assert
<1>10. CASE Handled
  BY <1>10 DEF Handled
<1>11. CASE Enter
  BY <1>11, DispatchType DEF Enter
<1>12. CASE Leave
  BY <1>12, DispatchType DEF Leave
<1> QED
  BY <1>1, <1>2, <1>3, <1>4, <1>5, <1>6, <1>7, <1>8, <1>9, <1>10, <1>11, <1>12 DEF Next

-----------------------------------------------------------------------------
(* No two calls are in a section at once.                                  *)
LEMMA Alone ==
  ASSUME TypeOK, Sections, IrqAssumption, NEW c \in Callers, NEW d \in Callers, c # d,
         Running(c), proc[c].pc \in Inside
  PROVE  proc[d].pc \notin Inside
<1>1. c = "program" \/ c = "handler"
  BY DEF Callers
<1>2. CASE c = "program"
  <2>1. d = "handler" /\ isr = Off
    BY <1>2 DEF Callers, Running
  <2> QED BY <2>1 DEF Sections, NoCall, Inside, Pcs
<1>3. CASE c = "handler"
  <2>1. d = "program" /\ isr \in Irqs
    BY <1>3 DEF Callers, Running
  <2> QED BY <2>1 DEF Sections, Critical
<1> QED BY <1>1, <1>2, <1>3

LEMMA MaskStep ==
  ASSUME IrqAssumption, TypeOK, Sections, MaskKept, Next
  PROVE  MaskKept'
<1> USE DEF TypeOK, MaskKept
<1>1. ASSUME NEW c \in Callers, Begin(c) PROVE MaskKept'
  <2>1. /\ proc[c].pc = "none" /\ proc'[c].pc = "disable_all"
        /\ \A d \in Callers \ {c} : proc'[d] = proc[d]
        /\ UNCHANGED <<ienable, alt_irq_active, asked>>
    BY <1>1 DEF Begin, At, NoCall
  <2> QED BY <2>1 DEF Changed
<1>2. ASSUME NEW c \in Callers, irq_disable_all(c) PROVE MaskKept'
  <2>1. /\ proc[c].pc = "disable_all" /\ proc'[c].pc \in {"handler", "load"}
        /\ \A d \in Callers \ {c} : proc'[d] = proc[d]
        /\ UNCHANGED <<ienable, alt_irq_active, asked>>
    BY <1>2 DEF irq_disable_all, At, CallRecords
  <2> QED BY <2>1 DEF Changed
<1>3. ASSUME NEW c \in Callers, SetHandler(c) PROVE MaskKept'
  <2>1. /\ proc[c].pc = "handler" /\ proc'[c].pc = "context"
        /\ \A d \in Callers \ {c} : proc'[d] = proc[d]
        /\ UNCHANGED <<ienable, alt_irq_active, asked>>
    BY <1>3 DEF SetHandler, Goto, At, CallRecords
  <2> QED BY <2>1 DEF Changed
<1>4. ASSUME NEW c \in Callers, SetContext(c) PROVE MaskKept'
  <2>1. /\ proc[c].pc = "context" /\ proc'[c].pc = "disable_all"
        /\ \A d \in Callers \ {c} : proc'[d] = proc[d]
        /\ UNCHANGED <<ienable, alt_irq_active, asked>>
    BY <1>4 DEF SetContext, At, CallRecords
  <2> QED BY <2>1 DEF Changed
<1>5. ASSUME NEW c \in Callers, LoadActive(c) PROVE MaskKept'
  <2>1. /\ proc[c].pc = "load" /\ proc'[c].pc = "store"
        /\ proc'[c].tmp = alt_irq_active
        /\ \A d \in Callers \ {c} : proc'[d] = proc[d]
        /\ UNCHANGED <<ienable, alt_irq_active, asked>>
    BY <1>5 DEF LoadActive, At, CallRecords
  <2> QED BY <2>1 DEF Changed
<1>6. ASSUME NEW c \in Callers, StoreActive(c) PROVE MaskKept'
  <2>1. /\ proc[c].pc = "store" /\ proc'[c] = [proc[c] EXCEPT !.pc = "write"]
        /\ \A d \in Callers \ {c} : proc'[d] = proc[d]
        /\ alt_irq_active' = Changed(c, proc[c].tmp)
        /\ UNCHANGED <<ienable, asked>> /\ Running(c)
    BY <1>6 DEF StoreActive, Goto, At
  <2>2. \A d \in Callers \ {c} : proc[d].pc \notin {"store", "write"}
    BY <2>1, Alone DEF Inside, Pcs
  <2>3. alt_irq_active = asked
    BY <2>1, <2>2
  <2>4. /\ proc'[c].pc = "write" /\ proc'[c].op = proc[c].op /\ proc'[c].irq = proc[c].irq
    BY <2>1 DEF CallRecords
  <2>5. Changed(c, asked)' = Changed(c, proc[c].tmp)
    BY <2>1, <2>3, <2>4 DEF Changed
  <2>6. ASSUME NEW d \in Callers, proc'[d].pc = "write"
        PROVE  alt_irq_active' = Changed(d, asked)'
    <3>1. d = c
      BY <2>1, <2>2, <2>6
    <3> QED BY <2>1, <2>5, <3>1
  <2>7. ASSUME NEW d \in Callers PROVE proc'[d].pc # "store"
    <3>1. CASE d = c
      BY <2>4, <3>1
    <3>2. CASE d # c
      BY <2>1, <2>2, <3>2
    <3> QED BY <3>1, <3>2
  <2> QED BY <2>1, <2>4, <2>6, <2>7 DEF Changed
<1>7. ASSUME NEW c \in Callers, WriteIenable(c) PROVE MaskKept'
  <2>1. /\ proc[c].pc = "write" /\ proc'[c].pc = "enable_all"
        /\ \A d \in Callers \ {c} : proc'[d] = proc[d]
        /\ ienable' = alt_irq_active /\ asked' = Changed(c, asked)
        /\ UNCHANGED alt_irq_active /\ Running(c)
    BY <1>7 DEF WriteIenable, Goto, At, CallRecords
  <2>2. \A d \in Callers \ {c} : proc[d].pc \notin {"store", "write"}
    BY <2>1, Alone DEF Inside, Pcs
  <2> QED BY <2>1, <2>2
<1>8. ASSUME NEW c \in Callers, irq_enable_all(c) PROVE MaskKept'
  <2>1. /\ proc[c].pc = "enable_all" /\ proc'[c].pc = "none"
        /\ \A d \in Callers \ {c} : proc'[d] = proc[d]
        /\ UNCHANGED <<ienable, alt_irq_active, asked>>
    BY <1>8 DEF irq_enable_all, At, NoCall
  <2> QED BY <2>1 DEF Changed
<1>9. CASE (\E i \in Irqs : Assert(i)) \/ Enter \/ Handled \/ Leave
  BY <1>9 DEF Assert, Enter, Handled, Leave, Changed
<1> QED
  BY <1>1, <1>2, <1>3, <1>4, <1>5, <1>6, <1>7, <1>8, <1>9 DEF Next

-----------------------------------------------------------------------------
LEMMA SectionsStep ==
  ASSUME IrqAssumption, TypeOK, Sections, Next
  PROVE  Sections'
<1> USE DEF TypeOK, Sections, Critical, Callers, Inside, Pcs
<1> DEFINE P == "program"
           H == "handler"
<1>0. Off \notin Irqs
  BY DEF IrqAssumption, Off
<1>1. ASSUME NEW c \in Callers, Begin(c) PROVE Sections'
  <2>1. /\ proc[c].pc = "none" /\ Running(c)
        /\ proc'[c].pc = "disable_all" /\ proc'[c].status = FALSE /\ proc'[c].outer = FALSE
        /\ \A d \in Callers \ {c} : proc'[d] = proc[d]
        /\ UNCHANGED <<pie, isr>>
    BY <1>1 DEF Begin, At, NoCall
  <2> QED BY <1>0, <2>1 DEF Running, NoCall
<1>2. ASSUME NEW c \in Callers, irq_disable_all(c) PROVE Sections'
  <2>1. /\ proc[c].pc = "disable_all" /\ Running(c) /\ pie' = FALSE /\ isr' = isr
        /\ \A d \in Callers \ {c} : proc'[d] = proc[d]
    BY <1>2 DEF irq_disable_all, At
  <2>2. CASE proc[c].op = "register"
    <3>1. proc'[c] = [proc[c] EXCEPT !.outer = pie, !.pc = "handler"]
      BY <1>2, <2>2 DEF irq_disable_all
    <3>2. proc'[c].pc = "handler" /\ proc'[c].outer = pie /\ proc'[c].status = proc[c].status
      BY <3>1 DEF CallRecords
    <3> QED BY <1>0, <2>1, <2>2, <3>2 DEF Running
  <2>3. CASE proc[c].op # "register"
    <3>1. proc'[c] = [proc[c] EXCEPT !.status = pie, !.pc = "load"]
      BY <1>2, <2>3 DEF irq_disable_all
    <3>2. proc'[c].pc = "load" /\ proc'[c].status = pie /\ proc'[c].outer = proc[c].outer
      BY <3>1 DEF CallRecords
    <3> QED BY <1>0, <2>1, <2>3, <3>2 DEF Running
  <2> QED BY <2>2, <2>3
<1>3. ASSUME NEW c \in Callers,
             \/ SetHandler(c) \/ LoadActive(c) \/ StoreActive(c) \/ WriteIenable(c)
      PROVE Sections'
  <2>1. /\ proc[c].pc \in {"handler", "load", "store", "write"} /\ Running(c)
        /\ proc'[c].pc \in {"context", "store", "write", "enable_all"}
        /\ proc[c].pc = "handler" <=> proc'[c].pc = "context"
        /\ proc'[c].status = proc[c].status /\ proc'[c].outer = proc[c].outer
        /\ \A d \in Callers \ {c} : proc'[d] = proc[d]
        /\ UNCHANGED <<pie, isr>>
    BY <1>3 DEF SetHandler, LoadActive, StoreActive, WriteIenable, At, Goto, CallRecords
  <2> QED BY <1>0, <2>1 DEF Running
<1>4. ASSUME NEW c \in Callers, SetContext(c) PROVE Sections'
  <2>1. /\ proc[c].pc = "context" /\ Running(c)
        /\ proc'[c].pc = "disable_all" /\ proc'[c].op # "register"
        /\ proc'[c].status = proc[c].status /\ proc'[c].outer = proc[c].outer
        /\ \A d \in Callers \ {c} : proc'[d] = proc[d]
        /\ UNCHANGED <<pie, isr>>
    BY <1>4 DEF SetContext, At, CallRecords
  <2> QED BY <1>0, <2>1 DEF Running
<1>5. ASSUME NEW c \in Callers, irq_enable_all(c) PROVE Sections'
  <2>1. /\ proc[c].pc = "enable_all" /\ Running(c) /\ isr' = isr
        /\ proc' = [proc EXCEPT ![c] = NoCall]
        /\ \A d \in Callers \ {c} : proc'[d] = proc[d]
    BY <1>5 DEF irq_enable_all, At
  <2>2. pie' = (proc[c].status \/ proc[c].outer)
    BY <1>5 DEF irq_enable_all
  <2>3. proc'[c] = NoCall
    BY <2>1
  <2>4. CASE c = "program"
    <3>1. proc[c].status \/ proc[c].outer
      BY <2>1, <2>4
    <3>2. pie'
      BY <2>2, <3>1, Zenon
    <3> QED BY <1>0, <2>1, <2>3, <2>4, <3>2 DEF Running, NoCall
  <2>5. CASE c = "handler"
    <3>1. ~(proc[c].status \/ proc[c].outer)
      BY <2>5
    <3>2. ~pie'
      BY <2>2, <3>1, Zenon
    <3> QED BY <1>0, <2>1, <2>3, <2>5, <3>2 DEF Running, NoCall
  <2> QED BY <2>4, <2>5
<1>6. CASE (\E i \in Irqs : Assert(i)) \/ Handled
  BY <1>6 DEF Assert, Handled
<1>7. CASE Enter
  <2>1. isr = Off /\ pie /\ ~pie' /\ isr' \in Irqs /\ UNCHANGED proc
    BY <1>7, DispatchType DEF Enter
  <2> QED BY <1>0, <2>1 DEF NoCall
<1>8. CASE Leave
  <2>1. isr \in Irqs /\ proc["handler"] = NoCall /\ UNCHANGED proc
    BY <1>8 DEF Leave, At, Running
  <2>2. CASE irq_pending # {}
    <3>1. isr' \in Irqs /\ pie' = pie
      BY <1>8, <2>2, DispatchType DEF Leave
    <3> QED BY <1>0, <2>1, <3>1
  <2>3. CASE irq_pending = {}
    <3>1. isr' = Off /\ pie' = TRUE
      BY <1>8, <2>3 DEF Leave
    <3> QED BY <1>0, <2>1, <3>1
  <2> QED BY <2>2, <2>3
<1> QED
  BY <1>1, <1>2, <1>3, <1>4, <1>5, <1>6, <1>7, <1>8 DEF Next

-----------------------------------------------------------------------------
LEMMA TableStep ==
  ASSUME IrqAssumption, TypeOK, Sections, TablePaired, Next
  PROVE  TablePaired'
<1> USE DEF TypeOK, TablePaired
<1>1. ASSUME NEW c \in Callers, UNCHANGED alt_irq,
             \A d \in Callers \ {c} : proc'[d] = proc[d],
             proc[c].pc # "context", proc'[c].pc # "context"
      PROVE  TablePaired'
  <2>1. \A d \in Callers, i \in Irqs :
          /\ proc'[d].pc = "context" /\ proc'[d].irq = i
               <=> proc[d].pc = "context" /\ proc[d].irq = i
          /\ proc[d].pc = "context" => proc'[d].isr = proc[d].isr
    BY <1>1
  <2> QED BY <1>1, <2>1
<1>2. ASSUME NEW c \in Callers,
             \/ Begin(c) \/ irq_disable_all(c) \/ LoadActive(c) \/ StoreActive(c)
             \/ WriteIenable(c) \/ irq_enable_all(c)
      PROVE  TablePaired'
  <2>1. /\ proc[c].pc # "context" /\ proc'[c].pc # "context" /\ UNCHANGED alt_irq
        /\ \A d \in Callers \ {c} : proc'[d] = proc[d]
    <3>1. CASE Begin(c)
      BY <3>1 DEF Begin, At, NoCall
    <3>4. CASE irq_enable_all(c)
      BY <3>4 DEF irq_enable_all, At, NoCall
    <3>2. CASE irq_disable_all(c)
      BY <3>2 DEF irq_disable_all, At, CallRecords
    <3>3. CASE LoadActive(c) \/ StoreActive(c) \/ WriteIenable(c)
      BY <3>3 DEF LoadActive, StoreActive, WriteIenable, At, Goto, CallRecords
    <3> QED BY <1>2, <3>1, <3>2, <3>3, <3>4
  <2> QED BY <1>1, <2>1
<1>3. ASSUME NEW c \in Callers, SetHandler(c) PROVE TablePaired'
  <2>1. /\ proc[c].pc = "handler" /\ Running(c)
        /\ proc'[c].pc = "context" /\ proc'[c].irq = proc[c].irq
        /\ proc'[c].isr = proc[c].isr
        /\ \A d \in Callers \ {c} : proc'[d] = proc[d]
        /\ alt_irq' = [alt_irq EXCEPT ![proc[c].irq].handler = proc[c].isr]
    BY <1>3 DEF SetHandler, At, Goto, CallRecords
  <2>2. \A d \in Callers \ {c} : proc[d].pc # "context" /\ proc'[d].pc # "context"
    BY <2>1, Alone DEF Inside, Pcs
  <2>3. \A i \in Irqs :
          /\ i = proc[c].irq => alt_irq'[i].handler = proc[c].isr
          /\ i # proc[c].irq => alt_irq'[i] = alt_irq[i]
    BY <2>1
  <2> QED BY <2>1, <2>2, <2>3
<1>4. ASSUME NEW c \in Callers, SetContext(c) PROVE TablePaired'
  <2>1. /\ proc[c].pc = "context" /\ Running(c) /\ proc'[c].pc = "disable_all"
        /\ \A d \in Callers \ {c} : proc'[d] = proc[d]
        /\ alt_irq' = [alt_irq EXCEPT ![proc[c].irq].context = proc[c].isr]
    BY <1>4 DEF SetContext, At, CallRecords
  <2>2. \A d \in Callers \ {c} : proc[d].pc # "context" /\ proc'[d].pc # "context"
    BY <2>1, Alone DEF Inside, Pcs
  <2>3. \A i \in Irqs :
          /\ i = proc[c].irq => /\ alt_irq'[i].context = proc[c].isr
                                /\ alt_irq'[i].handler = alt_irq[i].handler
          /\ i # proc[c].irq => alt_irq'[i] = alt_irq[i]
    BY <2>1
  <2> QED BY <2>1, <2>2, <2>3
<1>5. CASE (\E i \in Irqs : Assert(i)) \/ Enter \/ Handled \/ Leave
  BY <1>5 DEF Assert, Enter, Handled, Leave
<1> QED
  BY <1>2, <1>3, <1>4, <1>5 DEF Next

(* The dispatcher never looks into a registration that is under way.       *)
LEMMA ServedStep ==
  ASSUME IrqAssumption, IInv, Next
  PROVE  ServedRight'
<1> USE DEF IInv, TypeOK
<1>1. ASSUME irq_pending # {}, Dispatch, ~Critical, proc["handler"] = NoCall, UNCHANGED asked
      PROVE  ServedRight'
  <2>1. isr' \in Irqs /\ isr' \in asked
    BY <1>1, DispatchType DEF MaskKept
  <2>2. \A c \in Callers : proc[c].pc # "context"
    BY <1>1 DEF Critical, Inside, Pcs, Callers, NoCall
  <2>3. alt_irq[isr'].handler = alt_irq[isr'].context
    BY <2>1, <2>2 DEF TablePaired
  <2>4. /\ served'.enabled = (isr' \in asked)
        /\ served'.handler = alt_irq[isr'].handler
        /\ served'.context = alt_irq[isr'].context
    BY <1>1 DEF Dispatch
  <2>5. served'.enabled
    BY <2>1, <2>4, Zenon
  <2> QED BY <2>3, <2>4, <2>5 DEF ServedRight
<1>2. CASE Enter
  <2>1. isr = Off /\ pie /\ irq_pending # {} /\ Dispatch /\ UNCHANGED asked
    BY <1>2 DEF Enter
  <2> QED BY <1>1, <2>1 DEF Sections
<1>3. CASE Leave
  <2>1. isr \in Irqs /\ proc["handler"] = NoCall /\ UNCHANGED asked
    BY <1>3 DEF Leave, At, Running, Sections, Callers
  <2>2. CASE irq_pending # {}
    BY <1>1, <1>3, <2>1, <2>2 DEF Leave, Sections
  <2>3. CASE irq_pending = {}
    BY <1>3, <2>3 DEF Leave, ServedRight
  <2> QED BY <2>2, <2>3
<1>4. CASE UNCHANGED served
  BY <1>4 DEF ServedRight
<1> QED
  BY <1>2, <1>3, <1>4 DEF Next, Begin, irq_disable_all, SetHandler, SetContext,
     LoadActive, StoreActive, WriteIenable, irq_enable_all, Assert, Handled

LEMMA InvStep ==
  ASSUME IrqAssumption, IInv, [Next]_vars
  PROVE  IInv'
<1>1. CASE Next
  BY <1>1, TypeStep, SectionsStep, MaskStep, TableStep, ServedStep DEF IInv
<1>2. CASE UNCHANGED vars
  BY <1>2 DEF vars, IInv, TypeOK, Sections, Critical, MaskKept, Changed, TablePaired,
              ServedRight
<1> QED BY <1>1, <1>2

LEMMA Invariant ==
  ASSUME IrqAssumption
  PROVE  Spec => []IInv
<1>1. Init => IInv
  BY InvInit
<1>2. IInv /\ [Next]_vars => IInv'
  BY InvStep
<1> QED BY <1>1, <1>2, PTL DEF Spec

(* No update of the enabled interrupts is lost between program and         *)
(* handlers, no handler is called with the context of another, and         *)
(* interrupts are on again whenever the program is out of its calls.       *)
THEOREM InterruptsAsAsked ==
  ASSUME IrqAssumption
  PROVE  Spec => []HandlersAsAsked
<1>1. IInv => HandlersAsAsked
  <2> SUFFICES ASSUME IInv PROVE HandlersAsAsked
    OBVIOUS
  <2>1. ASSUME isr = Off, proc["program"] = NoCall
        PROVE  ienable = asked /\ alt_irq_active = asked /\ pie
    <3>1. proc["handler"] = NoCall /\ ~Critical
      BY <2>1 DEF IInv, Sections, Critical, NoCall, Inside, Pcs
    <3>2. \A c \in Callers : proc[c].pc # "write"
      BY <2>1, <3>1 DEF Callers, NoCall
    <3> QED BY <2>1, <3>1, <3>2 DEF IInv, Sections, MaskKept
  <2> QED BY <2>1 DEF IInv, ServedRight, HandlersAsAsked
<1> QED BY <1>1, Invariant, PTL
-----------------------------------------------------------------------------
(* sbrk.                                                                   *)

HeapInside == {"align", "check", "enable"}
HeapCalls ==
  [pc : {"none", "disable"} \cup HeapInside, incr : Nat, status : BOOLEAN, end : Nat]

HeapTypeOK ==
  /\ heap_end \in Nat /\ heap_end >= Start
  /\ pie \in BOOLEAN
  /\ proc \in [Brk!Procs -> HeapCalls]
  /\ blocks \subseteq [from : Nat, size : Nat, of : Brk!Procs]

(* Interrupts are off exactly while one of the two works on heap_end.      *)
HeapSections ==
  /\ pie <=> \A p \in Brk!Procs : proc[p].pc \notin HeapInside
  /\ ~(proc["program"].pc \in HeapInside /\ proc["handler"].pc # "none")
  /\ \A p \in Brk!Procs : proc[p].pc \in HeapInside => proc[p].status

(* heap_end is where it was when the call that works on it has read it.    *)
EndCurrent == \A p \in Brk!Procs : proc[p].pc = "check" => proc[p].end = Brk!Aligned(heap_end)

HeapIInv == HeapTypeOK /\ HeapSections /\ EndCurrent /\ Brk!BlocksApart

LEMMA AlignedIs ==
  ASSUME NEW a \in Nat
  PROVE  Brk!Aligned(a) \in Nat /\ Brk!Aligned(a) >= a /\ Brk!Aligned(a) % 4 = 0
  BY DEF Brk!Aligned

LEMMA HeapInit == Brk!HeapAssumption /\ Brk!Init => HeapIInv
  BY DEF Brk!HeapAssumption, Brk!Init, HeapIInv, HeapTypeOK, HeapSections, EndCurrent, Brk!BlocksApart, Brk!NoCall,
         HeapCalls, HeapInside, Brk!Procs

(* A block that starts where the others end shares no byte with them.      *)
LEMMA NewBlock ==
  ASSUME HeapTypeOK, Brk!BlocksApart, NEW b \in [from : Nat, size : Nat, of : Brk!Procs],
         Start \in Nat, Limit \in Nat,
         b.from >= heap_end, b.from % 4 = 0, b.from + b.size <= Limit,
         heap_end' = b.from + b.size, blocks' = blocks \cup {b}, UNCHANGED refused
  PROVE  Brk!BlocksApart'
<1>1. \A d \in blocks : d.from \in Nat /\ d.size \in Nat /\ d.from + d.size <= heap_end
  BY DEF HeapTypeOK, Brk!BlocksApart
<1>2. b.from \in Nat /\ b.size \in Nat /\ heap_end \in Nat /\ heap_end >= Start
  BY DEF HeapTypeOK
<1>3. \A d \in blocks : Brk!Bytes(b) \cap Brk!Bytes(d) = {} /\ Brk!Bytes(d) \cap Brk!Bytes(b) = {}
  BY <1>1, <1>2 DEF Brk!Bytes
<1>4. /\ Brk!Bytes(b) \subseteq Start .. Limit - 1
      /\ \A d \in blocks : d.from + d.size <= heap_end'
  BY <1>1, <1>2 DEF Brk!Bytes
<1> QED BY <1>2, <1>3, <1>4 DEF Brk!BlocksApart, Brk!Bytes

LEMMA HeapStep == Brk!HeapAssumption /\ HeapIInv /\ [Brk!Next]_(Brk!vars) => HeapIInv'
<1> SUFFICES ASSUME Brk!HeapAssumption, HeapIInv, [Brk!Next]_(Brk!vars) PROVE HeapIInv'
  OBVIOUS
<1> USE DEF Brk!HeapAssumption, HeapIInv, HeapTypeOK, Brk!Procs
<1>1. ASSUME NEW p \in Brk!Procs, Brk!Call(p) PROVE HeapIInv'
  <2>1. PICK n \in Nat : proc' = [proc EXCEPT ![p] = [Brk!NoCall EXCEPT !.pc = "disable", !.incr = n]]
    BY <1>1 DEF Brk!Call
  <2>2. [Brk!NoCall EXCEPT !.pc = "disable", !.incr = n] \in HeapCalls
    BY DEF Brk!NoCall, HeapCalls
  <2>3. /\ proc[p].pc = "none" /\ Brk!Running(p) /\ (p = "handler" => pie)
        /\ proc'[p].pc = "disable"
        /\ \A q \in Brk!Procs \ {p} : proc'[q] = proc[q]
        /\ UNCHANGED <<heap_end, pie, blocks, refused>>
    BY <1>1, <2>1 DEF Brk!Call, Brk!At, Brk!NoCall
  <2>4. HeapTypeOK'
    BY <2>1, <2>2, <2>3
  <2>5. HeapSections'
    BY <2>3 DEF HeapSections, Brk!Running, HeapInside
  <2>6. EndCurrent' /\ Brk!BlocksApart'
    BY <2>3 DEF EndCurrent, Brk!BlocksApart
  <2> QED BY <2>4, <2>5, <2>6
<1>2. ASSUME NEW p \in Brk!Procs, Brk!Disable(p) PROVE HeapIInv'
  <2>1. [proc[p] EXCEPT !.pc = "align", !.status = pie] \in HeapCalls
    BY DEF HeapCalls, HeapInside
  <2>2. /\ proc[p].pc = "disable" /\ Brk!Running(p) /\ pie' = FALSE
        /\ proc' = [proc EXCEPT ![p] = [proc[p] EXCEPT !.pc = "align", !.status = pie]]
        /\ UNCHANGED <<heap_end, blocks, refused>>
    BY <1>2 DEF Brk!Disable, Brk!At
  <2>3. /\ proc'[p].pc = "align" /\ proc'[p].status = pie
        /\ \A q \in Brk!Procs \ {p} : proc'[q] = proc[q]
    BY <2>2 DEF HeapCalls
  <2>4. HeapTypeOK'
    BY <2>1, <2>2
  <2>5. HeapSections'
    BY <2>2, <2>3 DEF HeapSections, Brk!Running, HeapInside
  <2>6. EndCurrent' /\ Brk!BlocksApart'
    BY <2>2, <2>3 DEF EndCurrent, Brk!BlocksApart
  <2> QED BY <2>4, <2>5, <2>6
<1>3. ASSUME NEW p \in Brk!Procs, Brk!LoadEnd(p) PROVE HeapIInv'
  <2>1. [proc[p] EXCEPT !.pc = "check", !.end = Brk!Aligned(heap_end)] \in HeapCalls
    BY AlignedIs DEF HeapCalls, HeapInside
  <2>2. /\ proc[p].pc = "align" /\ Brk!Running(p)
        /\ proc' = [proc EXCEPT ![p] = [proc[p] EXCEPT !.pc = "check", !.end = Brk!Aligned(heap_end)]]
        /\ UNCHANGED <<heap_end, pie, blocks, refused>>
    BY <1>3 DEF Brk!LoadEnd, Brk!At
  <2>3. /\ proc'[p].pc = "check" /\ proc'[p].status = proc[p].status
        /\ proc'[p].end = Brk!Aligned(heap_end)
        /\ \A q \in Brk!Procs \ {p} : proc'[q] = proc[q]
    BY <2>2 DEF HeapCalls
  <2>4. HeapTypeOK'
    BY <2>1, <2>2
  <2>5. HeapSections'
    BY <2>2, <2>3 DEF HeapSections, Brk!Running, HeapInside
  <2>6. EndCurrent' /\ Brk!BlocksApart'
    BY <2>2, <2>3 DEF EndCurrent, Brk!BlocksApart
  <2> QED BY <2>4, <2>5, <2>6
<1>4. ASSUME NEW p \in Brk!Procs, Brk!Extend(p) PROVE HeapIInv'
  <2> DEFINE end == proc[p].end
             incr == proc[p].incr
  <2>1. /\ proc[p].pc = "check" /\ Brk!Running(p) /\ UNCHANGED pie
        /\ proc' = [proc EXCEPT ![p] = [proc[p] EXCEPT !.pc = "enable"]]
    BY <1>4 DEF Brk!Extend, Brk!At
  <2>2. [proc[p] EXCEPT !.pc = "enable"] \in HeapCalls
    BY DEF HeapCalls, HeapInside
  <2>3. end \in Nat /\ incr \in Nat /\ end >= heap_end /\ end % 4 = 0
    BY <2>1, AlignedIs DEF EndCurrent, HeapCalls
  <2>4. /\ proc'[p].pc = "enable" /\ proc'[p].status = proc[p].status
        /\ \A q \in Brk!Procs \ {p} : proc'[q] = proc[q]
    BY <2>1 DEF HeapCalls
  <2>5. HeapSections'
    BY <2>1, <2>4 DEF HeapSections, Brk!Running, HeapInside
  <2>6. EndCurrent'
    <3>1. \A q \in Brk!Procs \ {p} : proc[q].pc # "check"
      BY <2>1 DEF HeapSections, Brk!Running, HeapInside
    <3> QED BY <2>4, <3>1 DEF EndCurrent
  <2>7. CASE end + incr <= Limit
    <3> DEFINE b == [from |-> end, size |-> incr, of |-> p]
    <3>1. heap_end' = end + incr /\ blocks' = blocks \cup {b} /\ UNCHANGED refused
      BY <1>4, <2>7 DEF Brk!Extend
    <3>2. b \in [from : Nat, size : Nat, of : Brk!Procs]
      BY <2>3
    <3>3. HeapTypeOK'
      BY <2>1, <2>2, <2>3, <3>1, <3>2
    <3>4. Brk!BlocksApart'
      <4>1. b.from = end /\ b.size = incr
        OBVIOUS
      <4> HIDE DEF b
      <4> QED BY <2>3, <2>7, <3>1, <3>2, <4>1, NewBlock
    <3> QED BY <2>5, <2>6, <3>3, <3>4
  <2>8. CASE ~(end + incr <= Limit)
    <3>1. /\ heap_end' = end /\ UNCHANGED blocks
          /\ refused' = refused \cup {[size |-> incr, free |-> Limit - end]}
      BY <1>4, <2>8 DEF Brk!Extend
    <3>2. HeapTypeOK'
      BY <2>1, <2>2, <2>3, <3>1
    <3>3. incr > Limit - end
      BY <2>3, <2>8
    <3>4. \A d \in blocks : d.from + d.size <= end
      BY <2>3 DEF Brk!BlocksApart
    <3>5. Brk!BlocksApart'
      BY <3>1, <3>3, <3>4 DEF Brk!BlocksApart, Brk!Bytes
    <3> QED BY <2>5, <2>6, <3>2, <3>5
  <2> QED BY <2>7, <2>8
<1>5. ASSUME NEW p \in Brk!Procs, Brk!Enable(p) PROVE HeapIInv'
  <2>1. /\ proc[p].pc = "enable" /\ Brk!Running(p) /\ pie' = proc[p].status
        /\ proc' = [proc EXCEPT ![p] = Brk!NoCall]
        /\ UNCHANGED <<heap_end, blocks, refused>>
    BY <1>5 DEF Brk!Enable, Brk!At
  <2>2. Brk!NoCall \in HeapCalls /\ proc[p].status \in BOOLEAN
    BY DEF Brk!NoCall, HeapCalls
  <2>3. /\ proc'[p].pc = "none"
        /\ \A q \in Brk!Procs \ {p} : proc'[q] = proc[q]
    BY <2>1 DEF Brk!NoCall
  <2>4. HeapTypeOK'
    BY <2>1, <2>2
  <2>5. proc[p].status
    BY <2>1 DEF HeapSections, HeapInside
  <2>6. HeapSections'
    BY <2>1, <2>3, <2>5 DEF HeapSections, Brk!Running, HeapInside
  <2>7. EndCurrent' /\ Brk!BlocksApart'
    BY <2>1, <2>3 DEF EndCurrent, Brk!BlocksApart
  <2> QED BY <2>4, <2>6, <2>7
<1>6. CASE UNCHANGED Brk!vars
  BY <1>6 DEF Brk!vars, HeapSections, EndCurrent, Brk!BlocksApart
<1> QED BY <1>1, <1>2, <1>3, <1>4, <1>5, <1>6 DEF Brk!Next

(* Memory is given out once, aligned and within the heap, whatever calls   *)
(* of program and handlers come between the steps of each other.           *)
THEOREM MemoryGivenOnce ==
  ASSUME Brk!HeapAssumption
  PROVE  Brk!Spec => []Brk!BlocksApart
<1>1. Brk!Init => HeapIInv
  BY HeapInit
<1>2. HeapIInv /\ [Brk!Next]_(Brk!vars) => HeapIInv'
  BY HeapStep
<1>3. HeapIInv => Brk!BlocksApart
  BY DEF HeapIInv
<1> QED BY <1>1, <1>2, <1>3, PTL DEF Brk!Spec

-----------------------------------------------------------------------------
(* The file layer.                                                         *)

Names == Devices \cup Filesystems \cup {Fs!Null}
FdRecords == [dev : Names \cup {Fs!None}, mode : Fs!Modes, flags : SUBSET {"NONBLOCK", "EXCL", "DEV"}]

(* The standard streams are always open, and what alt_ioctl may lock is    *)
(* where alt_file_locked and alt_fd_lock look, up to alt_max_fd.           *)
GoodPool(p) ==
  /\ p \in [fds : [Fs!Fds -> FdRecords], max : Int]
  /\ \A i \in 0 .. 2 : p.fds[i].dev # Fs!None
  /\ \A i \in Fs!Fds : p.fds[i].flags \cap {"EXCL", "DEV"} # {} => i <= p.max

(* No descriptor beyond the standard streams, and none locked.             *)
AsBooted(p) ==
  \A i \in Fs!Fds : /\ "EXCL" \notin p.fds[i].flags
                    /\ i > 2 => p.fds[i].dev = Fs!None

(* What a successful open gives out was free, and was not locked.          *)
GivenOut(p, mode, o) ==
  /\ o.fd \in Fs!Fds /\ o.fd > 2 /\ p.fds[o.fd].dev = Fs!None
  /\ o.p.fds[o.fd].dev \in Names /\ o.p.fds[o.fd].mode = mode /\ "EXCL" \notin o.p.fds[o.fd].flags
  /\ p.max <= o.p.max /\ o.fd <= o.p.max
  /\ \A i \in Fs!Fds \ {o.fd} : o.p.fds[i] = p.fds[i]
  /\ o.p.fds[o.fd].dev \in Devices =>
       \A i \in Fs!Fds : "EXCL" \in p.fds[i].flags => p.fds[i].dev # o.p.fds[o.fd].dev

(* A failed one leaves every descriptor as it was, or frees a free one.    *)
GivenBack(p, o) ==
  /\ o.fd = -1
  /\ \A i \in Fs!Fds : \/ o.p.fds[i] = p.fds[i]
                       \/ o.p.fds[i] = Fs!Free /\ p.fds[i].dev = Fs!None

FsTypeOK ==
  /\ dev_list \in Seq(Devices \cup {Fs!Null}) /\ fs_list \in Seq(Filesystems)
  /\ boot \in BOOLEAN /\ GoodPool(pool)

(* A standard stream on another device than /dev/null has been redirected. *)
Redirections ==
  \A fd \in 0 .. 2 :
    pool.fds[fd].dev # Fs!Null => pool.fds[fd].mode = IF fd = 0 THEN "RDONLY" ELSE "WRONLY"

FsIInv ==
  /\ FsTypeOK /\ Redirections /\ (boot => AsBooted(pool))
  /\ Fs!DescriptorsOwned

LEMMA FdsAre ==
  ASSUME Fs!FilesAssumption
  PROVE  /\ Fs!Fds \subseteq Nat /\ 0 .. 2 \subseteq Fs!Fds /\ Fs!None \notin Names
         /\ Fs!Free \in FdRecords
BY DEF Fs!FilesAssumption, Fs!Fds, Names, Fs!Free, FdRecords, Fs!Modes

\* alt_find_dev and alt_find_file, on the lists of the boot.
LEMMA NamesFound ==
  ASSUME FsTypeOK, Fs!FilesAssumption, NEW file
  PROVE  /\ Fs!find_dev(file) \in Devices \cup {Fs!Null, Fs!None}
         /\ Fs!find_file(file) \in Filesystems \cup {Fs!None}
<1>1. Fs!find_dev(file) \in Devices \cup {Fs!Null, Fs!None}
  BY ElementOfSeq DEF FsTypeOK, Fs!find_dev, Fs!Contains
<1>2. Fs!find_file(file) \in Filesystems \cup {Fs!None}
  <2> DEFINE H == {i \in DOMAIN fs_list : Fs!IsPrefix(fs_list[i], file)}
  <2>1. H \in SUBSET (1 .. Len(fs_list)) /\ Len(fs_list) \in Nat
    BY LenProperties DEF FsTypeOK
  <2>2. Fs!find_file(file) = IF H = {} THEN Fs!None ELSE fs_list[Min(H)]
    BY DEF Fs!find_file, Fs!Min, Min
  <2>3. CASE H # {}
    <3>1. H \in SUBSET Nat
      BY <2>1
    <3> HIDE DEF H
    <3>2. Min(H) \in 1 .. Len(fs_list)
      BY <2>1, <2>3, <3>1, MinIn
    <3> QED BY <2>2, <2>3, <3>2, ElementOfSeq DEF FsTypeOK
  <2> QED BY <2>2, <2>3
<1> QED BY <1>1, <1>2

\* alt_release_fd frees one descriptor, never a standard stream.
LEMMA ReleasedIs ==
  ASSUME Fs!FilesAssumption, NEW p, GoodPool(p), NEW fd \in Fs!Fds
  PROVE  LET q == Fs!release_fd(p, fd)
         IN /\ GoodPool(q) /\ q.max = p.max
            /\ fd > 2 => q.fds[fd] = Fs!Free
            /\ \A i \in Fs!Fds : i # fd \/ fd <= 2 => q.fds[i] = p.fds[i]
<1> DEFINE q == Fs!release_fd(p, fd)
<1> SUFFICES /\ GoodPool(q) /\ q.max = p.max
             /\ fd > 2 => q.fds[fd] = Fs!Free
             /\ \A i \in Fs!Fds : i # fd \/ fd <= 2 => q.fds[i] = p.fds[i]
  OBVIOUS
<1>1. fd \in Int /\ Fs!Free \in FdRecords
  BY FdsAre
<1>2. CASE fd <= 2
  <2>1. q = p
    BY <1>1, <1>2 DEF Fs!release_fd
  <2> HIDE DEF q
  <2> QED BY <1>1, <1>2, <2>1
<1>3. CASE fd > 2
  <2>1. q = [p EXCEPT !.fds[fd] = Fs!Free]
    BY <1>3 DEF Fs!release_fd
  <2> HIDE DEF q
  <2>2. /\ q \in [fds : [Fs!Fds -> FdRecords], max : Int] /\ q.max = p.max
        /\ q.fds = [p.fds EXCEPT ![fd] = Fs!Free]
    BY <1>1, <2>1 DEF GoodPool
  <2>3. /\ q.fds[fd] = Fs!Free
        /\ \A i \in Fs!Fds : i # fd => q.fds[i] = p.fds[i]
    BY <2>2 DEF GoodPool
  <2>4. Fs!Free.flags = {}
    BY DEF Fs!Free
  <2>5. \A i \in Fs!Fds : q.fds[i].flags \cap {"EXCL", "DEV"} # {} => i <= q.max
    BY <2>2, <2>3, <2>4 DEF GoodPool
  <2>6. \A i \in 0 .. 2 : q.fds[i].dev # Fs!None
    BY <1>1, <1>3, <2>3, FdsAre DEF GoodPool
  <2>7. GoodPool(q)
    BY <2>2, <2>5, <2>6 DEF GoodPool
  <2> QED BY <1>1, <1>3, <2>2, <2>3, <2>7
<1> QED BY <1>1, <1>2, <1>3

\* alt_open: get_fd, the search of the lists and the driver's open.
LEMMA OpenedIs ==
  ASSUME FsTypeOK, Fs!FilesAssumption, NEW p, GoodPool(p), NEW file,
         NEW mode \in Fs!Modes, NEW flags \in SUBSET Fs!Settable, NEW status
  PROVE  LET o == Fs!Opened(p, file, mode, flags, status)
         IN GoodPool(o.p) /\ (GivenOut(p, mode, o) \/ GivenBack(p, o))
<1> DEFINE isafs == Fs!find_dev(file) = Fs!None
           dev == IF isafs THEN Fs!find_file(file) ELSE Fs!find_dev(file)
           r == [dev |-> dev, mode |-> mode,
                 flags |-> flags \cup IF isafs THEN {} ELSE {"DEV"}]
           got == Fs!get_fd(p, r)
           granted == /\ isafs \/ ~Fs!file_locked(got.p, got.fd)
                      /\ "open" \in Calls[dev] => status
           i == Fs!Min(Fs!FreeFds(p))
           o == Fs!Opened(p, file, mode, flags, status)
<1>1. /\ dev \in Names \cup {Fs!None} /\ Fs!None \notin Names
      /\ isafs => dev \in Filesystems \cup {Fs!None}
      /\ ~isafs => dev \in Devices \cup {Fs!Null}
      /\ Fs!None \notin Devices /\ Devices \cap Filesystems = {}
  BY NamesFound, FdsAre DEF Names, Fs!FilesAssumption
<1>2. o = IF dev = Fs!None \/ Fs!FreeFds(p) = {} THEN [fd |-> -1, p |-> p]
          ELSE IF granted THEN got
          ELSE [fd |-> -1, p |-> Fs!release_fd(got.p, got.fd)]
  BY Zenon DEF Fs!Opened
<1>3. r.dev = dev /\ r.mode = mode /\ "EXCL" \notin r.flags /\ r \in [dev : {dev}, mode : Fs!Modes, flags : SUBSET {"NONBLOCK", "DEV"}]
  BY DEF Fs!Settable
<1> SUFFICES GoodPool(o.p) /\ (GivenOut(p, mode, o) \/ GivenBack(p, o))
  OBVIOUS
<1> HIDE DEF o, r, dev
<1>4. CASE dev = Fs!None \/ Fs!FreeFds(p) = {}
  <2>1. o = [fd |-> -1, p |-> p]
    BY <1>2, <1>4, Zenon
  <2>2. o.fd = -1 /\ o.p = p
    BY <2>1
  <2> QED BY <2>2 DEF GivenBack
<1>5. CASE dev # Fs!None /\ Fs!FreeFds(p) # {}
  <2>1. i \in Fs!Fds /\ p.fds[i].dev = Fs!None
    <3>1. Fs!FreeFds(p) \in SUBSET Nat
      BY FdsAre DEF Fs!FreeFds
    <3>2. i = Min(Fs!FreeFds(p))
      BY DEF Fs!Min, Min
    <3>3. i \in Fs!FreeFds(p)
      BY <1>5, <3>1, <3>2, MinIn
    <3> QED BY <3>3 DEF Fs!FreeFds
  <2>2. /\ got.fd = i
        /\ got.p = [fds |-> [p.fds EXCEPT ![i] = r], max |-> IF i > p.max THEN i ELSE p.max]
    BY DEF Fs!get_fd
  <2>3. /\ granted => o = got
        /\ ~granted => o.fd = -1 /\ o.p = Fs!release_fd(got.p, i)
    <3> HIDE DEF got, granted
    <3>1. o = IF granted THEN got ELSE [fd |-> -1, p |-> Fs!release_fd(got.p, got.fd)]
      BY <1>2, <1>5, Zenon
    <3> QED BY <2>2, <3>1
  <2> DEFINE q == got.p
  <2>4. /\ q.fds = [p.fds EXCEPT ![i] = r] /\ q.max = IF i > p.max THEN i ELSE p.max
        /\ q \in [fds : [Fs!Fds -> FdRecords], max : Int]
    <3>1. r \in FdRecords
      BY <1>1, <1>3 DEF FdRecords
    <3> HIDE DEF i
    <3>2. i \in Int
      BY <2>1, FdsAre
    <3> HIDE DEF got
    <3> QED BY <2>1, <2>2, <3>1, <3>2 DEF GoodPool
  <2>5. GoodPool(q)
    <3> HIDE DEF i, q
    <3>1. i \in Int /\ i \notin 0 .. 2 /\ i <= q.max /\ p.max <= q.max
      BY <2>1, <2>4, FdsAre DEF GoodPool
    <3>2. \A j \in Fs!Fds : q.fds[j] = IF j = i THEN r ELSE p.fds[j]
      BY <2>1, <2>4 DEF GoodPool
    <3>3. \A j \in 0 .. 2 : q.fds[j].dev # Fs!None
      BY <2>1, <3>1, <3>2, FdsAre DEF GoodPool
    <3>4. \A j \in Fs!Fds : q.fds[j].flags \cap {"EXCL", "DEV"} # {} => j <= q.max
      <4> SUFFICES ASSUME NEW j \in Fs!Fds, q.fds[j].flags \cap {"EXCL", "DEV"} # {}
                   PROVE  j <= q.max
        OBVIOUS
      <4>1. CASE j = i
        BY <3>1, <4>1
      <4>2. CASE j # i
        BY <3>1, <3>2, <4>2, <2>4, FdsAre DEF GoodPool
      <4> QED BY <4>1, <4>2
    <3> QED BY <2>4, <3>3, <3>4 DEF GoodPool
  <2> HIDE DEF i
  <2>6. CASE granted
    <3>1. o.fd = i /\ o.p = q
      BY <2>2, <2>3, <2>6, Zenon
    <3> HIDE DEF q
    <3>2. i \in Int /\ i > 2 /\ i <= q.max /\ p.max <= q.max
      BY <2>1, <2>4, FdsAre DEF GoodPool
    <3>3. q.fds[i] = r /\ \A j \in Fs!Fds \ {i} : q.fds[j] = p.fds[j]
      BY <2>1, <2>4 DEF GoodPool
    <3>4. dev \in Devices => \A j \in Fs!Fds : "EXCL" \in p.fds[j].flags => p.fds[j].dev # dev
      <4> SUFFICES ASSUME dev \in Devices, NEW j \in Fs!Fds, "EXCL" \in p.fds[j].flags,
                          p.fds[j].dev = dev
                   PROVE  FALSE
        OBVIOUS
      <4>1. ~Fs!file_locked(q, i)
        <5>1. ~isafs
          BY <1>1
        <5>2. granted => isafs \/ ~Fs!file_locked(got.p, got.fd)
          OBVIOUS
        <5>3. ~Fs!file_locked(got.p, got.fd)
          BY <2>6, <5>1, <5>2, Zenon
        <5> HIDE DEF got
        <5> QED BY <2>2, <5>3, Zenon DEF q
      <4>2. j # i /\ q.fds[j] = p.fds[j]
        BY <1>1, <2>1, <3>3
      <4>3. j \in 0 .. q.max
        BY <2>5, <4>2, FdsAre DEF GoodPool, Fs!Fds
      <4> QED BY <1>3, <3>3, <4>1, <4>2, <4>3 DEF Fs!file_locked
    <3>5. r.dev \in Names
      BY <1>1, <1>3, <1>5
    <3> QED BY <1>3, <2>1, <2>5, <3>1, <3>2, <3>3, <3>4, <3>5 DEF GivenOut
  <2>7. CASE ~granted
    <3>1. o.fd = -1 /\ o.p = Fs!release_fd(q, i)
      BY <2>3, <2>7, Zenon
    <3> HIDE DEF q
    <3>2. i > 2
      BY <2>1, FdsAre DEF GoodPool
    <3>3. /\ GoodPool(o.p) /\ o.p.fds[i] = Fs!Free
          /\ \A j \in Fs!Fds \ {i} : o.p.fds[j] = q.fds[j]
      BY <2>1, <2>5, <3>1, <3>2, ReleasedIs
    <3>4. \A j \in Fs!Fds \ {i} : q.fds[j] = p.fds[j]
      BY <2>1, <2>4 DEF GoodPool
    <3> QED BY <2>1, <3>1, <3>3, <3>4 DEF GivenBack
  <2> QED BY <2>6, <2>7
<1> QED BY <1>4, <1>5

\* alt_open_fd: a standard stream takes over the descriptor that alt_open
\* gave, with its device and mode, and that one is free again.
LEMMA RedirectedIs ==
  ASSUME FsTypeOK, Fs!FilesAssumption, NEW p, GoodPool(p), AsBooted(p), NEW fd \in 0 .. 2,
         NEW file, NEW mode \in Fs!Modes, NEW status
  PROVE  LET q == Fs!Redirected(p, fd, file, mode, status)
         IN /\ GoodPool(q) /\ AsBooted(q)
            /\ \A i \in (0 .. 2) \ {fd} : q.fds[i] = p.fds[i]
            /\ q.fds[fd] = p.fds[fd] \/ q.fds[fd].mode = mode
<1> DEFINE old == Fs!Opened(p, file, mode, {}, status)
           x == [old.p EXCEPT !.fds[fd] = old.p.fds[old.fd]]
           q == Fs!Redirected(p, fd, file, mode, status)
<1> SUFFICES /\ GoodPool(q) /\ AsBooted(q)
             /\ \A i \in (0 .. 2) \ {fd} : q.fds[i] = p.fds[i]
             /\ q.fds[fd] = p.fds[fd] \/ q.fds[fd].mode = mode
  OBVIOUS
<1>1. q = IF old.fd < 0 THEN old.p ELSE Fs!release_fd(x, old.fd)
  BY Zenon DEF Fs!Redirected
<1>2. GoodPool(old.p) /\ (GivenOut(p, mode, old) \/ GivenBack(p, old))
  <2>1. {} \in SUBSET Fs!Settable
    OBVIOUS
  <2> QED BY <2>1, OpenedIs
<1>3. fd \in Fs!Fds /\ 0 .. 2 \subseteq Fs!Fds /\ Fs!Fds \subseteq Nat /\ Fs!Free.flags = {} /\ Fs!Free.dev = Fs!None
  BY FdsAre DEF Fs!Free
<1> HIDE DEF q, old
<1>4. CASE GivenBack(p, old)
  <2>1. q = old.p
    BY <1>1, <1>4 DEF GivenBack
  <2>2. \A i \in 0 .. 2 : q.fds[i] = p.fds[i]
    BY <1>3, <1>4, <2>1 DEF GivenBack, GoodPool
  <2>3. AsBooted(q)
    BY <1>3, <1>4, <2>1 DEF GivenBack, AsBooted
  <2> QED BY <1>2, <2>1, <2>2, <2>3
<1>5. CASE GivenOut(p, mode, old)
  <2> DEFINE i == old.fd
  <2>1. i \in Fs!Fds /\ i > 2 /\ q = Fs!release_fd(x, i)
    BY <1>1, <1>3, <1>5 DEF GivenOut
  <2>2. /\ x \in [fds : [Fs!Fds -> FdRecords], max : Int] /\ x.max = old.p.max
        /\ x.fds = [old.p.fds EXCEPT ![fd] = old.p.fds[i]]
    BY <1>2, <1>3, <2>1 DEF GoodPool
  <2>3. \A j \in Fs!Fds : x.fds[j] = IF j = fd THEN old.p.fds[i] ELSE old.p.fds[j]
    BY <1>2, <2>2 DEF GoodPool
  <2> HIDE DEF i, x
  <2>4. old.p.fds[i].dev # Fs!None /\ fd <= x.max
    <3>1. old.p.fds[i].dev \in Names /\ i <= old.p.max
      BY <1>5 DEF GivenOut, i
    <3>2. old.p.max \in Int /\ i \in Int
      BY <1>2, <1>3, <2>1 DEF GoodPool
    <3>3. Fs!None \notin Names
      BY FdsAre
    <3>4. fd <= x.max
      BY <2>1, <2>2, <3>1, <3>2
    <3> QED BY <3>1, <3>3, <3>4
  <2>5. GoodPool(x)
    <3>1. \A j \in 0 .. 2 : x.fds[j].dev # Fs!None
      BY <1>2, <1>3, <2>3, <2>4 DEF GoodPool
    <3>2. \A j \in Fs!Fds : x.fds[j].flags \cap {"EXCL", "DEV"} # {} => j <= x.max
      BY <1>2, <2>2, <2>3, <2>4 DEF GoodPool
    <3> QED BY <2>2, <3>1, <3>2 DEF GoodPool
  <2>6. /\ GoodPool(q) /\ q.fds[i] = Fs!Free
        /\ \A j \in Fs!Fds \ {i} : q.fds[j] = x.fds[j]
    BY <2>1, <2>5, ReleasedIs
  <2>7. \A j \in Fs!Fds \ {i} : old.p.fds[j] = p.fds[j]
    BY <1>5 DEF GivenOut, i
  <2>8. \A j \in 0 .. 2 : j \in Fs!Fds \ {i}
    BY <1>3, <2>1
  <2>9. AsBooted(q)
    <3> SUFFICES ASSUME NEW j \in Fs!Fds
                 PROVE  "EXCL" \notin q.fds[j].flags /\ (j > 2 => q.fds[j].dev = Fs!None)
      BY DEF AsBooted
    <3>1. CASE j = i
      BY <1>3, <2>6, <3>1
    <3>2. CASE j = fd
      BY <1>5, <2>3, <2>6, <2>8, <3>2 DEF GivenOut, i
    <3>3. CASE j # i /\ j # fd
      BY <2>3, <2>6, <2>7, <3>3 DEF AsBooted
    <3> QED BY <3>1, <3>2, <3>3
  <2>10. q.fds[fd].mode = mode
    BY <1>3, <1>5, <2>3, <2>6, <2>8 DEF GivenOut, i
  <2>11. \A j \in (0 .. 2) \ {fd} : q.fds[j] = p.fds[j]
    BY <1>3, <2>3, <2>6, <2>7, <2>8
  <2> QED BY <2>6, <2>9, <2>10, <2>11
<1> QED BY <1>2, <1>4, <1>5

LEMMA FilesInit == Fs!FilesAssumption /\ Fs!Init => FsIInv
<1> SUFFICES ASSUME Fs!FilesAssumption, Fs!Init
             PROVE  FsIInv
  OBVIOUS
<1> USE DEF Fs!Init
<1> DEFINE first == [Fs!Free EXCEPT !.dev = Fs!Null]
<1>1. /\ Fs!Free \in FdRecords /\ Fs!Free.flags = {} /\ Fs!Free.dev = Fs!None
      /\ first \in FdRecords /\ first.flags = {} /\ first.dev = Fs!Null
  BY FdsAre DEF Fs!Free, FdRecords, Names
<1>2. /\ pool = [fds |-> [i \in Fs!Fds |-> IF i < 3 THEN first ELSE Fs!Free], max |-> -1]
      /\ owned = [i \in Fs!Fds |-> IF i < 3 THEN Fs!Null ELSE Fs!None]
      /\ boot = TRUE
  OBVIOUS
<1>3. Fs!Null # Fs!None /\ Fs!Fds \subseteq Nat /\ 0 .. 2 \subseteq Fs!Fds
  BY FdsAre DEF Names
<1> HIDE DEF first
<1>4. GoodPool(pool)
  <2>1. pool.max \in Int /\ pool \in [fds : [Fs!Fds -> FdRecords], max : Int]
    BY ONLY <1>1, <1>2, <1>3
  <2>2. \A i \in Fs!Fds : /\ pool.fds[i].flags = {}
                          /\ i < 3 => pool.fds[i].dev = Fs!Null
    BY ONLY <1>1, <1>2, <1>3
  <2>3. \A i \in 0 .. 2 : pool.fds[i].dev # Fs!None
    BY ONLY <1>3, <2>2
  <2> QED BY ONLY <2>1, <2>2, <2>3 DEF GoodPool
<1>5. dev_list \in Seq(Devices \cup {Fs!Null}) /\ fs_list \in Seq(Filesystems)
  BY EmptySeq
<1>6. Redirections /\ AsBooted(pool) /\ Fs!DescriptorsOwned
  BY <1>1, <1>2, <1>3 DEF Redirections, AsBooted, Fs!DescriptorsOwned
<1> QED BY <1>2, <1>4, <1>5, <1>6 DEF FsIInv, FsTypeOK

\* alt_open, as a step of the program.
LEMMA OpenStep ==
  ASSUME Fs!FilesAssumption, FsIInv, NEW file, NEW mode \in Fs!Modes,
         NEW flags \in SUBSET Fs!Settable, Fs!open(file, mode, flags)
  PROVE  FsIInv' /\ Fs!NotLocked
<1>1. PICK status \in BOOLEAN :
        LET o == Fs!Opened(pool, file, mode, flags, status) IN
          /\ pool' = o.p
          /\ owned' = IF o.fd < 0 THEN owned ELSE [owned EXCEPT ![o.fd] = o.p.fds[o.fd].dev]
  BY Zenon DEF Fs!open
<1> DEFINE o == Fs!Opened(pool, file, mode, flags, status)
<1>2. UNCHANGED <<dev_list, fs_list, boot>> /\ ~boot
  BY DEF Fs!open, Fs!Lists
<1>3. /\ pool' = o.p
      /\ owned' = IF o.fd < 0 THEN owned ELSE [owned EXCEPT ![o.fd] = o.p.fds[o.fd].dev]
  BY <1>1, Zenon
<1>4. GoodPool(o.p) /\ (GivenOut(pool, mode, o) \/ GivenBack(pool, o))
  BY OpenedIs DEF FsIInv, FsTypeOK
<1>5. GoodPool(pool) /\ owned = [i \in Fs!Fds |-> pool.fds[i].dev] /\ Fs!Fds \subseteq Nat
      /\ 0 .. 2 \subseteq Fs!Fds /\ Fs!Free.dev = Fs!None /\ Fs!None \notin Devices
  BY FdsAre DEF FsIInv, FsTypeOK, Fs!DescriptorsOwned, Fs!Free, Names
<1> HIDE DEF o
<1>6. GoodPool(pool)'
  BY <1>3, <1>4
<1>7. \A i \in 0 .. 2 : pool'.fds[i] = pool.fds[i]
  BY <1>3, <1>4, <1>5 DEF GivenOut, GivenBack, GoodPool
<1>8. Redirections'
  BY <1>7 DEF FsIInv, Redirections
<1>9. Fs!DescriptorsOwned'
  <2> SUFFICES owned' = [i \in Fs!Fds |-> pool'.fds[i].dev]
    BY DEF Fs!DescriptorsOwned
  <2>1. CASE GivenOut(pool, mode, o)
    <3>1. o.fd \in Fs!Fds /\ \A i \in Fs!Fds \ {o.fd} : o.p.fds[i] = pool.fds[i]
      BY <2>1 DEF GivenOut
    <3>2. owned' = [owned EXCEPT ![o.fd] = o.p.fds[o.fd].dev]
      <4>1. ~(o.fd < 0)
        <5>1. o.fd \in Nat
          BY <1>5, <3>1
        <5> QED BY ONLY <5>1
      <4> QED BY ONLY <1>3, <4>1
    <3> QED BY <1>3, <1>5, <3>1, <3>2
  <2>2. CASE GivenBack(pool, o)
    <3>1. owned' = owned /\ \A i \in Fs!Fds : o.p.fds[i].dev = pool.fds[i].dev
      BY <1>3, <1>5, <2>2 DEF GivenBack
    <3> QED BY <1>3, <1>5, <3>1
  <2> QED BY <1>4, <2>1, <2>2
<1>10. Fs!NotLocked
  BY <1>3, <1>4, <1>5 DEF GivenOut, GivenBack, Fs!NotLocked
<1> QED BY <1>2, <1>6, <1>8, <1>9, <1>10 DEF FsIInv, FsTypeOK

\* alt_main redirects standard output, input and error, in this order.
LEMMA RedirectStep ==
  ASSUME Fs!FilesAssumption, FsIInv, Fs!io_redirect
  PROVE  FsIInv' /\ Fs!NotLocked
<1>1. boot /\ AsBooted(pool) /\ GoodPool(pool)
  BY DEF Fs!io_redirect, FsIInv, FsTypeOK
<1>2. PICK status \in [0 .. 2 -> BOOLEAN] :
        LET out == Fs!Redirected(pool, 1, Streams[2], "WRONLY", status[1])
            in == Fs!Redirected(out, 0, Streams[1], "RDONLY", status[0])
        IN pool' = Fs!Redirected(in, 2, Streams[3], "WRONLY", status[2])
  BY Zenon DEF Fs!io_redirect
<1> DEFINE out == Fs!Redirected(pool, 1, Streams[2], "WRONLY", status[1])
           in == Fs!Redirected(out, 0, Streams[1], "RDONLY", status[0])
<1>3. pool' = Fs!Redirected(in, 2, Streams[3], "WRONLY", status[2])
  BY <1>2, Zenon
<1>4. {0, 1, 2} = 0 .. 2 /\ "WRONLY" \in Fs!Modes /\ "RDONLY" \in Fs!Modes
  BY DEF Fs!Modes
<1>5. /\ GoodPool(out) /\ AsBooted(out)
      /\ out.fds[0] = pool.fds[0] /\ out.fds[2] = pool.fds[2]
      /\ out.fds[1] = pool.fds[1] \/ out.fds[1].mode = "WRONLY"
  BY <1>1, <1>4, RedirectedIs DEF FsIInv
<1> HIDE DEF out
<1>6. /\ GoodPool(in) /\ AsBooted(in)
      /\ in.fds[1] = out.fds[1] /\ in.fds[2] = out.fds[2]
      /\ in.fds[0] = out.fds[0] \/ in.fds[0].mode = "RDONLY"
  BY <1>4, <1>5, RedirectedIs DEF FsIInv
<1> HIDE DEF in
<1>7. /\ GoodPool(pool') /\ AsBooted(pool')
      /\ pool'.fds[1] = in.fds[1] /\ pool'.fds[0] = in.fds[0]
      /\ pool'.fds[2] = in.fds[2] \/ pool'.fds[2].mode = "WRONLY"
  BY <1>3, <1>4, <1>6, RedirectedIs DEF FsIInv
<1>8. Redirections'
  BY <1>4, <1>5, <1>6, <1>7 DEF FsIInv, Redirections
<1>9. /\ UNCHANGED <<dev_list, fs_list>> /\ boot' = FALSE
      /\ owned' = [i \in Fs!Fds |-> pool'.fds[i].dev]
  BY DEF Fs!io_redirect
<1>10. Fs!NotLocked
  BY <1>1 DEF Fs!NotLocked, AsBooted
<1> QED BY <1>7, <1>8, <1>9, <1>10 DEF FsIInv, FsTypeOK, Fs!DescriptorsOwned

\* A step that changes at most the flags of one descriptor.
LEMMA FlagsStep ==
  ASSUME Fs!FilesAssumption, FsIInv, NEW fd \in Fs!Fds, NEW flags, Fs!InUse(fd),
         flags \in SUBSET {"NONBLOCK", "EXCL", "DEV"},
         "EXCL" \in flags => "EXCL" \in pool.fds[fd].flags \/ "DEV" \in pool.fds[fd].flags,
         "DEV" \in flags => "DEV" \in pool.fds[fd].flags,
         pool' = [pool EXCEPT !.fds[fd].flags = flags],
         UNCHANGED <<dev_list, fs_list, boot, owned>>
  PROVE  FsIInv' /\ Fs!NotLocked
<1>1. GoodPool(pool) /\ owned = [i \in Fs!Fds |-> pool.fds[i].dev] /\ ~boot /\ 0 .. 2 \subseteq Fs!Fds
  BY FdsAre DEF FsIInv, FsTypeOK, Fs!DescriptorsOwned, Fs!InUse
<1>2. /\ pool' \in [fds : [Fs!Fds -> FdRecords], max : Int] /\ pool'.max = pool.max
      /\ pool'.fds[fd].flags = flags
      /\ \A i \in Fs!Fds : /\ pool'.fds[i].dev = pool.fds[i].dev
                           /\ pool'.fds[i].mode = pool.fds[i].mode
                           /\ i # fd => pool'.fds[i] = pool.fds[i]
  BY <1>1 DEF GoodPool, FdRecords
<1>3. GoodPool(pool)'
  <2>1. \A i \in Fs!Fds : pool'.fds[i].flags \cap {"EXCL", "DEV"} # {} => i <= pool'.max
    <3> SUFFICES ASSUME NEW i \in Fs!Fds, pool'.fds[i].flags \cap {"EXCL", "DEV"} # {}
                 PROVE  i <= pool'.max
      OBVIOUS
    <3>1. pool.fds[i].flags \cap {"EXCL", "DEV"} # {}
      BY <1>2
    <3> QED BY <1>1, <1>2, <3>1 DEF GoodPool
  <2>2. \A i \in 0 .. 2 : pool'.fds[i].dev # Fs!None
    BY <1>1, <1>2 DEF GoodPool
  <2> QED BY <1>2, <2>1, <2>2 DEF GoodPool
<1>4. Redirections'
  BY <1>1, <1>2 DEF FsIInv, Redirections
<1>5. Fs!DescriptorsOwned' /\ Fs!NotLocked
  <2>1. \A d \in Devices : d # Fs!None
    BY FdsAre DEF Names
  <2> QED BY <1>1, <1>2, <2>1 DEF Fs!DescriptorsOwned, Fs!NotLocked
<1> QED BY <1>1, <1>3, <1>4, <1>5 DEF FsIInv, FsTypeOK

LEMMA CloseStep ==
  ASSUME Fs!FilesAssumption, FsIInv, NEW fd \in Fs!Fds, Fs!close(fd)
  PROVE  FsIInv' /\ Fs!NotLocked
<1>1. /\ pool' = Fs!release_fd(pool, fd) /\ ~boot
      /\ owned' = IF fd > 2 THEN [owned EXCEPT ![fd] = Fs!None] ELSE owned
      /\ UNCHANGED <<dev_list, fs_list, boot>>
  BY DEF Fs!close, Fs!InUse, Fs!Lists
<1>2. GoodPool(pool) /\ owned = [i \in Fs!Fds |-> pool.fds[i].dev] /\ 0 .. 2 \subseteq Fs!Fds
      /\ fd \in Nat /\ Fs!Free.dev = Fs!None /\ Fs!None \notin Devices
  BY FdsAre DEF FsIInv, FsTypeOK, Fs!DescriptorsOwned, Fs!Free, Names
<1>3. /\ GoodPool(pool')
      /\ fd > 2 => pool'.fds[fd] = Fs!Free
      /\ \A i \in Fs!Fds : i # fd \/ fd <= 2 => pool'.fds[i] = pool.fds[i]
  BY <1>1, <1>2, ReleasedIs
<1>4. \A i \in 0 .. 2 : pool'.fds[i] = pool.fds[i]
  BY <1>2, <1>3
<1>5. Redirections'
  BY <1>4 DEF FsIInv, Redirections
<1>6. Fs!DescriptorsOwned'
  <2> SUFFICES owned' = [i \in Fs!Fds |-> pool'.fds[i].dev]
    BY DEF Fs!DescriptorsOwned
  <2>1. CASE fd > 2
    <3>1. \A i \in Fs!Fds : pool'.fds[i].dev = IF i = fd THEN Fs!None ELSE pool.fds[i].dev
      BY <1>2, <1>3, <2>1
    <3> QED BY <1>1, <1>2, <2>1, <3>1
  <2>2. CASE fd <= 2
    <3>1. \A i \in Fs!Fds : pool'.fds[i].dev = pool.fds[i].dev
      BY <1>2, <1>3, <2>2
    <3> QED BY <1>1, <1>2, <2>2, <3>1
  <2> QED BY <1>2, <2>1, <2>2
<1>7. Fs!NotLocked
  <2>1. \A i \in Fs!Fds : pool'.fds[i].dev = pool.fds[i].dev \/ pool'.fds[i].dev = Fs!None
    <3> TAKE i \in Fs!Fds
    <3>1. CASE i # fd \/ fd <= 2
      BY <1>3, <3>1
    <3>2. CASE i = fd /\ fd > 2
      BY <1>2, <1>3, <3>2
    <3> QED BY <1>2, <3>1, <3>2
  <2> QED BY <1>2, <2>1 DEF Fs!NotLocked
<1> QED BY <1>1, <1>3, <1>5, <1>6, <1>7 DEF FsIInv, FsTypeOK

LEMMA IoctlStep ==
  ASSUME Fs!FilesAssumption, FsIInv, NEW fd \in Fs!Fds, NEW req, Fs!ioctl(fd, req)
  PROVE  FsIInv' /\ Fs!NotLocked
<1>1. Fs!InUse(fd) /\ UNCHANGED <<dev_list, fs_list, boot, owned>> /\ pool.fds[fd] \in FdRecords
  BY DEF Fs!ioctl, Fs!Lists, FsIInv, FsTypeOK, GoodPool
<1> DEFINE flags == pool.fds[fd].flags
<1>2. flags \in SUBSET {"NONBLOCK", "EXCL", "DEV"}
  BY <1>1 DEF FdRecords
<1>3. CASE pool' = pool
  <2>1. \A i \in Fs!Fds : pool'.fds[i] = pool.fds[i]
    BY <1>3
  <2>2. Fs!NotLocked
    BY <2>1, FdsAre DEF Fs!NotLocked, Names
  <2> QED BY <1>1, <1>3, <2>2 DEF FsIInv, FsTypeOK, Redirections, Fs!DescriptorsOwned
<1>4. CASE "DEV" \in flags /\ Fs!fd_lock(fd)
  <2>1. pool' = pool \/ pool' = [pool EXCEPT !.fds[fd].flags = flags \cup {"EXCL"}]
    BY <1>4 DEF Fs!fd_lock
  <2>2. CASE pool' = [pool EXCEPT !.fds[fd].flags = flags \cup {"EXCL"}]
    BY <1>1, <1>2, <1>4, <2>2, FlagsStep
  <2> QED BY <1>3, <2>1, <2>2
<1>5. CASE Fs!fd_unlock(fd)
  <2>1. pool' = [pool EXCEPT !.fds[fd].flags = flags \ {"EXCL"}]
    BY <1>5 DEF Fs!fd_unlock
  <2> QED BY <1>1, <1>2, <2>1, FlagsStep
<1> QED BY <1>3, <1>4, <1>5 DEF Fs!ioctl

LEMMA FcntlStep ==
  ASSUME Fs!FilesAssumption, FsIInv, NEW fd \in Fs!Fds, NEW set \in SUBSET Fs!Settable,
         Fs!fcntl_setfl(fd, set)
  PROVE  FsIInv' /\ Fs!NotLocked
<1> DEFINE flags == pool.fds[fd].flags
<1>1. /\ Fs!InUse(fd) /\ UNCHANGED <<dev_list, fs_list, boot, owned>>
      /\ pool' = [pool EXCEPT !.fds[fd].flags = (flags \ Fs!Settable) \cup set]
  BY DEF Fs!fcntl_setfl, Fs!Lists
<1>2. flags \in SUBSET {"NONBLOCK", "EXCL", "DEV"}
  BY DEF FsIInv, FsTypeOK, GoodPool, FdRecords
<1>3. (flags \ Fs!Settable) \cup set \in SUBSET {"NONBLOCK", "EXCL", "DEV"}
  BY <1>2 DEF Fs!Settable
<1>4. "EXCL" \notin set /\ "DEV" \notin set
  BY DEF Fs!Settable
<1> QED BY <1>1, <1>3, <1>4, FlagsStep

LEMMA FilesStep ==
  Fs!FilesAssumption /\ FsIInv /\ [Fs!Next]_(Fs!vars) => FsIInv' /\ Fs!NotLocked
<1> SUFFICES ASSUME Fs!FilesAssumption, FsIInv, [Fs!Next]_(Fs!vars)
             PROVE  FsIInv' /\ Fs!NotLocked
  OBVIOUS
<1>1. ASSUME UNCHANGED <<pool, boot, owned>>,
             (dev_list \in Seq(Devices \cup {Fs!Null}))', (fs_list \in Seq(Filesystems))'
      PROVE  FsIInv' /\ Fs!NotLocked
  <2>1. Fs!NotLocked
    BY <1>1, FdsAre DEF Fs!NotLocked, Names
  <2> QED BY <1>1, <2>1 DEF FsIInv, FsTypeOK, Redirections, Fs!DescriptorsOwned
<1>2. ASSUME NEW d \in Devices, Fs!dev_llist_insert(d)
      PROVE  FsIInv' /\ Fs!NotLocked
  <2>1. <<d>> \in Seq(Devices \cup {Fs!Null})
    OBVIOUS
  <2>2. dev_list' = <<d>> \o dev_list /\ UNCHANGED <<fs_list, pool, boot, owned>>
    BY <1>2 DEF Fs!dev_llist_insert
  <2> QED BY <1>1, <2>1, <2>2, ConcatProperties DEF FsIInv, FsTypeOK
<1>3. ASSUME NEW f \in Filesystems, Fs!fs_reg(f)
      PROVE  FsIInv' /\ Fs!NotLocked
  <2>1. <<f>> \in Seq(Filesystems)
    OBVIOUS
  <2>2. fs_list' = <<f>> \o fs_list /\ UNCHANGED <<dev_list, pool, boot, owned>>
    BY <1>3 DEF Fs!fs_reg
  <2> QED BY <1>1, <2>1, <2>2, ConcatProperties DEF FsIInv, FsTypeOK
<1>4. CASE UNCHANGED Fs!vars
  BY <1>1, <1>4 DEF Fs!vars, FsIInv, FsTypeOK
<1> QED BY <1>2, <1>3, <1>4, RedirectStep, OpenStep, CloseStep, IoctlStep, FcntlStep DEF Fs!Next

(* A descriptor is open, on the device it was opened on, exactly while the *)
(* program holds it, and no open, lock or close changes what a redirected  *)
(* standard stream serves from what the direct drivers serve.              *)
THEOREM FilesOwned ==
  ASSUME Fs!FilesAssumption, Fs!StreamsAssumption
  PROVE  Fs!Spec => [](Fs!DescriptorsOwned /\ Fs!StreamsAsDirect)
<1>1. Fs!Init => FsIInv
  BY FilesInit
<1>2. FsIInv /\ [Fs!Next]_(Fs!vars) => FsIInv'
  BY FilesStep
<1>3. FsIInv => Fs!StreamsAsDirect
  <2> SUFFICES ASSUME FsIInv, NEW fd \in 0 .. 2, pool.fds[fd].dev = Streams[fd + 1]
               PROVE  /\ Fs!Reads(fd) = (Fs!DirectReads(fd) /\ Fs!HasCall(fd, "read"))
                      /\ Fs!Writes(fd) = (Fs!DirectWrites(fd) /\ Fs!HasCall(fd, "write"))
                      /\ Fs!IsATty(fd) = Fs!DirectIsATty(fd)
                      /\ Fs!Seeks(fd) = Fs!DirectSeeks(fd)
    BY DEF Fs!StreamsAsDirect
  <2>1. fd + 1 \in 1 .. 3
    OBVIOUS
  <2>2. /\ pool.fds[fd].dev # Fs!Null
        /\ "fstat" \notin Calls[pool.fds[fd].dev] /\ "lseek" \notin Calls[pool.fds[fd].dev]
    BY <2>1 DEF Fs!StreamsAssumption
  <2>3. pool.fds[fd].mode = IF fd = 0 THEN "RDONLY" ELSE "WRONLY"
    BY <2>2 DEF FsIInv, Redirections
  <2> QED BY <2>2, <2>3 DEF Fs!Reads, Fs!Writes, Fs!IsATty, Fs!Seeks, Fs!DirectReads,
               Fs!DirectWrites, Fs!DirectIsATty, Fs!DirectSeeks, Fs!HasCall
<1>4. FsIInv => Fs!DescriptorsOwned
  BY DEF FsIInv
<1> QED BY <1>1, <1>2, <1>3, <1>4, PTL DEF Fs!Spec

(* From the step that locks a device to the one that unlocks it no open of *)
(* the device succeeds.                                                    *)
THEOREM LocksExclude ==
  ASSUME Fs!FilesAssumption
  PROVE  Fs!Spec => Fs!LockExcludes
<1>1. Fs!Init => FsIInv
  BY FilesInit
<1>2. FsIInv /\ [Fs!Next]_(Fs!vars) => FsIInv' /\ [Fs!NotLocked]_(Fs!vars)
  BY FilesStep
<1> QED BY <1>1, <1>2, PTL DEF Fs!Spec, Fs!LockExcludes

-----------------------------------------------------------------------------
(* The caches.  Cache is their instance; LoadSections are its sections.    *)

CONSTANTS Lines, LineSize, Slots, LoadSections, MaxStores           \* of Cache
VARIABLES mem, view, dcache, icache, code, pc, call, i, stores
Cache == INSTANCE Caches WITH Sections <- LoadSections

(* A number by its quotient and its remainder.                             *)
LEMMA Parts ==
  ASSUME NEW H \in Nat \ {0}, NEW n \in Int
  PROVE  \E q \in Int, r \in 0 .. H - 1 :
           n = H * q + r /\ n \div H = q /\ n % H = r
<1> DEFINE q == n \div H
           r == n % H
<1>1. q \in Int /\ r \in 0 .. H - 1 /\ n = H * q + r
  OBVIOUS
<1> HIDE DEF q, r
<1>2. n \div H = q /\ n % H = r
  BY DEF q, r
<1> QED BY <1>1, <1>2

(* The line of an address, and the slot of a line.                         *)
LEMMA LineOfAddress ==
  ASSUME Cache!CachesAssumption, NEW a \in Nat
  PROVE  Cache!Line(a) \in Nat
<1>1. LineSize \in Nat \ {0}
  BY DEF Cache!CachesAssumption
<1>2. PICK q \in Int, r \in 0 .. LineSize - 1 :
        a = LineSize * q + r /\ a \div LineSize = q
  BY <1>1, Parts
<1>3. q >= 0
  <2> SUFFICES ASSUME q <= -1 PROVE FALSE
    BY <1>2
  <2>1. LineSize * q <= 0 - LineSize
    BY <1>1, <1>2
  <2> QED BY <1>1, <1>2, <2>1
<1> QED BY <1>2, <1>3 DEF Cache!Line

LEMMA SlotOfLine ==
  ASSUME Cache!CachesAssumption, NEW l \in Int
  PROVE  Cache!Slot(l) \in 0 .. Slots - 1
<1> QED BY DEF Cache!Slot, Cache!CachesAssumption

LEMMA SlotOfSmall ==
  ASSUME Cache!CachesAssumption, NEW s \in 0 .. Slots - 1
  PROVE  Cache!Slot(s) = s
<1>1. Slots \in Nat \ {0}
  BY DEF Cache!CachesAssumption
<1>2. PICK q \in Int, r \in 0 .. Slots - 1 :
        s = Slots * q + r /\ s % Slots = r
  BY <1>1, Parts
<1>3. q = 0
  <2>1. CASE q >= 1
    <3>1. Slots * q >= Slots
      BY <1>1, <2>1
    <3> QED BY <1>1, <1>2, <3>1
  <2>2. CASE q <= -1
    <3>1. Slots * q <= 0 - Slots
      BY <1>1, <2>2
    <3> QED BY <1>1, <1>2, <3>1
  <2> QED BY <2>1, <2>2
<1>4. Slots * q = 0
  BY <1>1, <1>3
<1> QED BY <1>1, <1>2, <1>4 DEF Cache!Slot

LEMMA LineMonotone ==
  ASSUME Cache!CachesAssumption, NEW a \in Nat, NEW b \in Nat, a <= b
  PROVE  /\ Cache!Line(a) <= Cache!Line(b)
         /\ b % LineSize = 0 /\ a < b => Cache!Line(a) < Cache!Line(b)
<1>1. LineSize \in Nat \ {0}
  BY DEF Cache!CachesAssumption
<1>2. PICK q \in Int, r \in 0 .. LineSize - 1 :
        a = LineSize * q + r /\ a \div LineSize = q
  BY <1>1, Parts
<1>3. PICK p \in Int, s \in 0 .. LineSize - 1 :
        b = LineSize * p + s /\ b \div LineSize = p /\ b % LineSize = s
  BY <1>1, Parts
<1>4. q <= p
  <2> SUFFICES ASSUME q >= p + 1 PROVE FALSE
    BY <1>2, <1>3
  <2>1. LineSize * q >= LineSize * p + LineSize
    BY <1>1, <1>2, <1>3
  <2> QED BY <1>1, <1>2, <1>3, <2>1
<1>5. s = 0 /\ a < b => q # p
  BY <1>1, <1>2, <1>3
<1> QED BY <1>2, <1>3, <1>4, <1>5 DEF Cache!Line

LEMMA LineFurther ==
  ASSUME Cache!CachesAssumption, NEW a \in Nat, NEW n \in Nat
  PROVE  /\ Cache!Line(a + LineSize * n) = Cache!Line(a) + n
         /\ (a + LineSize * n) % LineSize = a % LineSize
<1>1. LineSize \in Nat \ {0}
  BY DEF Cache!CachesAssumption
<1>2. PICK q \in Int, r \in 0 .. LineSize - 1 :
        a = LineSize * q + r /\ a \div LineSize = q /\ a % LineSize = r
  BY <1>1, Parts
<1>3. LineSize * n \in Nat
  BY <1>1
<1>4. PICK b \in Nat : b = a + LineSize * n
  BY <1>3
<1>5. PICK p \in Int, s \in 0 .. LineSize - 1 :
        b = LineSize * p + s /\ b \div LineSize = p /\ b % LineSize = s
  BY <1>1, Parts
<1>6. PICK e \in Int : e = p - q - n
  BY <1>2, <1>5
<1>7. LineSize * e = r - s
  <2>1. LineSize * p = LineSize * q + LineSize * n + LineSize * e
    BY <1>1, <1>2, <1>5, <1>6
  <2> QED BY <1>1, <1>2, <1>3, <1>4, <1>5, <2>1
<1>8. e = 0
  <2>1. CASE e >= 1
    <3>1. LineSize * e >= LineSize
      BY <1>1, <2>1
    <3> QED BY <1>1, <1>2, <1>5, <1>7, <3>1
  <2>2. CASE e <= -1
    <3>1. LineSize * e <= 0 - LineSize
      BY <1>1, <2>2
    <3> QED BY <1>1, <1>2, <1>5, <1>7, <3>1
  <2> QED BY <2>1, <2>2
<1>9. r = s
  <2>1. LineSize * e = 0
    BY <1>1, <1>8
  <2> QED BY <1>2, <1>5, <1>7, <2>1
<1> QED BY <1>2, <1>4, <1>5, <1>6, <1>8, <1>9 DEF Cache!Line

LEMMA NextLine ==
  ASSUME Cache!CachesAssumption, NEW a \in Nat
  PROVE  /\ a + LineSize \in Nat /\ Cache!Line(a + LineSize) = Cache!Line(a) + 1
         /\ (a + LineSize) % LineSize = a % LineSize
<1>1. LineSize \in Nat \ {0} /\ LineSize * 1 = LineSize
  BY DEF Cache!CachesAssumption
<1>2. /\ Cache!Line(a + LineSize * 1) = Cache!Line(a) + 1
      /\ (a + LineSize * 1) % LineSize = a % LineSize
  BY LineFurther
<1> QED BY <1>1, <1>2

(* As many lines in a row as the cache has slots take every slot.          *)
LEMMA EverySlotTaken ==
  ASSUME Cache!CachesAssumption, NEW first \in Nat, NEW l \in Nat, first <= l
  PROVE  \E m \in first .. first + Slots - 1 : Cache!Slot(m) = Cache!Slot(l)
<1>1. Slots \in Nat \ {0}
  BY DEF Cache!CachesAssumption
<1>2. PICK n \in Nat : n = l - first
  OBVIOUS
<1>3. PICK q \in Int, r \in 0 .. Slots - 1 :
        n = Slots * q + r /\ n \div Slots = q /\ n % Slots = r
  BY <1>1, Parts
<1>4. PICK m \in Nat : m = first + r
  BY <1>1, <1>3
<1>5. PICK p \in Int, s \in 0 .. Slots - 1 :
        m = Slots * p + s /\ m \div Slots = p /\ m % Slots = s
  BY <1>1, Parts
<1>6. PICK u \in Int, t \in 0 .. Slots - 1 :
        l = Slots * u + t /\ l \div Slots = u /\ l % Slots = t
  BY <1>1, Parts
<1>7. PICK e \in Int : e = u - p - q
  BY <1>3, <1>5, <1>6
<1>8. Slots * e = s - t
  <2>1. Slots * u = Slots * p + Slots * q + Slots * e
    BY <1>1, <1>3, <1>5, <1>6, <1>7
  <2>2. l = m + Slots * q
    BY <1>1, <1>2, <1>3, <1>4
  <2> QED BY <1>1, <1>3, <1>5, <1>6, <2>1, <2>2
<1>9. e = 0
  <2>1. CASE e >= 1
    <3>1. Slots * e >= Slots
      BY <1>1, <2>1
    <3> QED BY <1>1, <1>5, <1>6, <1>8, <3>1
  <2>2. CASE e <= -1
    <3>1. Slots * e <= 0 - Slots
      BY <1>1, <2>2
    <3> QED BY <1>1, <1>5, <1>6, <1>8, <3>1
  <2> QED BY <2>1, <2>2
<1>10. s = t
  <2>1. Slots * e = 0
    BY <1>1, <1>9
  <2> QED BY <1>5, <1>6, <1>8, <2>1
<1>11. m \in first .. first + Slots - 1 /\ Cache!Slot(m) = Cache!Slot(l)
  BY <1>1, <1>3, <1>4, <1>5, <1>6, <1>10 DEF Cache!Slot
<1> QED BY <1>11
LEMMA LineOfZero ==
  ASSUME Cache!CachesAssumption
  PROVE  Cache!Line(0) = 0
<1>1. LineSize \in Nat \ {0}
  BY DEF Cache!CachesAssumption
<1>2. PICK z \in Nat : z = 0
  OBVIOUS
<1>3. PICK q \in Int, r \in 0 .. LineSize - 1 :
        z = LineSize * q + r /\ z \div LineSize = q
  BY <1>1, Parts
<1>4. q <= 0
  <2> SUFFICES ASSUME q >= 1 PROVE FALSE
    BY <1>3
  <2>1. LineSize * q >= LineSize
    BY <1>1, <1>3
  <2> QED BY <1>1, <1>2, <1>3, <2>1
<1>5. Cache!Line(z) \in Nat
  BY LineOfAddress
<1> QED BY <1>2, <1>3, <1>4, <1>5 DEF Cache!Line

LEMMA AddressesAreNatural ==
  ASSUME Cache!CachesAssumption
  PROVE  Cache!Addresses \subseteq Nat
<1> QED BY DEF Cache!Addresses

-----------------------------------------------------------------------------
(* The invariant.                                                          *)

ByLine == {"dcache_flush", "uncached_malloc", "dcache_flush_no_writeback"}
OfData == {"dcache_flush_all", "load"}
OfCode == {"icache_flush", "icache_flush_all", "load_icache"}
SlotNumbers == 0 .. Slots - 1

CacheTypeOK ==
  /\ mem \in [Cache!Addresses -> Int] /\ view \in [Cache!Addresses -> Int]
  /\ dcache \in [SlotNumbers -> [line : Int, dirty : BOOLEAN]]
  /\ icache \in [SlotNumbers -> Int]
  /\ pc \in {"main", "copy", "walk", "returned"}
  /\ call \in [op : ByLine \cup OfData \cup OfCode \cup {"none"}, start : Nat, len : Nat]
  /\ i \in Nat /\ stores \in Nat

(* Up to end, section k is where it is to be run.                          *)
InPlace(k, end) ==
  \A a \in Cache!Addresses :
    LoadSections[k].to <= a /\ a < end => view[a] = LoadSections[k].from + (a - LoadSections[k].to) + 1

AllInPlace == \A k \in DOMAIN LoadSections : InPlace(k, LoadSections[k].end)
NoData == \A s \in SlotNumbers : dcache[s].line = Cache!None
NoCode == \A s \in SlotNumbers : icache[s] = Cache!None

(* While alt_load copies: the sections before the present one are in       *)
(* place, and so is the present one up to word i; the rest is as it was.   *)
Copying ==
  pc = "copy" =>
    /\ call.start >= 1
    /\ call.start \in DOMAIN LoadSections =>
         LET section == LoadSections[call.start]
         IN /\ section.to + i <= section.end
            /\ section.to = section.from => i = 0
            /\ InPlace(call.start, section.to + i)
    /\ \A k \in DOMAIN LoadSections : k < call.start => InPlace(k, LoadSections[k].end)
    /\ \A a \in Cache!Addresses :
         (\A k \in DOMAIN LoadSections :
            LoadSections[k].to = LoadSections[k].from \/ a \notin Cache!Copied(LoadSections[k]))
         => view[a] = a + 1

(* While a call goes over the lines, those behind i are done.              *)
Behind == Cache!Line(call.start) .. Cache!Line(i) - 1

Walking ==
  pc = "walk" =>
    /\ i >= call.start /\ i % LineSize = call.start % LineSize
    /\ call.op \in Cache!Whole \cup {"load", "load_icache"} => call.start = 0 /\ call.len = Cache!CacheSize
    /\ call.op \in ByLine => \A l \in Behind : dcache[Cache!Slot(l)].line # l
    /\ call.op \in OfData => \A l \in Behind : dcache[Cache!Slot(l)].line = Cache!None
    /\ call.op \in OfCode => \A l \in Behind : icache[Cache!Slot(l)] = Cache!None
    /\ call.op \in {"load", "load_icache"} => AllInPlace
    /\ call.op = "load_icache" => NoData

(* What a call has done when it has returned.                              *)
Done ==
  pc = "returned" =>
    /\ call.op \in ByLine => \A a \in Cache!Region : ~Cache!Cached(a)
    /\ call.op \in OfData => NoData
    /\ call.op = "icache_flush" => \A a \in Cache!Region : icache[Cache!Slot(Cache!Line(a))] = Cache!None
    /\ call.op \in {"icache_flush_all", "load_icache"} => NoCode
    /\ call.op = "load_icache" => AllInPlace /\ NoData

CacheIInv == CacheTypeOK /\ Cache!StoresKept /\ Copying /\ Walking /\ Done

-----------------------------------------------------------------------------
(* The instructions.                                                       *)

LEMMA SlotOfAddress ==
  ASSUME Cache!CachesAssumption, NEW a \in Nat
  PROVE  Cache!Line(a) \in Nat /\ Cache!Slot(Cache!Line(a)) \in SlotNumbers
<1> QED BY LineOfAddress, SlotOfLine DEF SlotNumbers

(* A load or a store loses nothing that was stored.                        *)
LEMMA AccessSound ==
  ASSUME Cache!CachesAssumption, CacheTypeOK, Cache!StoresKept, NEW a \in Cache!Addresses,
         NEW dirty \in BOOLEAN, Cache!Access(a, dirty), view' \in [Cache!Addresses -> Int],
         view' = view \/ dirty, \A b \in Cache!Addresses : b # a => view'[b] = view[b]
  PROVE  /\ mem' \in [Cache!Addresses -> Int]
         /\ dcache' \in [SlotNumbers -> [line : Int, dirty : BOOLEAN]]
         /\ Cache!StoresKept'
<1>1. a \in Nat /\ Cache!Line(a) \in Nat /\ Cache!Slot(Cache!Line(a)) \in SlotNumbers
  BY AddressesAreNatural, SlotOfAddress
<1>2. PICK ln \in Nat : ln = Cache!Line(a)
  BY <1>1
<1>3. PICK slot \in SlotNumbers : slot = Cache!Slot(Cache!Line(a))
  BY <1>1
<1>4. PICK old \in [line : Int, dirty : BOOLEAN] : old = dcache[slot]
  BY DEF CacheTypeOK
<1>5. PICK new \in [line : Int, dirty : BOOLEAN] :
        new = [line |-> ln, dirty |-> dirty \/ (old.line = ln /\ old.dirty)]
  <2>1. (dirty \/ (old.line = ln /\ old.dirty)) \in BOOLEAN
    OBVIOUS
  <2>2. [line |-> ln, dirty |-> dirty \/ (old.line = ln /\ old.dirty)]
          \in [line : Int, dirty : BOOLEAN]
    BY <2>1
  <2> QED BY <2>2
<1>6. /\ mem' = IF old.line = ln THEN mem ELSE Cache!WrittenBack(old)
      /\ dcache' = [dcache EXCEPT ![slot] = new]
  BY <1>2, <1>3, <1>4, <1>5 DEF Cache!Access
<1>7. /\ mem' \in [Cache!Addresses -> Int]
      /\ dcache' \in [SlotNumbers -> [line : Int, dirty : BOOLEAN]]
  BY <1>6 DEF CacheTypeOK, Cache!WrittenBack
<1>8. ASSUME NEW b \in Cache!Addresses
      PROVE  mem'[b] = view'[b] \/ (Cache!Cached(b)' /\ dcache'[Cache!Slot(Cache!Line(b))].dirty)
  <2>1. b \in Nat /\ Cache!Line(b) \in Nat /\ Cache!Slot(Cache!Line(b)) \in SlotNumbers
    BY AddressesAreNatural, SlotOfAddress
  <2>2. PICK s \in SlotNumbers : s = Cache!Slot(Cache!Line(b))
    BY <2>1
  <2>3. mem[b] = view[b] \/ (dcache[s].line = Cache!Line(b) /\ dcache[s].dirty)
    BY <2>2 DEF Cache!StoresKept, Cache!Cached
  <2>4. mem'[b] = IF old.line # ln /\ old.dirty /\ Cache!Line(b) = old.line THEN view[b] ELSE mem[b]
    BY <1>6 DEF Cache!WrittenBack
  <2>5. dcache'[s] = IF s = slot THEN new ELSE dcache[s]
    BY <1>6 DEF CacheTypeOK
  <2>6. mem'[b] = view'[b] \/ (dcache'[s].line = Cache!Line(b) /\ dcache'[s].dirty)
    <3>1. CASE Cache!Line(b) = ln
      <4>1. s = slot
        BY <1>2, <1>3, <2>2, <3>1
      <4> QED BY <1>4, <1>5, <2>3, <2>4, <2>5, <3>1, <4>1
    <3>2. CASE Cache!Line(b) # ln
      <4>1. view'[b] = view[b]
        BY <1>2, <3>2
      <4> QED BY <1>4, <1>5, <2>3, <2>4, <2>5, <3>2, <4>1
    <3> QED BY <3>1, <3>2
  <2> QED BY <2>2, <2>6 DEF Cache!Cached
<1> QED BY <1>7, <1>8 DEF Cache!StoresKept

(* What the instruction of a call does to the slots: it empties some and   *)
(* the others stay.                                                        *)
Emptied ==
  /\ \A s \in SlotNumbers : dcache'[s] = dcache[s] \/ dcache'[s].line = Cache!None
  /\ \A s \in SlotNumbers : icache'[s] = icache[s] \/ icache'[s] = Cache!None
  /\ call.op \in ByLine => dcache'[Cache!Slot(Cache!Line(i))].line # Cache!Line(i)
  /\ call.op \in OfData => dcache'[Cache!Slot(Cache!Line(i))].line = Cache!None
  /\ call.op \in OfCode => icache'[Cache!Slot(Cache!Line(i))] = Cache!None
  /\ call.op \in {"load", "load_icache"} => view' = view

CachesTyped ==
  /\ mem' \in [Cache!Addresses -> Int] /\ view' \in [Cache!Addresses -> Int]
  /\ dcache' \in [SlotNumbers -> [line : Int, dirty : BOOLEAN]]
  /\ icache' \in [SlotNumbers -> Int]

(* A slot that is written back and emptied.                                *)
LEMMA WriteBackSound ==
  ASSUME Cache!CachesAssumption, CacheTypeOK, Cache!StoresKept, NEW slot \in SlotNumbers,
         mem' = Cache!WrittenBack(dcache[slot]), dcache' = [dcache EXCEPT ![slot] = Cache!Empty],
         UNCHANGED <<view, icache>>
  PROVE  /\ CachesTyped /\ Cache!StoresKept' /\ dcache'[slot].line = Cache!None
         /\ \A s \in SlotNumbers : dcache'[s] = dcache[s] \/ dcache'[s].line = Cache!None
<1>1. PICK empty \in [line : Int, dirty : BOOLEAN] : empty = Cache!Empty /\ empty.line = Cache!None
  <2>1. Cache!Empty \in [line : Int, dirty : BOOLEAN] /\ Cache!Empty.line = Cache!None
    BY DEF Cache!Empty, Cache!None
  <2> QED BY <2>1
<1>2. dcache' = [dcache EXCEPT ![slot] = empty]
  BY <1>1
<1>3. CachesTyped
  BY <1>2 DEF CachesTyped, CacheTypeOK, Cache!WrittenBack
<1>4. \A s \in SlotNumbers : dcache'[s] = IF s = slot THEN empty ELSE dcache[s]
  BY <1>2 DEF CacheTypeOK
<1>5. ASSUME NEW b \in Cache!Addresses
      PROVE  mem'[b] = view'[b] \/ (Cache!Cached(b)' /\ dcache'[Cache!Slot(Cache!Line(b))].dirty)
  <2>1. b \in Nat /\ Cache!Line(b) \in Nat /\ Cache!Slot(Cache!Line(b)) \in SlotNumbers
    BY AddressesAreNatural, SlotOfAddress
  <2>2. PICK s \in SlotNumbers : s = Cache!Slot(Cache!Line(b))
    BY <2>1
  <2>3. mem[b] = view[b] \/ (dcache[s].line = Cache!Line(b) /\ dcache[s].dirty)
    BY <2>2 DEF Cache!StoresKept, Cache!Cached
  <2>4. mem'[b] = IF dcache[slot].dirty /\ Cache!Line(b) = dcache[slot].line THEN view[b] ELSE mem[b]
    BY DEF Cache!WrittenBack
  <2>5. mem'[b] = view'[b] \/ (dcache'[s].line = Cache!Line(b) /\ dcache'[s].dirty)
    BY <1>4, <2>3, <2>4
  <2> QED BY <2>2, <2>5 DEF Cache!Cached
<1> QED BY <1>1, <1>3, <1>4, <1>5 DEF Cache!StoresKept
LEMMA InstructionSound ==
  ASSUME Cache!CachesAssumption, CacheTypeOK, Cache!StoresKept, Cache!Instruction
  PROVE  CachesTyped /\ Cache!StoresKept' /\ Emptied
<1>1. Cache!Line(i) \in Nat /\ Cache!Slot(Cache!Line(i)) \in SlotNumbers
  BY SlotOfAddress DEF CacheTypeOK
<1>2. Cache!None \notin Nat
  BY DEF Cache!None
<1>3. CASE call.op \in {"dcache_flush", "uncached_malloc"} /\ Cache!flushda(i)
  <2>1. UNCHANGED <<view, icache>>
    BY <1>3 DEF Cache!flushda
  <2>2. call.op \notin OfData \cup OfCode \cup {"load", "load_icache"}
    BY <1>3 DEF OfData, OfCode
  <2>3. CASE dcache[Cache!Slot(Cache!Line(i))].line = Cache!Line(i)
    <3>1. /\ mem' = Cache!WrittenBack(dcache[Cache!Slot(Cache!Line(i))])
          /\ dcache' = [dcache EXCEPT ![Cache!Slot(Cache!Line(i))] = Cache!Empty]
      BY <1>3, <2>3 DEF Cache!flushda
    <3>2. /\ CachesTyped /\ Cache!StoresKept' /\ dcache'[Cache!Slot(Cache!Line(i))].line = Cache!None
          /\ \A s \in SlotNumbers : dcache'[s] = dcache[s] \/ dcache'[s].line = Cache!None
      BY <1>1, <2>1, <3>1, WriteBackSound
    <3> QED BY <1>1, <1>2, <2>1, <2>2, <3>2 DEF Emptied
  <2>4. CASE dcache[Cache!Slot(Cache!Line(i))].line # Cache!Line(i)
    <3>1. UNCHANGED <<mem, dcache>>
      BY <1>3, <2>4 DEF Cache!flushda
    <3> QED BY <2>1, <2>2, <2>4, <3>1 DEF Emptied, CachesTyped, CacheTypeOK, Cache!StoresKept, Cache!Cached
  <2> QED BY <2>3, <2>4
<1>4. CASE call.op = "dcache_flush_no_writeback" /\ Cache!initda(i)
  <2>1. UNCHANGED <<mem, icache>>
    BY <1>4 DEF Cache!initda
  <2>2. call.op \notin OfData \cup OfCode \cup {"load", "load_icache"}
    BY <1>4 DEF OfData, OfCode
  <2>3. CASE dcache[Cache!Slot(Cache!Line(i))].line = Cache!Line(i)
    <3>1. PICK ln \in Nat : ln = Cache!Line(i)
      BY <1>1
    <3>2. PICK slot \in SlotNumbers : slot = Cache!Slot(Cache!Line(i))
      BY <1>1
    <3>3. PICK empty \in [line : Int, dirty : BOOLEAN] : empty = Cache!Empty /\ empty.line = Cache!None
      <4>1. Cache!Empty \in [line : Int, dirty : BOOLEAN] /\ Cache!Empty.line = Cache!None
        BY DEF Cache!Empty, Cache!None
      <4> QED BY <4>1
    <3>4. /\ view' = [b \in Cache!Addresses |-> IF Cache!Line(b) = ln THEN mem[b] ELSE view[b]]
          /\ dcache' = [dcache EXCEPT ![slot] = empty]
      BY <1>4, <2>3, <3>1, <3>2, <3>3 DEF Cache!initda
    <3>5. \A s \in SlotNumbers : dcache'[s] = IF s = slot THEN empty ELSE dcache[s]
      BY <3>4 DEF CacheTypeOK
    <3>6. CachesTyped
      BY <2>1, <3>4 DEF CachesTyped, CacheTypeOK
    <3>7. ASSUME NEW b \in Cache!Addresses
          PROVE  mem'[b] = view'[b] \/ (Cache!Cached(b)' /\ dcache'[Cache!Slot(Cache!Line(b))].dirty)
      <4>1. b \in Nat /\ Cache!Line(b) \in Nat /\ Cache!Slot(Cache!Line(b)) \in SlotNumbers
        BY AddressesAreNatural, SlotOfAddress
      <4>2. PICK s \in SlotNumbers : s = Cache!Slot(Cache!Line(b))
        BY <4>1
      <4>3. mem[b] = view[b] \/ (dcache[s].line = Cache!Line(b) /\ dcache[s].dirty)
        BY <4>2 DEF Cache!StoresKept, Cache!Cached
      <4>4. mem'[b] = mem[b] /\ view'[b] = IF Cache!Line(b) = ln THEN mem[b] ELSE view[b]
        BY <2>1, <3>4
      <4>5. mem'[b] = view'[b] \/ (dcache'[s].line = Cache!Line(b) /\ dcache'[s].dirty)
        BY <2>3, <3>1, <3>2, <3>5, <4>3, <4>4
      <4> QED BY <4>2, <4>5 DEF Cache!Cached
    <3>8. Cache!StoresKept'
      BY <3>7 DEF Cache!StoresKept
    <3>9. dcache'[Cache!Slot(Cache!Line(i))].line # Cache!Line(i)
      BY <1>1, <1>2, <3>2, <3>3, <3>5
    <3> QED BY <2>1, <2>2, <3>3, <3>5, <3>6, <3>8, <3>9 DEF Emptied
  <2>4. CASE dcache[Cache!Slot(Cache!Line(i))].line # Cache!Line(i)
    <3>1. UNCHANGED <<view, dcache>>
      BY <1>4, <2>4 DEF Cache!initda
    <3> QED BY <2>1, <2>2, <2>4, <3>1 DEF Emptied, CachesTyped, CacheTypeOK, Cache!StoresKept, Cache!Cached
  <2> QED BY <2>3, <2>4
<1>5. CASE call.op \in {"dcache_flush_all", "load"} /\ Cache!flushd(i)
  <2>1. UNCHANGED <<view, icache>>
    BY <1>5 DEF Cache!flushd
  <2>2. call.op \notin ByLine \cup OfCode
    BY <1>5 DEF ByLine, OfCode
  <2>3. /\ mem' = Cache!WrittenBack(dcache[Cache!Slot(Cache!Line(i))])
        /\ dcache' = [dcache EXCEPT ![Cache!Slot(Cache!Line(i))] = Cache!Empty]
    BY <1>5 DEF Cache!flushd
  <2>4. /\ CachesTyped /\ Cache!StoresKept' /\ dcache'[Cache!Slot(Cache!Line(i))].line = Cache!None
        /\ \A s \in SlotNumbers : dcache'[s] = dcache[s] \/ dcache'[s].line = Cache!None
    BY <1>1, <2>1, <2>3, WriteBackSound
  <2> QED BY <2>1, <2>2, <2>4 DEF Emptied
<1>6. CASE call.op \in {"icache_flush", "icache_flush_all", "load_icache"} /\ Cache!flushi(i)
  <2>1. UNCHANGED <<mem, view, dcache>> /\ icache' = [icache EXCEPT ![Cache!Slot(Cache!Line(i))] = Cache!None]
    BY <1>6 DEF Cache!flushi
  <2>2. call.op \notin ByLine \cup OfData
    BY <1>6 DEF ByLine, OfData
  <2>3. Cache!None \in Int
    BY DEF Cache!None
  <2>4. icache' \in [SlotNumbers -> Int]
    BY <2>1, <2>3 DEF CacheTypeOK
  <2>5. /\ icache'[Cache!Slot(Cache!Line(i))] = Cache!None
        /\ \A s \in SlotNumbers : icache'[s] = icache[s] \/ icache'[s] = Cache!None
    BY <1>1, <2>1 DEF CacheTypeOK
  <2>6. CachesTyped /\ Cache!StoresKept'
    BY <2>1, <2>4 DEF CachesTyped, CacheTypeOK, Cache!StoresKept, Cache!Cached
  <2> QED BY <2>1, <2>2, <2>5, <2>6 DEF Emptied
<1> QED BY <1>3, <1>4, <1>5, <1>6 DEF Cache!Instruction

-----------------------------------------------------------------------------
(* The steps of the program.                                               *)

LEMMA SectionSound ==
  ASSUME Cache!CachesAssumption, Cache!SectionsAssumption, NEW k \in DOMAIN LoadSections
  PROVE  /\ k \in Nat /\ k <= Len(LoadSections)
         /\ LoadSections[k].from \in Nat /\ LoadSections[k].to \in Nat /\ LoadSections[k].end \in Nat
         /\ LoadSections[k].to <= LoadSections[k].end
         /\ Cache!Copied(LoadSections[k]) \subseteq Cache!Addresses
         /\ Cache!Original(LoadSections[k]) \subseteq Cache!Addresses
<1>1. LoadSections \in Seq([from : Nat, to : Nat, end : Nat])
  BY DEF Cache!CachesAssumption
<1>2. k \in 1 .. Len(LoadSections) /\ LoadSections[k] \in [from : Nat, to : Nat, end : Nat]
  <2>1. PICK Record : Record = [from : Nat, to : Nat, end : Nat]
    OBVIOUS
  <2> QED BY <1>1, <2>1, LenProperties
<1> QED BY <1>2 DEF Cache!SectionsAssumption, Cache!Addresses

LEMMA CachesInit ==
  ASSUME Cache!CachesAssumption, Cache!SectionsAssumption, Cache!Init
  PROVE  CacheIInv
<1>1. CacheTypeOK
  <2>1. /\ dcache \in [SlotNumbers -> [line : Int, dirty : BOOLEAN]]
        /\ icache \in [SlotNumbers -> Int]
    BY DEF Cache!Init, Cache!Empty, Cache!None, SlotNumbers
  <2>2. mem \in [Cache!Addresses -> Int] /\ view \in [Cache!Addresses -> Int]
    BY AddressesAreNatural DEF Cache!Init
  <2> QED BY <2>1, <2>2 DEF Cache!Init, CacheTypeOK
<1>2. Cache!StoresKept
  BY DEF Cache!Init, Cache!StoresKept
<1>3. Copying
  <2>1. \A a \in Cache!Addresses : view[a] = a + 1
    BY DEF Cache!Init
  <2>2. call.start = 1 /\ i = 0
    BY DEF Cache!Init
  <2>3. ASSUME 1 \in DOMAIN LoadSections
        PROVE  /\ LoadSections[1].to + 0 <= LoadSections[1].end
               /\ InPlace(1, LoadSections[1].to + 0)
    <3>1. /\ LoadSections[1].to \in Nat /\ LoadSections[1].end \in Nat
          /\ LoadSections[1].to <= LoadSections[1].end
      BY <2>3, SectionSound
    <3> QED BY <3>1, AddressesAreNatural DEF InPlace
  <2>4. \A k \in DOMAIN LoadSections : ~(k < 1)
    BY DEF Cache!CachesAssumption
  <2> QED BY <2>1, <2>2, <2>3, <2>4 DEF Copying
<1> QED BY <1>1, <1>2, <1>3 DEF Cache!Init, CacheIInv, Walking, Done

LEMMA StoreStep ==
  ASSUME Cache!CachesAssumption, CacheIInv, Cache!Store
  PROVE  CacheIInv'
<1>1. PICK a \in Cache!Addresses : Cache!Put(a, 100 + stores)
  BY DEF Cache!Store
<1>2. stores \in Nat
  BY DEF CacheIInv, CacheTypeOK
<1>3. PICK value \in Int : value = 100 + stores
  BY <1>2
<1>4. /\ Cache!Access(a, TRUE) /\ view' = [view EXCEPT ![a] = value] /\ UNCHANGED icache
      /\ pc = "main" /\ stores' = stores + 1 /\ UNCHANGED <<pc, call, i>>
  BY <1>1, <1>3 DEF Cache!Put, Cache!Store
<1>5. /\ view' \in [Cache!Addresses -> Int]
      /\ \A b \in Cache!Addresses : b # a => view'[b] = view[b]
  BY <1>4 DEF CacheIInv, CacheTypeOK
<1>6. /\ mem' \in [Cache!Addresses -> Int]
      /\ dcache' \in [SlotNumbers -> [line : Int, dirty : BOOLEAN]]
      /\ Cache!StoresKept'
  BY <1>4, <1>5, AccessSound DEF CacheIInv
<1>7. CacheTypeOK'
  BY <1>2, <1>4, <1>5, <1>6 DEF CacheIInv, CacheTypeOK
<1> QED BY <1>4, <1>6, <1>7 DEF CacheIInv, Copying, Walking, Done

LEMMA LoadStep ==
  ASSUME Cache!CachesAssumption, CacheIInv, Cache!Load
  PROVE  CacheIInv'
<1>1. PICK a \in Cache!Addresses : Cache!Access(a, FALSE)
  BY DEF Cache!Load
<1>2. pc = "main" /\ UNCHANGED <<view, icache, pc, call, i, stores>>
  BY DEF Cache!Load
<1>3. /\ mem' \in [Cache!Addresses -> Int]
      /\ dcache' \in [SlotNumbers -> [line : Int, dirty : BOOLEAN]]
      /\ Cache!StoresKept'
  BY <1>1, <1>2, AccessSound DEF CacheIInv, CacheTypeOK
<1>4. CacheTypeOK'
  BY <1>2, <1>3 DEF CacheIInv, CacheTypeOK
<1> QED BY <1>2, <1>3, <1>4 DEF CacheIInv, Copying, Walking, Done

LEMMA FetchStep ==
  ASSUME Cache!CachesAssumption, CacheIInv, Cache!Fetch
  PROVE  CacheIInv'
<1>1. pc = "main" /\ UNCHANGED <<mem, view, dcache, pc, call, i, stores>>
  BY DEF Cache!Fetch
<1>2. PICK ln \in 0 .. Lines - 1 : icache' = [icache EXCEPT ![Cache!Slot(ln)] = ln]
  BY DEF Cache!Fetch
<1>3. icache' \in [SlotNumbers -> Int]
  <2>1. ln \in Int
    OBVIOUS
  <2> QED BY <1>2, <2>1 DEF CacheIInv, CacheTypeOK
<1>4. Cache!StoresKept'
  BY <1>1 DEF CacheIInv, Cache!StoresKept, Cache!Cached
<1>5. CacheTypeOK'
  BY <1>1, <1>3 DEF CacheIInv, CacheTypeOK
<1> QED BY <1>1, <1>4, <1>5 DEF CacheIInv, Copying, Walking, Done
-----------------------------------------------------------------------------
(* The steps of alt_load.                                                  *)

LEMMA NextSection ==
  ASSUME Cache!CachesAssumption, Cache!SectionsAssumption, CacheIInv, pc = "copy",
         call.start \in DOMAIN LoadSections,
         \/ LoadSections[call.start].to = LoadSections[call.start].from
         \/ LoadSections[call.start].to + i = LoadSections[call.start].end,
         call' = [call EXCEPT !.start = @ + 1], i' = 0,
         UNCHANGED <<Cache!caches, pc, stores>>
  PROVE  CacheIInv'
<1>1. PICK n \in DOMAIN LoadSections : n = call.start
  OBVIOUS
<1>2. PICK to \in Nat, from \in Nat, end \in Nat :
        to = LoadSections[n].to /\ from = LoadSections[n].from /\ end = LoadSections[n].end
  BY SectionSound
<1>3. InPlace(n, end)
  <2>1. CASE to = from
    <3>1. ASSUME NEW a \in Cache!Addresses, to <= a, a < end
          PROVE  view[a] = from + (a - to) + 1
      <4>1. a \in Nat /\ a \in Cache!Copied(LoadSections[n])
        BY <1>2, <3>1, AddressesAreNatural DEF Cache!Copied
      <4>2. \A k \in DOMAIN LoadSections :
              LoadSections[k].to = LoadSections[k].from \/ a \notin Cache!Copied(LoadSections[k])
        BY <1>2, <2>1, <4>1 DEF Cache!SectionsAssumption
      <4>3. view[a] = a + 1
        BY <4>2 DEF CacheIInv, Copying
      <4> QED BY <1>2, <2>1, <4>1, <4>3
    <3> QED BY <1>2, <3>1 DEF InPlace
  <2>2. CASE to + i = end
    BY <1>1, <1>2, <2>2 DEF CacheIInv, Copying
  <2> QED BY <1>1, <1>2, <2>1, <2>2
<1>4. /\ call.start \in Nat
      /\ call' \in [op : ByLine \cup OfData \cup OfCode \cup {"none"}, start : Nat, len : Nat]
      /\ call'.start = n + 1
  BY <1>1 DEF CacheIInv, CacheTypeOK
<1>5. CacheTypeOK'
  BY <1>4 DEF CacheIInv, CacheTypeOK, Cache!caches
<1>6. view' = view
  BY DEF Cache!caches
<1>7. Copying'
  <2>1. ASSUME NEW k \in DOMAIN LoadSections, k < n + 1
        PROVE  InPlace(k, LoadSections[k].end)
    <3>1. k \in Nat /\ n \in Nat
      BY SectionSound
    <3>2. CASE k = n
      BY <1>2, <1>3, <3>2
    <3>3. CASE k < n
      BY <1>1, <3>3 DEF CacheIInv, Copying
    <3> QED BY <2>1, <3>1, <3>2, <3>3
  <2>2. ASSUME NEW k \in DOMAIN LoadSections
        PROVE  LoadSections[k].to + 0 <= LoadSections[k].end /\ InPlace(k, LoadSections[k].to + 0)
    <3>1. /\ LoadSections[k].to \in Nat /\ LoadSections[k].end \in Nat
          /\ LoadSections[k].to <= LoadSections[k].end
      BY SectionSound
    <3> QED BY <3>1, AddressesAreNatural DEF InPlace
  <2>3. n + 1 >= 1
    BY SectionSound
  <2> QED BY <1>4, <1>6, <2>1, <2>2, <2>3 DEF CacheIInv, Copying, InPlace
<1>8. Cache!StoresKept'
  BY DEF CacheIInv, Cache!StoresKept, Cache!Cached, Cache!caches
<1> QED BY <1>5, <1>7, <1>8 DEF CacheIInv, Walking, Done

LEMMA NextWord ==
  ASSUME Cache!CachesAssumption, Cache!SectionsAssumption, CacheIInv, pc = "copy",
         call.start \in DOMAIN LoadSections,
         LoadSections[call.start].to # LoadSections[call.start].from,
         LoadSections[call.start].to + i # LoadSections[call.start].end,
         Cache!Put(LoadSections[call.start].to + i, view[LoadSections[call.start].from + i]),
         i' = i + 1, UNCHANGED <<call, pc, stores>>
  PROVE  CacheIInv'
<1>1. PICK n \in DOMAIN LoadSections : n = call.start
  OBVIOUS
<1>2. PICK to \in Nat, from \in Nat, end \in Nat :
        to = LoadSections[n].to /\ from = LoadSections[n].from /\ end = LoadSections[n].end
  BY SectionSound
<1>3. i \in Nat /\ to + i < end
  <2>1. to + i <= end
    BY <1>1, <1>2 DEF CacheIInv, Copying
  <2>2. to + i # end
    BY <1>1, <1>2
  <2>3. i \in Nat
    BY DEF CacheIInv, CacheTypeOK
  <2> QED BY <2>1, <2>2, <2>3
<1>4. PICK target \in Nat : target = to + i
  BY <1>3
<1>5. PICK source \in Nat : source = from + i
  BY <1>3
<1>6. target \in Cache!Copied(LoadSections[n]) /\ source \in Cache!Original(LoadSections[n])
  BY <1>2, <1>3, <1>4, <1>5 DEF Cache!Copied, Cache!Original
<1>7. target \in Cache!Addresses /\ source \in Cache!Addresses
  BY <1>6, SectionSound
<1>8. view[source] = source + 1
  <2>1. ASSUME NEW k \in DOMAIN LoadSections, source \in Cache!Copied(LoadSections[k])
        PROVE  FALSE
    <3>1. CASE k = n
      BY <1>1, <1>6, <2>1, <3>1 DEF Cache!SectionsAssumption
    <3>2. CASE k # n
      BY <1>6, <2>1, <3>2 DEF Cache!SectionsAssumption
    <3> QED BY <3>1, <3>2
  <2> QED BY <1>7, <2>1 DEF CacheIInv, Copying
<1>9. PICK value \in Int : value = view[source] /\ value = source + 1
  BY <1>8
<1>10. Cache!Access(target, TRUE) /\ view' = [view EXCEPT ![target] = value] /\ UNCHANGED icache
  BY <1>1, <1>2, <1>4, <1>5, <1>9 DEF Cache!Put
<1>11. /\ view' \in [Cache!Addresses -> Int]
       /\ \A b \in Cache!Addresses : view'[b] = IF b = target THEN value ELSE view[b]
  BY <1>10 DEF CacheIInv, CacheTypeOK
<1>12. /\ mem' \in [Cache!Addresses -> Int]
       /\ dcache' \in [SlotNumbers -> [line : Int, dirty : BOOLEAN]]
       /\ Cache!StoresKept'
  BY <1>7, <1>10, <1>11, AccessSound DEF CacheIInv
<1>13. CacheTypeOK'
  BY <1>3, <1>10, <1>11, <1>12 DEF CacheIInv, CacheTypeOK
<1>14. Copying'
  <2>0. PICK w \in Nat : w = to + (i + 1)
    BY <1>3
  <2>1. ASSUME NEW a \in Cache!Addresses, to <= a, a < w
        PROVE  view'[a] = from + (a - to) + 1
    <3>1. a \in Nat
      BY AddressesAreNatural
    <3>2. CASE a = target
      BY <1>2, <1>3, <1>4, <1>5, <1>9, <1>11, <3>2
    <3>3. CASE a # target
      <4>1. a < to + i
        BY <1>2, <1>3, <1>4, <2>0, <2>1, <3>1, <3>3
      <4>2. view[a] = from + (a - to) + 1
        BY <1>1, <1>2, <2>1, <4>1 DEF CacheIInv, Copying, InPlace
      <4> QED BY <1>11, <3>3, <4>2
    <3> QED BY <3>2, <3>3
  <2>2. ASSUME NEW k \in DOMAIN LoadSections, k < n,
               NEW a \in Cache!Addresses, LoadSections[k].to <= a, a < LoadSections[k].end
        PROVE  view'[a] = LoadSections[k].from + (a - LoadSections[k].to) + 1
    <3>1. a \in Nat /\ LoadSections[k].to \in Nat /\ LoadSections[k].end \in Nat /\ k \in Nat /\ n \in Nat
      BY AddressesAreNatural, SectionSound
    <3>2. a \in Cache!Copied(LoadSections[k]) /\ k # n
      BY <2>2, <3>1 DEF Cache!Copied
    <3>3. a # target
      BY <1>6, <3>2 DEF Cache!SectionsAssumption
    <3>4. view[a] = LoadSections[k].from + (a - LoadSections[k].to) + 1
      BY <1>1, <2>2 DEF CacheIInv, Copying, InPlace
    <3> QED BY <1>11, <3>3, <3>4
  <2>3. ASSUME NEW a \in Cache!Addresses,
               \A k \in DOMAIN LoadSections :
                 LoadSections[k].to = LoadSections[k].from \/ a \notin Cache!Copied(LoadSections[k])
        PROVE  view'[a] = a + 1
    <3>1. a # target
      BY <1>1, <1>6, <2>3
    <3>2. view[a] = a + 1
      BY <2>3 DEF CacheIInv, Copying
    <3> QED BY <1>11, <3>1, <3>2
  <2>4. w <= end /\ w = to + i'
    BY <1>2, <1>3, <2>0
  <2>5. call.start >= 1 /\ LoadSections[n].to # LoadSections[n].from
    BY <1>1 DEF CacheIInv, Copying
  <2>6. InPlace(n, w)'
    BY <1>2, <2>1 DEF InPlace
  <2>7. \A k \in DOMAIN LoadSections : k < n => InPlace(k, LoadSections[k].end)'
    BY <2>2 DEF InPlace
  <2> QED BY <1>1, <1>2, <2>3, <2>4, <2>5, <2>6, <2>7 DEF Copying
<1> QED BY <1>12, <1>13, <1>14 DEF CacheIInv, Walking, Done

LEMMA CopySectionStep ==
  ASSUME Cache!CachesAssumption, Cache!SectionsAssumption, CacheIInv, Cache!CopySection
  PROVE  CacheIInv'
<1>1. call.start \in DOMAIN LoadSections
  <2>1. Len(LoadSections) \in Nat /\ DOMAIN LoadSections = 1 .. Len(LoadSections)
    BY LenProperties DEF Cache!CachesAssumption
  <2> QED BY <2>1 DEF Cache!CopySection, CacheIInv, CacheTypeOK, Copying
<1>2. CASE \/ LoadSections[call.start].to = LoadSections[call.start].from
           \/ LoadSections[call.start].to + i = LoadSections[call.start].end
  BY <1>1, <1>2, NextSection DEF Cache!CopySection
<1>3. CASE ~ \/ LoadSections[call.start].to = LoadSections[call.start].from
             \/ LoadSections[call.start].to + i = LoadSections[call.start].end
  BY <1>1, <1>3, NextWord DEF Cache!CopySection
<1> QED BY <1>2, <1>3

LEMMA CopyDoneStep ==
  ASSUME Cache!CachesAssumption, Cache!SectionsAssumption, CacheIInv, Cache!CopyDone
  PROVE  CacheIInv'
<1>1. \A k \in DOMAIN LoadSections : k < call.start
  <2>1. Len(LoadSections) \in Nat
    BY LenProperties DEF Cache!CachesAssumption
  <2> QED BY <2>1, SectionSound DEF Cache!CopyDone, CacheIInv, CacheTypeOK
<1>2. AllInPlace
  BY <1>1 DEF CacheIInv, Copying, Cache!CopyDone, AllInPlace
<1>3. PICK size \in Nat : size = Cache!CacheSize
  BY DEF Cache!CacheSize, Cache!CachesAssumption
<1>4. call' = [op |-> "load", start |-> 0, len |-> size] /\ i' = 0 /\ pc' = "walk"
      /\ UNCHANGED <<mem, view, dcache, icache, stores>>
  BY <1>3 DEF Cache!CopyDone, Cache!caches
<1>5. CacheTypeOK'
  BY <1>4 DEF CacheIInv, CacheTypeOK, OfData
<1>6. Cache!StoresKept'
  BY <1>4 DEF CacheIInv, Cache!StoresKept, Cache!Cached
<1>7. Walking'
  <2>1. Cache!Line(0) = 0
    BY LineOfZero
  <2>2. AllInPlace'
    BY <1>2, <1>4 DEF AllInPlace, InPlace
  <2>3. \A l \in 0 .. 0 - 1 : FALSE
    OBVIOUS
  <2> QED BY <1>3, <1>4, <2>1, <2>2, <2>3 DEF Walking, Behind, ByLine, OfCode, Cache!CacheSize
<1> QED BY <1>4, <1>5, <1>6, <1>7 DEF CacheIInv, Copying, Done
-----------------------------------------------------------------------------
(* The steps of the other calls.                                           *)

LEMMA CallStep ==
  ASSUME Cache!CachesAssumption, CacheIInv, Cache!Call
  PROVE  CacheIInv'
<1>1. PICK size \in Nat : size = Cache!CacheSize
  BY DEF Cache!CacheSize, Cache!CachesAssumption
<1>2. /\ call' \in [op : ByLine \cup OfData \cup OfCode \cup {"none"}, start : Nat, len : Nat]
      /\ call'.op \notin {"load", "load_icache"}
      /\ call'.op \in Cache!Whole => call'.start = 0 /\ call'.len = size
  <2>1. ASSUME NEW op \in Cache!Regional, NEW start \in Cache!Addresses, NEW len \in 0 .. Lines * LineSize,
               call' = [op |-> op, start |-> start, len |-> len]
        PROVE  <1>2
    <3>1. start \in Nat /\ len \in Nat
      BY AddressesAreNatural
    <3> QED BY <2>1, <3>1 DEF Cache!Regional, ByLine, OfCode, Cache!Whole
  <2>2. ASSUME NEW n \in 0 .. Lines - 1, NEW bytes \in 1 .. Lines * LineSize,
               call' = [op |-> "uncached_malloc", start |-> n * LineSize, len |-> Cache!LinesOf(bytes)]
        PROVE  <1>2
    <3>1. LineSize \in Nat \ {0} /\ n \in Nat /\ bytes \in Nat
      BY DEF Cache!CachesAssumption
    <3>2. PICK m \in Nat : m = bytes + LineSize - 1
      BY <3>1
    <3>3. Cache!Line(m) \in Nat
      BY LineOfAddress
    <3>4. PICK start \in Nat, len \in Nat : start = n * LineSize /\ len = Cache!LinesOf(bytes)
      <4>1. n * LineSize \in Nat /\ Cache!Line(m) * LineSize \in Nat
        BY <3>1, <3>3
      <4> QED BY <3>2, <4>1 DEF Cache!LinesOf, Cache!Line
    <3> QED BY <2>2, <3>4 DEF ByLine, Cache!Whole
  <2>3. ASSUME NEW op \in Cache!Whole, call' = [op |-> op, start |-> 0, len |-> Cache!CacheSize]
        PROVE  <1>2
    <3>1. op \in OfData \cup OfCode /\ op \notin {"load", "load_icache"}
      BY DEF Cache!Whole, OfData, OfCode
    <3> QED BY <1>1, <2>3, <3>1
  <2> QED BY <2>1, <2>2, <2>3 DEF Cache!Call
<1>3. pc' = "walk" /\ i' = call'.start /\ UNCHANGED <<mem, view, dcache, icache, stores>>
  BY DEF Cache!Call, Cache!caches
<1>4. CacheTypeOK'
  BY <1>2, <1>3 DEF CacheIInv, CacheTypeOK
<1>5. Cache!StoresKept'
  BY <1>3 DEF CacheIInv, Cache!StoresKept, Cache!Cached
<1>6. PICK first \in Nat : first = Cache!Line(call'.start)
  BY <1>2, LineOfAddress
<1>7. Behind' = first .. first - 1 /\ first .. first - 1 = {}
  BY <1>3, <1>6 DEF Behind, Cache!Line
<1>8. Walking'
  BY <1>1, <1>2, <1>3, <1>7 DEF Walking, Cache!CacheSize
<1> QED BY <1>3, <1>4, <1>5, <1>8 DEF CacheIInv, Copying, Done

(* What is behind i stays done when an instruction empties slots.          *)
LEMMA BehindStays ==
  ASSUME Cache!CachesAssumption, CacheIInv, pc = "walk", Emptied
  PROVE  /\ call.op \in ByLine => \A l \in Behind \cup {Cache!Line(i)} : dcache'[Cache!Slot(l)].line # l
         /\ call.op \in OfData =>
              \A l \in Behind \cup {Cache!Line(i)} : dcache'[Cache!Slot(l)].line = Cache!None
         /\ call.op \in OfCode => \A l \in Behind \cup {Cache!Line(i)} : icache'[Cache!Slot(l)] = Cache!None
         /\ call.op \in {"load", "load_icache"} => AllInPlace'
         /\ call.op = "load_icache" => NoData'
<1>1. i \in Nat /\ call.start \in Nat
  BY DEF CacheIInv, CacheTypeOK
<1>2. Cache!Line(i) \in Nat /\ Cache!Line(call.start) \in Nat
  BY <1>1, LineOfAddress
<1>3. ASSUME NEW l \in Behind
      PROVE  l \in Nat /\ l # Cache!None /\ Cache!Slot(l) \in SlotNumbers
  BY <1>2, SlotOfLine DEF Behind, Cache!None, SlotNumbers
<1>4. call.op \in ByLine => \A l \in Behind \cup {Cache!Line(i)} : dcache'[Cache!Slot(l)].line # l
  BY <1>3 DEF CacheIInv, Walking, Emptied
<1>5. call.op \in OfData =>
              \A l \in Behind \cup {Cache!Line(i)} : dcache'[Cache!Slot(l)].line = Cache!None
  BY <1>3 DEF CacheIInv, Walking, Emptied
<1>6. call.op \in OfCode => \A l \in Behind \cup {Cache!Line(i)} : icache'[Cache!Slot(l)] = Cache!None
  BY <1>3 DEF CacheIInv, Walking, Emptied
<1>7. call.op \in {"load", "load_icache"} => AllInPlace'
  BY DEF CacheIInv, Walking, Emptied, AllInPlace, InPlace
<1>8. call.op = "load_icache" => NoData'
  BY DEF CacheIInv, Walking, Emptied, NoData
<1> QED BY <1>4, <1>5, <1>6, <1>7, <1>8

LEMMA WalkStep ==
  ASSUME Cache!CachesAssumption, CacheIInv, Cache!Walk
  PROVE  CacheIInv'
<1>1. /\ pc = "walk" /\ Cache!Instruction /\ i' = i + LineSize
      /\ UNCHANGED <<pc, call, stores>>
  BY DEF Cache!Walk
<1>2. CachesTyped /\ Cache!StoresKept' /\ Emptied
  BY <1>1, InstructionSound DEF CacheIInv
<1>3. i \in Nat /\ call.start \in Nat /\ LineSize \in Nat \ {0}
  BY DEF CacheIInv, CacheTypeOK, Cache!CachesAssumption
<1>4. CacheTypeOK'
  BY <1>1, <1>2, <1>3 DEF CacheIInv, CacheTypeOK, CachesTyped
<1>5. PICK first \in Nat, now \in Nat : first = Cache!Line(call.start) /\ now = Cache!Line(i)
  BY <1>3, LineOfAddress
<1>6. Cache!Line(i') = now + 1 /\ i' % LineSize = i % LineSize
  BY <1>1, <1>3, <1>5, NextLine
<1>7. Cache!Line(call'.start) = first
  BY <1>1, <1>5
<1>8. Behind' \subseteq Behind \cup {Cache!Line(i)}
  <2>1. Behind' = first .. (now + 1) - 1
    BY <1>6, <1>7 DEF Behind
  <2>2. ASSUME NEW l \in Behind' PROVE l \in (first .. now - 1) \cup {now}
    BY <1>5, <2>1, <2>2
  <2> QED BY <1>5, <2>2 DEF Behind
<1>9. Walking'
  <2>1. /\ i' >= call'.start /\ i' % LineSize = call'.start % LineSize
        /\ call'.op \in Cache!Whole \cup {"load", "load_icache"} =>
             call'.start = 0 /\ call'.len = Cache!CacheSize
    BY <1>1, <1>3, <1>6 DEF CacheIInv, Walking
  <2>2. /\ call.op \in ByLine => \A l \in Behind' : dcache'[Cache!Slot(l)].line # l
        /\ call.op \in OfData => \A l \in Behind' : dcache'[Cache!Slot(l)].line = Cache!None
        /\ call.op \in OfCode => \A l \in Behind' : icache'[Cache!Slot(l)] = Cache!None
        /\ call.op \in {"load", "load_icache"} => AllInPlace'
        /\ call.op = "load_icache" => NoData'
    BY <1>1, <1>2, <1>8, BehindStays
  <2> QED BY <1>1, <2>1, <2>2 DEF Walking, Cache!CacheSize, Cache!Slot
<1> QED BY <1>1, <1>2, <1>4, <1>9 DEF CacheIInv, Copying, Done
(* The lines that are done when a call returns: those behind i and, when   *)
(* the start is not aligned, the one at i.                                 *)
Cleaned == IF call.start % LineSize # 0 THEN Behind \cup {Cache!Line(i)} ELSE Behind

LEMMA RegionCleaned ==
  ASSUME Cache!CachesAssumption, CacheIInv, pc = "walk", i >= call.start + call.len,
         NEW a \in Cache!Region
  PROVE  Cache!Line(a) \in Nat /\ Cache!Line(a) \in Cleaned
<1>1. a \in Nat /\ i \in Nat /\ call.start \in Nat /\ call.len \in Nat
  BY AddressesAreNatural DEF Cache!Region, CacheIInv, CacheTypeOK
<1>2. call.start <= a /\ a < i
  BY <1>1 DEF Cache!Region
<1>3. Cache!Line(a) \in Nat /\ Cache!Line(i) \in Nat /\ Cache!Line(call.start) \in Nat
  BY <1>1, LineOfAddress
<1>4. Cache!Line(call.start) <= Cache!Line(a) /\ Cache!Line(a) <= Cache!Line(i)
  BY <1>1, <1>2, LineMonotone
<1>5. i % LineSize = 0 => Cache!Line(a) < Cache!Line(i)
  BY <1>1, <1>2, LineMonotone
<1>6. i % LineSize = call.start % LineSize
  BY DEF CacheIInv, Walking
<1>7. PICK first \in Nat, now \in Nat, ln \in Nat :
        first = Cache!Line(call.start) /\ now = Cache!Line(i) /\ ln = Cache!Line(a)
  BY <1>3
<1>8. ln < now => ln \in first .. now - 1
  BY <1>4, <1>7
<1> QED BY <1>4, <1>5, <1>6, <1>7, <1>8 DEF Cleaned, Behind

(* The size of the cache further on, every slot has had its turn.          *)
LEMMA CacheCleaned ==
  ASSUME Cache!CachesAssumption, CacheIInv, pc = "walk", i >= call.start + Cache!CacheSize,
         NEW l \in Nat, l >= Cache!Line(call.start)
  PROVE  \E m \in Behind : Cache!Slot(m) = Cache!Slot(l)
<1>1. i \in Nat /\ call.start \in Nat /\ LineSize \in Nat /\ Slots \in Nat
  BY DEF CacheIInv, CacheTypeOK, Cache!CachesAssumption
<1>2. PICK start \in Nat : start = call.start
  BY <1>1
<1>3. LineSize * Slots \in Nat /\ Cache!CacheSize = LineSize * Slots
  BY <1>1 DEF Cache!CacheSize
<1>4. PICK last \in Nat : last = start + LineSize * Slots
  BY <1>3
<1>5. Cache!Line(last) = Cache!Line(start) + Slots
  BY <1>1, <1>4, LineFurther
<1>6. Cache!Line(last) <= Cache!Line(i)
  BY <1>1, <1>2, <1>3, <1>4, LineMonotone
<1>7. PICK first \in Nat, now \in Nat : first = Cache!Line(start) /\ now = Cache!Line(i)
  BY <1>1, LineOfAddress
<1>8. PICK m \in first .. first + Slots - 1 : Cache!Slot(m) = Cache!Slot(l)
  BY <1>2, <1>7, EverySlotTaken
<1>9. m \in first .. now - 1
  BY <1>1, <1>5, <1>6, <1>7, <1>8
<1> QED BY <1>2, <1>7, <1>8, <1>9 DEF Behind

LEMMA EverySlotCleaned ==
  ASSUME Cache!CachesAssumption, CacheIInv, pc = "walk", i >= Cache!CacheSize, call.start = 0,
         NEW s \in SlotNumbers
  PROVE  \E m \in Behind : Cache!Slot(m) = s
<1>1. s \in Nat /\ s \in 0 .. Slots - 1 /\ Cache!Slot(s) = s
  BY SlotOfSmall DEF SlotNumbers
<1>2. s >= Cache!Line(call.start)
  BY <1>1, LineOfZero
<1>3. i >= call.start + Cache!CacheSize
  <2>1. Cache!CacheSize \in Nat
    BY DEF Cache!CacheSize, Cache!CachesAssumption
  <2> QED BY <2>1
<1> QED BY <1>1, <1>2, <1>3, CacheCleaned

LEMMA ReturnStep ==
  ASSUME Cache!CachesAssumption, CacheIInv, Cache!Return
  PROVE  CacheIInv'
<1>1. /\ pc = "walk" /\ i >= call.start + Cache!Length /\ UNCHANGED stores
      /\ IF call.start % LineSize # 0 THEN Cache!Instruction ELSE UNCHANGED Cache!caches
  BY DEF Cache!Return
<1>2. call.start \in Nat /\ call.len \in Nat /\ i \in Nat /\ Cache!CacheSize \in Nat
  BY DEF CacheIInv, CacheTypeOK, Cache!CacheSize, Cache!CachesAssumption
<1>3. /\ CachesTyped /\ Cache!StoresKept'
      /\ call.op \in ByLine => \A l \in Cleaned : dcache'[Cache!Slot(l)].line # l
      /\ call.op \in OfData => \A l \in Cleaned : dcache'[Cache!Slot(l)].line = Cache!None
      /\ call.op \in OfCode => \A l \in Cleaned : icache'[Cache!Slot(l)] = Cache!None
      /\ call.op \in {"load", "load_icache"} => AllInPlace'
      /\ call.op = "load_icache" => NoData'
  <2>1. CASE call.start % LineSize # 0
    <3>1. CachesTyped /\ Cache!StoresKept' /\ Emptied
      BY <1>1, <2>1, InstructionSound DEF CacheIInv
    <3>2. Cleaned = Behind \cup {Cache!Line(i)}
      BY <2>1 DEF Cleaned
    <3> QED BY <1>1, <3>1, <3>2, BehindStays
  <2>2. CASE ~ (call.start % LineSize # 0)
    <3>1. UNCHANGED <<mem, view, dcache, icache>> /\ Cleaned = Behind
      BY <1>1, <2>2 DEF Cache!caches, Cleaned
    <3>2. CachesTyped /\ Cache!StoresKept'
      BY <3>1 DEF CachesTyped, CacheIInv, CacheTypeOK, Cache!StoresKept, Cache!Cached
    <3> QED BY <1>1, <3>1, <3>2 DEF CacheIInv, Walking, AllInPlace, InPlace, NoData
  <2> QED BY <2>1, <2>2
<1>4. Behind \subseteq Cleaned
  BY DEF Cleaned
<1>5. call.op \in Cache!Whole \cup {"load", "load_icache"} => i >= Cache!CacheSize /\ call.start = 0
  <2> SUFFICES ASSUME call.op \in Cache!Whole \cup {"load", "load_icache"}
               PROVE  i >= Cache!CacheSize /\ call.start = 0
    OBVIOUS
  <2>1. call.start = 0 /\ call.len = Cache!CacheSize /\ call.op # "icache_flush"
    BY <1>1 DEF CacheIInv, Walking, Cache!Whole
  <2> QED BY <1>1, <1>2, <2>1 DEF Cache!Length
<1>6. call.op \in OfData => NoData'
  <2> SUFFICES ASSUME call.op \in OfData, NEW s \in SlotNumbers
               PROVE  dcache'[s].line = Cache!None
    BY DEF NoData
  <2>1. PICK m \in Behind : Cache!Slot(m) = s
    BY <1>1, <1>5, EverySlotCleaned DEF OfData, Cache!Whole
  <2> QED BY <1>3, <1>4, <2>1
<1>7. call.op \in {"icache_flush_all", "load_icache"} => NoCode'
  <2> SUFFICES ASSUME call.op \in {"icache_flush_all", "load_icache"}, NEW s \in SlotNumbers
               PROVE  icache'[s] = Cache!None
    BY DEF NoCode
  <2>1. PICK m \in Behind : Cache!Slot(m) = s
    BY <1>1, <1>5, EverySlotCleaned DEF Cache!Whole
  <2> QED BY <1>3, <1>4, <2>1 DEF OfCode
<1>8. call.op \in ByLine => \A a \in Cache!Region : dcache'[Cache!Slot(Cache!Line(a))].line # Cache!Line(a)
  <2> SUFFICES ASSUME call.op \in ByLine, NEW a \in Cache!Region
               PROVE  dcache'[Cache!Slot(Cache!Line(a))].line # Cache!Line(a)
    OBVIOUS
  <2>1. i >= call.start + call.len
    BY <1>1 DEF Cache!Length, ByLine
  <2>2. Cache!Line(a) \in Cleaned
    BY <1>1, <2>1, RegionCleaned
  <2> QED BY <1>3, <2>2
<1>9. call.op = "icache_flush" => \A a \in Cache!Region : icache'[Cache!Slot(Cache!Line(a))] = Cache!None
  <2> SUFFICES ASSUME call.op = "icache_flush", NEW a \in Cache!Region
               PROVE  icache'[Cache!Slot(Cache!Line(a))] = Cache!None
    OBVIOUS
  <2>1. call.op \in OfCode
    BY DEF OfCode
  <2>2. CASE call.len > Cache!CacheSize
    <3>1. i >= call.start + Cache!CacheSize
      BY <1>1, <2>2 DEF Cache!Length
    <3>2. a \in Nat /\ call.start <= a
      BY AddressesAreNatural DEF Cache!Region
    <3>3. PICK l \in Nat : l = Cache!Line(a) /\ l >= Cache!Line(call.start)
      BY <1>2, <3>2, LineOfAddress, LineMonotone
    <3>4. PICK m \in Behind : Cache!Slot(m) = Cache!Slot(l)
      BY <1>1, <3>1, <3>3, CacheCleaned
    <3> QED BY <1>3, <1>4, <2>1, <3>3, <3>4
  <2>3. CASE ~ (call.len > Cache!CacheSize)
    <3>1. i >= call.start + call.len
      BY <1>1, <2>3 DEF Cache!Length
    <3>2. Cache!Line(a) \in Cleaned
      BY <1>1, <3>1, RegionCleaned
    <3> QED BY <1>3, <2>1, <3>2
  <2> QED BY <2>2, <2>3
<1>10. CASE call.op = "load"
  <2>1. pc' = "walk" /\ call' = [call EXCEPT !.op = "load_icache"] /\ i' = 0
    BY <1>1, <1>10 DEF Cache!Return
  <2>2. /\ call' \in [op : ByLine \cup OfData \cup OfCode \cup {"none"}, start : Nat, len : Nat]
        /\ call'.op = "load_icache" /\ call'.start = call.start /\ call'.len = call.len
    BY <2>1 DEF CacheIInv, CacheTypeOK, OfCode
  <2>3. call.start = 0 /\ call.len = Cache!CacheSize
    BY <1>1, <1>10 DEF CacheIInv, Walking
  <2>4. CacheTypeOK'
    BY <1>1, <1>3, <2>1, <2>2 DEF CacheIInv, CacheTypeOK, CachesTyped
  <2>5. Cache!Line(i') = 0 /\ Cache!Line(call'.start) = 0
    BY <2>1, <2>2, <2>3, LineOfZero
  <2>6. Behind' = {}
    <3>1. Behind' = 0 .. 0 - 1
      BY <2>5 DEF Behind
    <3> QED BY <3>1
  <2>7. NoData' /\ AllInPlace'
    BY <1>3, <1>6, <1>10 DEF OfData
  <2>8. Walking'
    BY <2>1, <2>2, <2>3, <2>6, <2>7 DEF Walking, Cache!CacheSize, ByLine, OfData
  <2> QED BY <1>3, <2>1, <2>4, <2>8 DEF CacheIInv, Copying, Done
<1>11. CASE call.op # "load"
  <2>1. pc' = "returned" /\ UNCHANGED <<call, i>>
    BY <1>1, <1>11 DEF Cache!Return
  <2>2. CacheTypeOK'
    BY <1>1, <1>3, <2>1 DEF CacheIInv, CacheTypeOK, CachesTyped
  <2>3. Cache!Region' = Cache!Region
    BY <2>1 DEF Cache!Region
  <2>4. Done'
    BY <1>3, <1>6, <1>7, <1>8, <1>9, <2>1, <2>3 DEF Done, Cache!Cached, Cache!Slot, Cache!Line
  <2> QED BY <1>3, <2>1, <2>2, <2>4 DEF CacheIInv, Copying, Walking
<1> QED BY <1>10, <1>11

LEMMA ResumeStep ==
  ASSUME Cache!CachesAssumption, CacheIInv, Cache!Resume
  PROVE  CacheIInv'
<1>1. /\ pc' = "main" /\ call' = [call EXCEPT !.op = "none"]
      /\ UNCHANGED <<mem, view, dcache, icache, i, stores>>
  BY DEF Cache!Resume, Cache!caches
<1>2. CacheTypeOK'
  BY <1>1 DEF CacheIInv, CacheTypeOK
<1>3. Cache!StoresKept'
  BY <1>1 DEF CacheIInv, Cache!StoresKept, Cache!Cached
<1> QED BY <1>1, <1>2, <1>3 DEF CacheIInv, Copying, Walking, Done

(* However the caches are laid out and wherever a region starts in a line, *)
(* a flush that has returned leaves memory with what was stored and no     *)
(* line of the region in the cache, alt_load leaves every section where it *)
(* is run, for loads and for fetches, and no store is ever lost that was   *)
(* not discarded.                                                          *)
THEOREM FlushesReachMemory ==
  ASSUME Cache!CachesAssumption, Cache!SectionsAssumption PROVE Cache!Spec => []Cache!MemoryCoherent
<1>1. Cache!Init => CacheIInv
  BY CachesInit
<1>2. CacheIInv /\ [Cache!Next]_(Cache!vars) => CacheIInv'
  <2> SUFFICES ASSUME CacheIInv, [Cache!Next]_(Cache!vars) PROVE CacheIInv'
    OBVIOUS
  <2>1. CASE UNCHANGED Cache!vars
    <3>1. UNCHANGED <<mem, view, dcache, icache, pc, call, i, stores>>
      BY <2>1 DEF Cache!vars, Cache!caches
    <3>2. CacheTypeOK' /\ Cache!StoresKept'
      BY <3>1 DEF CacheIInv, CacheTypeOK, Cache!StoresKept, Cache!Cached
    <3>3. Copying' /\ Walking'
      BY <3>1 DEF CacheIInv, Copying, InPlace, Walking, Behind, AllInPlace, NoData
    <3>4. Done'
      BY <3>1 DEF CacheIInv, Done, Cache!Region, Cache!Cached, NoData, NoCode, AllInPlace, InPlace
    <3> QED BY <3>2, <3>3, <3>4 DEF CacheIInv
  <2> QED BY <2>1, StoreStep, LoadStep, FetchStep, CallStep, WalkStep, ReturnStep,
             ResumeStep, CopySectionStep, CopyDoneStep DEF Cache!Next
<1>3. CacheIInv => Cache!MemoryCoherent
  <2> SUFFICES ASSUME CacheIInv PROVE Cache!MemoryCoherent
    OBVIOUS
  <2>1. Cache!StoresKept /\ Done
    BY DEF CacheIInv
  <2>2. ASSUME NEW a \in Cache!Addresses
        PROVE  /\ Cache!Line(a) \in Nat /\ Cache!Slot(Cache!Line(a)) \in SlotNumbers
               /\ ~Cache!Cached(a) => mem[a] = view[a]
               /\ icache[Cache!Slot(Cache!Line(a))] = Cache!None => Cache!Fetched(a) = mem[a]
    <3>1. Cache!Line(a) \in Nat /\ Cache!Slot(Cache!Line(a)) \in SlotNumbers
      BY AddressesAreNatural, SlotOfAddress
    <3> QED BY <2>1, <3>1 DEF Cache!StoresKept, Cache!Fetched, Cache!None
  <2>3. NoData => mem = view /\ \A a \in Cache!Addresses : ~Cache!Cached(a)
    <3> SUFFICES ASSUME NoData PROVE mem = view /\ \A a \in Cache!Addresses : ~Cache!Cached(a)
      OBVIOUS
    <3>1. \A a \in Cache!Addresses : ~Cache!Cached(a)
      BY <2>2 DEF NoData, Cache!Cached, Cache!None
    <3>2. \A a \in Cache!Addresses : mem[a] = view[a]
      BY <2>2, <3>1
    <3> QED BY <3>1, <3>2 DEF CacheIInv, CacheTypeOK
  <2>4. Cache!Region \subseteq Cache!Addresses
    BY DEF Cache!Region
  <2>5. Cache!DataFlushed
    BY <2>1, <2>2, <2>3, <2>4 DEF Cache!DataFlushed, Cache!Returned, Done, ByLine, OfData
  <2>6. Cache!CodeFlushed
    BY <2>1, <2>2, <2>4 DEF Cache!CodeFlushed, Cache!Returned, Done, NoCode
  <2>7. Cache!Loaded
    <3> SUFFICES ASSUME Cache!Returned({"load_icache"}),
                        NEW k \in DOMAIN LoadSections, NEW a \in Cache!Addresses,
                        LoadSections[k].to <= a, a < LoadSections[k].end
                 PROVE  /\ view[a] = LoadSections[k].from + (a - LoadSections[k].to) + 1
                        /\ Cache!Fetched(a) = view[a]
      BY DEF Cache!Loaded
    <3>1. AllInPlace /\ NoData /\ NoCode
      BY <2>1 DEF Cache!Returned, Done
    <3>2. mem[a] = view[a] /\ Cache!Fetched(a) = mem[a]
      BY <2>2, <2>3, <3>1 DEF NoCode
    <3> QED BY <3>1, <3>2 DEF AllInPlace, InPlace
  <2> QED BY <2>1, <2>5, <2>6, <2>7 DEF Cache!MemoryCoherent
<1> QED BY <1>1, <1>2, <1>3, PTL DEF Cache!Spec
=============================================================================
