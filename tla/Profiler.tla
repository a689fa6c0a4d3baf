------------------------------ MODULE Profiler ------------------------------
(***************************************************************************)
(* The call profiler of the board support package: what the code compiled  *)
(* for profiling runs at the entry of each function.  It looks for the     *)
(* record of the function and, under it, for that of the caller, walking   *)
(* the lists with interrupts on, and counts the call or adds the missing   *)
(* records with interrupts off.  An interrupt whose handler is profiled    *)
(* too may come in between.  One hash bucket; both records have one size.  *)
(* Before it adds records it starts the sampler of program counters, which *)
(* the tick of the system clock runs: not before there is a system clock.  *)
(***************************************************************************)
EXTENDS Integers, FiniteSetsExt

CONSTANTS
  Functions, Callers,   \* the functions called and the places they are called from
  SlabRecords,          \* records in a slab, MCOUNT_SLAB_INCREMENT
  HeapRecords,          \* the heap: more than the bounds can use
  MaxCalls              \* bounds the calls

Null == 0
Procs == {"program", "handler"}

VARIABLES
  memory,               \* address |-> record
  fn_head,
  slab_ptr, slab_size, heap_end,
  proc,                 \* the call of mcount each is in
  called,               \* arc |-> calls of it so far
  torn,                 \* increments that an interrupt cut in two
  calls,
  ticking,              \* alt_ticks_per_second() is not 0
  pcsample_need_init,
  alarms,               \* times the alarm of the sampler was started
  raced                 \* history: a call has read pcsample_need_init while
                        \* another was between its read and its write

slab == <<slab_ptr, slab_size, heap_end>>
sampler == <<ticking, pcsample_need_init, alarms, raced>>
vars == <<memory, fn_head, slab, proc, called, torn, calls, sampler>>

Unused == [kind |-> "unused", pc |-> Null, next |-> Null, arc_head |-> Null, count |-> 0]
NoCall == [pc |-> "none", self_pc |-> Null, from_pc |-> Null, fn |-> Null, arc |-> Null, count |-> 0]

Init ==
  /\ memory = [a \in 1 .. HeapRecords |-> Unused] /\ fn_head = Null
  /\ slab_ptr = Null /\ slab_size = 0 /\ heap_end = 1
  /\ proc = [p \in Procs |-> NoCall]
  /\ called = [f \in Functions, c \in Callers |-> 0] /\ torn = 0 /\ calls = 0
  /\ ticking = FALSE /\ pcsample_need_init = TRUE /\ alarms = 0 /\ raced = FALSE

\* The records of a list, from its head.
Chain(head) ==
  LET reach[n \in 0 .. HeapRecords] ==
        IF n = 0 THEN {head}
        ELSE LET r == reach[n - 1] IN r \cup {memory[a].next : a \in r \ {Null}}
  IN reach[HeapRecords] \ {Null}

\* The handler runs from its first instruction to its last.
Running(p) == p = "program" => proc["handler"].pc = "none"
At(p, pc) == Running(p) /\ proc[p].pc = pc

mcount(p, f, c) ==
  /\ At(p, "none") /\ calls < MaxCalls /\ calls' = calls + 1
  /\ proc' = [proc EXCEPT ![p] = [NoCall EXCEPT !.pc = "function", !.self_pc = f, !.from_pc = c]]
  /\ called' = [called EXCEPT ![f, c] = @ + 1]
  /\ UNCHANGED <<memory, fn_head, slab, torn, sampler>>

FindFunction(p) ==
  LET found == {a \in Chain(fn_head) : memory[a].pc = proc[p].self_pc}
  IN /\ At(p, "function")
     /\ IF found = {} THEN proc' = [proc EXCEPT ![p].pc = "sampler"]
        ELSE \E a \in found :
               /\ \A b \in found \ {a} : a \notin Chain(memory[b].next)    \* the first
               /\ proc' = [proc EXCEPT ![p].pc = "arc", ![p].fn = a]
     /\ UNCHANGED <<memory, fn_head, slab, called, torn, calls, sampler>>

FindArc(p) ==
  LET found == {a \in Chain(memory[proc[p].fn].arc_head) : memory[a].pc = proc[p].from_pc}
  IN /\ At(p, "arc")
     /\ IF found = {} THEN proc' = [proc EXCEPT ![p].pc = "sampler"]
        ELSE \E a \in found :
               /\ \A b \in found \ {a} : a \notin Chain(memory[b].next)
               /\ proc' = [proc EXCEPT ![p].pc = "count", ![p].arc = a, ![p].count = memory[a].count]
     /\ UNCHANGED <<memory, fn_head, slab, called, torn, calls, sampler>>

\* The count was loaded a step ago.
Count(p) ==
  /\ At(p, "count")
  /\ torn' = torn + (memory[proc[p].arc].count - proc[p].count)
  /\ memory' = [memory EXCEPT ![proc[p].arc].count = proc[p].count + 1]
  /\ proc' = [proc EXCEPT ![p] = NoCall]
  /\ UNCHANGED <<fn_head, slab, called, calls, sampler>>

\* alt_sysclk_init, by the program.
SysclkInit ==
  /\ ~ticking /\ ticking' = TRUE /\ \A p \in Procs : proc[p].pc = "none"
  /\ UNCHANGED <<memory, fn_head, slab, proc, called, torn, calls, pcsample_need_init, alarms, raced>>

\* __mcount_record, interrupts still on: pcsample_need_init is read and set.
CheckSampler(p) ==
  /\ At(p, "sampler")
  /\ proc' = [proc EXCEPT ![p].pc = IF pcsample_need_init THEN "clear" ELSE "record"]
  /\ raced' = (raced \/ (ticking /\ \E q \in Procs \ {p} : proc[q].pc = "clear"))
  /\ UNCHANGED <<memory, fn_head, slab, called, torn, calls, ticking, pcsample_need_init, alarms>>

ClearSampler(p) ==
  /\ At(p, "clear") /\ pcsample_need_init' = FALSE
  /\ proc' = [proc EXCEPT ![p].pc = "init"]
  /\ UNCHANGED <<memory, fn_head, slab, called, torn, calls, ticking, alarms, raced>>

\* nios2_pcsample_init: the histogram, here of one record, and the alarm.
InitSampler(p) ==
  /\ At(p, "init")
  /\ pcsample_need_init' = ~ticking
  /\ IF ticking THEN alarms' = alarms + 1 /\ heap_end' = heap_end + 1
     ELSE UNCHANGED <<alarms, heap_end>>
  /\ proc' = [proc EXCEPT ![p].pc = "record"]
  /\ UNCHANGED <<memory, fn_head, slab_ptr, slab_size, called, torn, calls, ticking, raced>>

AllocatedOneMore(n) ==         \* mutant: a slab holds one record more
  LET alloc[k \in 0 .. n] ==
        IF k = 0 THEN [ptr |-> slab_ptr, size |-> slab_size, heap |-> heap_end, at |-> Null]
        ELSE LET s == alloc[k - 1] IN
             IF s.size < 1
             THEN [ptr |-> s.heap + 1, size |-> SlabRecords, heap |-> s.heap + SlabRecords, at |-> s.heap]
             ELSE [ptr |-> s.ptr + 1, size |-> s.size - 1, heap |-> s.heap, at |-> s.ptr]
  IN alloc

\* mcount_allocate, for n records one after the other; sbrk gives the next slab.
Allocated(n) ==
  LET alloc[k \in 0 .. n] ==
        IF k = 0 THEN [ptr |-> slab_ptr, size |-> slab_size, heap |-> heap_end, at |-> Null]
        ELSE LET s == alloc[k - 1] IN
             IF s.size < 1
             THEN [ptr |-> s.heap + 1, size |-> SlabRecords - 1, heap |-> s.heap + SlabRecords, at |-> s.heap]
             ELSE [ptr |-> s.ptr + 1, size |-> s.size - 1, heap |-> s.heap, at |-> s.ptr]
  IN alloc

\* __mcount_record, interrupts off: the function is the one looked up before.
Record(p) ==
  LET new == proc[p].fn = Null
      alloc == Allocated(IF new THEN 2 ELSE 1)
      last == alloc[IF new THEN 2 ELSE 1]
      fn == IF new THEN alloc[1].at ELSE proc[p].fn
      arc == [Unused EXCEPT !.kind = "arc", !.pc = proc[p].from_pc, !.count = 1,
                            !.next = IF new THEN Null ELSE memory[fn].arc_head]
      entry == IF new THEN [Unused EXCEPT !.kind = "fn", !.pc = proc[p].self_pc, !.next = fn_head]
                      ELSE memory[fn]
  IN /\ At(p, "record")
     /\ memory' = [memory EXCEPT ![fn] = [entry EXCEPT !.arc_head = last.at], ![last.at] = arc]
     /\ fn_head' = IF new THEN fn ELSE fn_head
     /\ slab_ptr' = last.ptr /\ slab_size' = last.size /\ heap_end' = last.heap
     /\ proc' = [proc EXCEPT ![p] = NoCall]
     /\ UNCHANGED <<called, torn, calls, sampler>>

Next ==
  \/ SysclkInit
  \/ \E p \in Procs :
       \/ \E f \in Functions, c \in Callers : mcount(p, f, c)
       \/ FindFunction(p) \/ FindArc(p) \/ Count(p) \/ Record(p)
       \/ CheckSampler(p) \/ ClearSampler(p) \/ InitSampler(p)

Spec == Init /\ [][Next]_vars

-----------------------------------------------------------------------------
Arcs(f, c) ==
  {a \in 1 .. HeapRecords : \E e \in Chain(fn_head) :
     /\ memory[e].kind = "fn" /\ memory[e].pc = f
     /\ memory[a].kind = "arc" /\ memory[a].pc = c /\ a \in Chain(memory[e].arc_head)}

\* Between calls, the lists hold every call there was: the copies of an arc, that
\* a handler's own record of it may have left, add up to the calls of the arc, but
\* for the increments an interrupt cut in two: what the handler has counted
\* between the load and the store of one is lost.
CallsRecorded ==
  (\A p \in Procs : proc[p].pc = "none") =>
    LET Counted(f, c) == MapThenSumSet(LAMBDA a : memory[a].count, Arcs(f, c))
    IN /\ \A f \in Functions, c \in Callers : Counted(f, c) <= called[f, c]
       /\ MapThenSumSet(LAMBDA x : called[x] - Counted(x[1], x[2]), DOMAIN called) = torn

\* A record made with the system clock running leaves the sampler started, and
\* started once; twice only if an interrupt came between the read and the write of
\* pcsample_need_init and its handler has read it too.
Starting == \E p \in Procs : proc[p].pc \in {"clear", "init"}
SamplerStarted ==
  /\ ~pcsample_need_init /\ ~Starting => alarms = IF raced THEN 2 ELSE 1
  /\ pcsample_need_init /\ ~Starting => alarms = 0
=============================================================================
