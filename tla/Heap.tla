-------------------------------- MODULE Heap --------------------------------
(***************************************************************************)
(* sbrk, which the program and the profiled interrupt handlers call.  It   *)
(* works on heap_end with interrupts off, an access of it per step.        *)
(***************************************************************************)
EXTENDS Integers

CONSTANTS
  Start, Limit,   \* __alt_heap_start, __alt_heap_limit: bytes
  Increments,     \* the sizes asked for
  MaxCalls        \* bounds the calls

HeapAssumption ==
  Start \in Nat /\ Limit \in Nat /\ Increments \subseteq Nat /\ MaxCalls \in Nat

VARIABLES
  heap_end, pie,
  proc,           \* the call each of program and handler is in
  blocks,         \* what was returned: [from, size, of]
  refused,        \* the sizes that were not, and how much was free then
  calls

vars == <<heap_end, pie, proc, blocks, refused, calls>>

Procs == {"program", "handler"}
NoCall == [pc |-> "none", incr |-> 0, status |-> FALSE, end |-> 0]
Aligned(a) == ((a + 3) \div 4) * 4

Init ==
  /\ heap_end = Start /\ pie = TRUE /\ proc = [p \in Procs |-> NoCall]
  /\ blocks = {} /\ refused = {} /\ calls = 0

\* A handler comes in with interrupts on, and runs to its end.
Running(p) == p = "program" => proc["handler"].pc = "none"
At(p, pc) == Running(p) /\ proc[p].pc = pc

Call(p) ==
  /\ At(p, "none") /\ (p = "handler" => pie)
  /\ calls < MaxCalls /\ calls' = calls + 1
  /\ \E n \in Increments : proc' = [proc EXCEPT ![p] = [NoCall EXCEPT !.pc = "disable", !.incr = n]]
  /\ UNCHANGED <<heap_end, pie, blocks, refused>>

Disable(p) ==
  /\ At(p, "disable") /\ pie' = FALSE
  /\ proc' = [proc EXCEPT ![p].pc = "align", ![p].status = pie]
  /\ UNCHANGED <<heap_end, blocks, refused, calls>>

LoadEnd(p) ==
  /\ At(p, "align")
  /\ proc' = [proc EXCEPT ![p].pc = "check", ![p].end = Aligned(heap_end)]
  /\ UNCHANGED <<heap_end, pie, blocks, refused, calls>>

\* heap_end is left aligned, extended only within the limit.
Extend(p) ==
  LET end == proc[p].end
      fits == end + proc[p].incr <= Limit
  IN /\ At(p, "check")
     /\ heap_end' = IF fits THEN end + proc[p].incr ELSE end
     /\ blocks' = IF fits THEN blocks \cup {[from |-> end, size |-> proc[p].incr, of |-> p]} ELSE blocks
     /\ refused' = IF fits THEN refused ELSE refused \cup {[size |-> proc[p].incr, free |-> Limit - end]}
     /\ proc' = [proc EXCEPT ![p].pc = "enable"]
     /\ UNCHANGED <<pie, calls>>

Enable(p) ==
  /\ At(p, "enable") /\ pie' = proc[p].status
  /\ proc' = [proc EXCEPT ![p] = NoCall]
  /\ UNCHANGED <<heap_end, blocks, refused, calls>>

Next == \E p \in Procs : Call(p) \/ Disable(p) \/ LoadEnd(p) \/ Extend(p) \/ Enable(p)

Spec == Init /\ [][Next]_vars

-----------------------------------------------------------------------------
(* Properties.                                                             *)

Bytes(b) == b.from .. b.from + b.size - 1

(* The blocks that calls of program and handlers were given are aligned,   *)
(* lie within the heap and share no byte.  A call is refused only if it    *)
(* does not fit.                                                           *)
BlocksApart ==
  /\ \A b \in blocks : b.from % 4 = 0 /\ Bytes(b) \subseteq Start .. Limit - 1 /\ b.from + b.size <= heap_end
  /\ \A b, d \in blocks : b # d => Bytes(b) \cap Bytes(d) = {}
  /\ \A r \in refused : r.size > r.free
=============================================================================
