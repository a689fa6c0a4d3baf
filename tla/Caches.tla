------------------------------- MODULE Caches -------------------------------
(***************************************************************************)
(* The cache calls of the board support package: alt_dcache_flush,         *)
(* alt_dcache_flush_no_writeback, alt_dcache_flush_all, alt_icache_flush,  *)
(* alt_icache_flush_all, alt_uncached_malloc, which flushes a block of the *)
(* allocator, and alt_load, which copies the sections of the program from  *)
(* flash to RAM before they are used.  One cache instruction, or one       *)
(* copied word, is a step.                                                 *)
(*                                                                         *)
(* The caches belong to the processor: they are direct mapped, the data    *)
(* cache writes back and allocates on a store.  The lines of the data      *)
(* cache hold what the program sees.                                       *)
(***************************************************************************)
EXTENDS Integers, Sequences

CONSTANTS
  Lines,          \* of memory
  LineSize,       \* NIOS2_DCACHE_LINE_SIZE and NIOS2_ICACHE_LINE_SIZE
  Slots,          \* lines of a cache: NIOS2_DCACHE_SIZE, NIOS2_ICACHE_SIZE over LineSize
  Sections,       \* what alt_load copies: a sequence of [from, to, end]
  MaxStores, MaxCalls     \* bounds

CachesAssumption ==
  /\ {Lines, LineSize, Slots} \subseteq Nat \ {0}
  /\ Sections \in Seq([from : Nat, to : Nat, end : Nat])

\* The linker gives every section a place of its own, and none its place
\* where another is loaded from.
Copied(section) == section.to .. section.end - 1
Original(section) == section.from .. section.from + (section.end - section.to) - 1

SectionsAssumption ==
  /\ \A k \in DOMAIN Sections :
       /\ Sections[k].to <= Sections[k].end
       /\ Copied(Sections[k]) \cup Original(Sections[k]) \subseteq 0 .. Lines * LineSize - 1
  /\ \A k, l \in DOMAIN Sections : k # l =>
       Copied(Sections[k]) \cap (Copied(Sections[l]) \cup Original(Sections[l])) = {}
  /\ \A k \in DOMAIN Sections :
       Sections[k].to # Sections[k].from => Copied(Sections[k]) \cap Original(Sections[k]) = {}

VARIABLES
  mem,            \* the memory
  view,           \* what a load of the program gives, address by address
  dcache,         \* the slots of the data cache: [line, dirty]
  icache,         \* the slots of the instruction cache: a line
  code,           \* what a fetch gives of the lines of icache, else 0
  pc, call, i,    \* the call being made and its loop variable
  stores, calls

caches == <<mem, view, dcache, icache, code>>
vars == <<caches, pc, call, i, stores, calls>>

Addresses == 0 .. Lines * LineSize - 1
CacheSize == Slots * LineSize
None == -1
Empty == [line |-> None, dirty |-> FALSE]
Line(a) == a \div LineSize
Slot(line) == line % Slots

Init ==
  /\ mem = [a \in Addresses |-> a + 1] /\ view = mem
  /\ dcache = [s \in 0 .. Slots - 1 |-> Empty]
  /\ icache = [s \in 0 .. Slots - 1 |-> None] /\ code = [a \in Addresses |-> 0]
  /\ pc \in {"main", "copy"} /\ call = [op |-> "none", start |-> 1, len |-> 0] /\ i = 0
  /\ stores = 0 /\ calls = 0

-----------------------------------------------------------------------------
(* The processor.                                                          *)

\* Memory with a line of the data cache written back.
WrittenBack(slot) ==
  [a \in Addresses |-> IF slot.dirty /\ Line(a) = slot.line THEN view[a] ELSE mem[a]]

\* A load or a store brings the line in and the one in its slot out.
Access(a, dirty) ==
  LET old == dcache[Slot(Line(a))]
      hit == old.line = Line(a)
  IN /\ mem' = IF hit THEN mem ELSE WrittenBack(old)
     /\ dcache' = [dcache EXCEPT ![Slot(Line(a))] =
                     [line |-> Line(a), dirty |-> dirty \/ (hit /\ old.dirty)]]

Put(a, value) ==
  /\ Access(a, TRUE) /\ view' = [view EXCEPT ![a] = value]
  /\ UNCHANGED <<icache, code>>

\* flushda: the line of an address, if the data cache has it.
flushda(a) ==
  LET slot == dcache[Slot(Line(a))]
  IN /\ IF slot.line = Line(a)
        THEN mem' = WrittenBack(slot) /\ dcache' = [dcache EXCEPT ![Slot(Line(a))] = Empty]
        ELSE UNCHANGED <<mem, dcache>>
     /\ UNCHANGED <<view, icache, code>>

\* initda: the same, and what was stored in the line is lost.
initda(a) ==
  /\ IF dcache[Slot(Line(a))].line = Line(a)
     THEN /\ view' = [b \in Addresses |-> IF Line(b) = Line(a) THEN mem[b] ELSE view[b]]
          /\ dcache' = [dcache EXCEPT ![Slot(Line(a))] = Empty]
     ELSE UNCHANGED <<view, dcache>>
  /\ UNCHANGED <<mem, icache, code>>

\* flushd and flushi go by the slot of the address, whatever line it holds.
flushd(a) ==
  /\ mem' = WrittenBack(dcache[Slot(Line(a))])
  /\ dcache' = [dcache EXCEPT ![Slot(Line(a))] = Empty]
  /\ UNCHANGED <<view, icache, code>>

flushi(a) ==
  /\ icache' = [icache EXCEPT ![Slot(Line(a))] = None]
  /\ code' = [b \in Addresses |-> IF Line(b) = icache[Slot(Line(a))] THEN 0 ELSE code[b]]
  /\ UNCHANGED <<mem, view, dcache>>

-----------------------------------------------------------------------------
(* The program stores, loads and runs code between the calls.              *)

Store ==
  /\ pc = "main" /\ stores < MaxStores /\ stores' = stores + 1
  /\ \E a \in Addresses : Put(a, 100 + stores)
  /\ UNCHANGED <<pc, call, i, calls>>

Load ==
  /\ pc = "main"
  /\ \E a \in Addresses : Access(a, FALSE)
  /\ UNCHANGED <<view, icache, code, pc, call, i, stores, calls>>

Fetch ==
  /\ pc = "main"
  /\ \E line \in 0 .. Lines - 1 :
       LET old == icache[Slot(line)]
       IN /\ old # line /\ icache' = [icache EXCEPT ![Slot(line)] = line]
          /\ code' = [a \in Addresses |-> CASE Line(a) = line -> mem[a]
                                            [] Line(a) = old -> 0
                                            [] OTHER -> code[a]]
  /\ UNCHANGED <<mem, view, dcache, pc, call, i, stores, calls>>

-----------------------------------------------------------------------------
(* The calls.                                                              *)

Regional == {"dcache_flush", "dcache_flush_no_writeback", "icache_flush"}
\* A size in whole lines.
LinesOf(size) == ((size + LineSize - 1) \div LineSize) * LineSize
Whole == {"dcache_flush_all", "icache_flush_all"}

Call ==
  /\ pc = "main" /\ calls < MaxCalls /\ calls' = calls + 1
  /\ \/ \E op \in Regional, start \in Addresses, len \in 0 .. Lines * LineSize :
          start + len <= Lines * LineSize /\ call' = [op |-> op, start |-> start, len |-> len]
     \/ \E line \in 0 .. Lines - 1, size \in 1 .. Lines * LineSize :
          /\ line * LineSize + LinesOf(size) <= Lines * LineSize
          /\ call' = [op |-> "uncached_malloc", start |-> line * LineSize, len |-> LinesOf(size)]
     \/ \E op \in Whole : call' = [op |-> op, start |-> 0, len |-> CacheSize]
  /\ pc' = "walk" /\ i' = call'.start
  /\ UNCHANGED <<caches, stores>>

Instruction ==
  \/ call.op \in {"dcache_flush", "uncached_malloc"} /\ flushda(i)
  \/ call.op = "dcache_flush_no_writeback" /\ initda(i)
  \/ call.op \in {"dcache_flush_all", "load"} /\ flushd(i)
  \/ call.op \in {"icache_flush", "icache_flush_all", "load_icache"} /\ flushi(i)

\* The instruction cache needs no more than its own size.
Length == IF call.op = "icache_flush" /\ call.len > CacheSize THEN CacheSize ELSE call.len

Walk ==
  /\ pc = "walk" /\ i < call.start + Length
  /\ Instruction /\ i' = i + LineSize
  /\ UNCHANGED <<pc, call, stores, calls>>

ReturnAligned ==                        \* mutant: the line that is left stays
  /\ pc = "walk" /\ i >= call.start + Length
  /\ IF call.op = "load"
     THEN pc' = pc /\ call' = [call EXCEPT !.op = "load_icache"] /\ i' = 0
     ELSE pc' = "returned" /\ UNCHANGED <<call, i>>
  /\ UNCHANGED <<caches, stores, calls>>

\* With a start that is not aligned there is one more line.  alt_load goes
\* on from the data cache to the instruction cache.
Return ==
  /\ pc = "walk" /\ i >= call.start + Length
  /\ IF call.start % LineSize # 0 THEN Instruction ELSE UNCHANGED caches
  /\ IF call.op = "load"
     THEN pc' = pc /\ call' = [call EXCEPT !.op = "load_icache"] /\ i' = 0
     ELSE pc' = "returned" /\ UNCHANGED <<call, i>>
  /\ UNCHANGED <<stores, calls>>

Resume ==
  /\ pc = "returned" /\ pc' = "main" /\ call' = [call EXCEPT !.op = "none"]
  /\ UNCHANGED <<caches, i, stores, calls>>

\* alt_load: section call.start, word i of it.
CopySection ==
  /\ pc = "copy" /\ call.start <= Len(Sections)
  /\ LET section == Sections[call.start]
     IN IF section.to = section.from \/ section.to + i = section.end
        THEN call' = [call EXCEPT !.start = @ + 1] /\ i' = 0 /\ UNCHANGED caches
        ELSE Put(section.to + i, view[section.from + i]) /\ i' = i + 1 /\ UNCHANGED call
  /\ UNCHANGED <<pc, stores, calls>>

CopyDone ==
  /\ pc = "copy" /\ call.start > Len(Sections)
  /\ pc' = "walk" /\ call' = [op |-> "load", start |-> 0, len |-> CacheSize] /\ i' = 0
  /\ UNCHANGED <<caches, stores, calls>>

Next == Store \/ Load \/ Fetch \/ Call \/ Walk \/ Return \/ Resume \/ CopySection \/ CopyDone

Spec == Init /\ [][Next]_vars

-----------------------------------------------------------------------------
(* Properties.                                                             *)

Region == {a \in Addresses : call.start <= a /\ a < call.start + call.len}
Returned(ops) == pc = "returned" /\ call.op \in ops
Cached(a) == dcache[Slot(Line(a))].line = Line(a)
Fetched(a) == IF icache[Slot(Line(a))] = Line(a) THEN code[a] ELSE mem[a]

(* When a flush of the data cache has returned, memory holds what the      *)
(* program stored in the region and the cache holds none of it, wherever   *)
(* the region starts in a line, or the block is that a program is given to *)
(* use around the cache; after alt_dcache_flush_no_writeback the cache     *)
(* holds none of it either.                                                *)
DataFlushed ==
  /\ Returned({"dcache_flush", "uncached_malloc"}) => \A a \in Region : mem[a] = view[a] /\ ~Cached(a)
  /\ Returned({"dcache_flush_no_writeback"}) => \A a \in Region : ~Cached(a)
  /\ Returned({"dcache_flush_all"}) => mem = view /\ \A a \in Addresses : ~Cached(a)

(* When a flush of the instruction cache has returned, what is fetched     *)
(* from the region is what memory holds.                                   *)
CodeFlushed ==
  /\ Returned({"icache_flush"}) => \A a \in Region : Fetched(a) = mem[a]
  /\ Returned({"icache_flush_all"}) => \A a \in Addresses : Fetched(a) = mem[a]

(* When alt_load has returned every section is where it is to be run: a    *)
(* load and a fetch both give what the flash holds.                        *)
Loaded ==
  Returned({"load_icache"}) =>
    \A k \in DOMAIN Sections : \A a \in Addresses :
      Sections[k].to <= a /\ a < Sections[k].end =>
        view[a] = Sections[k].from + (a - Sections[k].to) + 1 /\ Fetched(a) = view[a]

(* No line but a dirty one differs from memory: no store is lost that was  *)
(* not discarded.                                                          *)
StoresKept ==
  \A a \in Addresses : mem[a] = view[a] \/ (Cached(a) /\ dcache[Slot(Line(a))].dirty)

MemoryCoherent == DataFlushed /\ CodeFlushed /\ Loaded /\ StoresKept
=============================================================================
