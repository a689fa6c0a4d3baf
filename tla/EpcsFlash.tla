----------------------------- MODULE EpcsFlash -----------------------------
(***************************************************************************)
(* The driver of the serial configuration flash (left out of this system's *)
(* build by ALT_USE_SMALL_DRIVERS): identification at boot, and the calls  *)
(* that erase, write and read, down to the commands sent to the device,    *)
(* one per step.  The device goes on with an erasure or a page by itself,  *)
(* and through a reset of the processor; busy, it answers its status only. *)
(* A byte is the set of its ones: erasing sets them, programming clears.   *)
(***************************************************************************)
EXTENDS Integers, Sequences, FiniteSetsExt

CONSTANTS
  Blocks, BlockSize, PageSize,    \* the geometry of the device
  ChunkSize,                      \* bytes that alt_epcs_flash_memcmp reads at once
  FourBytes,                      \* whether devices need four address bytes
  Bits,                           \* the bits of a byte
  Requests,                       \* [offset, src] of the writes
  MaxCalls, MaxResets             \* bounds

Size == Blocks * BlockSize
Address == 0 .. Size - 1
Erased == Bits

FlashAssumption ==
  /\ \A n \in {Blocks, BlockSize, PageSize, ChunkSize} : n \in Nat \ {0}
  /\ BlockSize % PageSize = 0 /\ FourBytes \subseteq BOOLEAN
  /\ Requests \subseteq [offset : Int, src : Seq(SUBSET Bits)]

VARIABLES
  mem, big, wel, wip, addr4,  \* the device: whether it needs four address bytes,
                          \* the write latch, the operation under way, whether
                          \* it takes four address bytes now
  four_bytes_mode, registered,
  call,                   \* the call in progress and its locals
  cmd,                    \* the command it is sending
  req, before, returned,  \* the last write, the contents it found
  calls, resets

device == <<mem, big, wel, wip, addr4>>
driver == <<four_bytes_mode, registered>>
ghosts == <<req, before, returned, calls, resets>>
vars == <<device, driver, call, cmd, ghosts>>

NoCall == [op |-> "none", offset |-> 0, src |-> <<>>, n |-> 0, done |-> 0]
NoCmd == [name |-> "none", pc |-> "none", addr |-> 0, data |-> <<>>]
Ready == [busy |-> FALSE, cmd |-> NoCmd]

Init ==
  /\ mem \in {[a \in Address |-> Erased], [a \in Address |-> {}]}
  /\ big \in FourBytes /\ wel = FALSE /\ wip = Ready /\ addr4 = FALSE
  /\ four_bytes_mode = FALSE /\ registered = FALSE
  /\ call = [NoCall EXCEPT !.op = "boot"] /\ cmd = NoCmd
  /\ req = [offset |-> 0, src |-> <<>>] /\ before = mem /\ returned = FALSE /\ calls = 0 /\ resets = 0

-----------------------------------------------------------------------------
(* The device.                                                             *)

BlockOf(a) == a \div BlockSize
PageOf(a) == a \div PageSize

\* A page that is programmed past its end wraps to its start.
Programmed(m, a, data) ==
  LET at(i) == PageOf(a) * PageSize + ((a + i - 1) % PageSize)
  IN [b \in Address |-> m[b] \cap {x \in Bits : \A i \in 1 .. Len(data) : at(i) = b => x \in data[i]}]

Finish ==
  /\ wip.busy
  /\ mem' = IF wip.cmd.name = "se"
            THEN [a \in Address |-> IF BlockOf(a) = BlockOf(wip.cmd.addr) THEN Erased ELSE mem[a]]
            ELSE Programmed(mem, wip.cmd.addr, wip.cmd.data)
  /\ wip' = Ready /\ wel' = FALSE
  /\ UNCHANGED <<big, addr4, driver, call, cmd, ghosts>>

-----------------------------------------------------------------------------
(* epcs_commands.c: a command, with the commands that precede and follow   *)
(* it.                                                                     *)

Issue(name, addr, data) ==
  cmd' = [name |-> name, addr |-> addr, data |-> data,
          pc |-> IF four_bytes_mode THEN "enter" ELSE IF name = "read" THEN "poll" ELSE "wren"]

Sending(pc) == cmd.pc = pc
Leave == IF four_bytes_mode THEN "exit" ELSE "done"

\* A write enable goes first; the device may take the latch back with the change
\* of mode or leave it set.
LatchAfterMode == IF wip.busy THEN UNCHANGED wel ELSE wel' \in BOOLEAN

enter_4_bytes_mode ==
  /\ Sending("enter")
  /\ addr4' = IF wip.busy THEN addr4 ELSE TRUE
  /\ LatchAfterMode
  /\ cmd' = [cmd EXCEPT !.pc = IF cmd.name = "read" THEN "poll" ELSE "wren"]
  /\ UNCHANGED <<mem, big, wip, driver, call, ghosts>>

write_enable ==
  /\ Sending("wren")
  /\ wel' = (wel \/ ~wip.busy)
  /\ cmd' = [cmd EXCEPT !.pc = "send"]
  /\ UNCHANGED <<mem, big, wip, addr4, driver, call, ghosts>>

\* Sector erase, page program: understood when the number of address bytes is
\* the one the device expects.
Start ==
  /\ Sending("send") /\ cmd.name # "read"
  /\ wip' = IF wip.busy \/ ~wel \/ addr4 # four_bytes_mode THEN wip
            ELSE [busy |-> TRUE, cmd |-> [cmd EXCEPT !.pc = "none"]]
  /\ cmd' = [cmd EXCEPT !.pc = "poll"]
  /\ UNCHANGED <<mem, big, wel, addr4, driver, call, ghosts>>

await_wip_released ==
  /\ Sending("poll") /\ ~wip.busy
  /\ cmd' = [cmd EXCEPT !.pc = IF cmd.name = "read" THEN "send" ELSE Leave]
  /\ UNCHANGED <<device, driver, call, ghosts>>

\* A read may run past the end of the device, to its start.
Read ==
  /\ Sending("send") /\ cmd.name = "read"
  /\ cmd' = [cmd EXCEPT !.pc = Leave,
                        !.data = [i \in DOMAIN cmd.data |-> mem[(cmd.addr + i - 1) % Size]]]
  /\ UNCHANGED <<device, driver, call, ghosts>>

exit_4_bytes_mode ==
  /\ Sending("exit")
  /\ addr4' = IF wip.busy THEN addr4 ELSE FALSE
  /\ LatchAfterMode
  /\ cmd' = [cmd EXCEPT !.pc = "done"]
  /\ UNCHANGED <<mem, big, wip, driver, call, ghosts>>

-----------------------------------------------------------------------------
(* The calls.                                                              *)

\* alt_epcs_flash_init: a device that is busy is not recognized.
flash_init ==
  /\ call.op = "boot" /\ call' = NoCall
  /\ registered' = ~wip.busy
  /\ four_bytes_mode' = (big /\ ~wip.busy)
  /\ UNCHANGED <<device, cmd, ghosts>>

InBlock(offset, n) == Min({BlockSize - (offset % BlockSize), n})
Call(op, offset, src) ==
  [op |-> op, offset |-> offset, src |-> src, n |-> InBlock(offset, Len(src)), done |-> 0]

Compare(c) ==
  /\ call' = c
  /\ Issue("read", c.offset + c.done, SubSeq(c.src, c.done + 1, Min({c.n, c.done + ChunkSize})))

\* Outside the device nothing is written, and the call returns 0 all the same.
flash_write(r) ==
  /\ registered /\ call.op = "none" /\ calls < MaxCalls /\ calls' = calls + 1
  /\ req' = r /\ before' = mem
  /\ IF r.offset \in Address /\ r.src # <<>>
     THEN Compare(Call("compare", r.offset, r.src)) /\ returned' = FALSE
     ELSE returned' = TRUE /\ UNCHANGED <<call, cmd>>
  /\ UNCHANGED <<device, driver, resets>>

PageUnbounded(c) == c.n - c.done      \* mutant: past the end of the page

Page(c) ==
  LET next_page_start == (PageOf(c.offset + c.done) + 1) * PageSize
  IN Min({c.n - c.done, next_page_start - (c.offset + c.done)})

WritePage(c) ==
  /\ call' = c
  /\ Issue("pp", c.offset + c.done, SubSeq(c.src, c.done + 1, c.done + Page(c)))

\* The last block was written, or compared equal; the device may be at its end.
NextBlock ==
  LET next == (BlockOf(call.offset) + 1) * BlockSize
      rest == SubSeq(call.src, call.n + 1, Len(call.src))
  IN IF call.n = Len(call.src) \/ next = Size
     THEN call' = NoCall /\ cmd' = NoCmd /\ returned' = TRUE
     ELSE Compare(Call("compare", next, rest)) /\ UNCHANGED returned

Compared ==
  LET wanted == SubSeq(call.src, call.done + 1, call.done + Len(cmd.data))
      done == call.done + Len(cmd.data)
  IN /\ Sending("done") /\ call.op = "compare"
     /\ IF cmd.data # wanted
        THEN /\ call' = [call EXCEPT !.op = "erase", !.done = 0]
             /\ Issue("se", BlockOf(call.offset) * BlockSize, <<>>)
             /\ UNCHANGED returned
        ELSE IF done < call.n THEN Compare([call EXCEPT !.done = done]) /\ UNCHANGED returned
        ELSE NextBlock
     /\ UNCHANGED <<device, driver, req, before, calls, resets>>

ErasedBlock ==
  /\ Sending("done") /\ call.op = "erase"
  /\ WritePage([call EXCEPT !.op = "write"])
  /\ UNCHANGED <<device, driver, ghosts>>

WrittenPage ==
  LET c == [call EXCEPT !.done = @ + Len(cmd.data)]
  IN /\ Sending("done") /\ call.op = "write"
     /\ IF c.done < c.n THEN WritePage(c) /\ UNCHANGED returned ELSE NextBlock
     /\ UNCHANGED <<device, driver, req, before, calls, resets>>

\* The processor is reset: the device does not notice.
Reset ==
  /\ resets < MaxResets /\ resets' = resets + 1
  /\ call' = [NoCall EXCEPT !.op = "boot"] /\ cmd' = NoCmd
  /\ registered' = FALSE /\ four_bytes_mode' = FALSE
  /\ returned' = FALSE
  /\ UNCHANGED <<device, req, before, calls>>

Next ==
  \/ Finish \/ flash_init \/ enter_4_bytes_mode \/ write_enable \/ Start
  \/ await_wip_released \/ Read \/ exit_4_bytes_mode
  \/ \E r \in Requests : flash_write(r)
  \/ Compared \/ ErasedBlock \/ WrittenPage \/ Reset

Spec == Init /\ [][Next]_vars

-----------------------------------------------------------------------------
\* What is to be written, if the write starts on the device.
Wanted ==
  [a \in {req.offset + i - 1 : i \in IF req.offset \in Address THEN DOMAIN req.src ELSE {}}
     |-> req.src[a - req.offset + 1]]

\* When a write has returned, the device holds what was asked, as far as there
\* is room; of the other bytes those of the blocks it touched are as they were
\* or erased, and those of the other blocks never change, even when a reset cuts
\* the write short.  Then the device is idle and takes three address bytes.
FlashAsWritten ==
  /\ \A a \in Address :
       \/ mem[a] = before[a]
       \/ \E b \in DOMAIN Wanted : BlockOf(a) = BlockOf(b)
  /\ returned =>
       /\ \A a \in Address : IF a \in DOMAIN Wanted THEN mem[a] = Wanted[a]
                             ELSE mem[a] \in {before[a], Erased}
       /\ req.offset \in Address /\ req.src # <<>> => ~wip.busy /\ ~addr4
=============================================================================
