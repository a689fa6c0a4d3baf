--------------------------- MODULE AesAccelerator ---------------------------
(***************************************************************************)
(* hdl/aes_accelerator.vhd: an Avalon slave with the job registers, an     *)
(* Avalon master that reads and writes memory, a controller, and the AES   *)
(* core (AesFsmd) clocked with it.  A step is one rising edge of clk, with *)
(* at most one access of the processor on the slave port and one answer of *)
(* the memory on the master port, or an assertion of rst_n.                *)
(*                                                                         *)
(* A word is a 4-tuple of bytes, most significant first; a 128-bit value   *)
(* is the function of its four words, word 0 in bits 127..96.              *)
(***************************************************************************)
EXTENDS CipherRounds

CONSTANTS
  AddrMod,      \* 2^32, the range of the address registers
  LenMod,       \* 2^16, the range of data_length and data_counter
  HeldReadData, \* does readdata outlive the cycle that grants the read?
  Ops,          \* the writes the processor may make on the slave port
  Memories      \* possible initial contents of the memory

ADDR_INC == 4
BlockBytes == 4 * ADDR_INC

NoOp == [kind |-> "none"]

ASSUME ModAssumption ==
  /\ AddrMod \in Nat \ {0}
  /\ LenMod \in Nat \ {0, 1}
  /\ HeldReadData \in BOOLEAN

(* A write of the processor: what its data are depends on the register.    *)
IsWrite(op) ==
  /\ op.kind = "write"
  /\ op.address \in 0 .. 7
  /\ op.address \in {0, 1} => op.data \in 0 .. AddrMod - 1
  /\ op.address = 2 => op.data \in Nat
  /\ op.address = 3 => op.data \in [start : BOOLEAN, inc : BOOLEAN]

ASSUME OpsAssumption == \A op \in Ops : IsWrite(op)

(* Four words make a block, and the memory covers the range of addresses,  *)
(* in which there is room for a block.                                     *)
Words4(b) == b = [i \in 0 .. 3 |-> b[i]]
ASSUME BlockAssumption == Words4(Zero)
ASSUME MemoryAssumption ==
  /\ AddrMod % 4 = 0 /\ AddrMod >= BlockBytes
  /\ \A m \in Memories : m = [w \in 0 .. AddrMod \div 4 - 1 |-> m[w]]

VARIABLES
  state,
  start_address, dest_address, data_length,     \* written by the processor
  keys,
  inc_addr,                                     \* a latch, not a register
  current_address, current_dest_address,        \* the running job
  data_counter, counter, datas,
  core_state, core_cnt, core_data_acc,          \* the registers of the core
  core_key_acc, core_out, core_job,
  mem, rdata,                                   \* the memory and its readdata
  job, blocks                                   \* history: see Accept

registers == <<start_address, dest_address, data_length, keys, inc_addr>>
pointers == <<current_address, current_dest_address, data_counter>>
core == <<core_state, core_cnt, core_data_acc, core_key_acc, core_out, core_job>>
memory == <<mem, rdata>>
history == <<job, blocks>>

vars == <<state, registers, pointers, counter, datas, core, memory, history>>

Core == INSTANCE AesFsmd WITH
  state <- core_state, cnt <- core_cnt, data_acc <- core_data_acc,
  key_acc <- core_key_acc, out <- core_out, job <- core_job,
  Blocks <- {}, Keys <- {}

NoJob == [src |-> 0, dst |-> 0, len |-> 0, inc |-> FALSE, steady |-> FALSE]

-----------------------------------------------------------------------------
(* The slave port.  What a write carries is given by register: an address, *)
(* a length, the two bits of the control register, or a word of the key.   *)

Writes(op, a) == op.kind = "write" /\ op.address = a

(* Bytes arrive in memory order and are kept most significant first.       *)
Swap(word) == <<word[4], word[3], word[2], word[1]>>

start(op) == Writes(op, 3) /\ op.data.start

(* inc_addr is assigned in one branch of a combinational process: the      *)
(* latch is transparent in the very cycle of the control write.            *)
IncAddr(op) == IF Writes(op, 3) THEN op.data.inc ELSE inc_addr

SlaveWrite(op) ==
  /\ start_address' = IF Writes(op, 0) THEN op.data ELSE start_address
  /\ dest_address' = IF Writes(op, 1) THEN op.data ELSE dest_address
  /\ data_length' = IF Writes(op, 2) THEN op.data % LenMod ELSE data_length
  /\ keys' = IF \E a \in 4 .. 7 : Writes(op, a)
             THEN [keys EXCEPT ![op.address - 4] = Swap(op.data)]
             ELSE keys
  /\ inc_addr' = IncAddr(op)

done == state = "IDLE"

(* The read side of the slave port; dest_address cannot be read back, and  *)
(* the start bit is a wire that is low whenever the processor reads.       *)
as_readData(a) ==
  CASE a = 0 -> start_address
    [] a = 1 -> data_length
    [] a = 2 -> FALSE
    [] a = 3 -> done
    [] OTHER -> 0

-----------------------------------------------------------------------------
(* The master port.                                                        *)

am_addressBytewise ==                 \* mutant: ADDR_INC forgotten
  CASE state = "READ"  -> (current_address + counter) % AddrMod
    [] state = "WRITE" -> (current_dest_address + counter) % AddrMod
    [] OTHER -> 0

am_addressUncopied ==                 \* mutant: the processor's own register
  CASE state = "READ"  -> (current_address + ADDR_INC * counter) % AddrMod
    [] state = "WRITE" -> (dest_address + ADDR_INC * counter) % AddrMod
    [] OTHER -> 0

am_address ==
  CASE state = "READ"  -> (current_address + ADDR_INC * counter) % AddrMod
    [] state = "WRITE" -> (current_dest_address + ADDR_INC * counter) % AddrMod
    [] OTHER -> 0

am_writeDataUnswapped == core_out[counter]   \* mutant
am_writeData == Swap(core_out[counter])

WordOf(address) == address \div 4     \* byteEnable is always "1111"

(***************************************************************************)
(* What the controller finds on am_readData one cycle after the grant: the *)
(* word it asked for if the interconnect still shows it, otherwise the     *)
(* word of whatever access another master has made meanwhile.              *)
(***************************************************************************)
am_readData ==
  IF HeldReadData THEN {rdata} ELSE {mem[w] : w \in DOMAIN mem}

-----------------------------------------------------------------------------
(* The controller and its datapath, one action per state and outcome.      *)

lastWord == counter = 3

lastBlockZero == data_counter = 0      \* mutant
lastBlock == data_counter = 1

start_aes == state = "START"

Idle(op) ==
  /\ state = "IDLE"
  /\ ~start(op)
  /\ counter' = 0
  /\ UNCHANGED <<state, pointers, datas, memory, history>>

(***************************************************************************)
(* The job registers are copied, so that the processor may write them      *)
(* again while the job runs.  History: "job" remembers what was copied and *)
(* the increment bit, "steady" that the bit has not changed since, and     *)
(* "blocks" counts the blocks written.                                     *)
(***************************************************************************)
Accept(op) ==
  /\ state = "IDLE"
  /\ start(op)
  /\ state' = "READ"
  /\ current_address' = start_address
  /\ current_dest_address' = dest_address
  /\ data_counter' = data_length
  /\ counter' = 0
  /\ job' = [src |-> start_address, dst |-> dest_address, len |-> data_length,
             inc |-> IncAddr(op), steady |-> TRUE]
  /\ blocks' = 0
  /\ UNCHANGED <<datas, memory>>

Track(op) ==
  job' = [job EXCEPT !.steady = @ /\ IncAddr(op) = job.inc]

ReadWait(op) ==
  /\ state = "READ"
  /\ Track(op)
  /\ UNCHANGED <<state, pointers, counter, datas, memory, blocks>>

ReadGrant(op) ==
  /\ state = "READ"
  /\ state' = "READ_END"
  /\ rdata' = mem[WordOf(am_address)]
  /\ Track(op)
  /\ UNCHANGED <<pointers, counter, datas, mem, blocks>>

ReadEnd(op) ==
  /\ state = "READ_END"
  /\ state' = IF lastWord THEN "START" ELSE "READ"
  /\ \E word \in am_readData : datas' = [datas EXCEPT ![counter] = Swap(word)]
  /\ counter' = IF lastWord THEN 0 ELSE counter + 1
  /\ Track(op)
  /\ UNCHANGED <<pointers, memory, blocks>>

StartUnacknowledged(op) ==            \* mutant: does not wait for ready = 0
  /\ state = "START"
  /\ state' = "WAIT"
  /\ counter' = 0
  /\ Track(op)
  /\ UNCHANGED <<pointers, datas, memory, blocks>>

Start(op) ==
  /\ state = "START"
  /\ state' = IF Core!ready THEN "START" ELSE "WAIT"
  /\ counter' = 0
  /\ Track(op)
  /\ UNCHANGED <<pointers, datas, memory, blocks>>

WaitInverted(op) ==                   \* mutant: ready tested the wrong way
  /\ state = "WAIT"
  /\ state' = IF Core!ready THEN "WAIT" ELSE "WRITE"
  /\ Track(op)
  /\ UNCHANGED <<pointers, counter, datas, memory, blocks>>

Wait(op) ==
  /\ state = "WAIT"
  /\ state' = IF Core!ready THEN "WRITE" ELSE "WAIT"
  /\ Track(op)
  /\ UNCHANGED <<pointers, counter, datas, memory, blocks>>

WriteWait(op) ==
  /\ state = "WRITE"
  /\ Track(op)
  /\ UNCHANGED <<state, pointers, counter, datas, memory, blocks>>

WriteGrant(op) ==
  /\ state = "WRITE"
  /\ state' = "WRITE_END"
  /\ mem' = [mem EXCEPT ![WordOf(am_address)] = am_writeData]
  /\ Track(op)
  /\ UNCHANGED <<pointers, counter, datas, rdata, blocks>>

AdvanceDestinationOnly(op) ==         \* mutant
  /\ current_address' = current_address
  /\ current_dest_address' =
       (current_dest_address + (IF IncAddr(op) THEN BlockBytes ELSE 0)) % AddrMod

(* The increment, 4*ADDR_INC, is applied after every word of a block.      *)
Advance(op) ==
  LET step == IF IncAddr(op) THEN BlockBytes ELSE 0
  IN  /\ current_address' = (current_address + step) % AddrMod
      /\ current_dest_address' = (current_dest_address + step) % AddrMod

WriteNext(op) ==
  /\ state = "WRITE_END"
  /\ ~lastWord
  /\ state' = "WRITE"
  /\ Advance(op)
  /\ counter' = counter + 1
  /\ Track(op)
  /\ UNCHANGED <<data_counter, datas, memory, blocks>>

(* data_counter is unsigned and compared with 1 only: from 0 it wraps.     *)
WriteLast(op) ==
  /\ state = "WRITE_END"
  /\ lastWord
  /\ state' = IF lastBlock THEN "IDLE" ELSE "READ"
  /\ Advance(op)
  /\ counter' = 0
  /\ data_counter' = IF data_counter = 0 THEN LenMod - 1 ELSE data_counter - 1
  /\ blocks' = blocks + 1
  /\ Track(op)
  /\ UNCHANGED <<datas, memory>>

Controller(op) ==
  \/ Idle(op) \/ Accept(op)
  \/ ReadWait(op) \/ ReadGrant(op) \/ ReadEnd(op)
  \/ Start(op) \/ Wait(op)
  \/ WriteWait(op) \/ WriteGrant(op) \/ WriteNext(op) \/ WriteLast(op)

(* One rising edge: every register of the design moves at once.            *)
Clock(op) ==
  /\ SlaveWrite(op)
  /\ Core!Clock(start_aes, keys, datas)
  /\ Controller(op)

-----------------------------------------------------------------------------
(* Power-up: the latch comes up at either value.                           *)
Init ==
  /\ state = "IDLE"
  /\ start_address = 0 /\ dest_address = 0 /\ data_length = 0
  /\ current_address = 0 /\ current_dest_address = 0 /\ data_counter = 0
  /\ counter = 0
  /\ datas = Zero /\ keys = Zero
  /\ job = NoJob /\ blocks = 0
  /\ Core!Init
  /\ inc_addr \in BOOLEAN
  /\ mem \in Memories
  /\ rdata \in {mem[w] : w \in DOMAIN mem}

(* rst_n clears the registers of the accelerator and of the core; the      *)
(* latch and the memory keep their contents.                               *)
Reset ==
  /\ state' = "IDLE"
  /\ start_address' = 0 /\ dest_address' = 0 /\ data_length' = 0
  /\ current_address' = 0 /\ current_dest_address' = 0 /\ data_counter' = 0
  /\ counter' = 0
  /\ datas' = Zero /\ keys' = Zero
  /\ job' = NoJob /\ blocks' = 0
  /\ Core!Reset
  /\ UNCHANGED <<inc_addr, memory>>

(* The processor may write any register at any clock, also mid-job.        *)
Edge == \E op \in Ops \cup {NoOp} : Clock(op)

Next == Edge \/ Reset

Spec == Init /\ [][Next]_vars

-----------------------------------------------------------------------------
(* Properties.                                                             *)

busy == state # "IDLE"

TypeOK ==
  /\ state \in {"IDLE", "READ", "READ_END", "START", "WAIT", "WRITE", "WRITE_END"}
  /\ {start_address, dest_address, current_address, current_dest_address}
       \subseteq 0 .. AddrMod - 1
  /\ {data_length, data_counter} \subseteq 0 .. LenMod - 1
  /\ inc_addr \in BOOLEAN
  /\ counter \in 0 .. 3             \* declared 0 to 4: 4 is never reached
  /\ job \in [src : 0 .. AddrMod - 1, dst : 0 .. AddrMod - 1,
              len : 0 .. LenMod - 1, inc : BOOLEAN, steady : BOOLEAN]
  /\ blocks \in Nat

(***************************************************************************)
(* Controller and core never miss each other: ST_START leaves when the     *)
(* core has taken the block, ST_WAIT when out_reg is about to be loaded,   *)
(* and the core rests in all other states.                                 *)
(***************************************************************************)
Handshake ==
  core_state \in CASE state = "START" -> {"IDLE", "LOAD"}
                   [] state = "WAIT"  -> {"CNT", "DONE"}
                   [] OTHER           -> {"IDLE"}

(***************************************************************************)
(* What is written back is the ciphertext of the whole block that was read *)
(* and of one sample of the key registers, although ready rises one clock  *)
(* before out_reg is loaded and the processor may write the keys at will.  *)
(***************************************************************************)
WritesCiphertext ==
  state \in {"WRITE", "WRITE_END"} =>
    /\ core_job.data = datas
    /\ core_out = Encrypt(datas, core_job.key)

(***************************************************************************)
(* Blocks are counted right: a job of length n writes n blocks, one of     *)
(* length 0 writes 2^16, because data_counter is compared with 1 after the *)
(* block and wraps below 0.  The processor sees done neither early nor     *)
(* late.                                                                   *)
(***************************************************************************)
Total(len) == IF len = 0 THEN LenMod ELSE len

BlocksCounted ==
  IF busy
  THEN /\ blocks < Total(job.len)
       /\ data_counter = IF blocks = 0 THEN job.len ELSE Total(job.len) - blocks
  ELSE job = NoJob \/ blocks = Total(job.len)

(***************************************************************************)
(* The block that goes to the core is what the memory holds at the job's   *)
(* current address, word for word.  It needs readdata to outlive the grant *)
(* (HeldReadData): ST_READ_END samples am_readData one clock after it.     *)
(***************************************************************************)
FetchedWords ==
  CASE state \in {"READ", "READ_END"} -> 0 .. counter - 1
    [] state \in {"START", "WAIT"} -> 0 .. 3
    [] OTHER -> {}

BlockFetched ==
  \A i \in FetchedWords :
    datas[i] = Swap(mem[WordOf((current_address + ADDR_INC * i) % AddrMod)])

(***************************************************************************)
(* Where the words of a job go when nobody touches inc_addr while it runs. *)
(* The increment is added after every word and not after every block, so   *)
(* with inc_addr the words of a block land 20 bytes apart and the blocks   *)
(* are read and written 64 bytes apart; without it every block of the job  *)
(* is read from and written to the same 16 bytes.                          *)
(***************************************************************************)
Scattered ==
  job.steady =>
    /\ state = "READ" =>
         am_address = (job.src + (IF job.inc THEN 64 * blocks ELSE 0) + 4 * counter)
                        % AddrMod
    /\ state = "WRITE" =>
         am_address = (job.dst + (IF job.inc THEN 64 * blocks + 20 * counter
                                             ELSE 4 * counter)) % AddrMod

(***************************************************************************)
(* done means delivered: once the processor reads done, a job without      *)
(* address increment has left all four words of its last ciphertext in the *)
(* destination, and they stay there until the next job.                    *)
(***************************************************************************)
Delivered ==
  done /\ job # NoJob /\ job.steady /\ ~job.inc =>
    \A i \in 0 .. 3 :
      mem[WordOf((job.dst + ADDR_INC * i) % AddrMod)]
        = Swap(Encrypt(core_job.data, core_job.key)[i])

(***************************************************************************)
(* An Avalon master holds its request while the interconnect stalls it:    *)
(* address and data do not move until the grant, whatever the processor    *)
(* writes to the registers behind them.                                    *)
(***************************************************************************)
Stalled == state \in {"READ", "WRITE"} /\ state' = state
RequestHeld ==
  /\ am_address' = am_address
  /\ state = "WRITE" => am_writeData' = am_writeData
MasterHolds == [][Stalled => RequestHeld]_vars
=============================================================================
