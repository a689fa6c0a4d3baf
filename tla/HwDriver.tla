------------------------------ MODULE HwDriver ------------------------------
(***************************************************************************)
(* main() of software/aes_aca/main.c driving the accelerator: the software *)
(* baseline fills outputdata, the program programs the registers, polls    *)
(* done, and decrypts outputdata to say "Correct!" or "Data error!".  The  *)
(* processor and the accelerator share the on-chip memory; there is no     *)
(* data cache (NIOS2_DCACHE_SIZE is 0), so alt_dcache_flush_all does       *)
(* nothing.                                                                *)
(*                                                                         *)
(* An access to a register takes the clock edge at which it happens; any   *)
(* number of edges may pass between two of them.  Computations on memory   *)
(* are one step each: the accelerator is idle then.                        *)
(***************************************************************************)
EXTENDS AesAccelerator, Sequences

CONSTANTS
  Input, Key,      \* the test vector of main(), two 128-bit values
  Src, Dst,        \* the addresses of inputdata and outputdata
  INPUT_LENGTH,
  MaxRestarts      \* bounds the resets of a behaviour

VARIABLES
  pc,              \* where main() is
  access,          \* the next of the register writes of lines 81..89
  restarts

program == <<pc, access, restarts>>
hwvars == <<vars, program>>

SrcWords == {WordOf(Src + ADDR_INC * i) : i \in 0 .. 3}
DstWords == {WordOf(Dst + ADDR_INC * i) : i \in 0 .. 3}

ASSUME LayoutAssumption ==
  /\ {Src, Dst} \subseteq 0 .. AddrMod - 16
  /\ SrcWords \cap DstWords = {}
  /\ INPUT_LENGTH \in 1 .. LenMod - 1

(* The test vector: blocks of four words of four bytes.                    *)
ASSUME VectorAssumption ==
  \A b \in {Input, Key} :
    /\ Words4(b)
    /\ \A i \in 0 .. 3 : b[i] = <<b[i][1], b[i][2], b[i][3], b[i][4]>>

(* A byte array in memory, read as little-endian words.                    *)
Stored(block, base) ==
  [w \in DOMAIN mem |->
     IF \E i \in 0 .. 3 : w = WordOf(base + ADDR_INC * i)
     THEN Swap(block[w - WordOf(base)])
     ELSE mem[w]]

Ciphertext == Encrypt(Input, Key)

IOWR(address, data) == [kind |-> "write", address |-> address, data |-> data]
KeyWord(i) == IOWR(4 + i, Swap(Key[i]))

StopWrite == IOWR(3, [start |-> FALSE, inc |-> FALSE])
StartWrite == IOWR(3, [start |-> TRUE, inc |-> FALSE])

StartBeforeKeys ==                    \* mutant
  << StopWrite, IOWR(2, INPUT_LENGTH), IOWR(0, Src), IOWR(1, Dst), StartWrite,
     KeyWord(0), KeyWord(1), KeyWord(2), KeyWord(3) >>

StartBeforeDestination ==             \* mutant
  << StopWrite, IOWR(2, INPUT_LENGTH), IOWR(0, Src),
     KeyWord(0), KeyWord(1), KeyWord(2), KeyWord(3), StartWrite, IOWR(1, Dst) >>

RegisterWrites ==
  << StopWrite, IOWR(2, INPUT_LENGTH), IOWR(0, Src), IOWR(1, Dst),
     KeyWord(0), KeyWord(1), KeyWord(2), KeyWord(3), StartWrite >>

-----------------------------------------------------------------------------
HwInit ==
  /\ Init
  /\ pc = "setup"
  /\ access = 1
  /\ restarts = 0

(* The initializers of the arrays; outputdata keeps what the stack held.   *)
SetUp ==
  /\ pc = "setup"
  /\ pc' = "baseline"
  /\ mem' = Stored(Input, Src)
  /\ UNCHANGED <<state, registers, pointers, counter, datas, core, rdata,
                 history, access, restarts>>

(* aes_keyexpand128, and INPUT_LENGTH times aes_blockenc_SWacc.            *)
Baseline ==
  /\ pc = "baseline"
  /\ pc' = "program"
  /\ mem' = Stored(Ciphertext, Dst)
  /\ UNCHANGED <<state, registers, pointers, counter, datas, core, rdata,
                 history, access, restarts>>

Program ==
  /\ pc = "program"
  /\ Clock(RegisterWrites[access])
  /\ IF access = Len(RegisterWrites)
     THEN pc' = "poll" /\ access' = access
     ELSE pc' = pc /\ access' = access + 1
  /\ UNCHANGED restarts

PollInverted ==                       \* mutant
  /\ pc = "poll"
  /\ Clock(NoOp)
  /\ pc' = IF as_readData(3) THEN "poll" ELSE "check"
  /\ UNCHANGED <<access, restarts>>

PollStartBit ==                       \* mutant: register 2 instead of 3
  /\ pc = "poll"
  /\ Clock(NoOp)
  /\ pc' = IF as_readData(2) THEN "check" ELSE "poll"
  /\ UNCHANGED <<access, restarts>>

Poll ==
  /\ pc = "poll"
  /\ Clock(NoOp)
  /\ pc' = IF as_readData(3) THEN "check" ELSE "poll"
  /\ UNCHANGED <<access, restarts>>

(* Decrypt inverts the cipher under keyexp, the key of the baseline, so    *)
(* the comparison with inputdata succeeds for one value of outputdata.     *)
Check ==
  /\ pc = "check"
  /\ pc' = IF mem = Stored(Ciphertext, Dst) THEN "correct" ELSE "error"
  /\ UNCHANGED <<vars, access, restarts>>

Cpu == SetUp \/ Baseline \/ Program \/ Poll \/ Check

(* An edge without an access; the display loop of lines 144..148 goes on   *)
(* forever and does not touch the accelerator.                             *)
Tick ==
  /\ Clock(NoOp)
  /\ UNCHANGED program

(* The board's reset and the debugger's reset both processor and           *)
(* accelerator, qsys_top.qsys:1071..1083 and 1142..1153; memory and latch  *)
(* keep their contents.                                                    *)
Restart ==
  /\ restarts < MaxRestarts
  /\ Reset
  /\ pc' = "setup"
  /\ access' = 1
  /\ restarts' = restarts + 1

HwNext == Cpu \/ Tick \/ Restart

HwGranted == (Poll \/ Tick) /\ state' \in {"READ_END", "WRITE_END"}

(* The clock runs, the processor executes, and the memory grants both.     *)
HwSpec ==
  /\ HwInit /\ [][HwNext]_hwvars
  /\ WF_hwvars(Cpu) /\ WF_hwvars(Tick) /\ SF_hwvars(HwGranted)

-----------------------------------------------------------------------------
(* Properties.                                                             *)

(***************************************************************************)
(* The start of line 89 is not lost and starts the job the lines before it *)
(* describe, with the increment latch cleared, whatever an interrupted     *)
(* earlier run left behind.  The same job stays in force until done.       *)
(***************************************************************************)
JobAsProgrammed ==
  pc \in {"poll", "check", "correct"} =>
    job = [src |-> Src, dst |-> Dst, len |-> INPUT_LENGTH,
           inc |-> FALSE, steady |-> TRUE]

(* Every block of the job is enciphered under the one key of the program:  *)
(* no block sees a key that is only partly written.                        *)
OneKey ==
  core_state \in {"CNT", "DONE"} \/ state \in {"WRITE", "WRITE_END"} =>
    core_job = [data |-> Input, key |-> Key]

(***************************************************************************)
(* When the poll has seen done, the accelerator has written all of its     *)
(* blocks and is off the bus, and outputdata is the ciphertext.  The last  *)
(* part alone would not tell: the baseline left the same 16 bytes there.   *)
(***************************************************************************)
ResultReady ==
  pc \in {"check", "correct"} =>
    /\ done
    /\ blocks = INPUT_LENGTH
    /\ mem = Stored(Ciphertext, Dst)

(* main() gets past its polling loop and reports "Correct!".               *)
ReportsCorrect == <>(pc = "correct")
=============================================================================
