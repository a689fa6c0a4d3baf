--------------------------- MODULE HwDriverProofs ---------------------------
(***************************************************************************)
(* main() driving the accelerator, for every test vector, layout of the    *)
(* arrays, length and number of restarts.  The processor's steps are edges *)
(* of the accelerator, whose invariant is carried over from                *)
(* AesAcceleratorProofs; what is added is which part of main() is running. *)
(***************************************************************************)
EXTENDS HwDriver, AesAcceleratorProofs

Programming == {"setup", "baseline", "program"}
Started == {"poll", "check", "correct", "error"}

(* What the accesses before the next one have left in the registers.       *)
Programmed ==
  /\ access > 2 => data_length = INPUT_LENGTH
  /\ access > 3 => start_address = Src
  /\ access > 4 => dest_address = Dst
  /\ \A i \in 0 .. 3 : access > 5 + i => keys[i] = Key[i]

TheJob ==
  job = [src |-> Src, dst |-> Dst, len |-> INPUT_LENGTH, inc |-> FALSE, steady |-> TRUE]

Progress ==
  /\ pc \in Programming \cup Started
  /\ access \in 1 .. 9
  /\ Words4(keys)
  /\ pc \in {"setup", "baseline"} => access = 1
  /\ pc \in Programming => state = "IDLE" /\ Programmed
  /\ pc \in Started => TheJob /\ keys = Key
  /\ pc \in Started \ {"poll"} => state = "IDLE"

DriverInv == Inv /\ CounterReset /\ OnCourse /\ Progress

-----------------------------------------------------------------------------
(* The register writes, and that each is one the slave port understands.   *)
LEMMA SwapTwice ==
  ASSUME NEW b \in {Input, Key}, NEW i \in 0 .. 3
  PROVE  Swap(Swap(b[i])) = b[i]
<1>1. b[i] = <<b[i][1], b[i][2], b[i][3], b[i][4]>>
  BY VectorAssumption
<1> QED BY <1>1 DEF Swap

LEMMA Accesses ==
  /\ Len(RegisterWrites) = 9
  /\ RegisterWrites[1] = StopWrite
  /\ RegisterWrites[2] = IOWR(2, INPUT_LENGTH)
  /\ RegisterWrites[3] = IOWR(0, Src)
  /\ RegisterWrites[4] = IOWR(1, Dst)
  /\ \A i \in 0 .. 3 : RegisterWrites[5 + i] = KeyWord(i)
  /\ RegisterWrites[9] = StartWrite
<1>1. \A i \in 0 .. 3 : RegisterWrites[5 + i] = KeyWord(i)
  <2> SUFFICES ASSUME NEW i \in 0 .. 3 PROVE RegisterWrites[5 + i] = KeyWord(i)
    OBVIOUS
  <2>1. i = 0 \/ i = 1 \/ i = 2 \/ i = 3
    OBVIOUS
  <2> QED BY <2>1 DEF RegisterWrites
<1> QED BY <1>1 DEF RegisterWrites

LEMMA AccessIsWrite ==
  ASSUME access \in 1 .. 9
  PROVE  IsWrite(RegisterWrites[access])
<1>1. \/ access \in {1, 2, 3, 4, 9}
      \/ \E i \in 0 .. 3 : access = 5 + i
  <2>1. access \in 5 .. 8 => access - 5 \in 0 .. 3 /\ access = 5 + (access - 5)
    OBVIOUS
  <2> QED BY <2>1
<1>2. IsWrite(StopWrite) /\ IsWrite(StartWrite)
  BY DEF IsWrite, StopWrite, StartWrite, IOWR
<1>3. IsWrite(IOWR(2, INPUT_LENGTH)) /\ IsWrite(IOWR(0, Src)) /\ IsWrite(IOWR(1, Dst))
  BY LayoutAssumption, ModAssumption DEF IsWrite, IOWR
<1>4. \A i \in 0 .. 3 : IsWrite(KeyWord(i))
  <2> SUFFICES ASSUME NEW i \in 0 .. 3 PROVE IsWrite(KeyWord(i))
    OBVIOUS
  <2>1. 4 + i \in 0 .. 7 /\ 4 + i \notin {0, 1, 2, 3}
    OBVIOUS
  <2> QED BY <2>1 DEF IsWrite, KeyWord, IOWR
<1> QED BY <1>1, <1>2, <1>3, <1>4, Accesses

-----------------------------------------------------------------------------
(* Steps of the software that leave the accelerator as it is.              *)
Untouched ==
  UNCHANGED <<state, registers, pointers, counter, datas, core, rdata, history>>

LEMMA UntouchedInv ==
  ASSUME Inv, CounterReset, OnCourse, Untouched
  PROVE  Inv' /\ CounterReset' /\ OnCourse'
<1>1. Inv'
  BY DEF Untouched, Inv, registers, pointers, core, history, TypeOK,
         CoreP!IInv, CoreP!TypeOK, CoreP!InStep, Handshake, BlockHeld,
         WritesCiphertext, BlocksCounted, busy
<1>2. CounterReset' /\ OnCourse'
  BY DEF Untouched, registers, pointers, history, CounterReset, OnCourse, busy, Run
<1> QED BY <1>1, <1>2

LEMMA EdgeInv ==
  ASSUME Inv, CounterReset, OnCourse, NEW op, IsWrite(op) \/ op = NoOp, Clock(op)
  PROVE  Inv' /\ CounterReset' /\ OnCourse'
<1>1. TypeOK
  BY DEF Inv
<1> QED BY <1>1, ClockStep, CounterResetStep, OnCourseStep

(* An edge that does not start a job leaves an idle accelerator idle.      *)
LEMMA StaysIdle ==
  ASSUME state = "IDLE", NEW op, ~start(op), Clock(op)
  PROVE  state' = "IDLE" /\ UNCHANGED <<job, blocks, mem>>
  BY DEF Clock, Controller, Idle, Accept, ReadWait, ReadGrant, ReadEnd, Start, Wait,
         WriteWait, WriteGrant, WriteNext, WriteLast, history, memory

LEMMA NoOpWrites ==
  ASSUME Clock(NoOp)
  PROVE  /\ ~start(NoOp)
         /\ IncAddr(NoOp) = inc_addr
         /\ UNCHANGED registers
  BY DEF Clock, SlaveWrite, Writes, NoOp, start, IncAddr, registers

-----------------------------------------------------------------------------
(* While nothing is written the job in force stays in force.               *)
LEMMA JobStays ==
  ASSUME TypeOK, OnCourse, TheJob, Clock(NoOp)
  PROVE  TheJob'
<1>1. Controller(NoOp)
  BY DEF Clock
<1>2. ~start(NoOp) /\ IncAddr(NoOp) = inc_addr
  BY NoOpWrites
<1>3. CASE state = "IDLE"
  BY <1>2, <1>3, StaysIdle DEF TheJob
<1>4. CASE state # "IDLE"
  <2>1. Track(NoOp)
    BY <1>1, <1>4 DEF Controller, Idle, Accept, ReadWait, ReadGrant, ReadEnd, Start,
                      Wait, WriteWait, WriteGrant, WriteNext, WriteLast
  <2>2. inc_addr = job.inc
    BY <1>4 DEF OnCourse, busy, TheJob
  <2>3. job' = [job EXCEPT !.steady = TRUE]
    BY <1>2, <2>1, <2>2 DEF Track, TheJob
  <2> QED BY <2>3 DEF TheJob
<1> QED BY <1>3, <1>4

LEMMA QuietProgress ==
  ASSUME DriverInv, Clock(NoOp),
         UNCHANGED access, pc' = pc \/ (pc = "poll" /\ pc' = "check" /\ done)
  PROVE  Progress'
<1> USE DEF DriverInv, Progress, Programming, Started
<1>1. ~start(NoOp) /\ UNCHANGED <<data_length, start_address, dest_address, keys>>
  BY NoOpWrites DEF registers
<1>2. state = "IDLE" => state' = "IDLE"
  BY <1>1, StaysIdle
<1>3. TheJob => TheJob'
  BY JobStays DEF Inv
<1>4. Programmed => Programmed'
  BY <1>1 DEF Programmed
<1>5. Words4(keys)'
  BY <1>1 DEF Words4
<1> QED BY <1>1, <1>2, <1>3, <1>4, <1>5 DEF done

LEMMA ProgramProgress ==
  ASSUME DriverInv, Program
  PROVE  Progress'
<1> DEFINE op == RegisterWrites[access]
<1> USE DEF DriverInv, Progress, Programming, Started
<1>1. /\ pc = "program" /\ state = "IDLE" /\ access \in 1 .. 9 /\ Programmed
      /\ Words4(keys)
      /\ Clock(op) /\ SlaveWrite(op) /\ Controller(op)
      /\ IF access = 9 THEN pc' = "poll" /\ access' = access
                       ELSE pc' = "program" /\ access' = access + 1
  BY Accesses DEF Program, Clock
<1>2. CASE access = 1
  <2>1. op = StopWrite
    BY <1>2, Accesses
  <2>2. ~start(op) /\ UNCHANGED keys
    BY <1>1, <2>1 DEF SlaveWrite, start, Writes, StopWrite, IOWR
  <2>3. state' = "IDLE" /\ access' = 2 /\ pc' = "program"
    BY <1>1, <1>2, <2>2, StaysIdle
  <2> QED BY <1>1, <2>2, <2>3 DEF Programmed, Words4
<1>3. CASE access = 2
  <2>1. op = IOWR(2, INPUT_LENGTH)
    BY <1>3, Accesses
  <2>2. ~start(op) /\ UNCHANGED keys /\ data_length' = INPUT_LENGTH % LenMod
    BY <1>1, <2>1 DEF SlaveWrite, start, Writes, IOWR
  <2>3. state' = "IDLE" /\ access' = 3 /\ pc' = "program"
    BY <1>1, <1>3, <2>2, StaysIdle
  <2>4. INPUT_LENGTH % LenMod = INPUT_LENGTH
    BY LayoutAssumption, ModAssumption
  <2> QED BY <1>1, <2>2, <2>3, <2>4 DEF Programmed, Words4
<1>4. CASE access = 3
  <2>1. op = IOWR(0, Src)
    BY <1>4, Accesses
  <2>2. ~start(op) /\ UNCHANGED <<keys, data_length>> /\ start_address' = Src
    BY <1>1, <2>1 DEF SlaveWrite, start, Writes, IOWR
  <2>3. state' = "IDLE" /\ access' = 4 /\ pc' = "program"
    BY <1>1, <1>4, <2>2, StaysIdle
  <2> QED BY <1>1, <1>4, <2>2, <2>3 DEF Programmed, Words4
<1>5. CASE access = 4
  <2>1. op = IOWR(1, Dst)
    BY <1>5, Accesses
  <2>2. /\ ~start(op) /\ UNCHANGED <<keys, data_length, start_address>>
        /\ dest_address' = Dst
    BY <1>1, <2>1 DEF SlaveWrite, start, Writes, IOWR
  <2>3. state' = "IDLE" /\ access' = 5 /\ pc' = "program"
    BY <1>1, <1>5, <2>2, StaysIdle
  <2> QED BY <1>1, <1>5, <2>2, <2>3 DEF Programmed, Words4
<1>6. CASE access \in 5 .. 8
  <2>1. PICK i \in 0 .. 3 : access = 5 + i
    <3>1. access - 5 \in 0 .. 3 /\ access = 5 + (access - 5)
      BY <1>6
    <3> QED BY <3>1
  <2>2. op = KeyWord(i)
    BY <2>1, Accesses
  <2>3. op.kind = "write" /\ op.address = 4 + i /\ op.data = Swap(Key[i])
    BY <2>2 DEF KeyWord, IOWR
  <2>4. /\ 4 + i \in 4 .. 7 /\ 4 + i \notin {0, 1, 2, 3} /\ (4 + i) - 4 = i
    OBVIOUS
  <2>5. /\ ~start(op) /\ UNCHANGED <<data_length, start_address, dest_address>>
        /\ keys' = [keys EXCEPT ![i] = Swap(Swap(Key[i]))]
    BY <1>1, <2>3, <2>4 DEF SlaveWrite, start, Writes
  <2>6. keys' = [j \in 0 .. 3 |-> IF j = i THEN Key[i] ELSE keys[j]]
    BY <1>1, <2>5, SwapTwice DEF Words4
  <2>7. state' = "IDLE" /\ access' = 6 + i /\ pc' = "program" /\ access' \in 1 .. 9
    BY <1>1, <2>1, <2>5, StaysIdle
  <2>8. Words4(keys)'
    BY <2>6 DEF Words4
  <2>9. Programmed'
    <3>1. \A j \in 0 .. 3 : access' > 5 + j => keys'[j] = Key[j]
      BY <1>1, <2>1, <2>6, <2>7 DEF Programmed
    <3> QED BY <1>1, <2>1, <2>5, <2>7, <3>1 DEF Programmed
  <2> QED BY <2>7, <2>8, <2>9
<1>7. CASE access = 9
  <2>1. op = StartWrite
    BY <1>7, Accesses
  <2>2. start(op) /\ IncAddr(op) = FALSE /\ UNCHANGED keys
    BY <1>1, <2>1 DEF SlaveWrite, start, IncAddr, Writes, StartWrite, IOWR
  <2>3. Accept(op)
    BY <1>1, <2>2 DEF Controller, Idle, Accept, ReadWait, ReadGrant, ReadEnd, Start,
                      Wait, WriteWait, WriteGrant, WriteNext, WriteLast
  <2>4. /\ start_address = Src /\ dest_address = Dst /\ data_length = INPUT_LENGTH
        /\ \A i \in 0 .. 3 : keys[i] = Key[i]
    BY <1>1, <1>7 DEF Programmed
  <2>5. TheJob'
    BY <2>2, <2>3, <2>4 DEF Accept, TheJob
  <2>6. keys' = Key
    <3>1. Key = [i \in 0 .. 3 |-> Key[i]] /\ keys = [i \in 0 .. 3 |-> keys[i]]
      BY <1>1, VectorAssumption DEF Words4
    <3> QED BY <2>2, <2>4, <3>1
  <2>7. Words4(keys)'
    BY <1>1, <2>2 DEF Words4
  <2> QED BY <1>1, <1>7, <2>5, <2>6, <2>7
<1>8. access \in 1 .. 9 => access \in {1, 2, 3, 4, 9} \/ access \in 5 .. 8
  OBVIOUS
<1> QED BY <1>1, <1>2, <1>3, <1>4, <1>5, <1>6, <1>7, <1>8

-----------------------------------------------------------------------------
LEMMA DriverInit == HwInit => DriverInv
<1> SUFFICES ASSUME HwInit PROVE DriverInv
  OBVIOUS
<1>1. Init
  BY DEF HwInit
<1>2. Inv
  BY <1>1, InitInv
<1>3. CounterReset /\ OnCourse
  BY <1>1 DEF Init, CounterReset, OnCourse, busy
<1>4. Progress
  BY <1>1, BlockAssumption DEF Init, HwInit, Progress, Programming, Started, Programmed,
     Words4
<1> QED BY <1>2, <1>3, <1>4 DEF DriverInv

LEMMA ResetProgress ==
  ASSUME DriverInv, Restart
  PROVE  DriverInv'
<1>1. Inv'
  BY ResetStep DEF Restart, DriverInv
<1>2. CounterReset' /\ OnCourse'
  BY DEF Restart, Reset, CounterReset, OnCourse, busy
<1>3. Progress'
  BY BlockAssumption DEF Restart, Reset, Progress, Programming, Started, Programmed,
     Words4
<1> QED BY <1>1, <1>2, <1>3 DEF DriverInv

LEMMA DriverStep == DriverInv /\ [HwNext]_hwvars => DriverInv'
<1> SUFFICES ASSUME DriverInv, [HwNext]_hwvars PROVE DriverInv'
  OBVIOUS
<1>1. CASE SetUp \/ Baseline
  <2>1. Untouched /\ access' = access
    BY <1>1 DEF SetUp, Baseline, Untouched
  <2>2. Inv' /\ CounterReset' /\ OnCourse'
    BY <2>1, UntouchedInv DEF DriverInv
  <2>3. /\ pc \in {"setup", "baseline"} /\ pc' \in {"baseline", "program"}
        /\ access = 1 /\ state = "IDLE" /\ Words4(keys)
    BY <1>1 DEF SetUp, Baseline, DriverInv, Progress, Programming
  <2>4. Progress'
    BY <2>1, <2>3 DEF Untouched, registers, Progress, Programming, Started, Programmed,
                      Words4
  <2> QED BY <2>2, <2>4 DEF DriverInv
<1>2. CASE Program
  <2>1. Clock(RegisterWrites[access]) /\ IsWrite(RegisterWrites[access])
    BY <1>2, AccessIsWrite DEF Program, DriverInv, Progress
  <2>2. Inv' /\ CounterReset' /\ OnCourse'
    BY <2>1, EdgeInv DEF DriverInv
  <2> QED BY <1>2, <2>2, ProgramProgress DEF DriverInv
<1>3. CASE Poll \/ Tick
  <2>1. /\ Clock(NoOp) /\ UNCHANGED access
        /\ pc' = pc \/ (pc = "poll" /\ pc' = "check" /\ done)
    <3>1. CASE Tick
      BY <3>1 DEF Tick, program
    <3>2. CASE Poll
      <4>1. as_readData(3) = done
        <5>1. 3 # 0 /\ 3 # 1 /\ 3 # 2
          OBVIOUS
        <5> QED BY <5>1, Zenon DEF as_readData
      <4>2. /\ Clock(NoOp) /\ UNCHANGED access /\ pc = "poll"
            /\ pc' = IF as_readData(3) THEN "check" ELSE "poll"
        BY <3>2 DEF Poll
      <4> QED BY <4>1, <4>2, Zenon
    <3> QED BY <1>3, <3>1, <3>2
  <2>2. Inv' /\ CounterReset' /\ OnCourse'
    BY <2>1, EdgeInv DEF DriverInv
  <2> QED BY <2>1, <2>2, QuietProgress DEF DriverInv
<1>4. CASE Check
  <2>1. /\ UNCHANGED vars /\ UNCHANGED access
        /\ pc = "check" /\ pc' \in {"correct", "error"}
    BY <1>4 DEF Check
  <2>2. Untouched
    BY <2>1 DEF Untouched, vars, memory
  <2>3. Inv' /\ CounterReset' /\ OnCourse'
    BY <2>2, UntouchedInv DEF DriverInv
  <2>4. Progress'
    BY <2>1, <2>2 DEF Untouched, registers, history, DriverInv, Progress, Programming,
                      Started, TheJob, Words4
  <2> QED BY <2>3, <2>4 DEF DriverInv
<1>5. CASE Restart
  BY <1>5, ResetProgress
<1>6. CASE UNCHANGED hwvars
  <2>1. UNCHANGED vars /\ UNCHANGED program
    BY <1>6 DEF hwvars
  <2>2. Untouched
    BY <2>1 DEF Untouched, vars, memory
  <2>3. Inv' /\ CounterReset' /\ OnCourse'
    BY <2>2, UntouchedInv DEF DriverInv
  <2>4. Progress'
    BY <2>1, <2>2 DEF Untouched, registers, history, program, DriverInv, Progress,
                      Programming, Started, Programmed, TheJob, Words4
  <2> QED BY <2>3, <2>4 DEF DriverInv
<1> QED
  BY <1>1, <1>2, <1>3, <1>4, <1>5, <1>6 DEF HwNext, Cpu

LEMMA DriverInvariant == HwSpec => []DriverInv
  BY DriverInit, DriverStep, PTL DEF HwSpec

(* The start of line 89 starts the job the lines before it describe,       *)
(* whatever an interrupted earlier run left in the registers, in the latch *)
(* and in the middle of its job, and that job stays in force.              *)
THEOREM RunsTheProgrammedJob == HwSpec => []JobAsProgrammed
<1>1. DriverInv => JobAsProgrammed
  BY DEF DriverInv, Progress, Started, TheJob, JobAsProgrammed
<1> QED BY <1>1, DriverInvariant, PTL

-----------------------------------------------------------------------------
(* The shared memory.                                                      *)

Holds(base, b) == \A i \in 0 .. 3 : mem[WordOf(base + ADDR_INC * i)] = Swap(b[i])

Shared ==
  /\ MemoryShape
  /\ Fetching
  /\ pc # "setup" => Holds(Src, Input)
  /\ pc \notin {"setup", "baseline"} => Holds(Dst, Ciphertext)
  /\ OneKey
  /\ pc # "error"

LEMMA Placed ==
  ASSUME NEW base \in 0 .. AddrMod - 16, NEW i \in 0 .. 3
  PROVE  /\ (base + ADDR_INC * i) % AddrMod = base + ADDR_INC * i
         /\ WordOf(base + ADDR_INC * i) - WordOf(base) = i
         /\ WordOf(base + ADDR_INC * i) \in MemWords
<1>1. base \in 0 .. AddrMod - 1 /\ base + 4 * i \in 0 .. AddrMod - 1
  BY ModAssumption
<1>2. (base + 4 * i) % AddrMod = base + 4 * i
  BY <1>1, InRange, ModAssumption
<1>3. Block(base, i) \in MemWords
  BY <1>1, WordsApart
<1>4. (base + 4 * i) \div 4 - (base \div 4) = i
  BY <1>1
<1> QED BY <1>2, <1>3, <1>4 DEF Block, WordOf, ADDR_INC

LEMMA StoredWords ==
  ASSUME MemoryShape, NEW base \in 0 .. AddrMod - 16, NEW b
  PROVE  /\ Stored(b, base) = [w \in MemWords |-> Stored(b, base)[w]]
         /\ \A i \in 0 .. 3 : Stored(b, base)[WordOf(base + ADDR_INC * i)] = Swap(b[i])
         /\ \A w \in MemWords :
              (\A i \in 0 .. 3 : w # WordOf(base + ADDR_INC * i))
                => Stored(b, base)[w] = mem[w]
<1>1. DOMAIN mem = MemWords
  BY DEF MemoryShape
<1>2. Stored(b, base)
        = [w \in MemWords |->
             IF \E i \in 0 .. 3 : w = WordOf(base + ADDR_INC * i)
             THEN Swap(b[w - WordOf(base)])
             ELSE mem[w]]
  BY <1>1 DEF Stored
<1>3. ASSUME NEW i \in 0 .. 3
      PROVE  Stored(b, base)[WordOf(base + ADDR_INC * i)] = Swap(b[i])
  <2>1. /\ WordOf(base + ADDR_INC * i) \in MemWords
        /\ WordOf(base + ADDR_INC * i) - WordOf(base) = i
    BY Placed
  <2> DEFINE w == WordOf(base + ADDR_INC * i)
  <2>2. \E j \in 0 .. 3 : w = WordOf(base + ADDR_INC * j)
    OBVIOUS
  <2>3. Stored(b, base)[w] = Swap(b[w - WordOf(base)])
    <3> HIDE DEF w
    <3>1. w \in MemWords
      BY <2>1 DEF w
    <3> QED BY <1>2, <2>2, <3>1
  <2> QED BY <2>1, <2>3
<1> QED BY <1>2, <1>3

(* A block that is stored already may be stored again.                     *)
LEMMA StoredAgain ==
  ASSUME MemoryShape, NEW base \in 0 .. AddrMod - 16, NEW b, Holds(base, b)
  PROVE  mem = Stored(b, base)
<1>1. \A w \in MemWords : Stored(b, base)[w] = mem[w]
  <2> SUFFICES ASSUME NEW w \in MemWords PROVE Stored(b, base)[w] = mem[w]
    OBVIOUS
  <2>1. CASE \E i \in 0 .. 3 : w = WordOf(base + ADDR_INC * i)
    BY <2>1, StoredWords DEF Holds
  <2>2. CASE \A i \in 0 .. 3 : w # WordOf(base + ADDR_INC * i)
    BY <2>2, StoredWords
  <2> QED BY <2>1, <2>2
<1>2. /\ Stored(b, base) = [w \in MemWords |-> Stored(b, base)[w]]
      /\ mem = [w \in MemWords |-> mem[w]]
  BY StoredWords DEF MemoryShape
<1> QED BY <1>1, <1>2

(* The core is only ever given the block of inputdata.                     *)
LEMMA InputFetched ==
  ASSUME DriverInv, Shared, state \in {"START", "WAIT"}
  PROVE  datas = Input /\ keys = Key
<1>1. TheJob /\ keys = Key /\ Holds(Src, Input)
  BY DEF DriverInv, Progress, Programming, Started, Shared
<1>2. Src \in 0 .. AddrMod - 16 /\ Src \in 0 .. AddrMod - 1
  BY LayoutAssumption, ModAssumption
<1>3. current_address = Src
  <2>1. current_address = (Src + 0) % AddrMod
    BY <1>1 DEF DriverInv, OnCourse, TheJob, Run, busy
  <2>2. (Src + 0) % AddrMod = Src
    BY <1>2, ModAssumption, InRange
  <2> QED BY <2>1, <2>2
<1>4. \A i \in 0 .. 3 : datas[i] = Swap(mem[WordOf((Src + ADDR_INC * i) % AddrMod)])
  BY <1>3 DEF Shared, Fetching, BlockFetched, FetchedWords
<1>5. \A i \in 0 .. 3 : datas[i] = Swap(mem[WordOf(Src + ADDR_INC * i)])
  BY <1>2, <1>4, Placed
<1>6. \A i \in 0 .. 3 : datas[i] = Input[i]
  BY <1>1, <1>5, SwapTwice DEF Holds
<1>7. datas = [i \in 0 .. 3 |-> datas[i]] /\ Input = [i \in 0 .. 3 |-> Input[i]]
  BY VectorAssumption DEF Shared, Fetching, Words4
<1> QED BY <1>1, <1>6, <1>7

(* What the accelerator writes is what the baseline has left there.        *)
LEMMA WritesTheSame ==
  ASSUME DriverInv, Shared, NEW op, Clock(op)
  PROVE  mem' = mem
<1>1. CASE WriteGrant(op)
  <2>1. state = "WRITE" /\ TheJob /\ Holds(Dst, Ciphertext) /\ counter \in 0 .. 3
    BY <1>1 DEF WriteGrant, DriverInv, Progress, Programming, Started, Shared, Inv, TypeOK
  <2>2. Dst \in 0 .. AddrMod - 16 /\ Dst \in 0 .. AddrMod - 1
    BY LayoutAssumption, ModAssumption
  <2>3. current_dest_address = Dst
    <3>1. current_dest_address = (Dst + 0) % AddrMod
      BY <2>1 DEF DriverInv, OnCourse, TheJob, Run, busy
    <3>2. (Dst + 0) % AddrMod = Dst
      BY <2>2, ModAssumption, InRange
    <3> QED BY <3>1, <3>2
  <2>4. core_out = Ciphertext
    BY <2>1 DEF DriverInv, Inv, WritesCiphertext, Shared, OneKey, Ciphertext
  <2>5. am_address = (Dst + ADDR_INC * counter) % AddrMod
    BY <2>1, <2>3 DEF am_address
  <2>6. mem' = [mem EXCEPT ![WordOf(Dst + ADDR_INC * counter)] = Swap(Ciphertext[counter])]
    BY <1>1, <2>1, <2>2, <2>4, <2>5, Placed DEF WriteGrant, am_writeData
  <2>7. mem[WordOf(Dst + ADDR_INC * counter)] = Swap(Ciphertext[counter])
    BY <2>1 DEF Holds
  <2> QED BY <2>6, <2>7 DEF Shared, MemoryShape
<1>2. CASE ~WriteGrant(op)
  BY <1>2 DEF Clock, Controller, Idle, Accept, ReadWait, ReadGrant, ReadEnd, Start,
              Wait, WriteWait, WriteNext, WriteLast, memory
<1> QED BY <1>1, <1>2

(* The core samples block and key in the one clock in which both are those *)
(* of the program, and keeps them until the block is written.              *)
LEMMA OneKeyStep ==
  ASSUME DriverInv, Shared, NEW op, Clock(op)
  PROVE  OneKey'
<1> USE DEF OneKey
<1>1. Controller(op) /\ Handshake /\ CoreP!IInv /\ OneKey
  BY DEF Clock, DriverInv, Inv, Shared
<1>2. core_state' \in {"CNT", "DONE"} => core_job' = [data |-> Input, key |-> Key]
  <2>1. CASE core_state \in {"IDLE", "DONE"}
    BY <1>1, <2>1, CoreEdge
  <2>2. CASE core_state = "CNT"
    BY <1>1, <2>2, CoreEdge
  <2>3. CASE core_state = "LOAD"
    <3>1. state = "START"
      BY <1>1, <2>3 DEF Handshake
    <3> QED BY <1>1, <2>3, <3>1, CoreEdge, InputFetched
  <2> QED BY <1>1, <2>1, <2>2, <2>3 DEF Handshake
<1>3. state' \in {"WRITE", "WRITE_END"} =>
        \/ state \in {"WRITE", "WRITE_END"}
        \/ state = "WAIT" /\ core_state = "DONE"
  BY <1>1 DEF Controller, Idle, Accept, ReadWait, ReadGrant, ReadEnd, Start, Wait,
              WriteWait, WriteGrant, WriteNext, WriteLast, Core!ready, Handshake
<1>4. state' \in {"WRITE", "WRITE_END"} => core_job' = [data |-> Input, key |-> Key]
  <2>1. CASE state \in {"WRITE", "WRITE_END"}
    <3>1. core_state = "IDLE"
      BY <1>1, <2>1 DEF Handshake
    <3> QED BY <1>1, <2>1, <3>1, CoreEdge
  <2>2. CASE state = "WAIT" /\ core_state = "DONE"
    BY <1>1, <2>2, CoreEdge
  <2> QED BY <1>3, <2>1, <2>2
<1> QED BY <1>2, <1>4

-----------------------------------------------------------------------------
(* Every edge of the accelerator keeps the memory as main() expects it.    *)
LEMMA SharedEdge ==
  ASSUME HeldReadData, DriverInv, Shared, NEW op, IsWrite(op) \/ op = NoOp, Clock(op),
         \/ pc' = pc
         \/ pc' \in {"poll", "check"} /\ pc \notin {"setup", "baseline"}
  PROVE  Shared'
<1>1. MemoryShape'
  BY ShapeStep DEF Shared
<1>2. Fetching'
  BY FetchingStep DEF DriverInv, Inv, Shared
<1>3. mem' = mem
  BY WritesTheSame
<1>4. OneKey'
  BY OneKeyStep
<1> QED BY <1>1, <1>2, <1>3, <1>4 DEF Shared, Holds

LEMMA UntouchedFetching ==
  ASSUME Fetching, Untouched, state = "IDLE"
  PROVE  Fetching'
  BY DEF Fetching, Untouched, BlockFetched, FetchedWords, Words4

(* The two computations of main() put their results where they belong and  *)
(* nowhere else.                                                           *)
LEMMA SharedSetUp ==
  ASSUME DriverInv, Shared, SetUp \/ Baseline
  PROVE  Shared'
<1>1. /\ Untouched /\ pc \in {"setup", "baseline"}
      /\ pc' = IF pc = "setup" THEN "baseline" ELSE "program"
      /\ mem' = IF pc = "setup" THEN Stored(Input, Src) ELSE Stored(Ciphertext, Dst)
  BY DEF SetUp, Baseline, Untouched
<1>2. state = "IDLE" /\ core_state = "IDLE"
  BY <1>1 DEF DriverInv, Progress, Programming, Inv, Handshake
<1>3. Fetching'
  BY <1>1, <1>2, UntouchedFetching DEF Shared
<1>4. OneKey'
  BY <1>1, <1>2 DEF Untouched, core, OneKey
<1>5. Src \in 0 .. AddrMod - 16 /\ Dst \in 0 .. AddrMod - 16
  BY LayoutAssumption
<1>6. MemoryShape
  BY DEF Shared
<1>7. mem' = [w \in MemWords |-> mem'[w]]
  <2>1. CASE pc = "setup"
    BY <1>1, <1>5, <1>6, <2>1, StoredWords
  <2>2. CASE pc # "setup"
    BY <1>1, <1>5, <1>6, <2>2, StoredWords
  <2> QED BY <2>1, <2>2
<1>8. CASE pc = "setup"
  <2>1. Holds(Src, Input)'
    BY <1>1, <1>5, <1>6, <1>8, StoredWords DEF Holds
  <2> QED BY <1>1, <1>3, <1>4, <1>7, <1>8, <2>1 DEF Shared, MemoryShape
<1>9. CASE pc = "baseline"
  <2>1. Holds(Dst, Ciphertext)'
    BY <1>1, <1>5, <1>6, <1>9, StoredWords DEF Holds
  <2>2. Holds(Src, Input)'
    <3> SUFFICES ASSUME NEW i \in 0 .. 3
                 PROVE  mem'[WordOf(Src + ADDR_INC * i)] = Swap(Input[i])
      BY DEF Holds
    <3>1. mem[WordOf(Src + ADDR_INC * i)] = Swap(Input[i])
      BY <1>9 DEF Shared, Holds
    <3>2. WordOf(Src + ADDR_INC * i) \in MemWords
      BY <1>5, Placed
    <3>3. \A j \in 0 .. 3 : WordOf(Src + ADDR_INC * i) # WordOf(Dst + ADDR_INC * j)
      BY LayoutAssumption DEF SrcWords, DstWords
    <3>4. Stored(Ciphertext, Dst)[WordOf(Src + ADDR_INC * i)]
            = mem[WordOf(Src + ADDR_INC * i)]
      BY <1>5, <1>6, <3>2, <3>3, StoredWords
    <3> QED BY <1>1, <1>9, <3>1, <3>4
  <2> QED BY <1>1, <1>3, <1>4, <1>7, <1>9, <2>1, <2>2 DEF Shared, MemoryShape
<1> QED BY <1>1, <1>8, <1>9

LEMMA SharedUnchanged ==
  ASSUME Shared, UNCHANGED vars, pc' = pc \/ (pc = "check" /\ pc' = "correct")
  PROVE  Shared'
<1>1. Fetching'
  BY DEF vars, pointers, memory, Shared, Fetching, BlockFetched, FetchedWords, Words4,
         Requested
<1>2. MemoryShape' /\ OneKey'
  BY DEF vars, core, memory, Shared, MemoryShape, OneKey
<1>3. /\ pc' # "setup" => Holds(Src, Input)'
      /\ pc' \notin {"setup", "baseline"} => Holds(Dst, Ciphertext)'
  BY DEF vars, memory, Shared, Holds
<1> QED BY <1>1, <1>2, <1>3 DEF Shared

LEMMA SharedInit == HwInit => Shared
  BY BlockAssumption, MemoryAssumption
  DEF HwInit, Init, Core!Init, Shared, MemoryShape, MemWords, Fetching, BlockFetched,
      FetchedWords, Words4, OneKey

LEMMA SharedStep ==
  ASSUME HeldReadData
  PROVE  DriverInv /\ Shared /\ [HwNext]_hwvars => Shared'
<1> SUFFICES ASSUME DriverInv, Shared, [HwNext]_hwvars PROVE Shared'
  OBVIOUS
<1>1. CASE SetUp \/ Baseline
  BY <1>1, SharedSetUp
<1>2. CASE Program
  <2>1. Clock(RegisterWrites[access]) /\ IsWrite(RegisterWrites[access])
    BY <1>2, AccessIsWrite DEF Program, DriverInv, Progress
  <2>2. pc = "program" /\ pc' \in {"program", "poll"}
    BY <1>2 DEF Program
  <2> QED BY <2>1, <2>2, SharedEdge
<1>3. CASE Tick
  BY <1>3, SharedEdge DEF Tick, program
<1>4. CASE Poll
  <2>1. Clock(NoOp) /\ pc = "poll" /\ pc' \in {"poll", "check"}
    BY <1>4 DEF Poll
  <2> QED BY <2>1, SharedEdge
<1>5. CASE Check
  <2>1. mem = Stored(Ciphertext, Dst)
    BY <1>5, LayoutAssumption, StoredAgain DEF Check, Shared
  <2> QED BY <1>5, <2>1, SharedUnchanged DEF Check
<1>6. CASE Restart
  BY <1>6, BlockAssumption
  DEF Restart, Reset, Core!Reset, memory, Shared, MemoryShape, Fetching, BlockFetched,
      FetchedWords, Words4, OneKey
<1>7. CASE UNCHANGED hwvars
  BY <1>7, SharedUnchanged DEF hwvars, program
<1> QED
  BY <1>1, <1>2, <1>3, <1>4, <1>5, <1>6, <1>7 DEF HwNext, Cpu

LEMMA SharedInvariant ==
  ASSUME HeldReadData
  PROVE  HwSpec => []Shared
<1>1. DriverInv /\ Shared /\ [HwNext]_hwvars => Shared'
  BY SharedStep
<1> QED BY <1>1, SharedInit, DriverInvariant, PTL DEF HwSpec

(* Every block is enciphered under the whole key of the program and never  *)
(* under one that is half written or left by an interrupted run.           *)
THEOREM OneKeyForAll ==
  ASSUME HeldReadData
  PROVE  HwSpec => []OneKey
<1>1. Shared => OneKey
  BY DEF Shared
<1> QED BY <1>1, SharedInvariant, PTL

(* When the poll has seen done, all blocks have been written, the          *)
(* accelerator is off the bus and outputdata is the ciphertext.            *)
THEOREM ReadyWhenDone ==
  ASSUME HeldReadData
  PROVE  HwSpec => []ResultReady
<1>1. DriverInv /\ Shared => ResultReady
  <2> SUFFICES ASSUME DriverInv, Shared, pc \in {"check", "correct"} PROVE ResultReady
    BY DEF ResultReady
  <2>1. state = "IDLE" /\ TheJob
    BY DEF DriverInv, Progress, Started
  <2>2. blocks = INPUT_LENGTH
    <3>1. job # NoJob /\ job.len = INPUT_LENGTH
      BY <2>1 DEF TheJob, NoJob
    <3> QED BY <2>1, <3>1, LayoutAssumption DEF DriverInv, Inv, BlocksCounted, busy, Total
  <2>3. mem = Stored(Ciphertext, Dst)
    BY LayoutAssumption, StoredAgain DEF Shared
  <2> QED BY <2>1, <2>2, <2>3 DEF ResultReady, done
<1> QED BY <1>1, DriverInvariant, SharedInvariant, PTL

(* main() never prints "Data error!", at whatever moments it is restarted. *)
THEOREM NeverReportsError ==
  ASSUME HeldReadData
  PROVE  HwSpec => [](pc # "error")
<1>1. Shared => pc # "error"
  BY DEF Shared
<1> QED BY <1>1, SharedInvariant, PTL
=============================================================================
