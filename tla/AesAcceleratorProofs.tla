------------------------ MODULE AesAcceleratorProofs ------------------------
(***************************************************************************)
(* The accelerator with its core, for every memory, every range of the     *)
(* addresses and lengths, every choice of the round functions and every    *)
(* processor.                                                              *)
(***************************************************************************)
EXTENDS AesAccelerator, TLAPS

CoreP == INSTANCE AesFsmdProofs WITH
  state <- core_state, cnt <- core_cnt, data_acc <- core_data_acc,
  key_acc <- core_key_acc, out <- core_out, job <- core_job,
  Blocks <- {}, Keys <- {}

(* The block in the core is the block in datas: it was sampled from there  *)
(* and datas does not move until it is written back.                       *)
BlockHeld == state = "WAIT" => core_job.data = datas

Inv ==
  /\ TypeOK
  /\ CoreP!IInv
  /\ Handshake
  /\ BlockHeld
  /\ WritesCiphertext
  /\ BlocksCounted

-----------------------------------------------------------------------------
(* An edge of the accelerator is an edge of the core.                      *)
LEMMA CoreSteps ==
  ASSUME CoreP!IInv, NEW op, Clock(op)
  PROVE  CoreP!IInv'
<1>1. CoreP!Clock(start_aes, keys, datas)
  BY DEF Clock, Core!Clock, CoreP!Clock, Core!Idle, CoreP!Idle, Core!Load, CoreP!Load,
     Core!Count, CoreP!Count, Core!Round, CoreP!Round, Core!CountLast, CoreP!CountLast, Core!Done, CoreP!Done,
     Core!LastCount, CoreP!LastCount, LastCount
<1> QED BY <1>1, CoreP!ClockInv

LEMMA InitInv == Init => Inv
<1> SUFFICES ASSUME Init PROVE Inv
  OBVIOUS
<1>1. TypeOK
  BY ModAssumption DEF Init, TypeOK, NoJob
<1>2. CoreP!IInv
  <2>1. CoreP!Init
    BY DEF Init, Core!Init, CoreP!Init, Core!NoJob, CoreP!NoJob
  <2> QED BY <2>1, CoreP!InitInv
<1> QED
  BY <1>1, <1>2 DEF Inv, Init, Core!Init, Handshake, BlockHeld, WritesCiphertext,
                    BlocksCounted, busy

-----------------------------------------------------------------------------
(* The registers behind the slave port keep their types.                   *)
LEMMA SlaveTypes ==
  ASSUME TypeOK, NEW op, IsWrite(op) \/ op = NoOp, SlaveWrite(op)
  PROVE  /\ start_address' \in 0 .. AddrMod - 1
         /\ dest_address' \in 0 .. AddrMod - 1
         /\ data_length' \in 0 .. LenMod - 1
         /\ inc_addr' \in BOOLEAN
         /\ IncAddr(op) \in BOOLEAN
<1>1. CASE op = NoOp
  BY <1>1 DEF NoOp, SlaveWrite, Writes, IncAddr, TypeOK
<1>2. CASE IsWrite(op)
  <2>1. /\ op.kind = "write" /\ op.address \in 0 .. 7
        /\ op.address \in {0, 1} => op.data \in 0 .. AddrMod - 1
        /\ op.address = 2 => op.data \in Nat
        /\ op.address = 3 => op.data \in [start : BOOLEAN, inc : BOOLEAN]
    BY <1>2 DEF IsWrite
  <2>2. op.address = 2 => op.data % LenMod \in 0 .. LenMod - 1
    BY <2>1, ModAssumption
  <2>3. op.address = 3 => op.data.inc \in BOOLEAN
    BY <2>1
  <2>4. IncAddr(op) \in BOOLEAN
    BY <2>3 DEF IncAddr, Writes, TypeOK
  <2> QED BY <2>1, <2>2, <2>4 DEF SlaveWrite, Writes, TypeOK
<1> QED BY <1>1, <1>2

LEMMA TypeStep ==
  ASSUME TypeOK, NEW op, IsWrite(op) \/ op = NoOp, Clock(op)
  PROVE  TypeOK'
<1> USE ModAssumption DEF TypeOK
<1>1. /\ start_address' \in 0 .. AddrMod - 1
      /\ dest_address' \in 0 .. AddrMod - 1
      /\ data_length' \in 0 .. LenMod - 1
      /\ inc_addr' \in BOOLEAN
      /\ IncAddr(op) \in BOOLEAN
  BY SlaveTypes DEF Clock
<1>2. Controller(op)
  BY DEF Clock
<1>3. Track(op) =>
        job' \in [src : 0 .. AddrMod - 1, dst : 0 .. AddrMod - 1,
                  len : 0 .. LenMod - 1, inc : BOOLEAN, steady : BOOLEAN]
  BY DEF Track
<1>4. Advance(op) =>
        /\ current_address' \in 0 .. AddrMod - 1
        /\ current_dest_address' \in 0 .. AddrMod - 1
  BY DEF Advance, BlockBytes, ADDR_INC
<1>5. CASE Idle(op)
  BY <1>1, <1>5 DEF Idle, pointers, history
<1>6. CASE Accept(op)
  BY <1>1, <1>6 DEF Accept
<1>7. CASE ReadWait(op) \/ WriteWait(op) \/ Wait(op)
  BY <1>1, <1>3, <1>7 DEF ReadWait, WriteWait, Wait, pointers
<1>8. CASE ReadGrant(op) \/ WriteGrant(op)
  BY <1>1, <1>3, <1>8 DEF ReadGrant, WriteGrant, pointers
<1>9. CASE ReadEnd(op)
  BY <1>1, <1>3, <1>9 DEF ReadEnd, lastWord, pointers
<1>10. CASE Start(op)
  BY <1>1, <1>3, <1>10 DEF Start, pointers
<1>11. CASE WriteNext(op)
  BY <1>1, <1>3, <1>4, <1>11 DEF WriteNext, lastWord
<1>12. CASE WriteLast(op)
  BY <1>1, <1>3, <1>4, <1>12 DEF WriteLast
<1> QED
  BY <1>2, <1>5, <1>6, <1>7, <1>8, <1>9, <1>10, <1>11, <1>12 DEF Controller

-----------------------------------------------------------------------------
(* What one edge does to the core, by the state it is in.                  *)
LEMMA CoreEdge ==
  ASSUME CoreP!IInv, NEW op, Clock(op)
  PROVE  /\ core_state = "IDLE" =>
              /\ core_state' = IF state = "START" THEN "LOAD" ELSE "IDLE"
              /\ UNCHANGED <<core_out, core_job>>
         /\ core_state = "LOAD" =>
              /\ core_state' = "CNT"
              /\ core_job' = [data |-> datas, key |-> keys]
         /\ core_state = "CNT" =>
              /\ core_state' \in {"CNT", "DONE"}
              /\ UNCHANGED core_job
         /\ core_state = "DONE" =>
              /\ core_state' = "IDLE"
              /\ core_out' = Encrypt(core_job.data, core_job.key)
              /\ UNCHANGED core_job
<1>1. Core!Clock(start_aes, keys, datas)
  BY DEF Clock
<1>2. core_state = "DONE" =>
        /\ core_data_acc = RoundData(core_job.data, core_job.key)[11]
        /\ core_key_acc = RoundKeys(core_job.key)[11]
  BY DEF CoreP!IInv, CoreP!InStep, CoreP!RoundData, CoreP!RoundKeys, RoundData, RoundKeys
<1> QED
  BY <1>1, <1>2 DEF Core!Clock, Core!Idle, Core!Load, Core!Count, Core!CountLast,
                    Core!Round, Core!Done, start_aes, Encrypt

(* One edge of the controller leaves it and the core in matching states,   *)
(* with the block of the core still in datas.                              *)
LEMMA HandshakeStep ==
  ASSUME Inv, NEW op, Clock(op)
  PROVE  Handshake' /\ BlockHeld' /\ WritesCiphertext'
<1> USE DEF Inv, TypeOK, Handshake, BlockHeld, WritesCiphertext
<1>1. Controller(op)
  BY DEF Clock
<1>2. CASE Idle(op) \/ Accept(op)
  BY <1>2, CoreEdge DEF Idle, Accept
<1>3. CASE ReadWait(op) \/ ReadGrant(op)
  BY <1>3, CoreEdge DEF ReadWait, ReadGrant
<1>4. CASE ReadEnd(op)
  <2>1. state = "READ_END" /\ state' \in {"START", "READ"}
    BY <1>4 DEF ReadEnd
  <2> QED BY <2>1, CoreEdge
<1>5. CASE Start(op)
  <2>1. /\ state = "START" /\ UNCHANGED datas
        /\ state' = IF core_state = "IDLE" THEN "START" ELSE "WAIT"
    BY <1>5 DEF Start, Core!ready
  <2> QED BY <2>1, CoreEdge
<1>6. CASE Wait(op)
  <2>1. /\ state = "WAIT" /\ UNCHANGED datas
        /\ state' = IF core_state = "DONE" THEN "WRITE" ELSE "WAIT"
    BY <1>6 DEF Wait, Core!ready
  <2>2. CASE core_state = "DONE"
    <3>1. core_out' = Encrypt(datas, core_job.key) /\ UNCHANGED core_job
      BY <2>1, <2>2, CoreEdge
    <3> QED BY <2>1, <2>2, <3>1, CoreEdge
  <2>3. CASE core_state = "CNT"
    BY <2>1, <2>3, CoreEdge
  <2> QED BY <2>1, <2>2, <2>3
<1>7. CASE WriteWait(op) \/ WriteGrant(op) \/ WriteNext(op)
  <2>1. /\ state \in {"WRITE", "WRITE_END"} /\ state' \in {"WRITE", "WRITE_END"}
        /\ UNCHANGED datas
    BY <1>7 DEF WriteWait, WriteGrant, WriteNext
  <2>2. core_state' = "IDLE" /\ UNCHANGED <<core_out, core_job>>
    BY <2>1, CoreEdge
  <2> QED BY <2>1, <2>2
<1>8. CASE WriteLast(op)
  <2>1. state = "WRITE_END" /\ state' \in {"IDLE", "READ"}
    BY <1>8 DEF WriteLast
  <2> QED BY <2>1, CoreEdge
<1> QED
  BY <1>1, <1>2, <1>3, <1>4, <1>5, <1>6, <1>7, <1>8 DEF Controller

(* The blocks written and the counter of the remaining ones agree.         *)
LEMMA CountStep ==
  ASSUME TypeOK, BlocksCounted, NEW op, Clock(op)
  PROVE  BlocksCounted'
<1> USE ModAssumption DEF TypeOK, BlocksCounted, busy, Total
<1>1. Controller(op)
  BY DEF Clock
<1>2. CASE Idle(op)
  BY <1>2 DEF Idle, pointers, history, NoJob
<1>3. CASE Accept(op)
  BY <1>3 DEF Accept
<1>4. ASSUME state \notin {"IDLE"}, state' \notin {"IDLE"}, Track(op),
             UNCHANGED <<data_counter, blocks>>
      PROVE  BlocksCounted'
  <2>1. job'.len = job.len
    BY <1>4 DEF Track
  <2> QED BY <1>4, <2>1
<1>5. CASE ReadWait(op) \/ ReadGrant(op) \/ ReadEnd(op) \/ Start(op) \/ Wait(op)
           \/ WriteWait(op) \/ WriteGrant(op) \/ WriteNext(op)
  BY <1>4, <1>5 DEF ReadWait, ReadGrant, ReadEnd, Start, Wait, WriteWait, WriteGrant,
                    WriteNext, pointers
<1>6. CASE WriteLast(op)
  <2>1. job'.len = job.len
    BY <1>6 DEF WriteLast, Track
  <2> QED BY <1>6, <2>1 DEF WriteLast, lastBlock
<1> QED
  BY <1>1, <1>2, <1>3, <1>5, <1>6 DEF Controller

-----------------------------------------------------------------------------
(* A reset re-establishes the invariant from any state.                    *)
LEMMA ResetStep == Inv /\ Reset => Inv'
<1> SUFFICES ASSUME Inv, Reset PROVE Inv'
  OBVIOUS
<1>1. TypeOK'
  BY ModAssumption DEF Inv, Reset, TypeOK, NoJob
<1>2. CoreP!IInv'
  <2>1. CoreP!Reset
    BY DEF Reset, Core!Reset, CoreP!Reset, Core!NoJob, CoreP!NoJob
  <2> QED BY <2>1, CoreP!ResetInv
<1> QED
  BY <1>1, <1>2 DEF Inv, Reset, Core!Reset, Handshake, BlockHeld, WritesCiphertext,
                    BlocksCounted, busy

LEMMA ClockStep ==
  ASSUME Inv, NEW op, IsWrite(op) \/ op = NoOp, Clock(op)
  PROVE  Inv'
<1>1. TypeOK'
  BY TypeStep DEF Inv
<1>2. CoreP!IInv'
  BY CoreSteps DEF Inv
<1>3. Handshake' /\ BlockHeld' /\ WritesCiphertext'
  BY HandshakeStep
<1>4. BlocksCounted'
  BY CountStep DEF Inv
<1> QED BY <1>1, <1>2, <1>3, <1>4 DEF Inv

LEMMA Stutter == Inv /\ UNCHANGED vars => Inv'
  BY DEF Inv, vars, registers, pointers, core, memory, history, TypeOK,
     CoreP!IInv, CoreP!TypeOK, CoreP!InStep, Handshake, BlockHeld,
     WritesCiphertext, BlocksCounted, busy

LEMMA StepInv == Inv /\ [Next]_vars => Inv'
  BY ClockStep, ResetStep, Stutter, OpsAssumption DEF Next, Edge

LEMMA Invariant == Spec => []Inv
  BY InitInv, StepInv, PTL DEF Spec

(* Every register keeps its type; counter_reg never indexes past datas(3). *)
THEOREM TypeCorrect == Spec => []TypeOK
<1>1. Inv => TypeOK
  BY DEF Inv
<1> QED BY <1>1, Invariant, PTL

(* Controller and core stay in step, although they only share two wires.   *)
THEOREM NeverOutOfStep == Spec => []Handshake
<1>1. Inv => Handshake
  BY DEF Inv
<1> QED BY <1>1, Invariant, PTL

(* Whatever the processor writes while a job runs, a block is written back *)
(* as the ciphertext of the block that was read, under one key.            *)
THEOREM WritesBackCiphertext == Spec => []WritesCiphertext
<1>1. Inv => WritesCiphertext
  BY DEF Inv
<1> QED BY <1>1, Invariant, PTL

(* done is reported after exactly data_length blocks, or LenMod for 0.     *)
THEOREM CountsBlocks == Spec => []BlocksCounted
<1>1. Inv => BlocksCounted
  BY DEF Inv
<1> QED BY <1>1, Invariant, PTL

(* A stalled request of the Avalon master does not move.                   *)
THEOREM RequestsHeld == Spec => MasterHolds
<1>1. ASSUME Inv, [Next]_vars PROVE [Stalled => RequestHeld]_vars
  <2> SUFFICES ASSUME Next, Stalled PROVE RequestHeld
    BY <1>1
  <2>1. PICK op \in Ops \cup {NoOp} : Clock(op)
    BY DEF Next, Edge, Reset, Stalled
  <2>2. ReadWait(op) \/ WriteWait(op)
    BY <2>1 DEF Clock, Controller, Stalled, Idle, Accept, ReadGrant, ReadEnd, Start,
                Wait, WriteGrant, WriteNext, WriteLast
  <2>3. UNCHANGED <<current_address, current_dest_address, counter, state>>
    BY <2>2 DEF ReadWait, WriteWait, pointers
  <2>4. state = "WRITE" => UNCHANGED core_out
    BY <1>1, <2>1, CoreEdge DEF Inv, Handshake
  <2> QED BY <2>3, <2>4 DEF RequestHeld, am_address, am_writeData, Swap
<1> QED BY <1>1, Invariant, PTL DEF Spec, MasterHolds
-----------------------------------------------------------------------------
(* Arithmetic of the address registers, which wrap at AddrMod.             *)

LEMMA Remainder ==
  ASSUME NEW A \in Nat \ {0}, NEW x \in Int
  PROVE  /\ x = (x \div A) * A + (x % A)
         /\ x % A \in 0 .. A - 1
         /\ x \div A \in Int
  OBVIOUS

LEMMA RemainderUnique ==
  ASSUME NEW A \in Nat \ {0}, NEW p \in Int, NEW q \in Int,
         NEW r \in 0 .. A - 1, NEW s \in 0 .. A - 1,
         q * A + r = p * A + s
  PROVE  r = s
<1>1. CASE q = p
  BY <1>1
<1>2. CASE q >= p + 1
  <2>1. (q - p) * A >= A
    BY <1>2
  <2> QED BY <2>1
<1>3. CASE p >= q + 1
  <2>1. (p - q) * A >= A
    BY <1>3
  <2> QED BY <2>1
<1> QED BY <1>1, <1>2, <1>3

LEMMA RemainderIs ==
  ASSUME NEW A \in Nat \ {0}, NEW x \in Int, NEW q \in Int, NEW r \in 0 .. A - 1,
         x = q * A + r
  PROVE  x % A = r
  BY Remainder, RemainderUnique

LEMMA Distributes ==
  ASSUME NEW a \in Int, NEW b \in Int, NEW c \in Int
  PROVE  (a + b) * c = a * c + b * c
  OBVIOUS

LEMMA RemainderOfSum ==
  ASSUME NEW A \in Nat \ {0}, NEW x \in Int, NEW y \in Int, NEW q \in Int,
         NEW r \in Int, NEW p \in Int, NEW s \in 0 .. A - 1,
         x = q * A + r, r + y = p * A + s
  PROVE  (x + y) % A = s
<1>1. x + y = q * A + p * A + s
  <2>1. q * A \in Int /\ p * A \in Int
    OBVIOUS
  <2> QED BY <2>1
<1>2. x + y = (q + p) * A + s
  BY <1>1, Distributes
<1>3. q + p \in Int /\ x + y \in Int
  OBVIOUS
<1> QED BY <1>2, <1>3, RemainderIs

(* An address that has already wrapped may be advanced.                    *)
LEMMA AddWrapped ==
  ASSUME NEW A \in Nat \ {0}, NEW x \in Int, NEW y \in Int
  PROVE  ((x % A) + y) % A = (x + y) % A
<1> DEFINE r == x % A
           z == r + y
<1>1. x = (x \div A) * A + r /\ r \in 0 .. A - 1 /\ x \div A \in Int
  BY Remainder
<1>2. r \in Int /\ z \in Int
  BY <1>1
<1> HIDE DEF r, z
<1>3. z = (z \div A) * A + (z % A) /\ z % A \in 0 .. A - 1 /\ z \div A \in Int
  BY <1>2, Remainder
<1>4. r + y = (z \div A) * A + (z % A)
  BY <1>3 DEF z
<1>5. (x + y) % A = z % A
  BY <1>1, <1>2, <1>3, <1>4, RemainderOfSum
<1> QED BY <1>5 DEF z, r

LEMMA InRange ==
  ASSUME NEW A \in Nat \ {0}, NEW x \in 0 .. A - 1
  PROVE  x % A = x
  OBVIOUS

-----------------------------------------------------------------------------
(* The pointers of a running job, while nobody touches inc_addr.           *)

CounterReset == state \in {"START", "WAIT"} => counter = 0

(* How far the pointers have moved: by 16 bytes with every word written.   *)
Run ==
  IF job.inc
  THEN 64 * blocks + (IF state \in {"WRITE", "WRITE_END"} THEN 16 * counter ELSE 0)
  ELSE 0

OnCourse ==
  busy /\ job.steady =>
    /\ inc_addr = job.inc
    /\ current_address = (job.src + Run) % AddrMod
    /\ current_dest_address = (job.dst + Run) % AddrMod

LEMMA CounterResetStep ==
  ASSUME TypeOK, CounterReset, NEW op, Clock(op)
  PROVE  CounterReset'
  BY DEF TypeOK, CounterReset, Clock, Controller, Idle, Accept, ReadWait, ReadGrant,
         ReadEnd, Start, Wait, WriteWait, WriteGrant, WriteNext, WriteLast

LEMMA AdvanceBy ==
  ASSUME NEW A \in Nat \ {0}, NEW s \in Nat, NEW r \in Nat, NEW step \in Nat
  PROVE  (((s + r) % A) + step) % A = (s + (r + step)) % A
<1>1. s + r \in Int /\ step \in Int /\ (s + r) + step = s + (r + step)
  OBVIOUS
<1> QED BY <1>1, AddWrapped

LEMMA OnCourseStep ==
  ASSUME TypeOK, CounterReset, OnCourse, NEW op, IsWrite(op) \/ op = NoOp, Clock(op)
  PROVE  OnCourse'
<1>1. Controller(op) /\ inc_addr' = IncAddr(op) /\ IncAddr(op) \in BOOLEAN
  BY SlaveTypes DEF Clock, SlaveWrite
<1>2. /\ counter \in 0 .. 3 /\ blocks \in Nat
      /\ job.src \in Nat /\ job.dst \in Nat
      /\ job.inc \in BOOLEAN /\ job.steady \in BOOLEAN
      /\ inc_addr \in BOOLEAN
  BY ModAssumption DEF TypeOK
<1>3. ASSUME Track(op), job'.steady
      PROVE  /\ job.steady
             /\ IncAddr(op) = job.inc
             /\ UNCHANGED <<job.src, job.dst, job.inc>>
  BY <1>2, <1>3 DEF Track, TypeOK
<1>4. CASE Idle(op)
  BY <1>4 DEF Idle, OnCourse, busy
<1>5. CASE Accept(op)
  <2>1. /\ blocks' = 0 /\ state' = "READ" /\ counter' = 0
        /\ current_address' = start_address
        /\ current_dest_address' = dest_address
        /\ job'.src = start_address /\ job'.dst = dest_address
        /\ job'.inc = IncAddr(op)
    BY <1>5 DEF Accept
  <2>2. Run' = 0
    BY <2>1, <1>1 DEF Run
  <2>3. start_address \in 0 .. AddrMod - 1 /\ dest_address \in 0 .. AddrMod - 1
    BY DEF TypeOK
  <2>4. /\ (start_address + 0) % AddrMod = start_address
        /\ (dest_address + 0) % AddrMod = dest_address
    BY <2>3, ModAssumption, InRange
  <2> QED BY <1>1, <2>1, <2>2, <2>4 DEF OnCourse
<1>6. ASSUME busy, Track(op), UNCHANGED <<current_address, current_dest_address, blocks>>,
             job.inc /\ state' \in {"WRITE", "WRITE_END"} =>
                IF state \in {"WRITE", "WRITE_END"} THEN counter' = counter ELSE counter' = 0,
             state' \notin {"WRITE", "WRITE_END"} => state \notin {"WRITE", "WRITE_END"}
      PROVE  OnCourse'
  <2> SUFFICES ASSUME job'.steady PROVE OnCourse'
    BY DEF OnCourse
  <2>1. Run' = Run
    BY <1>2, <1>3, <1>6 DEF Run
  <2> QED BY <1>1, <1>3, <1>6, <2>1 DEF OnCourse
<1>7. CASE ReadWait(op) \/ ReadGrant(op) \/ ReadEnd(op) \/ Start(op) \/ Wait(op)
           \/ WriteWait(op) \/ WriteGrant(op)
  BY <1>6, <1>7 DEF ReadWait, ReadGrant, ReadEnd, Start, Wait, WriteWait, WriteGrant,
                    pointers, busy, CounterReset
<1>8. ASSUME state = "WRITE_END", Track(op), Advance(op),
             \/ state' = "WRITE" /\ counter' = counter + 1 /\ blocks' = blocks
             \/ state' \in {"READ", "IDLE"} /\ counter = 3 /\ blocks' = blocks + 1
      PROVE  OnCourse'
  <2> SUFFICES ASSUME job'.steady PROVE OnCourse'
    BY DEF OnCourse
  <2> DEFINE step == IF IncAddr(op) THEN 16 ELSE 0
  <2>1. Run \in Nat
    BY <1>2 DEF Run
  <2>2. Run' = Run + step
    BY <1>2, <1>3, <1>8 DEF Run
  <2>3. /\ current_address = (job.src + Run) % AddrMod
        /\ current_dest_address = (job.dst + Run) % AddrMod
    BY <1>3, <1>8 DEF OnCourse, busy
  <2>4. /\ current_address' = (job.src + (Run + step)) % AddrMod
        /\ current_dest_address' = (job.dst + (Run + step)) % AddrMod
    <3>1. /\ current_address' = (((job.src + Run) % AddrMod) + step) % AddrMod
          /\ current_dest_address' = (((job.dst + Run) % AddrMod) + step) % AddrMod
      BY <1>8, <2>3 DEF Advance, BlockBytes, ADDR_INC
    <3>2. /\ AddrMod \in Nat \ {0} /\ step \in Nat /\ Run \in Nat
          /\ job.src \in Nat /\ job.dst \in Nat
      BY <1>2, <2>1, ModAssumption
    <3> HIDE DEF step
    <3>3. (((job.src + Run) % AddrMod) + step) % AddrMod
            = (job.src + (Run + step)) % AddrMod
      BY <3>2, AdvanceBy
    <3>4. (((job.dst + Run) % AddrMod) + step) % AddrMod
            = (job.dst + (Run + step)) % AddrMod
      BY <3>2, AdvanceBy
    <3> QED BY <3>1, <3>3, <3>4
  <2> QED BY <1>1, <1>3, <1>8, <2>2, <2>4 DEF OnCourse
<1>9. CASE WriteNext(op) \/ WriteLast(op)
  BY <1>8, <1>9 DEF WriteNext, WriteLast, lastWord
<1> QED
  BY <1>1, <1>4, <1>5, <1>7, <1>9 DEF Controller

LEMMA ScatteredFromCourse == TypeOK /\ OnCourse => Scattered
<1> SUFFICES ASSUME TypeOK, OnCourse, job.steady, state \in {"READ", "WRITE"}
             PROVE  Scattered
  BY DEF Scattered
<1>1. /\ counter \in 0 .. 3 /\ blocks \in Nat /\ job.src \in Nat /\ job.dst \in Nat
      /\ job.inc \in BOOLEAN
  BY ModAssumption DEF TypeOK
<1>2. Run \in Nat /\ 4 * counter \in Int
  BY <1>1 DEF Run
<1>3. /\ current_address = (job.src + Run) % AddrMod
      /\ current_dest_address = (job.dst + Run) % AddrMod
  BY DEF OnCourse, busy
<1>4. /\ (current_address + 4 * counter) % AddrMod
           = ((job.src + Run) + 4 * counter) % AddrMod
      /\ (current_dest_address + 4 * counter) % AddrMod
           = ((job.dst + Run) + 4 * counter) % AddrMod
  <2>1. job.src + Run \in Int /\ job.dst + Run \in Int
    BY <1>1, <1>2
  <2> QED BY <1>2, <1>3, <2>1, ModAssumption, AddWrapped
<1>5. CASE state = "READ"
  <2>1. (job.src + Run) + 4 * counter
          = job.src + (IF job.inc THEN 64 * blocks ELSE 0) + 4 * counter
    BY <1>1, <1>5 DEF Run
  <2> QED BY <1>4, <1>5, <2>1 DEF Scattered, am_address, ADDR_INC
<1>6. CASE state = "WRITE"
  <2>1. (job.dst + Run) + 4 * counter
          = job.dst + (IF job.inc THEN 64 * blocks + 20 * counter ELSE 4 * counter)
    BY <1>1, <1>6 DEF Run
  <2> QED BY <1>4, <1>6, <2>1 DEF Scattered, am_address, ADDR_INC
<1> QED BY <1>5, <1>6

LEMMA CourseInvariant == Spec => [](CounterReset /\ OnCourse)
<1>1. Init => CounterReset /\ OnCourse
  BY DEF Init, CounterReset, OnCourse, busy
<1>2. Inv /\ CounterReset /\ OnCourse /\ [Next]_vars => (CounterReset /\ OnCourse)'
  <2> SUFFICES ASSUME Inv, CounterReset, OnCourse, [Next]_vars
               PROVE  CounterReset' /\ OnCourse'
    OBVIOUS
  <2>1. TypeOK
    BY DEF Inv
  <2>2. CASE Edge
    BY <2>1, <2>2, CounterResetStep, OnCourseStep, OpsAssumption DEF Edge
  <2>3. CASE Reset
    BY <2>3 DEF Reset, CounterReset, OnCourse, busy
  <2>4. CASE UNCHANGED vars
    BY <2>4 DEF vars, registers, pointers, history, CounterReset, OnCourse, busy, Run
  <2> QED BY <2>2, <2>3, <2>4 DEF Next
<1> QED BY <1>1, <1>2, Invariant, PTL DEF Spec

(* Where a job's words go when inc_addr is left alone, for every base,     *)
(* length and memory size, also across the wrap of the address registers.  *)
THEOREM WordsScattered == Spec => []Scattered
<1>1. Inv /\ CounterReset /\ OnCourse => Scattered
  BY ScatteredFromCourse DEF Inv
<1> QED BY <1>1, Invariant, CourseInvariant, PTL

-----------------------------------------------------------------------------
(* A block on its way from memory to the core.                             *)

Requested(i) == WordOf((current_address + ADDR_INC * i) % AddrMod)

Fetching ==
  /\ Words4(datas)
  /\ state = "READ_END" => rdata = mem[Requested(counter)]
  /\ BlockFetched

(* Nothing moves the pointer or the memory between the fetch of the first  *)
(* word and the start of the core, and each word is put in its place.      *)
LEMMA FetchingStep ==
  ASSUME HeldReadData, TypeOK, Fetching, NEW op, Clock(op)
  PROVE  Fetching'
<1> USE DEF Fetching, BlockFetched, FetchedWords, Requested
<1>1. Controller(op) /\ counter \in 0 .. 3
  BY DEF Clock, TypeOK
<1>2. CASE Idle(op)
  BY <1>2 DEF Idle, Words4
<1>3. CASE Accept(op)
  BY <1>3 DEF Accept, Words4
<1>4. CASE ReadWait(op)
  BY <1>4 DEF ReadWait, Words4, pointers, memory
<1>5. CASE ReadGrant(op)
  <2>1. am_address = (current_address + ADDR_INC * counter) % AddrMod
    BY <1>5 DEF ReadGrant, am_address
  <2> QED BY <1>5, <2>1 DEF ReadGrant, Words4, pointers
<1>6. CASE ReadEnd(op)
  <2>1. /\ state = "READ_END" /\ state' = IF counter = 3 THEN "START" ELSE "READ"
        /\ datas' = [datas EXCEPT ![counter] = Swap(mem[Requested(counter)])]
        /\ counter' = IF counter = 3 THEN 0 ELSE counter + 1
        /\ UNCHANGED <<current_address, mem>>
    BY <1>6 DEF ReadEnd, lastWord, am_readData, pointers, memory
  <2>2. datas' = [i \in 0 .. 3 |->
                    IF i = counter THEN Swap(mem[Requested(counter)]) ELSE datas[i]]
    BY <2>1 DEF Words4
  <2>3. Words4(datas')
    BY <2>2 DEF Words4
  <2>4. FetchedWords' = 0 .. counter
    <3>1. CASE counter = 3
      BY <2>1, <3>1
    <3>2. CASE counter # 3
      <4>1. counter' = counter + 1 /\ counter' - 1 = counter /\ state' = "READ"
        BY <1>1, <2>1, <3>2
      <4>2. FetchedWords' = 0 .. counter' - 1
        BY <4>1
      <4> QED BY <4>1, <4>2
    <3> QED BY <3>1, <3>2
  <2>5. \A i \in 0 .. counter : datas'[i] = Swap(mem[Requested(i)])
    BY <1>1, <2>1, <2>2
  <2>6. \A i : Requested(i)' = Requested(i)
    BY <2>1
  <2>7. BlockFetched'
    BY <2>1, <2>4, <2>5, <2>6
  <2>8. Words4(datas)'
    BY <2>3 DEF Words4
  <2> QED BY <2>1, <2>7, <2>8
<1>7. CASE Start(op) \/ Wait(op)
  BY <1>7 DEF Start, Wait, Words4, pointers, memory
<1>8. CASE WriteWait(op) \/ WriteGrant(op) \/ WriteNext(op)
  BY <1>8 DEF WriteWait, WriteGrant, WriteNext, Words4
<1>9. CASE WriteLast(op)
  BY <1>9 DEF WriteLast, Words4
<1> QED
  BY <1>1, <1>2, <1>3, <1>4, <1>5, <1>6, <1>7, <1>8, <1>9 DEF Controller

LEMMA FetchingInvariant ==
  ASSUME HeldReadData
  PROVE  Spec => []Fetching
<1>1. Init => Fetching
  BY BlockAssumption DEF Init, Fetching, BlockFetched, FetchedWords, Words4
<1>2. Inv /\ Fetching /\ [Next]_vars => Fetching'
  <2> SUFFICES ASSUME Inv, Fetching, [Next]_vars PROVE Fetching'
    OBVIOUS
  <2>1. CASE Edge
    BY <2>1, FetchingStep DEF Edge, Inv
  <2>2. CASE Reset
    BY <2>2, BlockAssumption DEF Reset, Fetching, BlockFetched, FetchedWords, Words4
  <2>3. CASE UNCHANGED vars
    BY <2>3 DEF vars, pointers, memory, Fetching, BlockFetched, FetchedWords, Words4,
                Requested
  <2> QED BY <2>1, <2>2, <2>3 DEF Next
<1> QED BY <1>1, <1>2, Invariant, PTL DEF Spec

(* The core is given the words the memory holds, each in its place, as     *)
(* long as readdata outlives the grant of the read.                        *)
THEOREM BlockAsInMemory ==
  ASSUME HeldReadData
  PROVE  Spec => []BlockFetched
<1>1. Fetching => BlockFetched
  BY DEF Fetching
<1> QED BY <1>1, FetchingInvariant, PTL

-----------------------------------------------------------------------------
(* A block on its way from the core to memory.                             *)

MemWords == 0 .. AddrMod \div 4 - 1
MemoryShape == mem = [w \in MemWords |-> mem[w]]

Block(base, i) == WordOf((base + ADDR_INC * i) % AddrMod)

LEMMA WrappedOnce ==
  ASSUME NEW A \in Nat \ {0}, NEW x \in A .. 2 * A - 1
  PROVE  x % A = x - A
<1> DEFINE r == x - A
<1>1. r \in 0 .. A - 1 /\ x \in Int /\ x = 1 * A + r
  OBVIOUS
<1> HIDE DEF r
<1>2. x % A = r
  BY <1>1, RemainderIs
<1> QED BY <1>2 DEF r

(* The four words of a block are four words of the memory, even where the  *)
(* addresses wrap.                                                         *)
LEMMA WordsApart ==
  ASSUME NEW base \in 0 .. AddrMod - 1
  PROVE  /\ \A i \in 0 .. 3 : Block(base, i) \in MemWords
         /\ \A i, j \in 0 .. 3 : Block(base, i) = Block(base, j) => i = j
<1> DEFINE n == AddrMod \div 4
<1>1. AddrMod = 4 * n /\ n \in Nat /\ n >= 4
  BY ModAssumption, MemoryAssumption DEF BlockBytes, ADDR_INC
<1>2. AddrMod \in Nat \ {0}
  BY ModAssumption
<1> HIDE DEF n
<1>3. \A i \in 0 .. 3 :
         (base + 4 * i) % AddrMod = IF base + 4 * i < 4 * n THEN base + 4 * i
                                                           ELSE base + 4 * i - 4 * n
  <2> SUFFICES ASSUME NEW i \in 0 .. 3
               PROVE  (base + 4 * i) % AddrMod
                        = IF base + 4 * i < 4 * n THEN base + 4 * i
                                                  ELSE base + 4 * i - 4 * n
    OBVIOUS
  <2>1. CASE base + 4 * i < 4 * n
    <3>1. base + 4 * i \in 0 .. AddrMod - 1
      BY <1>1, <2>1
    <3> QED BY <1>2, <2>1, <3>1, InRange
  <2>2. CASE ~(base + 4 * i < 4 * n)
    <3>1. base + 4 * i \in AddrMod .. 2 * AddrMod - 1
      BY <1>1, <2>2
    <3>2. (base + 4 * i) % AddrMod = (base + 4 * i) - AddrMod
      BY <1>2, <3>1, WrappedOnce
    <3> QED BY <1>1, <2>2, <3>2
  <2> QED BY <2>1, <2>2
<1>4. \A x \in 0 .. 4 * n - 1 :
         /\ x \div 4 \in 0 .. n - 1
         /\ 4 * (x \div 4) <= x /\ x < 4 * (x \div 4) + 4
  BY <1>1
<1>5. \A i \in 0 .. 3 :
         LET x == IF base + 4 * i < 4 * n THEN base + 4 * i ELSE base + 4 * i - 4 * n
         IN  x \in 0 .. 4 * n - 1 /\ Block(base, i) = x \div 4
  BY <1>1, <1>3 DEF Block, WordOf, ADDR_INC
<1>6. \A i \in 0 .. 3 : Block(base, i) \in MemWords
  BY <1>4, <1>5 DEF MemWords, n
<1>7. ASSUME NEW i \in 0 .. 3, NEW j \in 0 .. 3, Block(base, i) = Block(base, j)
      PROVE  i = j
  <2> DEFINE x == IF base + 4 * i < 4 * n THEN base + 4 * i ELSE base + 4 * i - 4 * n
             y == IF base + 4 * j < 4 * n THEN base + 4 * j ELSE base + 4 * j - 4 * n
  <2>1. x \div 4 = y \div 4 /\ x \in 0 .. 4 * n - 1 /\ y \in 0 .. 4 * n - 1
    BY <1>5, <1>7
  <2>2. x - y < 4 /\ y - x < 4
    <3> HIDE DEF x, y
    <3> QED BY <1>4, <2>1
  <2> QED BY <1>1, <2>2
<1> QED BY <1>6, <1>7

WordsWritten ==
  CASE state = "WRITE" -> 0 .. counter - 1
    [] state = "WRITE_END" -> 0 .. counter
    [] state = "IDLE" -> 0 .. 3
    [] OTHER -> {}

Delivering ==
  job.steady /\ ~job.inc =>
    \A i \in WordsWritten :
      mem[Block(job.dst, i)] = Swap(Encrypt(core_job.data, core_job.key)[i])

LEMMA ShapeStep ==
  ASSUME MemoryShape, NEW op, Clock(op)
  PROVE  MemoryShape'
<1>1. CASE WriteGrant(op)
  BY <1>1 DEF WriteGrant, MemoryShape
<1>2. CASE ~WriteGrant(op)
  <2>1. UNCHANGED mem
    BY <1>2 DEF Clock, Controller, Idle, Accept, ReadWait, ReadGrant, ReadEnd, Start,
                Wait, WriteWait, WriteNext, WriteLast, memory
  <2> QED BY <2>1 DEF MemoryShape
<1> QED BY <1>1, <1>2

LEMMA DeliveringStep ==
  ASSUME Inv, MemoryShape, CounterReset, OnCourse, Delivering,
         NEW op, IsWrite(op) \/ op = NoOp, Clock(op)
  PROVE  Delivering'
<1>1. /\ Controller(op) /\ counter \in 0 .. 3
      /\ job.dst \in 0 .. AddrMod - 1
      /\ job.inc \in BOOLEAN /\ job.steady \in BOOLEAN
  BY DEF Clock, Inv, TypeOK
<1>2. Track(op) /\ job'.steady => job.steady /\ UNCHANGED <<job.dst, job.inc>>
  BY <1>1 DEF Track, Inv, TypeOK
<1>3. state \in {"IDLE", "WRITE", "WRITE_END"} => UNCHANGED core_job
  BY CoreEdge DEF Inv, Handshake
<1> DEFINE cipher == Encrypt(core_job.data, core_job.key)
<1>4. state \in {"IDLE", "WRITE", "WRITE_END"} => UNCHANGED cipher
  BY <1>3
<1> HIDE DEF cipher
<1> USE DEF Delivering, WordsWritten
<1>5. CASE Idle(op)
  BY <1>4, <1>5 DEF Idle, memory, history, cipher, Block
<1>6. CASE Accept(op) \/ ReadWait(op) \/ ReadGrant(op) \/ ReadEnd(op) \/ Start(op)
  BY <1>6 DEF Accept, ReadWait, ReadGrant, ReadEnd, Start
<1>7. CASE Wait(op)
  BY <1>7 DEF Wait, CounterReset
<1>8. CASE WriteWait(op)
  BY <1>2, <1>4, <1>8 DEF WriteWait, memory, cipher, Block
<1>9. CASE WriteGrant(op)
  <2> SUFFICES ASSUME job'.steady, ~job'.inc, NEW i \in 0 .. counter
               PROVE  mem'[Block(job.dst, i)] = Swap(cipher[i])
    BY <1>2, <1>4, <1>9 DEF WriteGrant, cipher, Block
  <2>1. job.steady /\ ~job.inc
    BY <1>2, <1>9 DEF WriteGrant
  <2>2. current_dest_address = job.dst
    <3>1. current_dest_address = (job.dst + 0) % AddrMod
      BY <1>9, <2>1 DEF WriteGrant, OnCourse, Run, busy
    <3> QED BY <1>1, <3>1, ModAssumption, InRange
  <2>3. mem' = [mem EXCEPT ![Block(job.dst, counter)] = Swap(cipher[counter])]
    BY <1>9, <2>2 DEF WriteGrant, am_address, am_writeData, Block, cipher, Inv,
                      WritesCiphertext
  <2>4. /\ Block(job.dst, counter) \in MemWords
        /\ Block(job.dst, i) = Block(job.dst, counter) => i = counter
        /\ Block(job.dst, i) \in MemWords
    BY <1>1, WordsApart
  <2>5. CASE i = counter
    BY <2>3, <2>4, <2>5 DEF MemoryShape
  <2>6. CASE i # counter
    <3>1. i \in 0 .. counter - 1
      BY <1>1, <2>6
    <3>2. mem[Block(job.dst, i)] = Swap(cipher[i])
      BY <1>9, <2>1, <3>1 DEF WriteGrant, cipher
    <3> QED BY <2>3, <2>4, <2>6, <3>2 DEF MemoryShape
  <2> QED BY <2>5, <2>6
<1>10. CASE WriteNext(op)
  <2>1. /\ state = "WRITE_END" /\ state' = "WRITE" /\ counter' - 1 = counter
        /\ UNCHANGED mem /\ Track(op)
    BY <1>1, <1>10 DEF WriteNext, memory
  <2>2. WordsWritten' = WordsWritten
    BY <2>1
  <2> QED BY <1>2, <1>4, <2>1, <2>2 DEF cipher, Block
<1>11. CASE WriteLast(op)
  <2>1. /\ state = "WRITE_END" /\ state' \in {"IDLE", "READ"} /\ counter = 3
        /\ UNCHANGED mem /\ Track(op)
    BY <1>11 DEF WriteLast, memory, lastWord
  <2>2. WordsWritten = 0 .. 3 /\ WordsWritten' \in {0 .. 3, {}}
    <3>1. counter' = 0 
      BY <1>11 DEF WriteLast
    <3> QED BY <2>1, <3>1
  <2> QED BY <1>2, <1>4, <2>1, <2>2 DEF cipher, Block
<1> QED
  BY <1>1, <1>5, <1>6, <1>7, <1>8, <1>9, <1>10, <1>11 DEF Controller

LEMMA DeliveringInvariant == Spec => [](MemoryShape /\ Delivering)
<1>1. Init => MemoryShape /\ Delivering
  BY MemoryAssumption DEF Init, MemoryShape, MemWords, Delivering, NoJob
<1>2. /\ Inv /\ CounterReset /\ OnCourse /\ MemoryShape /\ Delivering
      /\ [Next]_vars
      => (MemoryShape /\ Delivering)'
  <2> SUFFICES ASSUME Inv, CounterReset, OnCourse, MemoryShape, Delivering, [Next]_vars
               PROVE  MemoryShape' /\ Delivering'
    OBVIOUS
  <2>1. CASE Edge
    BY <2>1, ShapeStep, DeliveringStep, OpsAssumption DEF Edge
  <2>2. CASE Reset
    BY <2>2 DEF Reset, MemoryShape, memory, Delivering, NoJob
  <2>3. CASE UNCHANGED vars
    BY <2>3 DEF vars, core, memory, history, MemoryShape, Delivering, WordsWritten, Block
  <2> QED BY <2>1, <2>2, <2>3 DEF Next
<1> QED BY <1>1, <1>2, Invariant, CourseInvariant, PTL DEF Spec

(* done means delivered: all four words of the last ciphertext are in the  *)
(* destination, wherever it lies, when a job without increment is over.    *)
THEOREM DoneMeansDelivered == Spec => []Delivered
<1>1. Delivering => Delivered
  BY DEF Delivering, Delivered, WordsWritten, Block, done
<1> QED BY <1>1, DeliveringInvariant, PTL
=============================================================================
