--------------------------- MODULE AesFsmdProofs ---------------------------
(***************************************************************************)
(* The core computes the ten-round cipher, for every choice of the round   *)
(* functions, of the blocks and of the keys.                               *)
(***************************************************************************)
EXTENDS AesFsmd, TLAPS

(* key_schedule is chained: each round key comes from the previous one,    *)
(* with the round constant of its own index.                               *)
LEMMA RoundKeysStep ==
  ASSUME NEW k, NEW n \in 0 .. 9
  PROVE  /\ RoundKeys(k)[1] = k
         /\ RoundKeys(k)[n + 2] = KeySchedule(RoundKeys(k)[n + 1], n)
  BY DEF RoundKeys

(* The stages are chained: nine full ones, then the last.                  *)
LEMMA RoundDataStep ==
  ASSUME NEW d, NEW k, NEW n \in 0 .. 8
  PROVE  /\ RoundData(d, k)[1] = d
         /\ RoundData(d, k)[n + 2]
              = Stage(RoundData(d, k)[n + 1], RoundKeys(k)[n + 1])
         /\ RoundData(d, k)[11]
              = StageLast(RoundData(d, k)[10], RoundKeys(k)[10])
  BY DEF RoundData

LEMMA InitInv == Init => IInv
  BY DEF Init, IInv, TypeOK, InStep, LastCount, NoJob

(* Every edge of the clock preserves the invariant, whatever is on the     *)
(* ports.                                                                  *)
LEMMA ClockInv ==
  ASSUME NEW start, NEW key, NEW d, IInv, Clock(start, key, d)
  PROVE  IInv'
<1> USE DEF IInv, TypeOK, InStep, LastCount
<1>1. CASE Idle(start, key)
  BY <1>1 DEF Idle
<1>2. CASE Load(key, d)
  <2>1. /\ RoundKeys(key)[1] = key
        /\ RoundKeys(key)[2] = KeySchedule(key, 0)
    BY RoundKeysStep
  <2>2. RoundData(d, key)[2] = Stage(d, key)
    <3>1. /\ RoundData(d, key)[1] = d
          /\ RoundData(d, key)[0 + 2]
               = Stage(RoundData(d, key)[0 + 1], RoundKeys(key)[0 + 1])
      BY RoundDataStep
    <3> QED BY <3>1, <2>1
  <2> QED BY <1>2, <2>1, <2>2 DEF Load
<1>3. CASE Count
  <2>1. cnt \in 1 .. 8
    BY <1>3 DEF Count
  <2>2. RoundKeys(job.key)[cnt + 2] = KeySchedule(RoundKeys(job.key)[cnt + 1], cnt)
    BY <2>1, RoundKeysStep
  <2>3. RoundData(job.data, job.key)[cnt + 2]
          = Stage(RoundData(job.data, job.key)[cnt + 1], RoundKeys(job.key)[cnt + 1])
    BY <2>1, RoundDataStep
  <2> QED BY <1>3, <2>1, <2>2, <2>3 DEF Count, Round
<1>4. CASE CountLast
  <2>1. RoundKeys(job.key)[11] = KeySchedule(RoundKeys(job.key)[10], 9)
    <3>1. RoundKeys(job.key)[9 + 2] = KeySchedule(RoundKeys(job.key)[9 + 1], 9)
      BY RoundKeysStep
    <3> QED BY <3>1
  <2>2. RoundData(job.data, job.key)[11]
          = StageLast(RoundData(job.data, job.key)[10], RoundKeys(job.key)[10])
    BY RoundDataStep
  <2> QED BY <1>4, <2>1, <2>2 DEF CountLast
<1>5. CASE Done(key)
  BY <1>5 DEF Done
<1> QED
  BY <1>1, <1>2, <1>3, <1>4, <1>5 DEF Clock

(* So does every reset.                                                    *)
LEMMA ResetInv == Reset => IInv'
  BY DEF Reset, NoJob, IInv, TypeOK, InStep, LastCount

LEMMA StepInv == IInv /\ [Next]_vars => IInv'
<1> SUFFICES ASSUME IInv, [Next]_vars PROVE IInv'
  OBVIOUS
<1>1. ASSUME NEW start \in BOOLEAN, NEW key \in Keys, NEW d \in Blocks,
             Clock(start, key, d)
      PROVE  IInv'
  BY <1>1, ClockInv
<1>2. CASE Reset
  BY <1>2, ResetInv
<1>3. CASE UNCHANGED vars
  BY <1>3 DEF vars, IInv, TypeOK, InStep
<1> QED
  BY <1>1, <1>2, <1>3 DEF Next, Tick

(* The registers of aes_fsmd.vhd keep their types; in particular cnt_reg   *)
(* never indexes rcon(0 to 9) out of range.                                *)
THEOREM TypeCorrect == Spec => []TypeOK
<1>1. IInv => TypeOK
  BY DEF IInv
<1> QED BY <1>1, InitInv, StepInv, PTL DEF Spec

(* Block and key accumulators always belong to the same round of the same  *)
(* job.                                                                    *)
THEOREM AccumulatorsInStep == Spec => []InStep
<1>1. IInv => InStep
  BY DEF IInv
<1> QED BY <1>1, InitInv, StepInv, PTL DEF Spec

-----------------------------------------------------------------------------
LEMMA InitUnit == Init => Unit!Init
  BY DEF Init, Unit!Init, NoJob

(* Each edge is a step of the abstract unit or none: ST_LOAD takes the     *)
(* block, ST_DONE replies, a reset resets.                                 *)
LEMMA StepUnit == IInv /\ [Next]_vars => [Unit!Next]_(Unit!vars)
<1> SUFFICES ASSUME IInv, [Next]_vars PROVE [Unit!Next]_(Unit!vars)
  OBVIOUS
<1> USE DEF IInv, TypeOK, InStep, LastCount, Unit!Next, Unit!vars
<1>1. ASSUME NEW start \in BOOLEAN, NEW key \in Keys, Idle(start, key)
      PROVE  UNCHANGED Unit!vars
  BY <1>1 DEF Idle
<1>2. ASSUME NEW key \in Keys, NEW d \in Blocks, Load(key, d)
      PROVE  Unit!Accept(d, key)
  BY <1>2 DEF Load, Unit!Accept
<1>3. ASSUME Count PROVE UNCHANGED Unit!vars
  BY <1>3 DEF Count, Round
<1>4. ASSUME CountLast PROVE UNCHANGED Unit!vars
  BY <1>4 DEF CountLast
<1>5. ASSUME NEW key \in Keys, Done(key) PROVE Unit!Answer
  BY <1>5 DEF Done, Unit!Answer, Encrypt
<1>6. ASSUME Reset PROVE Unit!Reset
  BY <1>6 DEF Reset, Unit!Reset, NoJob
<1>7. ASSUME UNCHANGED vars PROVE UNCHANGED Unit!vars
  BY <1>7 DEF vars
<1> QED
  BY <1>1, <1>2, <1>3, <1>4, <1>5, <1>6, <1>7 DEF Next, Tick, Clock

(* aes_fsmd.vhd implements the cipher unit.                                *)
THEOREM CoreIsCipherUnit == Spec => ImplementsUnit
<1> QED
  BY InitInv, StepInv, InitUnit, StepUnit, PTL DEF Spec, ImplementsUnit, Unit!Spec
=============================================================================
