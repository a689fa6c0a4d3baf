--------------------------- MODULE AesBlockProofs ---------------------------
(***************************************************************************)
(* The pipeline delivers every block ten edges later, for every choice of  *)
(* the round functions, the blocks and the keys.                           *)
(***************************************************************************)
EXTENDS AesBlock, TLAPS

(* Register i of a chain is one round after register i - 1.                *)
LEMMA Chain ==
  ASSUME NEW d, NEW k, NEW i \in 1 .. 10
  PROVE  /\ RoundKeys(k)[1] = k
         /\ RoundData(d, k)[1] = d
         /\ RoundKeys(k)[i + 1] = KeySchedule(RoundKeys(k)[i], i - 1)
         /\ RoundData(d, k)[i + 1] = Round(i, RoundData(d, k)[i], RoundKeys(k)[i])
<1>1. RoundKeys(k)[1] = k /\ RoundData(d, k)[1] = d
  BY DEF RoundKeys, RoundData
<1>2. RoundKeys(k)[i + 1] = KeySchedule(RoundKeys(k)[i], i - 1)
  BY DEF RoundKeys
<1>3. RoundData(d, k)[i + 1] = Round(i, RoundData(d, k)[i], RoundKeys(k)[i])
  BY DEF RoundData, Round
<1> QED BY <1>1, <1>2, <1>3

LEMMA InitInv == Init => StagesInStep
  BY DEF Init, StagesInStep, Nothing

LEMMA ClockInv ==
  ASSUME StagesInStep, NEW d, NEW k, Clock(d, k)
  PROVE  StagesInStep'
<1> SUFFICES ASSUME NEW i \in Stages, fed'[i].valid
             PROVE  /\ data_pipe'[i] = RoundData(fed'[i].data, fed'[i].key)[i + 1]
                    /\ key_pipe'[i] = RoundKeys(fed'[i].key)[i + 1]
  BY DEF StagesInStep
<1>1. CASE i = 1
  <2>1. /\ data_pipe'[1] = Round(1, d, k)
        /\ key_pipe'[1] = KeySchedule(k, 0)
        /\ fed'[1] = [valid |-> TRUE, data |-> d, key |-> k]
    BY DEF Clock, Stages
  <2>2. /\ RoundKeys(k)[1 + 1] = KeySchedule(RoundKeys(k)[1], 1 - 1)
        /\ RoundData(d, k)[1 + 1] = Round(1, RoundData(d, k)[1], RoundKeys(k)[1])
        /\ RoundKeys(k)[1] = k
        /\ RoundData(d, k)[1] = d
    BY Chain
  <2> QED BY <1>1, <2>1, <2>2
<1>2. CASE i # 1
  <2>1. i \in 1 .. 10 /\ i - 1 \in Stages
    BY <1>2 DEF Stages
  <2>2. /\ data_pipe'[i] = Round(i, data_pipe[i - 1], key_pipe[i - 1])
        /\ key_pipe'[i] = KeySchedule(key_pipe[i - 1], i - 1)
        /\ fed'[i] = fed[i - 1]
    BY <1>2 DEF Clock
  <2> DEFINE f == fed[i - 1]
  <2>3. /\ data_pipe[i - 1] = RoundData(f.data, f.key)[i]
        /\ key_pipe[i - 1] = RoundKeys(f.key)[i]
    <3>1. f.valid
      BY <2>2
    <3>2. /\ data_pipe[i - 1] = RoundData(f.data, f.key)[(i - 1) + 1]
          /\ key_pipe[i - 1] = RoundKeys(f.key)[(i - 1) + 1]
      BY <2>1, <3>1 DEF StagesInStep
    <3>3. (i - 1) + 1 = i
      BY <2>1
    <3> QED BY <3>2, <3>3
  <2>4. /\ RoundKeys(f.key)[i + 1] = KeySchedule(RoundKeys(f.key)[i], i - 1)
        /\ RoundData(f.data, f.key)[i + 1]
             = Round(i, RoundData(f.data, f.key)[i], RoundKeys(f.key)[i])
    BY <2>1, Chain
  <2> QED BY <2>2, <2>3, <2>4
<1> QED BY <1>1, <1>2

LEMMA StepInv == StagesInStep /\ [Next]_vars => StagesInStep'
<1> SUFFICES ASSUME StagesInStep, [Next]_vars PROVE StagesInStep'
  OBVIOUS
<1>1. ASSUME NEW d \in Blocks, NEW k \in Keys, Clock(d, k) PROVE StagesInStep'
  BY <1>1, ClockInv
<1>2. CASE Reset
  BY <1>2 DEF Reset, StagesInStep, Nothing
<1>3. CASE UNCHANGED vars
  BY <1>3 DEF vars, StagesInStep
<1> QED BY <1>1, <1>2, <1>3 DEF Next

(* Every register holds the rounds of the one block that passes through.   *)
THEOREM PipelineInStep == Spec => []StagesInStep
  BY InitInv, StepInv, PTL DEF Spec

(* Back-to-back blocks, each with its own key, come out ten edges later as *)
(* their ciphertexts.                                                      *)
THEOREM Throughput == Spec => []TenEdgesLater
<1>1. StagesInStep => TenEdgesLater
  <2> SUFFICES ASSUME StagesInStep, fed[10].valid
               PROVE  data_out = Encrypt(fed[10].data, fed[10].key)
    BY DEF TenEdgesLater
  <2>1. 10 \in Stages
    BY DEF Stages
  <2>2. /\ data_pipe[10] = RoundData(fed[10].data, fed[10].key)[10 + 1]
        /\ key_pipe[10] = RoundKeys(fed[10].key)[10 + 1]
    BY <2>1 DEF StagesInStep
  <2> QED BY <2>2 DEF data_out, Encrypt
<1> QED BY <1>1, PipelineInStep, PTL
=============================================================================
