---------------------------- MODULE CipherRounds ----------------------------
(***************************************************************************)
(* The ten AES-128 rounds as the hardware cores chain them.  The           *)
(* combinational blocks of hdl/ are parameters: a block and a key are      *)
(* whatever 128-bit values those operators accept and return, so what is   *)
(* said here (and proved in AesFsmdProofs) holds of the sequencing alone,  *)
(* for every choice of the round functions.                                *)
(***************************************************************************)
EXTENDS Integers

CONSTANTS
  Stage(_, _),        \* aes_stage:      a block and a round key -> a block
  StageLast(_, _),    \* aes_stage_last: the same without MixColumns
  KeySchedule(_, _),  \* key_schedule:   a round key and the index of rcon
  AddKey(_, _),       \* the final xor of aes_fsmd.vhd / aes_block.vhd
  Zero                \* (others => '0') on 128 bits

LastCount == 9        \* "cnt_reg = 9", and the last index of rcon(0 to 9)

(***************************************************************************)
(* RoundKeys(k)[n + 1] is the key after n applications of key_schedule,    *)
(* the i-th of them with rcon(i - 1).                                      *)
(***************************************************************************)
RoundKeys(k) ==
  LET k1  == KeySchedule(k,  0)
      k2  == KeySchedule(k1, 1)
      k3  == KeySchedule(k2, 2)
      k4  == KeySchedule(k3, 3)
      k5  == KeySchedule(k4, 4)
      k6  == KeySchedule(k5, 5)
      k7  == KeySchedule(k6, 6)
      k8  == KeySchedule(k7, 7)
      k9  == KeySchedule(k8, 8)
      k10 == KeySchedule(k9, 9)
  IN  <<k, k1, k2, k3, k4, k5, k6, k7, k8, k9, k10>>

(***************************************************************************)
(* RoundData(d, k)[n + 1] is the block after n rounds under key k: nine    *)
(* full stages and a last one without MixColumns.                          *)
(***************************************************************************)
RoundData(d, k) ==
  LET rk  == RoundKeys(k)
      d1  == Stage(d,  rk[1])
      d2  == Stage(d1, rk[2])
      d3  == Stage(d2, rk[3])
      d4  == Stage(d3, rk[4])
      d5  == Stage(d4, rk[5])
      d6  == Stage(d5, rk[6])
      d7  == Stage(d6, rk[7])
      d8  == Stage(d7, rk[8])
      d9  == Stage(d8, rk[9])
      d10 == StageLast(d9, rk[10])
  IN  <<d, d1, d2, d3, d4, d5, d6, d7, d8, d9, d10>>

(* The ciphertext: the key after ten rounds is added to the last block.    *)
Encrypt(d, k) == AddKey(RoundData(d, k)[11], RoundKeys(k)[11])
=============================================================================
