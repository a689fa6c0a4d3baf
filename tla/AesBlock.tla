------------------------------ MODULE AesBlock ------------------------------
(***************************************************************************)
(* hdl/aes_block.vhd: the ten rounds unrolled into a pipeline.  Stage i    *)
(* has a data register and a key register of its own (REG_DATA, REG_KEY);  *)
(* a new block and a new key may enter at every clock.                     *)
(*                                                                         *)
(* "fed" is a history variable: fed[i] is what entered i edges ago, or     *)
(* Nothing if rst_b was asserted since.                                    *)
(***************************************************************************)
EXTENDS CipherRounds

CONSTANTS Blocks, Keys

VARIABLES
  data_pipe, key_pipe,     \* data_pipe_out, key_pipe_out(1 to 10)
  fed

vars == <<data_pipe, key_pipe, fed>>

Stages == 1 .. 10
Nothing == [valid |-> FALSE, data |-> Zero, key |-> Zero]

Init ==
  /\ data_pipe = [i \in Stages |-> Zero]
  /\ key_pipe = [i \in Stages |-> Zero]
  /\ fed = [i \in Stages |-> Nothing]

(* The round in front of register i, with rcon(i - 1).                     *)
Round(i, d, k) == IF i = 10 THEN StageLast(d, k) ELSE Stage(d, k)

(* One clock: every register takes what the round in front of it computes  *)
(* from the register before, the first from the ports.                     *)
OneKeyForAll(d, k) ==      \* mutant: every round on the key now at the port
  /\ data_pipe' = [i \in Stages |->
       IF i = 1 THEN Round(1, d, k) ELSE Round(i, data_pipe[i - 1], key_pipe[1])]
  /\ key_pipe' = [i \in Stages |->
       KeySchedule(IF i = 1 THEN k ELSE key_pipe[i - 1], i - 1)]
  /\ fed' = [i \in Stages |->
       IF i = 1 THEN [valid |-> TRUE, data |-> d, key |-> k] ELSE fed[i - 1]]

Clock(d, k) ==
  /\ data_pipe' = [i \in Stages |->
       IF i = 1 THEN Round(1, d, k) ELSE Round(i, data_pipe[i - 1], key_pipe[i - 1])]
  /\ key_pipe' = [i \in Stages |->
       KeySchedule(IF i = 1 THEN k ELSE key_pipe[i - 1], i - 1)]
  /\ fed' = [i \in Stages |->
       IF i = 1 THEN [valid |-> TRUE, data |-> d, key |-> k] ELSE fed[i - 1]]

(* rst_b empties the pipeline.                                             *)
Reset ==
  /\ data_pipe' = [i \in Stages |-> Zero]
  /\ key_pipe' = [i \in Stages |-> Zero]
  /\ fed' = [i \in Stages |-> Nothing]

data_out == AddKey(data_pipe[10], key_pipe[10])

Next ==
  \/ \E d \in Blocks, k \in Keys : Clock(d, k)
  \/ Reset

Spec == Init /\ [][Next]_vars

-----------------------------------------------------------------------------
(* Properties.                                                             *)

(***************************************************************************)
(* Neighbours do not mix: register i holds what i rounds make of one block *)
(* and of the key that entered with it, whatever followed them.            *)
(***************************************************************************)
StagesInStep ==
  \A i \in Stages : fed[i].valid =>
    /\ data_pipe[i] = RoundData(fed[i].data, fed[i].key)[i + 1]
    /\ key_pipe[i] = RoundKeys(fed[i].key)[i + 1]

(* data_out is the ciphertext of the block and key of ten edges ago.       *)
TenEdgesLater ==
  fed[10].valid => data_out = Encrypt(fed[10].data, fed[10].key)
=============================================================================
