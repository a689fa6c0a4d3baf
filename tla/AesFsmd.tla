------------------------------ MODULE AesFsmd ------------------------------
(***************************************************************************)
(* hdl/aes_fsmd.vhd: the iterative AES core, one round per clock.  A step  *)
(* is a rising edge of clk (Clock) or an assertion of rst_b (Reset).  The  *)
(* registers keep their VHDL names; the ports start, key and data_in are   *)
(* the parameters of Clock, the ports ready and data_out are operators.    *)
(*                                                                         *)
(* "job" is a history variable, not a register: the block and the key the  *)
(* core saw on its ports at the edge that left ST_LOAD.                    *)
(***************************************************************************)
EXTENDS CipherRounds

CONSTANTS Blocks, Keys      \* what the ports may carry, for Next

VARIABLES state, cnt, data_acc, key_acc, out, job

vars == <<state, cnt, data_acc, key_acc, out, job>>

NoJob == [data |-> Zero, key |-> Zero]

(* Power-up and rst_b = '0' leave the core here.                           *)
Init ==
  /\ state = "IDLE"
  /\ cnt = 0
  /\ data_acc = Zero
  /\ key_acc = Zero
  /\ out = Zero
  /\ job = NoJob

-----------------------------------------------------------------------------
(* The outputs of the routing mux and the output register.                 *)

ready == state \in {"IDLE", "DONE"}
data_out == out

-----------------------------------------------------------------------------
(* One action per state of the controller.  key_schedule always works on   *)
(* in_key, which is the key port except in ST_CNT: key_acc is overwritten  *)
(* at every edge, also when the core is idle.                              *)

Idle(start, key) ==
  /\ state = "IDLE"
  /\ state' = IF start THEN "LOAD" ELSE "IDLE"
  /\ cnt' = 0
  /\ key_acc' = KeySchedule(key, cnt)
  /\ UNCHANGED <<data_acc, out, job>>

LoadUnscheduled(key, data_in) ==      \* mutant: the first round key twice
  /\ state = "LOAD"
  /\ state' = "CNT"
  /\ cnt' = cnt + 1
  /\ data_acc' = Stage(data_in, key)
  /\ key_acc' = key
  /\ job' = [data |-> data_in, key |-> key]
  /\ UNCHANGED out

Load(key, data_in) ==
  /\ state = "LOAD"
  /\ state' = "CNT"
  /\ cnt' = cnt + 1
  /\ data_acc' = Stage(data_in, key)
  /\ key_acc' = KeySchedule(key, cnt)
  /\ job' = [data |-> data_in, key |-> key]
  /\ UNCHANGED out

Round ==
  /\ data_acc' = Stage(data_acc, key_acc)
  /\ key_acc' = KeySchedule(key_acc, cnt)
  /\ UNCHANGED <<state, out, job>>

Count ==
  /\ state = "CNT"
  /\ cnt # LastCount
  /\ cnt' = cnt + 1
  /\ Round

CountLastAtTen ==                     \* mutant: after the range of cnt
  /\ state = "CNT"
  /\ cnt = 10
  /\ state' = "DONE"
  /\ cnt' = 0
  /\ data_acc' = StageLast(data_acc, key_acc)
  /\ key_acc' = KeySchedule(key_acc, cnt)
  /\ UNCHANGED <<out, job>>

CountLast ==
  /\ state = "CNT"
  /\ cnt = LastCount
  /\ state' = "DONE"
  /\ cnt' = 0
  /\ data_acc' = StageLast(data_acc, key_acc)
  /\ key_acc' = KeySchedule(key_acc, cnt)
  /\ UNCHANGED <<out, job>>

DoneUnmasked(key) ==                  \* mutant: the last key is not added
  /\ state = "DONE"
  /\ state' = "IDLE"
  /\ out' = data_acc
  /\ key_acc' = KeySchedule(key, cnt)
  /\ UNCHANGED <<cnt, data_acc, job>>

Done(key) ==
  /\ state = "DONE"
  /\ state' = "IDLE"
  /\ out' = AddKey(data_acc, key_acc)
  /\ key_acc' = KeySchedule(key, cnt)
  /\ UNCHANGED <<cnt, data_acc, job>>

Clock(start, key, data_in) ==
  \/ Idle(start, key)
  \/ Load(key, data_in)
  \/ Count
  \/ CountLast
  \/ Done(key)

(* rst_b is asynchronous; the pipe_reg registers are reset with the rest.  *)
Reset ==
  /\ state' = "IDLE"
  /\ cnt' = 0
  /\ data_acc' = Zero
  /\ key_acc' = Zero
  /\ out' = Zero
  /\ job' = NoJob

Tick ==
  \E start \in BOOLEAN, key \in Keys, data_in \in Blocks :
    Clock(start, key, data_in)

Next == Tick \/ Reset

Spec == Init /\ [][Next]_vars

(* The clock never stops; the environment may still assert reset at will.  *)
FairSpec == Spec /\ WF_vars(Tick)

-----------------------------------------------------------------------------
(* Properties.                                                             *)

TypeOK ==
  /\ state \in {"IDLE", "LOAD", "CNT", "DONE"}
  /\ cnt \in 0 .. LastCount      \* rcon(cnt_reg) is always in range
  /\ DOMAIN job = {"data", "key"}

(***************************************************************************)
(* The accumulators stay in step: with cnt = n the block has gone through  *)
(* exactly n rounds and the key through the same n, both of the one job    *)
(* sampled in ST_LOAD, whatever the ports show afterwards.  Outside ST_CNT  *)
(* the counter is back at zero, so a block always starts with rcon(0).     *)
(***************************************************************************)
InStep ==
  /\ state = "CNT" =>
       /\ cnt \in 1 .. LastCount
       /\ data_acc = RoundData(job.data, job.key)[cnt + 1]
       /\ key_acc = RoundKeys(job.key)[cnt + 1]
  /\ state = "DONE" =>
       /\ data_acc = RoundData(job.data, job.key)[11]
       /\ key_acc = RoundKeys(job.key)[11]
  /\ state # "CNT" => cnt = 0

IInv == TypeOK /\ InStep

(***************************************************************************)
(* The core is a cipher unit (CipherUnit.tla): it takes one block and key, *)
(* and replaces data_out once, by the ciphertext of that block under that  *)
(* key.  It is busy from the edge that samples its ports to the edge that  *)
(* loads out_reg, one edge after ready has risen again.                    *)
(***************************************************************************)
Unit == INSTANCE CipherUnit WITH
  busy <- state \in {"CNT", "DONE"},
  op   <- job,
  reply <- out

ImplementsUnit == Unit!Spec

(* A block that was taken is always finished: ready does not stay low.     *)
BusyEnds == ~ready ~> ready
=============================================================================
