-------------------------- MODULE CipherComparison --------------------------
(***************************************************************************)
(* The program of software/aes_aca/main.c seen as a comparison of the two  *)
(* implementations of the cipher: the routines of aes.c, the iterative     *)
(* core of aes_fsmd.vhd on real bytes (with the accelerator's ports around *)
(* it left to AesAccelerator), and the decryption of what the core         *)
(* returned, which is what main() judges the hardware by.                  *)
(***************************************************************************)
EXTENDS SoftwareAes, HdlRounds

VARIABLES state, cnt, data_acc, key_acc, out_reg, job

hardware == <<state, cnt, data_acc, key_acc, out_reg, job>>
compared == <<software, hardware>>

Core == INSTANCE AesFsmd WITH Blocks <- {}, Keys <- {}, out <- out_reg

CInit == Init /\ Core!Init

RunRoutine == Routine /\ UNCHANGED hardware

HandToCore == pc = "encrypted" /\ Goto("core", 0)
  /\ UNCHANGED <<vector, Rcon, keyexp, expkey, dest, out, decoded, rounds, hardware>>

(* start for one clock, with the block and the key on the ports until the  *)
(* output register is loaded.                                              *)
HardwareClock ==
  /\ pc = "core"
  /\ Core!Clock(i = 0, vector.key, vector.input)
  /\ IF state = "DONE" THEN Goto("Decrypt", Nr) ELSE Goto(pc, 1)
  /\ UNCHANGED <<vector, Rcon, keyexp, expkey, dest, out, decoded, rounds>>

DecryptResult == DecryptFirst(out_reg) /\ UNCHANGED hardware

CNext == RunRoutine \/ HandToCore \/ HardwareClock \/ DecryptResult
CSpec == CInit /\ [][CNext]_compared

-----------------------------------------------------------------------------
(* Properties.                                                             *)

(***************************************************************************)
(* sbox.vhd computes in a tower of fields, over a normal basis and between *)
(* two changes of basis, what aestab.c holds as a table; and InvSbox       *)
(* inverts it.                                                             *)
(***************************************************************************)
SboxIsTable == \A x \in Byte : sbox[x] = Sbox[x] /\ InvSbox[sbox[x]] = x

(***************************************************************************)
(* "Key expansion routines...the two produce identical output, you may use *)
(* either" (aes.c:41), and the core's key schedule, computed on the fly    *)
(* with no key array at all, goes through the same eleven round keys.      *)
(***************************************************************************)
KeysAgree ==
  /\ pc \notin {"aes_keyexpand128", "ExpandKey"} => keyexp = expkey
  /\ state = "CNT" => key_acc = RoundKey(keyexp, cnt)
  /\ state = "DONE" => key_acc = RoundKey(keyexp, Nr)

(***************************************************************************)
(* The table-driven encryption, the plain one and the core go through the  *)
(* same states, round by round, although they cut the rounds differently:  *)
(* the software adds a round key at the end of a round, the core at the    *)
(* start of the next.                                                      *)
(***************************************************************************)
RoundsAgree ==
  /\ pc = "aes_blockenc_NOacc" /\ i > 0 => out = rounds[i]
  /\ state = "CNT" => XorBlocks(data_acc, key_acc) = rounds[cnt + 1]
  /\ pc \in {"Decrypt", "checked"} => dest = out /\ dest = out_reg

(***************************************************************************)
(* Decrypt, given the core's result and the software's key expansion,      *)
(* walks back through the states of the encryption and ends on the input:  *)
(* "Correct!" of main() is said of a core that is right.                   *)
(***************************************************************************)
DecryptRetraces ==
  /\ pc = "Decrypt" /\ i < Nr => decoded = rounds[i + 1]
  /\ pc = "checked" => decoded = vector.input
=============================================================================
