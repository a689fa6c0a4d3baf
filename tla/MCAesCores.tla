----------------------------- MODULE MCAesCores -----------------------------
(***************************************************************************)
(* The two cores over the symbolic cipher, one at a time: Init chooses     *)
(* which ("part").  Of the iterative core block and key may change at      *)
(* every edge, of the pipelined core the key.                              *)
(***************************************************************************)
EXTENDS AesFsmd, SymbolicCipher

VARIABLES part, data_pipe, key_pipe, fed

MCBlocks == {Raw(1), Raw(2)}
MCKeys == {Raw(3), Raw(4)}

Pipe == INSTANCE AesBlock WITH Blocks <- {Raw(1)}

allvars == <<part, vars, data_pipe, key_pipe, fed>>

CoresInit == part \in {"iterative", "pipelined"} /\ Init /\ Pipe!Init

Unchosen == UNCHANGED <<part, data_pipe, key_pipe, fed>>
IterativeTick == part = "iterative" /\ Tick /\ Unchosen

CoresNext ==
  \/ IterativeTick
  \/ part = "iterative" /\ Reset /\ Unchosen
  \/ part = "pipelined" /\ Pipe!Next /\ UNCHANGED <<part, vars>>

CoresSpec == CoresInit /\ [][CoresNext]_allvars /\ WF_allvars(IterativeTick)

(* Every register of the pipeline holds the rounds of one block under the  *)
(* key that entered with it, whatever followed them, and the output is the *)
(* ciphertext of the block and key that entered ten clocks ago.            *)
StagesInStep == Pipe!StagesInStep /\ Pipe!TenEdgesLater
=============================================================================
