----------------------------- MODULE MCHwDriver -----------------------------
(* main() with three blocks, one reset at any moment, the symbolic cipher. *)
EXTENDS HwDriver, SymbolicCipher

MCInput == Raw(1)
MCKey == Raw(2)
MCMemories == {[w \in 0 .. 8 |-> Swap(Raw(3)[0])]}
=============================================================================
