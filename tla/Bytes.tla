-------------------------------- MODULE Bytes --------------------------------
(***************************************************************************)
(* Bytes and blocks of sixteen of them, as both the hardware and the       *)
(* software compute with them.                                             *)
(***************************************************************************)
EXTENDS Integers, Bitwise

Byte == 0 .. 255
Index == 0 .. 15
Block == [Index -> Byte]

Xor4(a, b, c, d) == (a ^^ b) ^^ (c ^^ d)
XorBlocks(x, y) == [n \in Index |-> x[n] ^^ y[n]]
=============================================================================
