--------------------------- MODULE SymbolicCipher ---------------------------
(***************************************************************************)
(* Values for the round functions in the runs.  A byte is a pair of the    *)
(* name of its block and its position there.  Raw blocks have names <<n>>, *)
(* the ciphertext of x under k has the name <<x, k>> of their names; a     *)
(* block put together from the bytes of several others is its own name.    *)
(* Two blocks are equal only if they were computed by the same operations  *)
(* from the same words.                                                    *)
(***************************************************************************)
EXTENDS Integers

Block(name) == [i \in 0 .. 3 |-> [j \in 1 .. 4 |-> <<name, 4 * i + j>>]]
Raw(n) == Block(<<n>>)
Name(b) == IF b = Block(b[0][1][1]) THEN b[0][1][1] ELSE b

(* Inside the core: rounds done, block, key.  What the core never computes *)
(* in the right order is a term of its own.                                *)
IsBlock(b) == DOMAIN b = 0 .. 3
Rounds(b) == IF IsBlock(b) THEN 0 ELSE b[1]
DataOf(b) == IF IsBlock(b) THEN Name(b) ELSE b[2]
KeyOf(k) == IF IsBlock(k) THEN Name(k) ELSE k[2]

MCZero == Raw(0)
MCKeySchedule(k, n) ==
  IF Rounds(k) = n THEN <<n + 1, KeyOf(k)>> ELSE <<20 + n, k>>
MCStage(d, k) ==
  IF Rounds(d) < 9 /\ Rounds(d) = Rounds(k) /\ (Rounds(d) = 0 \/ d[3] = KeyOf(k))
  THEN <<Rounds(d) + 1, DataOf(d), KeyOf(k)>>
  ELSE <<40, d, k>>
MCStageLast(d, k) ==
  IF Rounds(d) = 9 /\ Rounds(k) = 9 /\ d[3] = KeyOf(k)
  THEN <<10, DataOf(d), KeyOf(k)>>
  ELSE <<50, d, k>>
MCAddKey(d, k) ==
  IF Rounds(d) = 10 /\ Rounds(k) = 10 /\ d[3] = KeyOf(k)
  THEN Block(<<d[2], d[3]>>)
  ELSE Block(<<d, k, 0>>)
=============================================================================
