-------------------------- MODULE MCAesAccelerator --------------------------
(***************************************************************************)
(* AesAccelerator with a processor that writes any register at any clock,  *)
(* at most MaxOps times, over the symbolic cipher.                         *)
(***************************************************************************)
EXTENDS AesAccelerator, SymbolicCipher

CONSTANT MaxOps
VARIABLE ops        \* writes made so far

-----------------------------------------------------------------------------
(* 32 words; the source blocks are at 0 and 64.                            *)
MCAddrMod == 128
MCMemories ==
  {[w \in 0 .. 31 |->
      IF w \in 0 .. 3 THEN Swap(Raw(1)[w])
      ELSE IF w \in 16 .. 19 THEN Swap(Raw(2)[w - 16])
      ELSE Swap(Raw(3)[0])]}

Write(a, d) == [kind |-> "write", address |-> a, data |-> d]
Control(s, i) == Write(3, [start |-> s, inc |-> i])

MCOps ==
  {Write(1, 32), Write(2, 3), Write(5, Swap(Raw(4)[1])),
   Control(TRUE, FALSE), Control(TRUE, TRUE), Control(FALSE, FALSE)}

MCInit == Init /\ ops = 0

MCEdge ==
  \/ Clock(NoOp) /\ UNCHANGED ops
  \/ \E op \in Ops : ops < MaxOps /\ Clock(op) /\ ops' = ops + 1

MCNext ==
  \/ MCEdge
  \/ Reset /\ UNCHANGED ops

mcvars == <<vars, ops>>

MCSpec == MCInit /\ [][MCNext]_mcvars
=============================================================================
