----------------------------- MODULE CipherUnit -----------------------------
(***************************************************************************)
(* What a caller may expect of an AES core, with its rounds and its clock  *)
(* hidden: one block in work at a time, and a reply that changes only when *)
(* a block is finished, to exactly that block's ciphertext.                *)
(***************************************************************************)
CONSTANTS
  Encrypt(_, _),   \* the ciphertext of a block under a key
  Zero,            \* what the registers hold after reset
  Blocks, Keys     \* what may be asked

VARIABLES
  busy,    \* a block is in work
  op,      \* the block and the key taken last
  reply    \* the output port

vars == <<busy, op, reply>>

Init ==
  /\ busy = FALSE
  /\ op = [data |-> Zero, key |-> Zero]
  /\ reply = Zero

Accept(d, k) ==
  /\ ~busy
  /\ busy' = TRUE
  /\ op' = [data |-> d, key |-> k]
  /\ UNCHANGED reply

Answer ==
  /\ busy
  /\ busy' = FALSE
  /\ reply' = Encrypt(op.data, op.key)
  /\ UNCHANGED op

Reset ==
  /\ busy' = FALSE
  /\ op' = [data |-> Zero, key |-> Zero]
  /\ reply' = Zero

Next ==
  \/ \E d \in Blocks, k \in Keys : Accept(d, k)
  \/ Answer
  \/ Reset

Spec == Init /\ [][Next]_vars
=============================================================================
