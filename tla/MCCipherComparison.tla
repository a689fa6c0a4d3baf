------------------------- MODULE MCCipherComparison -------------------------
(***************************************************************************)
(* The test vector of main.c:44-45 and others: zeros, ones, one bit, and   *)
(* two that run through many entries of the tables.                        *)
(***************************************************************************)
EXTENDS CipherComparison

FromSeq(s) == [n \in Index |-> s[n + 1]]

(* FIPS 197, Appendix B, as main() has it.                                 *)
Standard ==
  [key |-> FromSeq(<<\h2B, \h7E, \h15, \h16, \h28, \hAE, \hD2, \hA6,
                     \hAB, \hF7, \h15, \h88, \h09, \hCF, \h4F, \h3C>>),
   input |-> FromSeq(<<\h32, \h43, \hF6, \hA8, \h88, \h5A, \h30, \h8D,
                       \h31, \h31, \h98, \hA2, \hE0, \h37, \h07, \h34>>)]

Constant(x) == [n \in Index |-> x]
MCVectors ==
  { Standard,
    [key |-> Constant(0), input |-> Constant(0)],
    [key |-> Constant(255), input |-> Constant(255)],
    [key |-> [n \in Index |-> IF n = 0 THEN 128 ELSE 0], input |-> Constant(0)],
    [key |-> [n \in Index |-> n], input |-> [n \in Index |-> 17 * n]],
    [key |-> [n \in Index |-> 255 - 16 * n], input |-> [n \in Index |-> (37 * n) % 256]] }
=============================================================================
