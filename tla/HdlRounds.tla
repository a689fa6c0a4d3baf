------------------------------ MODULE HdlRounds ------------------------------
(***************************************************************************)
(* The combinational blocks of hdl/ on bytes.  A 128-bit vector is a       *)
(* function on 0 .. 15, byte n being matrix_in(n) of shift_mix.vhd: byte 0 *)
(* is the most significant one.  The S-box is the composite-field circuit  *)
(* of sbox.vhd: an element of GF(2^2), GF(2^4) or GF(2^8) is the number    *)
(* its bits spell.                                                         *)
(***************************************************************************)
EXTENDS Bytes, SequencesExt

(* A block xored byte by byte: "d_in XOR key", and the last line of the    *)
(* cores.                                                                  *)
AddKey(d, k) == XorBlocks(d, k)
Zero == [n \in Index |-> 0]

(***************************************************************************)
(* sbox.vhd.                                                        *)
(***************************************************************************)
mulG4(x, y) ==
  LET a == x \div 2  b == x % 2  c == y \div 2  d == y % 2
      e == (a ^^ b) * (c ^^ d)
  IN  2 * ((a * c) ^^ e) + ((b * d) ^^ e)

sclNG4(x)  == 2 * (x % 2) + ((x % 2) ^^ (x \div 2))
sclN2G4(x) == 2 * ((x % 2) ^^ (x \div 2)) + (x \div 2)
sqG4(x)    == 2 * (x % 2) + (x \div 2)

mulG16(x, y) ==
  LET a == x \div 4  b == x % 4  c == y \div 4  d == y % 4
      e == sclNG4(mulG4(a ^^ b, c ^^ d))
  IN  4 * (mulG4(a, c) ^^ e) + (mulG4(b, d) ^^ e)

sqSclG16(x) ==
  4 * sqG4((x \div 4) ^^ (x % 4)) + sclN2G4(sqG4(x % 4))

\* mutant: the scaling of the square of a + b left out
invG16Unscaled(x) ==
  LET a == x \div 4  b == x % 4
      e == sqG4(sqG4(a ^^ b) ^^ mulG4(a, b))
  IN  4 * mulG4(e, b) + mulG4(e, a)

invG16(x) ==
  LET a == x \div 4  b == x % 4
      e == sqG4(sclNG4(sqG4(a ^^ b)) ^^ mulG4(a, b))
  IN  4 * mulG4(e, b) + mulG4(e, a)

invG256(x) ==
  LET a == x \div 16  b == x % 16
      e == invG16(sqSclG16(a ^^ b) ^^ mulG16(a, b))
  IN  16 * mulG16(e, b) + mulG16(e, a)

A2X == <<\h98, \hF3, \hF2, \h48, \h09, \h81, \hA9, \hFF>>
X2S == <<\h58, \h2D, \h9E, \h0B, \hDC, \h04, \h03, \h24>>

(* The xor of the constants that the set bits of x select; bit 7 selects   *)
(* the first one.                                                          *)
baseConv(x, baseConst) ==
  FoldLeft(LAMBDA tmp, i : IF (x \div 2^(8 - i)) % 2 = 1 THEN tmp ^^ baseConst[i] ELSE tmp,
           0, [i \in 1 .. 8 |-> i])

sbox == [x \in Byte |-> baseConv(invG256(baseConv(x, A2X)), X2S) ^^ \h63]

(***************************************************************************)
(* shift_mix.vhd and shift_row.vhd.  Column c of the rotated matrix reads  *)
(* bytes 4c, 4c+5, 4c+10 and 4c+15 of the input.                           *)
(***************************************************************************)
Rotated(n) == (5 * n) % 16
xtime(x) == ((2 * x) % 256) ^^ (IF x >= 128 THEN \h1B ELSE 0)

shift_mix(m) ==
  LET at(n, k) == m[(4 * (n \div 4) + 5 * ((n + k) % 4)) % 16]
  IN  [n \in Index |->
         Xor4(xtime(at(n, 0)), xtime(at(n, 1)) ^^ at(n, 1), at(n, 2), at(n, 3))]

shift_row(m) == [n \in Index |-> m[Rotated(n)]]

(* aes_stage.vhd and aes_stage_last.vhd: sixteen S-boxes on d_in xor key.  *)
Substituted(d, k) == [n \in Index |-> sbox[d[n] ^^ k[n]]]
Stage(d, k)     == shift_mix(Substituted(d, k))
StageLast(d, k) == shift_row(Substituted(d, k))

(***************************************************************************)
(* key_schedule.vhd: four words, each xored with the one before it, the    *)
(* first with the rotated and substituted last word.                       *)
(***************************************************************************)
rcon == <<\h01, \h02, \h04, \h08, \h10, \h20, \h40, \h80, \h1B, \h36>>

KeySchedule(k, i) ==
  LET U == [j \in 0 .. 3 |->
              sbox[k[12 + ((j + 1) % 4)]] ^^ (IF j = 0 THEN rcon[i + 1] ELSE 0)]
      w0 == [j \in 0 .. 3 |-> k[j] ^^ U[j]]
      w1 == [j \in 0 .. 3 |-> k[4 + j] ^^ w0[j]]
      w2 == [j \in 0 .. 3 |-> k[8 + j] ^^ w1[j]]
      w3 == [j \in 0 .. 3 |-> k[12 + j] ^^ w2[j]]
      words == <<w0, w1, w2, w3>>
  IN  [n \in Index |-> words[(n \div 4) + 1][n % 4]]
=============================================================================
