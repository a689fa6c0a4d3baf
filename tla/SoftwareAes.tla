---------------------------- MODULE SoftwareAes ----------------------------
(***************************************************************************)
(* software/aes_aca/aes.c: both key expansions, the table-driven and the   *)
(* plain encryption, and decryption, as main.c and a reader of aes.h call  *)
(* them, one after the other on one key and one block.  A step is one      *)
(* iteration of a routine's loop, what precedes the loop being its first   *)
(* step.  Words are read and written on aligned addresses, so a word xor   *)
(* is four byte xors.                                                      *)
(***************************************************************************)
EXTENDS Bytes, Sequences

CONSTANT Vectors      \* the keys and blocks to work on: [key, input]

VARIABLES
  pc,                 \* the routine that runs
  i,                  \* its loop variable
  vector,             \* the key and the block chosen
  Rcon,               \* of aes_keyexpand128
  keyexp, expkey,     \* the output arrays of the two key expansions
  dest, out,          \* the output of the two encryptions
  decoded,            \* the output of the decryption
  rounds              \* history: dest after each round of the first one

software == <<pc, i, vector, Rcon, keyexp, expkey, dest, out, decoded, rounds>>

-----------------------------------------------------------------------------
(* aestab.c.                                                               *)

SboxBytes ==
 <<\h63, \h7C, \h77, \h7B, \hF2, \h6B, \h6F, \hC5, \h30, \h01, \h67, \h2B, \hFE, \hD7, \hAB, \h76,
    \hCA, \h82, \hC9, \h7D, \hFA, \h59, \h47, \hF0, \hAD, \hD4, \hA2, \hAF, \h9C, \hA4, \h72, \hC0,
    \hB7, \hFD, \h93, \h26, \h36, \h3F, \hF7, \hCC, \h34, \hA5, \hE5, \hF1, \h71, \hD8, \h31, \h15,
    \h04, \hC7, \h23, \hC3, \h18, \h96, \h05, \h9A, \h07, \h12, \h80, \hE2, \hEB, \h27, \hB2, \h75,
    \h09, \h83, \h2C, \h1A, \h1B, \h6E, \h5A, \hA0, \h52, \h3B, \hD6, \hB3, \h29, \hE3, \h2F, \h84,
    \h53, \hD1, \h00, \hED, \h20, \hFC, \hB1, \h5B, \h6A, \hCB, \hBE, \h39, \h4A, \h4C, \h58, \hCF,
    \hD0, \hEF, \hAA, \hFB, \h43, \h4D, \h33, \h85, \h45, \hF9, \h02, \h7F, \h50, \h3C, \h9F, \hA8,
    \h51, \hA3, \h40, \h8F, \h92, \h9D, \h38, \hF5, \hBC, \hB6, \hDA, \h21, \h10, \hFF, \hF3, \hD2,
    \hCD, \h0C, \h13, \hEC, \h5F, \h97, \h44, \h17, \hC4, \hA7, \h7E, \h3D, \h64, \h5D, \h19, \h73,
    \h60, \h81, \h4F, \hDC, \h22, \h2A, \h90, \h88, \h46, \hEE, \hB8, \h14, \hDE, \h5E, \h0B, \hDB,
    \hE0, \h32, \h3A, \h0A, \h49, \h06, \h24, \h5C, \hC2, \hD3, \hAC, \h62, \h91, \h95, \hE4, \h79,
    \hE7, \hC8, \h37, \h6D, \h8D, \hD5, \h4E, \hA9, \h6C, \h56, \hF4, \hEA, \h65, \h7A, \hAE, \h08,
    \hBA, \h78, \h25, \h2E, \h1C, \hA6, \hB4, \hC6, \hE8, \hDD, \h74, \h1F, \h4B, \hBD, \h8B, \h8A,
    \h70, \h3E, \hB5, \h66, \h48, \h03, \hF6, \h0E, \h61, \h35, \h57, \hB9, \h86, \hC1, \h1D, \h9E,
    \hE1, \hF8, \h98, \h11, \h69, \hD9, \h8E, \h94, \h9B, \h1E, \h87, \hE9, \hCE, \h55, \h28, \hDF,
    \h8C, \hA1, \h89, \h0D, \hBF, \hE6, \h42, \h68, \h41, \h99, \h2D, \h0F, \hB0, \h54, \hBB, \h16>>

InvSboxBytes ==
 <<\h52, \h09, \h6A, \hD5, \h30, \h36, \hA5, \h38, \hBF, \h40, \hA3, \h9E, \h81, \hF3, \hD7, \hFB,
    \h7C, \hE3, \h39, \h82, \h9B, \h2F, \hFF, \h87, \h34, \h8E, \h43, \h44, \hC4, \hDE, \hE9, \hCB,
    \h54, \h7B, \h94, \h32, \hA6, \hC2, \h23, \h3D, \hEE, \h4C, \h95, \h0B, \h42, \hFA, \hC3, \h4E,
    \h08, \h2E, \hA1, \h66, \h28, \hD9, \h24, \hB2, \h76, \h5B, \hA2, \h49, \h6D, \h8B, \hD1, \h25,
    \h72, \hF8, \hF6, \h64, \h86, \h68, \h98, \h16, \hD4, \hA4, \h5C, \hCC, \h5D, \h65, \hB6, \h92,
    \h6C, \h70, \h48, \h50, \hFD, \hED, \hB9, \hDA, \h5E, \h15, \h46, \h57, \hA7, \h8D, \h9D, \h84,
    \h90, \hD8, \hAB, \h00, \h8C, \hBC, \hD3, \h0A, \hF7, \hE4, \h58, \h05, \hB8, \hB3, \h45, \h06,
    \hD0, \h2C, \h1E, \h8F, \hCA, \h3F, \h0F, \h02, \hC1, \hAF, \hBD, \h03, \h01, \h13, \h8A, \h6B,
    \h3A, \h91, \h11, \h41, \h4F, \h67, \hDC, \hEA, \h97, \hF2, \hCF, \hCE, \hF0, \hB4, \hE6, \h73,
    \h96, \hAC, \h74, \h22, \hE7, \hAD, \h35, \h85, \hE2, \hF9, \h37, \hE8, \h1C, \h75, \hDF, \h6E,
    \h47, \hF1, \h1A, \h71, \h1D, \h29, \hC5, \h89, \h6F, \hB7, \h62, \h0E, \hAA, \h18, \hBE, \h1B,
    \hFC, \h56, \h3E, \h4B, \hC6, \hD2, \h79, \h20, \h9A, \hDB, \hC0, \hFE, \h78, \hCD, \h5A, \hF4,
    \h1F, \hDD, \hA8, \h33, \h88, \h07, \hC7, \h31, \hB1, \h12, \h10, \h59, \h27, \h80, \hEC, \h5F,
    \h60, \h51, \h7F, \hA9, \h19, \hB5, \h4A, \h0D, \h2D, \hE5, \h7A, \h9F, \h93, \hC9, \h9C, \hEF,
    \hA0, \hE0, \h3B, \h4D, \hAE, \h2A, \hF5, \hB0, \hC8, \hEB, \hBB, \h3C, \h83, \h53, \h99, \h61,
    \h17, \h2B, \h04, \h7E, \hBA, \h77, \hD6, \h26, \hE1, \h69, \h14, \h63, \h55, \h21, \h0C, \h7D>>

Sbox == [x \in Byte |-> SboxBytes[x + 1]]
InvSbox == [x \in Byte |-> InvSboxBytes[x + 1]]

(* The remaining tables hold multiples of x or of Sbox[x] in GF(2^8).      *)
Twice(x) == ((2 * x) % 256) ^^ (IF x >= 128 THEN \h1B ELSE 0)
TwiceT == [x \in Byte |-> Twice(x)]
Xtime2Sbox == [x \in Byte |-> Twice(Sbox[x])]
Xtime3Sbox == [x \in Byte |-> Twice(Sbox[x]) ^^ Sbox[x]]
Xtime9 == [x \in Byte |-> TwiceT[TwiceT[TwiceT[x]]] ^^ x]
XtimeB == [x \in Byte |-> Xtime9[x] ^^ TwiceT[x]]
XtimeD == [x \in Byte |-> Xtime9[x] ^^ TwiceT[TwiceT[x]]]
XtimeE == [x \in Byte |-> (XtimeD[x] ^^ TwiceT[x]) ^^ x]

(* The tables of the accelerated encryption, read as words of four bytes:  *)
(* a column of the mixing matrix times Sbox[x], turned by a byte from one  *)
(* table to the next.                                                      *)
aestab_SBox0 == [x \in Byte |-> <<Xtime2Sbox[x], Sbox[x], Sbox[x], Xtime3Sbox[x]>>]
aestab_SBox1 == [x \in Byte |-> <<Xtime3Sbox[x], Xtime2Sbox[x], Sbox[x], Sbox[x]>>]
aestab_SBox2 == [x \in Byte |-> <<Sbox[x], Xtime3Sbox[x], Xtime2Sbox[x], Sbox[x]>>]
aestab_SBox3 == [x \in Byte |-> <<Sbox[x], Sbox[x], Xtime3Sbox[x], Xtime2Sbox[x]>>]
aestab_SBox == <<aestab_SBox0, aestab_SBox1, aestab_SBox2, aestab_SBox3>>

-----------------------------------------------------------------------------
Nb == 4
Nk == 4
Nr == 10

KeyBytes == 0 .. 4 * Nb * (Nr + 1) - 1

(* Array a with the bytes of the sequence s stored from offset on.         *)
Written(a, offset, s) ==
  [n \in DOMAIN a |->
     IF n - offset + 1 \in DOMAIN s THEN s[n - offset + 1] ELSE a[n]]

Bytes16(b) == [n \in 1 .. 16 |-> b[n - 1]]
RoundKey(exp, r) == [n \in Index |-> exp[16 * r + n]]

Goto(routine, n) == pc' = routine /\ i' = n

Init ==
  /\ pc = "aes_keyexpand128"
  /\ i = 0
  /\ vector \in Vectors
  /\ Rcon = 0
  /\ keyexp = [n \in KeyBytes |-> 0] /\ expkey = keyexp
  /\ dest = [n \in Index |-> 0] /\ out = dest /\ decoded = dest
  /\ rounds = <<>>

-----------------------------------------------------------------------------
(* The two key expansions.  Rcon is doubled in GF(2^8) by shifts alone.    *)

NextRconUnreduced(r) == shiftR(r, 7) ^^ ((2 * r) & \hFE)         \* mutant

NextRcon(r) ==
  Xor4((2 * r) & \hFE, shiftR(r, 3) & \h10, shiftR(r, 4) & \h08,
       (shiftR(r, 6) & \h02) ^^ shiftR(r, 7))

KeyExpand128Copy ==
  /\ pc = "aes_keyexpand128" /\ i = 0
  /\ keyexp' = Written(keyexp, 0, Bytes16(vector.key))
  /\ Rcon' = 1
  /\ Goto(pc, 1)
  /\ UNCHANGED <<vector, expkey, dest, out, decoded, rounds>>

KeyExpand128Round ==
  /\ pc = "aes_keyexpand128" /\ i \in 1 .. Nr
  /\ LET p(j) == keyexp[16 * (i - 1) + j]
         w0 == <<(p(0) ^^ Sbox[p(13)]) ^^ Rcon, p(1) ^^ Sbox[p(14)],
                 p(2) ^^ Sbox[p(15)], p(3) ^^ Sbox[p(12)]>>
         w1 == [j \in 1 .. 4 |-> p(3 + j) ^^ w0[j]]
         w2 == [j \in 1 .. 4 |-> p(7 + j) ^^ w1[j]]
         w3 == [j \in 1 .. 4 |-> p(11 + j) ^^ w2[j]]
     IN  keyexp' = Written(keyexp, 16 * i, w0 \o w1 \o w2 \o w3)
  /\ Rcon' = NextRcon(Rcon)
  /\ IF i = Nr THEN Goto("ExpandKey", 0) ELSE Goto(pc, i + 1)
  /\ UNCHANGED <<vector, expkey, dest, out, decoded, rounds>>

ExpandKeyCopy ==
  /\ pc = "ExpandKey" /\ i = 0
  /\ expkey' = Written(expkey, 0, Bytes16(vector.key))
  /\ Goto(pc, Nk)
  /\ UNCHANGED <<vector, Rcon, keyexp, dest, out, decoded, rounds>>

Rcon_ == <<\h01, \h02, \h04, \h08, \h10, \h20, \h40, \h80, \h1B, \h36>>

(* Nk is 4, so the branch for keys of more than six words is dead.         *)
ExpandKeyWord ==
  /\ pc = "ExpandKey" /\ i # 0
  /\ LET e(j) == expkey[4 * i - 4 + j]
         tmp == IF i % Nk = 0
                THEN <<Sbox[e(1)] ^^ Rcon_[i \div Nk], Sbox[e(2)], Sbox[e(3)], Sbox[e(0)]>>
                ELSE <<e(0), e(1), e(2), e(3)>>
         word == [j \in 1 .. 4 |-> expkey[4 * i - 4 * Nk + j - 1] ^^ tmp[j]]
     IN  expkey' = Written(expkey, 4 * i, word)
  /\ IF i = Nb * (Nr + 1) - 1 THEN Goto("aes_blockenc_SWacc", 0) ELSE Goto(pc, i + 1)
  /\ UNCHANGED <<vector, Rcon, keyexp, dest, out, decoded, rounds>>

-----------------------------------------------------------------------------
(* aes_blockenc_SWacc: a round is four table words per column.             *)

SWaccFirst ==
  /\ pc = "aes_blockenc_SWacc" /\ i = 0
  /\ dest' = XorBlocks(vector.input, RoundKey(keyexp, 0))
  /\ rounds' = <<dest'>>
  /\ Goto(pc, 1)
  /\ UNCHANGED <<vector, Rcon, keyexp, expkey, out, decoded>>

TableByte(b, n) ==
  LET from(k) == aestab_SBox[k + 1][b[(4 * (n \div 4) + 5 * k) % 16]][(n % 4) + 1]
  IN  Xor4(from(0), from(1), from(2), from(3))

SWaccRound ==
  /\ pc = "aes_blockenc_SWacc" /\ i \in 1 .. Nr - 1
  /\ dest' = [n \in Index |-> TableByte(dest, n) ^^ RoundKey(keyexp, i)[n]]
  /\ rounds' = Append(rounds, dest')
  /\ Goto(pc, i + 1)
  /\ UNCHANGED <<vector, Rcon, keyexp, expkey, out, decoded>>

SWaccLast ==
  /\ pc = "aes_blockenc_SWacc" /\ i = Nr
  /\ LET temp == [n \in Index |-> Sbox[dest[(n * 5) % 16]]]
     IN  dest' = XorBlocks(temp, RoundKey(keyexp, Nr))
  /\ rounds' = Append(rounds, dest')
  /\ Goto("aes_blockenc_NOacc", 0)
  /\ UNCHANGED <<vector, Rcon, keyexp, expkey, out, decoded>>

-----------------------------------------------------------------------------
(* aes_blockenc_NOacc, with SubBytes folded into its two helpers.          *)

ShiftRowsBackwards(b) == [n \in Index |-> Sbox[b[(13 * n) % 16]]]    \* mutant

ShiftRows(b) == [n \in Index |-> Sbox[b[(5 * n) % 16]]]

(* Byte n is in row n % 4: the coefficient 2 stands on the diagonal.       *)
MixSubColumns(b) ==
  LET at(n, k) == b[(4 * (n \div 4) + 5 * ((n + k) % 4)) % 16]
  IN  [n \in Index |-> Xor4(Xtime2Sbox[at(n, 0)], Xtime3Sbox[at(n, 1)],
                            Sbox[at(n, 2)], Sbox[at(n, 3)])]

NOaccFirst ==
  /\ pc = "aes_blockenc_NOacc" /\ i = 0
  /\ out' = XorBlocks(vector.input, RoundKey(expkey, 0))
  /\ Goto(pc, 1)
  /\ UNCHANGED <<vector, Rcon, keyexp, expkey, dest, decoded, rounds>>

NOaccRound ==
  /\ pc = "aes_blockenc_NOacc" /\ i \in 1 .. Nr
  /\ out' = XorBlocks(IF i < Nr THEN MixSubColumns(out) ELSE ShiftRows(out),
                      RoundKey(expkey, i))
  /\ IF i = Nr THEN Goto("encrypted", 0) ELSE Goto(pc, i + 1)
  /\ UNCHANGED <<vector, Rcon, keyexp, expkey, dest, decoded, rounds>>

-----------------------------------------------------------------------------
(* Decrypt, of any block.                                                  *)

InvShiftRows(b) == [n \in Index |-> InvSbox[b[(13 * n) % 16]]]

InvMixSubColumnsSwapped(b) ==         \* mutant: two of the tables exchanged
  LET at(n, k) == b[4 * (((13 * n) % 16) \div 4) + ((n + k) % 4)]
  IN  [n \in Index |-> InvSbox[Xor4(XtimeE[at(n, 0)], XtimeD[at(n, 1)],
                                    XtimeB[at(n, 2)], Xtime9[at(n, 3)])]]

(* Row n % 4 of the inverse matrix; byte n comes from the column to which  *)
(* ShiftRows had moved it.                                                 *)
InvMixSubColumns(b) ==
  LET at(n, k) == b[4 * (((13 * n) % 16) \div 4) + ((n + k) % 4)]
  IN  [n \in Index |-> InvSbox[Xor4(XtimeE[at(n, 0)], XtimeB[at(n, 1)],
                                    XtimeD[at(n, 2)], Xtime9[at(n, 3)])]]

DecryptFirst(in) ==
  /\ pc = "Decrypt" /\ i = Nr
  /\ decoded' = InvShiftRows(XorBlocks(in, RoundKey(keyexp, Nr)))
  /\ Goto(pc, Nr - 1)
  /\ UNCHANGED <<vector, Rcon, keyexp, expkey, dest, out, rounds>>

DecryptRound ==
  /\ pc = "Decrypt" /\ i < Nr
  /\ LET keyed == XorBlocks(decoded, RoundKey(keyexp, i))
     IN  decoded' = IF i # 0 THEN InvMixSubColumns(keyed) ELSE keyed
  /\ IF i = 0 THEN Goto("checked", 0) ELSE Goto(pc, i - 1)
  /\ UNCHANGED <<vector, Rcon, keyexp, expkey, dest, out, rounds>>

Routine ==
  \/ KeyExpand128Copy \/ KeyExpand128Round
  \/ ExpandKeyCopy \/ ExpandKeyWord
  \/ SWaccFirst \/ SWaccRound \/ SWaccLast
  \/ NOaccFirst \/ NOaccRound
  \/ DecryptRound
=============================================================================
