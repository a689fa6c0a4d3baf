----------------------------- MODULE LedMatrix -----------------------------
(***************************************************************************)
(* software/aes_aca/leds96_rgb.c and utils.c: text that runs over the LED  *)
(* matrix.  The LEDs are read and written in place through the registers   *)
(* of the LED controller, one register per step; the waits between two     *)
(* shifts (timer.c) are left to OneShotTimer.  Colours are what the caller *)
(* passes: the font's, the background's, or what a LED showed before.      *)
(***************************************************************************)
EXTENDS Integers, Sequences

CONSTANTS
  Texts,            \* sequences of character codes, without the final 0
  Font, Back        \* font_color and back_color

VARIABLES
  pc,               \* the loop that runs
  routine,          \* the function the program called
  text, position,   \* its argument and its loop variable
  blanks,           \* columns of background shifted in
  i, j, data,       \* loop variables and the byte of the shift functions
  leds,             \* the registers 0 .. 95 of the LED controller
  shifts            \* history: shifts completed since the call

vars == <<pc, routine, text, position, blanks, i, j, data, leds, shifts>>

Old(n) == <<"led", n>>
ColoursAssumption ==
  Font # Back /\ \A n \in 0 .. 95 : Old(n) \notin {Font, Back}

TextsAssumption == Texts \subseteq Seq(Nat)

-----------------------------------------------------------------------------
(* The font, three columns of five pixels and an empty one per character.  *)

ASCII_3x5 ==
 << \h000000, \h00B800, \h180018, \hF850F8, \h50F8A0, \h9820C8, \hD0A8D8, \h001800,
    \h008870, \h708800, \hA870A8, \h207020, \h00C080, \h202020, \h008000, \h186080,
    \h7888F0, \h80F890, \h90A8C8, \hF8A888, \hF82038, \hE8A8B8, \hE8A8F8, \hF80808,
    \hF8A8F8, \hF8A8B8, \h005000, \hD08000, \h885020, \h505050, \h205088, \h10A808,
    \hB08870, \hF828F8, \h50A8F8, \h8888F8, \h7088F8, \h88A8F8, \h0828F8, \hC88870,
    \hF820F8, \h88F888, \h788848, \hD820F8, \h8080F8, \hF830F8, \hF810F8, \h708870,
    \h1028F8, \hB0C870, \hD028F8, \h48A890, \h08F808, \hF880F8, \h78C078, \hF860F8,
    \hD820D8, \h38E038, \h98A8C8, \h0088F8, \h806018, \hF88800, \h100810, \h808080,
    \h001008, \h88F820, \h00D800, \h20F888, \h602030 >>

(* The position in the table from 0, for the codes from 32 to 126.         *)
IndexOf(c) ==
  IF c < 97 THEN c - 32
  ELSE IF c < 123 THEN c - 97 + 65 - 32
  ELSE c - 123 + 97 - 32

get_3x5_bmp(c) ==
  LET ret == IF c \in 32 .. 126 THEN ASCII_3x5[IndexOf(c) + 1] ELSE \hF8F8F8
  IN  ret \div 4

Byte(v, k) == (v \div <<1, 256, 65536, 16777216>>[k + 1]) % 256
Bit(v, y) == (v \div <<1, 2, 4, 8, 16, 32, 64, 128>>[y + 1]) % 2 = 1

(* char data = get_3x5_bmp(text[column>>2]) >> (8 * (column & 3))          *)
ColumnOf(t, column) == Byte(get_3x5_bmp(t[(column \div 4) + 1]), column % 4)

-----------------------------------------------------------------------------
Init ==
  /\ pc = "main"
  /\ routine = "none"
  /\ text = <<>> /\ position = 0 /\ blanks = 0
  /\ i = 0 /\ j = 0 /\ data = 0
  /\ leds = [n \in 0 .. 95 |-> Old(n)]
  /\ shifts = 0

Left == {"utils_display_text", "utils_display_text_and_stop"}
Routines == Left \cup {"leds96_shift_text_right"}

(* leds96_shift_text_right takes one position: its caller counts.          *)
Call ==
  /\ pc = "main" /\ routine = "none"
  /\ routine' \in Routines
  /\ text' \in Texts
  /\ pc' = "text"
  /\ UNCHANGED <<position, blanks, i, j, data, leds, shifts>>

(* while (text[position>>2] != '\0')                                       *)
NextColumn ==
  /\ pc = "text" /\ position < 4 * Len(text)
  /\ data' = ColumnOf(text, position)
  /\ position' = position + 1
  /\ IF routine \in Left THEN pc' = "left" /\ i' = 0 ELSE pc' = "right" /\ i' = 11
  /\ j' = 0
  /\ UNCHANGED <<routine, text, blanks, leds, shifts>>

BlanksOf(r) ==
  IF r = "utils_display_text" THEN 24            \* 12 of its own and
  ELSE IF r = "utils_display_text_and_stop" THEN 12 ELSE 0     \* these

NextBlank ==
  /\ pc = "text" /\ position = 4 * Len(text) /\ blanks < BlanksOf(routine)
  /\ blanks' = blanks + 1
  /\ data' = 0
  /\ pc' = "left" /\ i' = 0 /\ j' = 0
  /\ UNCHANGED <<routine, text, position, leds, shifts>>

Return ==
  /\ pc = "text" /\ position = 4 * Len(text) /\ blanks = BlanksOf(routine)
  /\ pc' = "main"
  /\ UNCHANGED <<routine, text, position, blanks, i, j, data, leds, shifts>>

-----------------------------------------------------------------------------
(* The two shifts: columns in the order of the loops, eight rows each.     *)

Copy(from, to) == leds' = [leds EXCEPT ![to] = leds[from]]

ShiftLeftFromTheEnd ==                  \* mutant: the last column first
  /\ pc = "left"
  /\ Copy((10 - i) + j + 1, (10 - i) + j)
  /\ j' = IF j = 84 THEN 0 ELSE j + 12
  /\ IF j < 84 THEN UNCHANGED <<i, pc>>
     ELSE IF i < 10 THEN i' = i + 1 /\ pc' = pc
     ELSE i' = 11 /\ pc' = "enter"
  /\ UNCHANGED <<routine, text, position, blanks, data, shifts>>

ShiftLeft ==
  /\ pc = "left"
  /\ Copy(i + j + 1, i + j)
  /\ j' = IF j = 84 THEN 0 ELSE j + 12
  /\ IF j < 84 THEN UNCHANGED <<i, pc>>
     ELSE IF i < 10 THEN i' = i + 1 /\ pc' = pc
     ELSE i' = 11 /\ pc' = "enter"
  /\ UNCHANGED <<routine, text, position, blanks, data, shifts>>

ShiftRight ==
  /\ pc = "right"
  /\ Copy(i + j - 1, i + j)
  /\ j' = IF j = 84 THEN 0 ELSE j + 12
  /\ IF j < 84 THEN UNCHANGED <<i, pc>>
     ELSE IF i > 1 THEN i' = i - 1 /\ pc' = pc
     ELSE i' = 0 /\ pc' = "enter"
  /\ UNCHANGED <<routine, text, position, blanks, data, shifts>>

(* The new column, a row per iteration, from the least significant bit.    *)
Enter ==
  /\ pc = "enter"
  /\ leds' = [leds EXCEPT ![i] = IF data % 2 = 1 THEN Font ELSE Back]
  /\ data' = data \div 2
  /\ i' = i + 12
  /\ IF i' >= 96 THEN pc' = "text" /\ shifts' = shifts + 1 ELSE UNCHANGED <<pc, shifts>>
  /\ UNCHANGED <<routine, text, position, blanks, j>>

Next == Call \/ NextColumn \/ NextBlank \/ Return \/ ShiftLeft \/ ShiftRight \/ Enter
Spec == Init /\ [][Next]_vars

-----------------------------------------------------------------------------
(* Properties.                                                             *)

(* What the table's comments say it holds: 32 .. 96 and, lower case being  *)
(* "not implemented" and shown as upper case, 123 .. 126.                  *)
Codes == [n \in 1 .. 69 |-> IF n <= 65 THEN n + 31 ELSE n + 57]
Pixels(c) ==
  LET upper == IF c \in 97 .. 122 THEN c - 32 ELSE c
  IN  IF \E n \in 1 .. 69 : Codes[n] = upper
      THEN ASCII_3x5[CHOOSE n \in 1 .. 69 : Codes[n] = upper]
      ELSE \hF8F8F8

(* Bit y of column k of a character, "shifted by 2 bits to center" it; the *)
(* bits of one column do not run into the next.                            *)
Pixel(c, k, y) ==
  y <= 5 /\ Bit(Byte(Pixels(c), k), y + 2)

(* The columns that have entered: the text's, then background.             *)
Entered(n, y) ==
  IF n < 4 * Len(text) /\ Pixel(text[(n \div 4) + 1], n % 4, y) THEN Font ELSE Back

(***************************************************************************)
(* Between two shifts the matrix is a window of twelve columns on a tape:  *)
(* what the LEDs showed, the text and background.  Every shift moves every *)
(* LED by one column although it copies them in place, and enters the      *)
(* right column of the right character.                                    *)
(***************************************************************************)
ScreenIsWindow ==
  pc \in {"main", "text"} =>
    \A x \in 0 .. 11, y \in 0 .. 7 :
      leds[x + 12 * y] =
        IF routine \in Left
        THEN IF x + shifts < 12 THEN Old(x + shifts + 12 * y)
             ELSE Entered(x + shifts - 12, y)
        ELSE IF x >= shifts THEN Old(x - shifts + 12 * y)
             ELSE Entered(shifts - 1 - x, y)
=============================================================================
