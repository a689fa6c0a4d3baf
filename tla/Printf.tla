------------------------------- MODULE Printf -------------------------------
(***************************************************************************)
(* The two printers of the board support package that take a format and    *)
(* its arguments: alt_log_private_printf, of the log, with field widths    *)
(* and four bases, and alt_printf, with %c, %s and %x.  A character of the *)
(* format or a digit of a number is a step; what is put out is kept in     *)
(* out.  A word has Nibbles hexadecimal digits (eight in the code).        *)
(***************************************************************************)
EXTENDS Integers, Sequences, FiniteSetsExt

CONSTANTS
  Nibbles,
  Directives,    \* the directives: [zero, width, long, letter]
  Values         \* the words that are printed

VARIABLES
  printer,       \* "log" or "alt"
  asked,         \* the directives of the format, each with its argument
  fmt, args,     \* what is left of the format, and of the arguments
  state, spec,   \* state and fmtLeadingZero .. fmtCase of the log printer
  v, p,          \* the number being printed: what is left, the place
  out

vars == <<printer, asked, fmt, args, state, spec, v, p, out>>

W == 16^Nibbles
PrintfAssumption ==
  /\ Nibbles \in Nat \ {0} /\ Values \subseteq 0 .. W - 1
  /\ Directives \subseteq [zero : BOOLEAN, width : 0 .. 99, long : BOOLEAN,
                           letter : {"d", "i", "u", "o", "x", "X", "c", "s", "%"}]

Digits == <<"0", "1", "2", "3", "4", "5", "6", "7", "8", "9">>
Lower == Digits \o <<"a", "b", "c", "d", "e", "f">>
Upper == Digits \o <<"A", "B", "C", "D", "E", "F">>
Repeat(char, n) == [k \in 1 .. n |-> char]      \* alt_log_repchar: none when n < 0
Char == <<"A">>                                 \* the arguments of %c and %s
String == <<"h", "i">>

\* A directive in the format, with a character after it that is none.
Text(d) ==
  <<"%">> \o (IF d.zero THEN <<"0">> ELSE <<>>)
  \o (IF d.width > 9 THEN <<Digits[(d.width \div 10) + 1]>> ELSE <<>>)
  \o (IF d.width > 0 THEN <<Digits[(d.width % 10) + 1]>> ELSE <<>>)
  \o (IF d.long THEN <<"l">> ELSE <<>>) \o <<d.letter, ".">>
Plain(d) == ~d.zero /\ d.width = 0 /\ ~d.long /\ d.letter \in {"c", "s", "x", "%"}

NoSpec == [zero |-> FALSE, base |-> 10, signed |-> TRUE, upper |-> FALSE, before |-> -1, after |-> -1]

Init ==
  /\ printer \in {"log", "alt"}
  /\ asked \in [1 .. 2 -> [d : Directives, value : Values]]
  /\ printer = "alt" => Plain(asked[1].d) /\ Plain(asked[2].d)
  /\ fmt = Text(asked[1].d) \o Text(asked[2].d)
  /\ LET Takes(a) == a.d.letter # "%"
         taken == SelectSeq(asked, Takes)
     IN args = [k \in DOMAIN taken |-> taken[k].value]
  /\ state = "chars" /\ spec = NoSpec /\ v = 0 /\ p = 0 /\ out = <<>>

-----------------------------------------------------------------------------
(* alt_log_private_printf.                                                 *)

Put(chars) == out' = out \o chars
c == Head(fmt)
Reading(s) == printer = "log" /\ p = 0 /\ fmt # <<>> /\ state = s /\ fmt' = Tail(fmt)

Chars ==
  /\ Reading("chars")
  /\ IF c = "%" THEN state' = "first" /\ spec' = NoSpec /\ UNCHANGED out
     ELSE Put(<<c>>) /\ UNCHANGED <<state, spec>>
  /\ UNCHANGED <<printer, asked, args, v, p>>

FirstFmtChar ==
  /\ Reading("first") /\ c \in {"0", "%"}
  /\ IF c = "0" THEN state' = "other" /\ spec' = [spec EXCEPT !.zero = TRUE] /\ UNCHANGED out
     ELSE state' = "chars" /\ Put(<<"%">>) /\ UNCHANGED spec
  /\ UNCHANGED <<printer, asked, args, v, p>>

OtherFmtChar ==
  \/ Reading("other")
  \/ Reading("first") /\ c \notin {"0", "%"}

Digit ==
  /\ OtherFmtChar
  /\ \E k \in 0 .. 9 :
       /\ c = Digits[k + 1]
       /\ spec' = IF spec.after >= 0 THEN [spec EXCEPT !.after = 10 * @ + k]
                  ELSE [spec EXCEPT !.before = (IF @ < 0 THEN 0 ELSE 10 * @) + k]
  /\ state' = "other" /\ UNCHANGED <<printer, asked, args, v, p, out>>

Modifier ==
  /\ OtherFmtChar /\ c \in {".", "l"}
  /\ spec' = IF c = "." THEN [spec EXCEPT !.after = 0] ELSE spec
  /\ state' = "other" /\ UNCHANGED <<printer, asked, args, v, p, out>>

LargestPlaceOneMore(n, base) ==    \* mutant
  LET place[m \in 0 .. n] == IF m = 0 THEN 1 ELSE base * place[m \div base]
  IN place[n]

\* The largest power of the base that is not above the number, 1 for 0.
LargestPlace(n, base) ==
  LET place[m \in 0 .. n] == IF m < base THEN 1 ELSE base * place[m \div base]
  IN place[n]
DigitCount(n, base) ==
  LET count[m \in 0 .. n] == IF m < base THEN 1 ELSE 1 + count[m \div base]
  IN count[n]

Numbers == {"d", "i", "u", "o", "x", "X"}
BaseOf(letter) == CASE letter \in {"d", "i", "u"} -> 10 [] letter = "o" -> 8 [] OTHER -> 16

\* doIntegerPrint, up to the digits.
Integer ==
  /\ OtherFmtChar /\ c \in Numbers
  /\ LET signed == c \in {"d", "i"}
         sign == signed /\ Head(args) >= W \div 2
         n == IF sign THEN W - Head(args) ELSE Head(args)
         minus == IF sign THEN <<"-">> ELSE <<>>
         pad == spec.before - DigitCount(n, BaseOf(c)) - Len(minus)
     IN /\ v' = n /\ p' = LargestPlace(n, BaseOf(c))
        /\ Put(IF spec.zero THEN minus \o Repeat("0", pad) ELSE Repeat(" ", pad) \o minus)
        /\ spec' = [spec EXCEPT !.base = BaseOf(c), !.signed = signed, !.upper = c = "X"]
  /\ args' = Tail(args) /\ state' = "chars" /\ UNCHANGED <<printer, asked>>

NextDigit ==
  /\ printer = "log" /\ p # 0
  /\ Put(<<(IF spec.upper THEN Upper ELSE Lower)[(v \div p) + 1]>>)
  /\ v' = v % p /\ p' = p \div spec.base
  /\ UNCHANGED <<printer, asked, fmt, args, state, spec>>

\* Every other letter ends the directive.
Letter ==
  /\ OtherFmtChar /\ c \notin {".", "l"} \cup Numbers \cup {Digits[k] : k \in 1 .. 10}
  /\ CASE c = "c" -> Put(Repeat(" ", spec.before - 1) \o Char) /\ args' = Tail(args)
       [] c = "s" -> Put(Repeat(" ", spec.before - Len(String)) \o String) /\ args' = Tail(args)
       [] OTHER -> UNCHANGED <<out, args>>
  /\ state' = "chars" /\ UNCHANGED <<printer, asked, spec, v, p>>

-----------------------------------------------------------------------------
(* alt_printf.                                                             *)

Simple == printer = "alt" /\ p = 0 /\ fmt # <<>>

SimpleChar ==
  /\ Simple /\ c # "%" /\ Put(<<c>>) /\ fmt' = Tail(fmt)
  /\ UNCHANGED <<printer, asked, args, state, spec, v, p>>

\* A number other than 0 is printed from its first digit that is not 0.
SimpleLetter ==
  /\ Simple /\ c = "%" /\ Len(fmt) > 1 /\ fmt' = Tail(Tail(fmt))
  /\ LET letter == fmt[2]
         number == IF letter = "x" THEN Head(args) ELSE 0
     IN /\ CASE letter = "%" -> Put(<<"%">>)
             [] letter = "c" -> Put(Char)
             [] letter = "s" -> Put(String)
             [] letter = "x" /\ number = 0 -> Put(<<"0">>)
             [] OTHER -> UNCHANGED out
        /\ args' = IF letter \in {"x", "c", "s"} THEN Tail(args) ELSE args
        /\ v' = number /\ p' = IF number = 0 THEN 0 ELSE LargestPlace(number, 16)
  /\ UNCHANGED <<printer, asked, state, spec>>

SimpleDigit ==
  /\ printer = "alt" /\ p # 0 /\ Put(<<Lower[((v \div p) % 16) + 1]>>) /\ p' = p \div 16
  /\ UNCHANGED <<printer, asked, fmt, args, state, spec, v>>

Next ==
  \/ Chars \/ FirstFmtChar \/ Digit \/ Modifier \/ Integer \/ NextDigit \/ Letter
  \/ SimpleChar \/ SimpleLetter \/ SimpleDigit

Spec == Init /\ [][Next]_vars

-----------------------------------------------------------------------------
(* Properties.                                                             *)

\* What a directive promises: the number in its base, the field filled up.
Numeral(n, base) ==
  LET text[k \in 0 .. n] ==
        IF k < base THEN <<Lower[k + 1]>> ELSE text[k \div base] \o <<Lower[(k % base) + 1]>>
  IN text[n]
Capital(text) == [k \in DOMAIN text |-> Upper[CHOOSE j \in 1 .. 16 : Lower[j] = text[k]]]

Field(d, value) ==
  LET sign == d.letter \in {"d", "i"} /\ value >= W \div 2
      n == IF sign THEN W - value ELSE value
      numeral == Numeral(n, BaseOf(d.letter))
      text == CASE d.letter = "c" -> Char [] d.letter = "s" -> String [] d.letter = "%" -> <<"%">>
                [] d.letter = "X" -> Capital(numeral) [] OTHER -> numeral
      minus == IF sign THEN <<"-">> ELSE <<>>
      fill == IF d.letter = "%" THEN 0 ELSE Max({0, d.width - Len(text) - Len(minus)})
  IN IF d.zero /\ d.letter \in Numbers THEN minus \o Repeat("0", fill) \o text
     ELSE Repeat(" ", fill) \o minus \o text

(* What has been printed when the format ends is what its directives, each *)
(* with its own argument, promise, however long the fields and whatever    *)
(* the sign, the base and the number of digits.                            *)
PrintedBack ==
  fmt = <<>> /\ p = 0 =>
    out = Field(asked[1].d, asked[1].value) \o <<".">> \o Field(asked[2].d, asked[2].value) \o <<".">>
=============================================================================
