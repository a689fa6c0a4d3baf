----------------------------- MODULE LedCanvas -----------------------------
(***************************************************************************)
(* The frame canvas of software/aes_aca/leds96_rgb.c: what is drawn on it, *)
(* pixel by pixel in the order of the loops, and its copy to the LEDs.     *)
(* A colour is its alpha and one channel: the three channels of the source *)
(* are treated alike.  The canvas is a function of x and y, the LEDs of    *)
(* their register.  Coordinates are signed, and the routines test them     *)
(* against the right and the lower border only: canvas[x][y] is the word   *)
(* 8*x + y from its start, inside the array or not.  What lies outside,    *)
(* other variables or the registers of other devices, is not modelled,     *)
(* only that it is written.                                                *)
(***************************************************************************)
EXTENDS Integers

CONSTANTS
  Colours,          \* what the caller draws with: [a, v]
  Images,           \* functions from pixels to colours
  Bitmaps,          \* sets of the numbers of the bits that are 1, 0 .. 95
  Rectangles,       \* [x, y, w, h], the corners also those of the pixels drawn
  MaxCalls          \* bounds the calls of a behaviour

Xs == 0 .. 11
Ys == 0 .. 7
Pixels == Xs \X Ys
Channels == 0 .. 255

Colour == [a : Channels, v : Channels]
ColoursAssumption == Colours \subseteq Colour
ImagesAssumption == Images \subseteq [Pixels -> Colour]
\* Sums and addresses of such coordinates do not overflow.
Coordinate == -10000 .. 10000
RectanglesAssumption ==
  Rectangles \subseteq [x : Coordinate, y : Coordinate, w : Coordinate, h : Coordinate]

VARIABLES
  pc, call, calls,  \* the routine that runs and its arguments
  i, j, x, y,       \* its loop variables
  canvas, leds,
  before,           \* history: the canvas at the call,
  stray             \* words outside the canvas, or registers outside the
                    \* matrix, that the call has written

vars == <<pc, call, calls, i, j, x, y, canvas, leds, before, stray>>

NoCall == [routine |-> "none"]

Init ==
  /\ pc = "main" /\ call = NoCall /\ calls = 0
  /\ i = 0 /\ j = 0 /\ x = 0 /\ y = 0
  /\ canvas = [p \in Pixels |-> [a |-> 0, v |-> 0]]
  /\ leds = [n \in 0 .. 95 |-> [a |-> 0, v |-> 0]]
  /\ before = canvas /\ stray = {}

-----------------------------------------------------------------------------

apply_alpha(front, back) ==
  [a |-> 255, v |-> (back.v * (255 - front.a) + front.v * front.a) \div 255]

(* The routines that go over the whole matrix in one order or another and  *)
(* touch every pixel by itself.                                            *)
Begin(c) ==
  /\ pc = "main" /\ calls < MaxCalls
  /\ call' = c /\ calls' = calls + 1
  /\ before' = canvas

Whole(c, newCanvas, newLeds) ==
  /\ Begin(c)
  /\ canvas' = newCanvas /\ leds' = newLeds /\ stray' = {}
  /\ UNCHANGED <<pc, i, j, x, y>>

leds96_reset == Whole([routine |-> "leds96_reset"], canvas,
                      [n \in 0 .. 95 |-> [a |-> 0, v |-> 0]])

OnMatrix(px, py) == px < 12 /\ py < 8
Word(px, py) == 8 * px + py
PixelAt(n) == <<n \div 8, n % 8>>
Stray(n) == {n} \ (0 .. 95)

PixelCall(routine, px, py) ==
  Begin([routine |-> routine, rect |-> [x |-> px, y |-> py, w |-> 1, h |-> 1]])

leds96_draw_pixel(px, py, c) ==
  LET n == px + py * 12
  IN /\ PixelCall("leds96_draw_pixel", px, py)
     /\ leds' = [m \in 0 .. 95 |-> IF OnMatrix(px, py) /\ m = n THEN c ELSE leds[m]]
     /\ stray' = IF OnMatrix(px, py) THEN Stray(n) ELSE {}
     /\ UNCHANGED <<pc, i, j, x, y, canvas>>

leds96_draw_image(data) ==
  Whole([routine |-> "leds96_draw_image"], canvas,
        [n \in 0 .. 95 |-> data[<<n % 12, n \div 12>>]])

leds96_display_canvas ==
  Whole([routine |-> "leds96_display_canvas"], canvas,
        [n \in 0 .. 95 |-> canvas[<<n % 12, n \div 12>>]])

leds96_canvas_reset(c) ==
  Whole([routine |-> "leds96_canvas_reset"], [p \in Pixels |-> c], leds)

leds96_canvas_draw_pixel(px, py, c) ==
  LET n == Word(px, py)
  IN /\ PixelCall("leds96_canvas_draw_pixel", px, py)
     /\ canvas' = [p \in Pixels |-> IF OnMatrix(px, py) /\ p = PixelAt(n) THEN c ELSE canvas[p]]
     /\ stray' = IF OnMatrix(px, py) THEN Stray(n) ELSE {}
     /\ UNCHANGED <<pc, i, j, x, y, leds>>

leds96_canvas_draw_image(data) ==
  Whole([routine |-> "leds96_canvas_draw_image"], data, leds)

leds96_canvas_draw_image_alpha(data) ==
  Whole([routine |-> "leds96_canvas_draw_image_alpha", data |-> data],
        [p \in Pixels |-> apply_alpha(data[p], canvas[p])], leds)

-----------------------------------------------------------------------------
(* leds96_canvas_draw_bitmap and its variant with alpha: three words of 32 *)
(* bits, the position advancing by itself.                                 *)

BitmapCall(bits, c0, c1, alpha) ==
  /\ Begin([routine |-> "bitmap", bits |-> bits, c0 |-> c0, c1 |-> c1, alpha |-> alpha])
  /\ pc' = "bitmap"
  /\ i' = 0 /\ j' = 0 /\ x' = 0 /\ y' = 0 /\ stray' = {}
  /\ UNCHANGED <<canvas, leds>>

AdvanceByRows ==                        \* mutant: twelve pixels to a row
  IF j % 12 = 11 THEN x' = 0 /\ y' = (y + 1) % 8 ELSE x' = (x + 1) % 12 /\ y' = y

Advance ==
  IF j % 8 = 7 THEN y' = 0 /\ x' = x + 1 ELSE y' = y + 1 /\ x' = x

(* The variant with alpha blends with "the current color", which it reads  *)
(* from LED x+y.                                                           *)
BitmapPixel ==
  /\ pc = "bitmap" /\ i < 3
  /\ LET c == IF 32 * i + j \in call.bits THEN call.c1 ELSE call.c0
     IN  canvas' = [canvas EXCEPT ![PixelAt(Word(x, y))] =
                      IF call.alpha THEN apply_alpha(c, leds[x + y]) ELSE c]
  /\ stray' = stray \cup Stray(Word(x, y))
  /\ Advance
  /\ IF j = 31 THEN j' = 0 /\ i' = i + 1 ELSE j' = j + 1 /\ i' = i
  /\ UNCHANGED <<pc, call, calls, leds, before>>

BitmapReturn ==
  /\ pc = "bitmap" /\ i = 3
  /\ pc' = "main"
  /\ UNCHANGED <<call, calls, i, j, x, y, canvas, leds, before, stray>>

-----------------------------------------------------------------------------
(* leds96_canvas_fill_rect and its variant with alpha, clipped on the      *)
(* right and below, and not on the left and above.                         *)

RectCall(r, c, alpha) ==
  /\ Begin([routine |-> "rect", rect |-> r, c |-> c, alpha |-> alpha])
  /\ pc' = "rect"
  /\ i' = r.x /\ j' = r.y /\ stray' = {}
  /\ UNCHANGED <<x, y, canvas, leds>>

InColumns == i < call.rect.x + call.rect.w /\ i < 12
InRows == j < call.rect.y + call.rect.h /\ j < 8

RectPixel ==
  /\ pc = "rect" /\ InColumns /\ InRows
  /\ canvas' = [p \in Pixels |->
                  IF p # PixelAt(Word(i, j)) THEN canvas[p]
                  ELSE IF call.alpha THEN apply_alpha(call.c, canvas[p]) ELSE call.c]
  /\ stray' = stray \cup Stray(Word(i, j))
  /\ j' = j + 1
  /\ UNCHANGED <<pc, call, calls, i, x, y, leds, before>>

RectColumn ==
  /\ pc = "rect" /\ InColumns /\ ~InRows
  /\ i' = i + 1 /\ j' = call.rect.y
  /\ UNCHANGED <<pc, call, calls, x, y, canvas, leds, before, stray>>

RectReturn ==
  /\ pc = "rect" /\ ~InColumns
  /\ pc' = "main"
  /\ UNCHANGED <<call, calls, i, j, x, y, canvas, leds, before, stray>>

Next ==
  \/ leds96_reset
  \/ leds96_display_canvas
  \/ \E c \in Colours : leds96_canvas_reset(c)
  \/ \E r \in Rectangles, c \in Colours : leds96_draw_pixel(r.x, r.y, c)
  \/ \E r \in Rectangles, c \in Colours : leds96_canvas_draw_pixel(r.x, r.y, c)
  \/ \E data \in Images : leds96_draw_image(data)
  \/ \E data \in Images : leds96_canvas_draw_image(data)
  \/ \E data \in Images : leds96_canvas_draw_image_alpha(data)
  \/ \E bits \in Bitmaps, c0, c1 \in Colours, alpha \in BOOLEAN :
       BitmapCall(bits, c0, c1, alpha)
  \/ BitmapPixel \/ BitmapReturn
  \/ \E r \in Rectangles, c \in Colours, alpha \in BOOLEAN : RectCall(r, c, alpha)
  \/ RectPixel \/ RectColumn \/ RectReturn

Spec == Init /\ [][Next]_vars

-----------------------------------------------------------------------------
(* Properties, of the canvas when a routine has returned.                  *)

Returned(r) == pc = "main" /\ call.routine = r

TypeOK ==
  /\ pc \in {"main", "bitmap", "rect"}
  /\ DOMAIN canvas = Pixels
  /\ DOMAIN leds = 0 .. 95
  /\ \A p \in Pixels : canvas[p].a \in Channels /\ canvas[p].v \in Channels

(***************************************************************************)
(* "bit 0 is on the top left and we continue counting vertically with the  *)
(* pixel below. Therefore each byte represent a column." (lines 141-143)   *)
(***************************************************************************)
BitmapByColumns ==
  Returned("bitmap") /\ ~call.alpha =>
    \A p \in Pixels :
      canvas[p] = IF 8 * p[1] + p[2] \in call.bits THEN call.c1 ELSE call.c0

(***************************************************************************)
(* Nothing is stored outside of the canvas and the matrix but by a call    *)
(* whose corner is left of them or above: that is for the caller to avoid. *)
(***************************************************************************)
Negative == call.rect.x < 0 \/ call.rect.y < 0

StaysInside ==
  stray # {} =>
    /\ call.routine \in {"leds96_draw_pixel", "leds96_canvas_draw_pixel", "rect"}
    /\ Negative

(***************************************************************************)
(* A rectangle, of which part or all may lie outside of the matrix, fills  *)
(* those of its pixels that lie on it; with alpha, a transparent colour    *)
(* changes no channel, and an opaque one covers.  It changes no others,    *)
(* unless it starts above: its first rows are then the last pixels of the  *)
(* columns before, and a pixel may be blended more than once.              *)
(***************************************************************************)
Covered(c, new, old) ==
  /\ new.a = 255
  /\ c.a = 0 => new.v = old.v
  /\ c.a = 255 => new.v = c.v
  /\ new.v <= old.v \/ new.v <= c.v
  /\ new.v >= old.v \/ new.v >= c.v

InRect(p) ==
  /\ p[1] >= call.rect.x /\ p[1] < call.rect.x + call.rect.w
  /\ p[2] >= call.rect.y /\ p[2] < call.rect.y + call.rect.h

RectangleFilled ==
  Returned("rect") =>
    \A p \in Pixels :
      /\ InRect(p) => IF call.alpha THEN Covered(call.c, canvas[p], before[p])
                      ELSE canvas[p] = call.c
      /\ ~InRect(p) /\ call.rect.y >= 0 => canvas[p] = before[p]

(***************************************************************************)
(* "Similar to leds96_canvas_draw_bitmap_alpha, but takes the alpha        *)
(* channel into account" (line 177): transparent bits leave the canvas as  *)
(* it is.                                                                  *)
(***************************************************************************)
TransparentBits ==
  Returned("bitmap") /\ call.alpha /\ call.c0.a = 0 /\ call.c1.a = 0 =>
    \A p \in Pixels : canvas[p].v = before[p].v
=============================================================================
