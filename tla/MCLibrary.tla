------------------------------ MODULE MCLibrary ------------------------------
(***************************************************************************)
(* The library of the demonstration program, one of its components at a    *)
(* time: text on the matrix, the canvas, the timer.  Init chooses which    *)
(* ("part"); x1 .. x15 are the variables of the chosen one, in the order   *)
(* in which it declares them, and those it does not need stay 0.           *)
(***************************************************************************)
EXTENDS Integers

CONSTANTS Font, Back

MCColours == {[a |-> 255, v |-> 200], [a |-> 0, v |-> 90], [a |-> 100, v |-> 30]}

(* Every pixel different; half of it transparent.                          *)
MCImages ==
  {[p \in (0 .. 11) \X (0 .. 7) |->
      [a |-> IF p[2] < 4 THEN 255 ELSE 0, v |-> 8 * p[1] + p[2]]]}

(* No bit, the corners, and every third bit.                               *)
MCBitmaps == {{}, {0, 7, 88, 95}, {b \in 0 .. 95 : b % 3 = 0}}

(* Inside, over a corner, empty, outside on the right and below; one that  *)
(* starts left of the canvas, and one above it.                            *)
MCRectangles ==
  { [x |-> 1, y |-> 2, w |-> 3, h |-> 2], [x |-> 10, y |-> 6, w |-> 5, h |-> 5],
    [x |-> 4, y |-> 4, w |-> 0, h |-> 3], [x |-> 12, y |-> 1, w |-> 2, h |-> 2],
    [x |-> 2, y |-> 9, w |-> 2, h |-> 2], [x |-> -1, y |-> 6, w |-> 3, h |-> 3],
    [x |-> 5, y |-> -2, w |-> 2, h |-> 4] }

(* "aZ", "5~" and a code the font does not have; no text at all.           *)
MCTexts == {<<97, 90>>, <<53, 126>>, <<31>>, <<>>}

-----------------------------------------------------------------------------
VARIABLES part,
  x1, x2, x3, x4, x5, x6, x7, x8, x9, x10, x11, x12, x13, x14, x15

after11 == <<x12, x13, x14, x15>>
after10 == <<x11, after11>>
allvars == <<part, x1, x2, x3, x4, x5, x6, x7, x8, x9, x10, after10>>
Zero11 == x12 = 0 /\ x13 = 0 /\ x14 = 0 /\ x15 = 0
Zero10 == x11 = 0 /\ Zero11

Matrix == INSTANCE LedMatrix WITH
  Texts <- MCTexts,
  pc <- x1, routine <- x2, text <- x3, position <- x4, blanks <- x5,
  i <- x6, j <- x7, data <- x8, leds <- x9, shifts <- x10

Canvas == INSTANCE LedCanvas WITH
  Colours <- MCColours, Images <- MCImages, Bitmaps <- MCBitmaps,
  Rectangles <- MCRectangles, MaxCalls <- 2,
  pc <- x1, call <- x2, calls <- x3, i <- x4, j <- x5, x <- x6, y <- x7,
  canvas <- x8, leds <- x9, before <- x10, stray <- x11

Timer == INSTANCE OneShotTimer WITH
  Half <- 4, FREQ <- 3000, BASE <- 1000, Delays <- {1, 2, 5}, MaxCalls <- 3,
  pc <- x1, routine <- x2, ms <- x3, calls <- x4, periodLow <- x5,
  periodHigh <- x6, count <- x7, running <- x8, timeout <- x9, snap <- x10,
  period <- x11, value <- x12, started <- x13, since <- x14, atCall <- x15

ASSUME Assumptions ==
  /\ Matrix!ColoursAssumption /\ Matrix!TextsAssumption
  /\ Canvas!ColoursAssumption /\ Canvas!ImagesAssumption /\ Canvas!RectanglesAssumption
  /\ Timer!DelaysAssumption

-----------------------------------------------------------------------------
LibraryInit ==
  \/ part = "text" /\ Matrix!Init /\ Zero10
  \/ part = "canvas" /\ Canvas!Init /\ Zero11
  \/ part = "timer" /\ Timer!Init

LibraryNext ==
  \/ part = "text" /\ Matrix!Next /\ UNCHANGED <<part, after10>>
  \/ part = "canvas" /\ Canvas!Next /\ UNCHANGED <<part, after11>>
  \/ part = "timer" /\ Timer!Next /\ UNCHANGED part

(* The fairness of OneShotTimer.                                           *)
TimerSteps(step) == part = "timer" /\ step /\ UNCHANGED part

LibrarySpec ==
  /\ LibraryInit /\ [][LibraryNext]_allvars
  /\ WF_allvars(TimerSteps(Timer!Tick))
  /\ WF_allvars(TimerSteps(Timer!Step))

(* The canvas alone.                                                       *)
CanvasSpec == LibraryInit /\ part = "canvas" /\ [][LibraryNext]_allvars

-----------------------------------------------------------------------------
(* Properties: those of the components.                                    *)

(* Between two shifts the matrix is a window on old picture, text and      *)
(* background, although the shifts copy the registers in place.            *)
ScreenIsWindow == part = "text" => Matrix!ScreenIsWindow

(* A bitmap is drawn column by column, a byte of it each, and a rectangle  *)
(* fills its pixels on the matrix, whatever was drawn before.  A call      *)
(* whose corner is not left of the matrix or above changes nothing else,   *)
(* on the canvas or in the memory around it.                               *)
CanvasDrawn ==
  part = "canvas" =>
    Canvas!TypeOK /\ Canvas!BitmapByColumns /\ Canvas!RectangleFilled /\ Canvas!StaysInside

(* Transparent bits of a bitmap leave the canvas as it is.                 *)
TransparentBits == part = "canvas" => Canvas!TransparentBits

(* The elapsed time of the global timer is a time between call and return, *)
(* although the counter moves while its halves are read.                   *)
GlobalInMs == part = "timer" => Timer!TypeOK /\ Timer!GlobalInMs

(* A wait lasts its delay, whatever the timer was doing when it was set up *)
(* again.                                                                  *)
WaitsLongEnough == [][part = "timer" => Timer!WaitedLongEnough]_allvars

(* A wait returns: the timeout is not lost between start and poll.         *)
WaitReturns == (part = "timer" /\ x1 = "poll") ~> x1 # "poll"
=============================================================================
