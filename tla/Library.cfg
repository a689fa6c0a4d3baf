\* Every routine of the text display on every text; two calls of any routines
\* of the canvas; three calls of the timer, of delays of up to the width of its
\* counter.  The parts end when they have made their calls.
CONSTANTS
  Font = Font
  Back = Back
SPECIFICATION LibrarySpec
INVARIANTS ScreenIsWindow CanvasDrawn GlobalInMs
PROPERTIES WaitsLongEnough WaitReturns
CHECK_DEADLOCK FALSE
