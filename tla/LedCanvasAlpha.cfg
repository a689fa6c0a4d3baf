\* A transparent bitmap over a canvas that is not what the LEDs show.
CONSTANTS
  Font = Font
  Back = Back
SPECIFICATION CanvasSpec
INVARIANT TransparentBits
CHECK_DEADLOCK FALSE
