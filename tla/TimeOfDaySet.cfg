\* A time is set and read back in the same tick.
SPECIFICATION Spec
CONSTANTS
  W = 32
  US = 12
  Rates = {0, 3, 4, 5}
  Seconds = {0, 1, 9}
  Fractions = {0, 5, 11}
INVARIANT GetAfterSet
CHECK_DEADLOCK FALSE
