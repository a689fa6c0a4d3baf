\* timer_elapsed divides by an address.
SPECIFICATION Spec
CONSTANTS
  Half = 4
  FREQ = 3000
  BASE = 1000
  Delays = {1, 2, 5}
  MaxCalls = 3
INVARIANTS UserInMs
CHECK_DEADLOCK FALSE
