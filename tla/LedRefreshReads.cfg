\* A read right after a read gets the word of the one before.
SPECIFICATION Spec
CONSTANTS
  CLK_FREQ = 50000000
  FRAME_RATE = 60000
  C_PWM_BITS = 5
  Addresses = {0, 13}
  Versions = {1}
  BackToBack = TRUE
  MaxResets = 0
INVARIANT ReadsStored
