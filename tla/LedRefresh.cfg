\* One address, reads and writes of it and a reset at any clock.
SPECIFICATION Spec
CONSTANTS
  CLK_FREQ = 50000000
  FRAME_RATE = 60000
  C_PWM_BITS = 5
  Addresses = {13}
  Versions = {1}
  BackToBack = FALSE
  MaxResets = 1
INVARIANTS ColumnShown ReadsStored
PROPERTIES DeadCycle ReadAnswered Refreshed
