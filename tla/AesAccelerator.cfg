\* A processor that writes any register at any clock: one write to start a
\* job of one block or of length 0 (two blocks), and two more, before it or in
\* the middle of it.
CONSTANTS
  Stage <- MCStage
  StageLast <- MCStageLast
  KeySchedule <- MCKeySchedule
  AddKey <- MCAddKey
  Zero <- MCZero
  AddrMod <- MCAddrMod
  LenMod = 2
  HeldReadData = TRUE
  Ops <- MCOps
  Memories <- MCMemories
  MaxOps = 3
SPECIFICATION MCSpec
INVARIANTS Handshake WritesCiphertext BlockFetched BlocksCounted Scattered Delivered
PROPERTIES MasterHolds
