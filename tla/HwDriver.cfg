\* inputdata at 0, outputdata at 16, and a word behind it that is neither.
CONSTANTS
  Stage <- MCStage
  StageLast <- MCStageLast
  KeySchedule <- MCKeySchedule
  AddKey <- MCAddKey
  Zero <- MCZero
  AddrMod = 36
  LenMod = 4
  HeldReadData = TRUE
  Ops = {}
  Memories <- MCMemories
  Input <- MCInput
  Key <- MCKey
  Src = 0
  Dst = 16
  INPUT_LENGTH = 3
  MaxRestarts = 2
SPECIFICATION HwSpec
INVARIANTS JobAsProgrammed OneKey ResultReady
PROPERTIES ReportsCorrect
