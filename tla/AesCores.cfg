\* Start, key and block change at every edge, and reset may be asserted at any
\* time.
CONSTANTS
  Stage <- MCStage
  StageLast <- MCStageLast
  KeySchedule <- MCKeySchedule
  AddKey <- MCAddKey
  Zero <- MCZero
  Blocks <- MCBlocks
  Keys <- MCKeys
SPECIFICATION CoresSpec
INVARIANTS InStep StagesInStep
PROPERTIES ImplementsUnit BusyEnds
