\* The parts have their constants in MCHal.  A program that has made all its
\* calls ends.
SPECIFICATION HalSpec
INVARIANTS BytesKept DescriptorsOwned AlarmOnTime  FlashAsWritten
  PrintedBack MemoryCoherent HandlersAsAsked CallsRecorded
PROPERTIES CallsReturn LockExcludes
CHECK_DEADLOCK FALSE
