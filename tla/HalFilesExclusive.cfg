\* TIOCEXCL on a device that a second descriptor has open.
SPECIFICATION FilesSpec
PROPERTY ExclusiveAlone
CHECK_DEADLOCK FALSE
