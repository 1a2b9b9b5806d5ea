CONSTANT
  MaxCmds = 3
SPECIFICATION Spec
INVARIANTS FramingKept OwnAnswer
PROPERTIES Answered ThreadFreed
CHECK_DEADLOCK FALSE
