SPECIFICATION TestSpec
CONSTANTS
  Window = 2047
  MaxChunk = 10
  Inputs <- Repetition
INVARIANT SameOutput
CHECK_DEADLOCK FALSE
