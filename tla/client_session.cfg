SPECIFICATION ClosingSpec
CONSTANTS
  Inputs <- KindsOfInput
  MaxMsgs = 2
  MaxRandom = 2
  SndBuf = 2
  SigPipe = TRUE
INVARIANTS TypeOK HelloFirst RandomIdsInOrder PongsInOrder BinaryContiguous
           NoUseAfterClose Released
PROPERTIES Exits
CHECK_DEADLOCK FALSE
