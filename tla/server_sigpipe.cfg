SPECIFICATION Spec
CONSTANTS
  c1 = c1
  c2 = c2
  NoConn = NoConn
  Conns = {c1, c2}
  FDs <- TwoFDs
  Tasks = {"ping"}
  Inputs <- FewInputs
  MaxMsgs = 1
  InBuf = 1
  SndBuf = 2
  Timeout = 1
  CloseWakes = FALSE
  SigPipe = TRUE
PROPERTIES SessionEndsForCause
CHECK_DEADLOCK FALSE
