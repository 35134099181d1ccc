SPECIFICATION Spec
CONSTANTS
  c1 = c1
  c2 = c2
  NoConn = NoConn
  Conns = {c1, c2}
  FDs <- OneFD
  Tasks = {"ping"}
  Inputs <- FewInputs
  MaxMsgs = 1
  InBuf = 1
  SndBuf = 2
  Timeout = 1
  CloseWakes = FALSE
  SigPipe = FALSE
INVARIANTS OnlyOwnFrames
CHECK_DEADLOCK FALSE
