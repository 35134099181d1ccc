SPECIFICATION Spec
CONSTANTS
  c1 = c1
  c2 = c2
  NoConn = NoConn
  Conns = {c1}
  FDs <- OneFD
  Tasks = {"ping"}
  Inputs <- ControlInputs
  MaxMsgs = 2
  InBuf = 1
  SndBuf = 2
  Timeout = 1
  CloseWakes = FALSE
  SigPipe = FALSE
INVARIANTS FramesContiguous
CHECK_DEADLOCK FALSE
