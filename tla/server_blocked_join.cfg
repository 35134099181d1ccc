SPECIFICATION FairSpec
CONSTANTS
  c1 = c1
  c2 = c2
  NoConn = NoConn
  Conns = {c1}
  FDs <- OneFD
  Tasks = {"ping"}
  Inputs <- FewInputs
  MaxMsgs = 1
  InBuf = 1
  SndBuf = 2
  Timeout = 1
  CloseWakes = FALSE
  SigPipe = FALSE
PROPERTIES EndingRemoves
CHECK_DEADLOCK FALSE
