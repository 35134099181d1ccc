SPECIFICATION Spec
CONSTANTS
  c1 = c1
  c2 = c2
  NoConn = NoConn
  Conns = {c1, c2}
  FDs <- TwoFDs
  Tasks = {}
  Inputs <- RefusedInputs
  MaxMsgs = 1
  InBuf = 1
  SndBuf = 1
  Timeout = 0
  CloseWakes = TRUE
  SigPipe = TRUE
INVARIANTS OwnDescriptor NoDescriptorLeak
SYMMETRY ConnSymmetry
CHECK_DEADLOCK FALSE
