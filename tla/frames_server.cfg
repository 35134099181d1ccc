SPECIFICATION Spec
CONSTANTS
  Short = 2
  Wide = 4
  Huge = 8
  MaxSize = 5
  ExpectMasked = TRUE
  Frames <- AllFrames
  MaxFrames = 4
INVARIANTS TypeOK MessagesWhole SizesRight RefusedExactly RepliesMatch
CHECK_DEADLOCK FALSE
