SPECIFICATION Spec
CONSTANTS
  Bytes <- EdgeBytes
  MaxLen = 4
INVARIANTS NoOverread AcceptsWellFormed
CHECK_DEADLOCK FALSE
