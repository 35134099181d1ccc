SPECIFICATION Spec
CONSTANTS
  Base = 8
  WordLen = 2
  ValidText <- PlainText
  Cases <- AllCases
  InputsOf <- AllInputs
INVARIANTS TypeOK RoundTrip InBounds
PROPERTY CountsFit
CHECK_DEADLOCK FALSE
