SPECIFICATION FairSpec
CONSTANTS
  BlockLen = 8
  LengthLen = 2
  Compress <- ToyCompress
  GUID <- ToyGUID
  Limit = 52
  MaxUserId = 3
  Keys <- AllKeys
  AcceptKey <- TableOrKey
  ClientId <- ToyId
  GeneratedId <- ToyGenerated
  Requests <- AllRequests
  Responses <- AllResponses
  MaxFrames = 2
INVARIANTS HeadersExact TypeOK UserIdUsable ExtractsLine PaddedRight Base64Right AnswersOwnKey Interoperates
PROPERTIES HeadersEnd Connects
CHECK_DEADLOCK FALSE
