SPECIFICATION Spec
CONSTANTS
  Call = {"a", "b"}
  Size <- MCSize
  MaxId = 1
  MaxResponseSize = 2
  MaxLength = 3
  NoId = NoId
  Word = 16
  MaxU64 = 39
  U64Digits = 1
  U256Digits = 2
  Wish <- MCWish
  Turns <- MCTurns
  Json <- MCJson
  Token <- MCToken
  Logs <- MCLogs
INVARIANTS
  WithinBound
  RequestKept
  FormsKept
  ValueKept
  SignatureExact
PROPERTY ClientSpec
CHECK_DEADLOCK FALSE
