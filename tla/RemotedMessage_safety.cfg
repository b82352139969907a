SPECIFICATION Spec
CONSTANTS
  Null = Null
  Inf = Inf
  Nowhere = Nowhere
  Garbled = Garbled
  Raw = {"raw"}
  Malformed = {"%zz"}
  Encoding <- MCEncoding
  Control = {"LF"}
  Escaped <- MCEscaped
  ApacheRequests <- MCApacheRequests
  Answers <- MCAnswers
INVARIANTS RequestArrives AskedAbout OnlyUnreadableFails ReplyArrives
CHECK_DEADLOCK FALSE
