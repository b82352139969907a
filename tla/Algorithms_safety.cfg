SPECIFICATION Spec
CONSTANTS
  Null = Null
  Inf = Inf
  Raw = {"raw"}
  Nowhere = Nowhere
  Missing = Missing
  Nul = Nul
  Byte255 = Byte255
  Escapes <- MCEscapes
  NoPrefix = NoPrefix
  NoNumber = NoNumber
  Width <- MCWidth
  Loopback <- MCLoopback
  Absent = Absent
  UnsignedOf <- MCUnsignedOf
  IntOf <- MCIntOf
  INT_MAX = 7
  BeginsTrue = {"true", "t", "1"}
INVARIANTS
  TreeArrives MembersAdded ParametersRead ListedAdmitted PropertiesRead
CHECK_DEADLOCK FALSE
