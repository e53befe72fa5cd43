SPECIFICATION Spec
CONSTANTS
  Requests <- Sent
  LengthOf <- Lengths
  EscapeOf <- Escapes
  BadEscapes = {"%zz"}
INVARIANTS
  WebReqTypeOK
  CutsDoNotMatter
  DecidedWhenWhole
  ParametersAsSent
CHECK_DEADLOCK FALSE
